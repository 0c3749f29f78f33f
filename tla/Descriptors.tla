---------------------------- MODULE Descriptors ----------------------------
(***************************************************************************)
(* The file descriptors of the processes (open, close and the parts of     *)
(* execute and halt that fill and close the table, syscall.c) and the      *)
(* directory, whose position is one global variable (dir_location,         *)
(* filesystem.c).                                                          *)
(*                                                                         *)
(* The processes run on terminals of their own and are interleaved by the  *)
(* scheduler; only execute and halt run with IF = 0.  open and close touch *)
(* the table of their own process except for dir_open; dir_read uses       *)
(* dir_location in three instructions.  play_music opens its file here,    *)
(* too, for the process that calls it, and leaves it open.                 *)
(***************************************************************************)
EXTENDS Integers

CONSTANTS
    Proc,           \* the processes
    MaxFd,          \* MAX_FD
    NumDentries,    \* num_dentries
    Types,          \* the types of the files in the directory
    None            \* not a descriptor

MinFd == 2
Fd == 0 .. (MaxFd - 1)

\* What files[].ptrs points to; "unset" is what it holds before anybody sets it.
Kind == {"unset", "fail", "stdin", "stdout", "rtc", "dir", "file"}

ASSUME FdAssumption == MaxFd \in Nat /\ MaxFd > MinFd
ASSUME DentriesAssumption == NumDentries \in Nat
ASSUME TypesAssumption == Types \subseteq {"rtc", "dir", "file", "other"}

VARIABLES
    live,           \* the process exists
    flags,          \* files[].flags: the descriptors in use
    ptrs,           \* files[].ptrs: the operations of every descriptor
    dir_location,   \* the next directory entry, for all processes
    pc,             \* where each process is in dir_read, or that it faults
    loaded,         \* the value of dir_location that dir_read adds 1 to
    res,            \* what the step returned, if it was a system call that did
    listed,         \* history: entries that a process has read since dir_open
    alone           \* history: no other process has used the directory since

table == <<live, flags, ptrs>>
vars == <<table, dir_location, pc, loaded, res, listed, alone>>

Init ==
    /\ live = [p \in Proc |-> FALSE]
    /\ flags = [p \in Proc |-> {}]
    /\ ptrs = [p \in Proc |-> [fd \in Fd |-> "unset"]]
    /\ dir_location = 0
    /\ pc = [p \in Proc |-> "user"]
    /\ loaded = [p \in Proc |-> 0]
    /\ res = None
    /\ listed = [p \in Proc |-> 0]
    /\ alone = [p \in Proc |-> FALSE]

InUser(p) == live[p] /\ pc[p] = "user"

\* listed is -1 once an entry was not the one after those before it.
Listed(p, e) == IF e = listed[p] THEN e + 1 ELSE -1

\* The directory is used by p: no other process is alone with it any more.
Others(p) == [q \in Proc |-> q = p /\ alone[p]]

-----------------------------------------------------------------------------
\* The table that execute gives a new process; the operations of a descriptor
\* that is not in use stay as they are.
Execute(p) ==
    /\ ~live[p]
    /\ live' = [live EXCEPT ![p] = TRUE]
    /\ flags' = [flags EXCEPT ![p] = {0, 1}]
    /\ ptrs' = [ptrs EXCEPT ![p] = [@ EXCEPT ![0] = "stdin", ![1] = "stdout"]]
    /\ res' = None
    /\ alone' = [alone EXCEPT ![p] = FALSE]
    /\ listed' = [listed EXCEPT ![p] = 0]
    /\ UNCHANGED <<dir_location, pc, loaded>>

\* halt, called by the program or, for a signal, by signal_default at any point,
\* closes every descriptor; the close functions change nothing.
Halt(p) ==
    /\ live[p]
    /\ live' = [live EXCEPT ![p] = FALSE]
    /\ flags' = [flags EXCEPT ![p] = {}]
    /\ ptrs' = [ptrs EXCEPT ![p] = [fd \in Fd |-> "fail"]]
    /\ pc' = [pc EXCEPT ![p] = "user"]
    /\ loaded' = [loaded EXCEPT ![p] = 0]
    /\ res' = None
    /\ UNCHANGED <<dir_location, listed, alone>>

\* Where the loop of open ends: at the first descriptor that is not in use or,
\* in use or not, at the last.
Reaches(p, i) ==
    /\ i \notin flags[p] \/ i = MaxFd - 1
    /\ \A j \in MinFd .. (i - 1) : j \in flags[p]

\* Fault: dir_open leaves the position where it is.
Rewound_Not == dir_location

\* dir_open.
Rewound == 0

\* open of a file of type t, or of a name that is "missing" in the directory.  A
\* type that is none of the three is found after the descriptor has been marked.
Open(p, t) ==
    /\ InUser(p)
    /\ \/ /\ t = "missing"
          /\ res' = -1
          /\ UNCHANGED <<flags, ptrs, dir_location, listed, alone>>
       \/ /\ t # "missing"
          /\ \E fd \in MinFd .. (MaxFd - 1) :
                /\ Reaches(p, fd)
                /\ \/ /\ fd \in flags[p]
                      /\ res' = -1
                      /\ UNCHANGED <<flags, ptrs, dir_location, listed, alone>>
                   \/ /\ fd \notin flags[p]
                      /\ flags' = [flags EXCEPT ![p] = @ \cup {fd}]
                      /\ ptrs' = IF t = "other" THEN ptrs ELSE [ptrs EXCEPT ![p][fd] = t]
                      /\ res' = IF t = "other" THEN -1 ELSE fd
                      /\ dir_location' = IF t = "dir" THEN Rewound ELSE dir_location
                      /\ listed' = IF t = "dir" THEN [listed EXCEPT ![p] = 0] ELSE listed
                      /\ alone' = IF t = "dir" THEN [q \in Proc |-> q = p] ELSE alone
    /\ UNCHANGED <<live, pc, loaded>>

\* A call through files[fd].ptrs returns v, but for a pointer that was never set:
\* the process faults until a signal ends it.
CallsThrough(p, fd, v) ==
    /\ res' = IF ptrs[p][fd] = "unset" THEN None ELSE v
    /\ pc' = IF ptrs[p][fd] = "unset" THEN [pc EXCEPT ![p] = "fault"] ELSE pc

\* Fault: every descriptor can be closed.
Closable_All(fd) == fd >= 0

\* The descriptors that close accepts.
Closable(fd) == fd >= MinFd

\* close frees the descriptor before it asks the file's own close function.
Close(p, fd) ==
    /\ InUser(p)
    /\ \/ /\ Closable(fd) /\ fd \in flags[p]
          /\ flags' = [flags EXCEPT ![p] = @ \ {fd}]
          /\ CallsThrough(p, fd, IF ptrs[p][fd] = "fail" THEN -1 ELSE 0)
       \/ /\ ~(Closable(fd) /\ fd \in flags[p])
          /\ res' = -1
          /\ UNCHANGED <<flags, pc>>
    /\ UNCHANGED <<live, ptrs, dir_location, loaded, listed, alone>>

-----------------------------------------------------------------------------
\* Fault: it is not asked whether the descriptor is in use.
InUse_Any(p, fd) == fd \in Fd

\* The descriptors that read and write pass on to their file's own operation.
InUse(p, fd) == fd \in Fd /\ fd \in flags[p]

\* The operations of a file that only fail.
Fails(op, kind) ==
    \/ kind = "fail"
    \/ op = "read" /\ kind = "stdout"
    \/ op = "write" /\ kind \in {"stdin", "dir", "file"}

\* read and write, but for the directory; what they do to a terminal, a file or
\* the clock is in the other modules.
Transfer(p, op, fd) ==
    /\ InUser(p)
    /\ ~(op = "read" /\ InUse(p, fd) /\ ptrs[p][fd] = "dir")
    /\ \/ InUse(p, fd) /\ CallsThrough(p, fd, IF Fails(op, ptrs[p][fd]) THEN -1 ELSE 0)
       \/ ~InUse(p, fd) /\ res' = -1 /\ UNCHANGED pc
    /\ UNCHANGED <<table, dir_location, loaded, listed, alone>>

\* The pages (of 4MB) whose addresses vidmap takes, and the pages it is given:
\* the first, the kernel's and the program's.
ProgramPage == {32}
Page == {0, 1, 32}

\* vidmap with a pointer into that page: 0 stands for the address it returns; what
\* it maps is in VideoMap.
Vidmap(p, page) ==
    /\ InUser(p)
    /\ res' = IF page \in ProgramPage THEN 0 ELSE -1
    /\ UNCHANGED <<table, dir_location, pc, loaded, listed, alone>>

\* The system calls there are; the numbers of getargs, set_handler and
\* sigreturn, which use nothing of what is here.
SyscallNumber == 1 .. 11
Unrelated == {7, 9, 10}

\* syscall_assembly with a number that is not in its table, or one of these.
Dispatch(p, n) ==
    /\ InUser(p)
    /\ \/ n \notin SyscallNumber /\ res' = -1
       \/ n \in SyscallNumber \cap Unrelated /\ res' \in {-1, 0}
    /\ UNCHANGED <<table, dir_location, pc, loaded, listed, alone>>

\* There is an entry for read_dentry_by_index to copy.
read_dentry_by_index(i) == i < NumDentries

\* read of descriptor fd of the directory: an entry is copied, or there is none
\* and the position starts again.
DirRead(p, fd) ==
    /\ InUser(p)
    /\ InUse(p, fd)
    /\ ptrs[p][fd] = "dir"
    /\ alone' = Others(p)
    /\ IF read_dentry_by_index(dir_location)
       THEN /\ pc' = [pc EXCEPT ![p] = "load"]
            /\ listed' = [listed EXCEPT ![p] = Listed(p, dir_location)]
            /\ UNCHANGED dir_location
       ELSE /\ dir_location' = 0
            /\ listed' = [listed EXCEPT ![p] = 0]
            /\ UNCHANGED pc
    /\ res' = None
    /\ UNCHANGED <<table, loaded>>

\* dir_location += 1, in two instructions.  Races can move it any number of
\* entries behind the last one; all these positions are NumDentries here, since
\* the code only compares them with it.
DirLoad(p) ==
    /\ pc[p] = "load"
    /\ pc' = [pc EXCEPT ![p] = "store"]
    /\ loaded' = [loaded EXCEPT ![p] = dir_location]
    /\ alone' = Others(p)
    /\ res' = None
    /\ UNCHANGED <<table, dir_location, listed>>

DirStore(p) ==
    /\ pc[p] = "store"
    /\ pc' = [pc EXCEPT ![p] = "user"]
    /\ dir_location' = IF loaded[p] < NumDentries THEN loaded[p] + 1 ELSE NumDentries
    /\ loaded' = [loaded EXCEPT ![p] = 0]
    /\ alone' = Others(p)
    /\ res' = None
    /\ UNCHANGED <<table, listed>>

\* A step of process p.
Step(p) ==
    \/ Execute(p)
    \/ Halt(p)
    \/ \E t \in Types \cup {"missing"} : Open(p, t)
    \/ \E fd \in -1 .. MaxFd : Close(p, fd) \/ DirRead(p, fd)
    \/ \E fd \in -1 .. MaxFd, op \in {"read", "write"} : Transfer(p, op, fd)
    \/ \E page \in Page : Vidmap(p, page)
    \/ \E n \in -1 .. 12 : Dispatch(p, n)
    \/ DirLoad(p)
    \/ DirStore(p)

Next == \E p \in Proc : Step(p)

Spec == Init /\ [][Next]_vars

-----------------------------------------------------------------------------
\* Types; open returns a descriptor of the table.
TypeOK ==
    /\ live \in [Proc -> BOOLEAN]
    /\ flags \in [Proc -> SUBSET Fd]
    /\ ptrs \in [Proc -> [Fd -> Kind]]
    /\ dir_location \in 0 .. NumDentries
    /\ pc \in [Proc -> {"user", "load", "store", "fault"}]
    /\ loaded \in [Proc -> 0 .. NumDentries]
    /\ res \in {None, -1, 0} \cup MinFd .. (MaxFd - 1)
    /\ listed \in [Proc -> -1 .. NumDentries]
    /\ alone \in [Proc -> BOOLEAN]

\* A process has its standard input and output as long as it lives, and a
\* process that has ended has no descriptor, so that the next one with its pid
\* starts with these two.
StandardFiles ==
    \A p \in Proc :
        /\ live[p] => {0, 1} \subseteq flags[p] /\ ptrs[p][0] = "stdin" /\ ptrs[p][1] = "stdout"
        /\ ~live[p] => flags[p] = {}

\* A process that uses the directory alone reads every entry once and in order
\* before dir_read returns 0.
Ends(p) == \E fd \in Fd : DirRead(p, fd) /\ dir_location >= NumDentries

ListsAlone == [][\A p \in Proc : Ends(p) /\ alone[p] => listed[p] = NumDentries]_vars
=============================================================================
