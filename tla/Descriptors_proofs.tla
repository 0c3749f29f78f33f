------------------------- MODULE Descriptors_proofs -------------------------
(***************************************************************************)
(* The descriptor tables and the listing of the directory, for any number  *)
(* of processes, descriptors and directory entries.                        *)
(***************************************************************************)
EXTENDS SysErr, TLAPS

\* At most one process is alone with the directory, and a process inside
\* dir_read is alive.
OneAlone == \A p, q \in Proc : alone[p] /\ alone[q] => p = q
ReadersLive == \A p \in Proc : pc[p] # "user" => live[p]

\* A process that is alone with the directory has read the entries before the
\* position, and one more until dir_read has moved the position.
PositionIsListed ==
    \A p \in Proc :
        live[p] /\ alone[p] =>
            /\ pc[p] = "user" => listed[p] = dir_location
            /\ pc[p] \in {"load", "store"} =>
                  listed[p] = dir_location + 1 /\ dir_location < NumDentries
            /\ pc[p] = "store" => loaded[p] = dir_location

IInv == TypeOK /\ StandardFiles /\ OneAlone /\ ReadersLive /\ PositionIsListed

\* The initial state.
LEMMA InitHolds == ASSUME Init PROVE IInv
  <1>1. NumDentries \in Nat /\ MaxFd \in Nat /\ MaxFd > 2
    BY FdAssumption, DentriesAssumption DEF MinFd
  <1>2. TypeOK
    BY <1>1 DEF Init, TypeOK, Kind
  <1> QED BY <1>2 DEF Init, IInv, StandardFiles, OneAlone, ReadersLive, PositionIsListed

\* execute fills the table of a process that does not exist.
LEMMA ExecuteKeeps == ASSUME IInv, NEW p \in Proc, Execute(p) PROVE IInv'
  <1>1. MaxFd \in Nat /\ MaxFd > 2 /\ {0, 1} \subseteq Fd
    BY FdAssumption DEF MinFd, Fd
  <1>2. pc[p] = "user" /\ flags[p] = {}
    BY DEF IInv, TypeOK, ReadersLive, StandardFiles, Execute
  <1>3. TypeOK'
    BY <1>1, DentriesAssumption DEF IInv, TypeOK, Execute, Kind
  <1>4. StandardFiles'
    BY <1>1 DEF IInv, TypeOK, StandardFiles, Execute
  <1>5. OneAlone' /\ ReadersLive'
    BY DEF IInv, TypeOK, OneAlone, ReadersLive, Execute
  <1>6. PositionIsListed'
    BY DEF IInv, TypeOK, PositionIsListed, Execute
  <1> QED BY <1>3, <1>4, <1>5, <1>6 DEF IInv

\* halt empties it.
LEMMA HaltKeeps == ASSUME IInv, NEW p \in Proc, Halt(p) PROVE IInv'
  <1>1. TypeOK'
    BY DentriesAssumption DEF IInv, TypeOK, Halt, Kind
  <1>2. StandardFiles'
    BY DEF IInv, TypeOK, StandardFiles, Halt
  <1>3. OneAlone' /\ ReadersLive'
    BY DEF IInv, TypeOK, OneAlone, ReadersLive, Halt
  <1>4. PositionIsListed'
    BY DEF IInv, TypeOK, PositionIsListed, Halt
  <1> QED BY <1>1, <1>2, <1>3, <1>4 DEF IInv

\* open touches descriptors from MinFd on only; dir_open makes its caller the
\* one that is alone, at the first entry.
LEMMA OpenKeeps ==
    ASSUME IInv, NEW p \in Proc, NEW t \in Types \cup {"missing"}, Open(p, t) PROVE IInv'
  <1>0. UNCHANGED <<live, pc, loaded>> /\ live[p] /\ pc[p] = "user"
    BY DEF Open, InUser
  <1>1. CASE res' = -1 /\ UNCHANGED <<flags, ptrs, dir_location, listed, alone>>
    <2>1. TypeOK'
      BY <1>0, <1>1 DEF IInv, TypeOK
    <2> QED BY <1>0, <1>1, <2>1 DEF IInv, StandardFiles, OneAlone, ReadersLive, PositionIsListed
  <1>2. CASE \E fd \in MinFd .. (MaxFd - 1) :
               /\ t # "missing"
               /\ flags' = [flags EXCEPT ![p] = @ \cup {fd}]
               /\ ptrs' = IF t = "other" THEN ptrs ELSE [ptrs EXCEPT ![p][fd] = t]
               /\ res' = IF t = "other" THEN -1 ELSE fd
               /\ dir_location' = IF t = "dir" THEN 0 ELSE dir_location
               /\ listed' = IF t = "dir" THEN [listed EXCEPT ![p] = 0] ELSE listed
               /\ alone' = IF t = "dir" THEN [q \in Proc |-> q = p] ELSE alone
    <2>0. PICK fd \in MinFd .. (MaxFd - 1) :
            /\ t # "missing"
            /\ flags' = [flags EXCEPT ![p] = @ \cup {fd}]
            /\ ptrs' = IF t = "other" THEN ptrs ELSE [ptrs EXCEPT ![p][fd] = t]
            /\ res' = IF t = "other" THEN -1 ELSE fd
            /\ dir_location' = IF t = "dir" THEN 0 ELSE dir_location
            /\ listed' = IF t = "dir" THEN [listed EXCEPT ![p] = 0] ELSE listed
            /\ alone' = IF t = "dir" THEN [q \in Proc |-> q = p] ELSE alone
      BY <1>2
    <2>1. fd \in Fd \ {0, 1}
      BY FdAssumption DEF Fd, MinFd
    <2>3. t \in Kind \cup {"other"}
      BY <2>0, TypesAssumption DEF Kind
    <2>4. TypeOK'
      <3>1. flags' \in [Proc -> SUBSET Fd]
        BY <2>0, <2>1 DEF IInv, TypeOK
      <3>2. ptrs' \in [Proc -> [Fd -> Kind]]
        BY <2>0, <2>1, <2>3 DEF IInv, TypeOK
      <3>3. /\ dir_location' \in 0 .. NumDentries
            /\ listed' \in [Proc -> -1 .. NumDentries]
            /\ alone' \in [Proc -> BOOLEAN]
        BY <2>0, DentriesAssumption DEF IInv, TypeOK
      <3>4. res' \in {None, -1, 0} \cup MinFd .. (MaxFd - 1)
        BY <2>0
      <3> QED BY <1>0, <3>1, <3>2, <3>3, <3>4 DEF IInv, TypeOK
    <2>5. StandardFiles'
      <3>1. {0, 1} \subseteq Fd
        BY FdAssumption DEF Fd, MinFd
      <3> QED BY <1>0, <2>0, <2>1, <3>1 DEF IInv, TypeOK, StandardFiles
    <2>6. OneAlone' /\ ReadersLive'
      BY <1>0, <2>0 DEF IInv, TypeOK, OneAlone, ReadersLive
    <2>7. PositionIsListed'
      BY <1>0, <2>0 DEF IInv, TypeOK, PositionIsListed
    <2> QED BY <2>4, <2>5, <2>6, <2>7 DEF IInv
  <1> QED BY <1>1, <1>2 DEF Open, Rewound

\* close, read and write of a terminal, a file or the clock, vidmap and calls
\* that are none at most free a descriptor from MinFd on, or fault.
Calls(p, fd, op) ==
    \/ Close(p, fd)
    \/ Transfer(p, op, fd)
    \/ \E page \in Page : Vidmap(p, page)
    \/ \E n \in -1 .. 12 : Dispatch(p, n)

LEMMA CallsDo ==
    ASSUME NEW p \in Proc, NEW fd \in -1 .. MaxFd, NEW op, Calls(p, fd, op)
    PROVE  /\ UNCHANGED <<live, ptrs, dir_location, loaded, listed, alone>>
           /\ \/ UNCHANGED flags
              \/ fd \notin {0, 1} /\ flags' = [flags EXCEPT ![p] = @ \ {fd}]
           /\ \/ UNCHANGED pc
              \/ pc' = [pc EXCEPT ![p] = "fault"]
           /\ live[p] /\ pc[p] = "user"
           /\ res' \in {None, -1, 0}
  <1>1. CASE Close(p, fd)
    BY <1>1, FdAssumption DEF Close, CallsThrough, Closable, MinFd, InUser
  <1>2. CASE Transfer(p, op, fd)
    BY <1>2 DEF Transfer, CallsThrough, table, InUser
  <1>3. CASE \E page \in Page : Vidmap(p, page)
    BY <1>3 DEF Vidmap, table, InUser
  <1>4. CASE \E n \in -1 .. 12 : Dispatch(p, n)
    BY <1>4 DEF Dispatch, table, InUser
  <1> QED BY <1>1, <1>2, <1>3, <1>4 DEF Calls

LEMMA CallsKeep ==
    ASSUME IInv, NEW p \in Proc, NEW fd \in -1 .. MaxFd, NEW op, Calls(p, fd, op)
    PROVE  IInv'
  <1>1. /\ UNCHANGED <<live, ptrs, dir_location, loaded, listed, alone>>
        /\ \/ UNCHANGED flags
           \/ fd \notin {0, 1} /\ flags' = [flags EXCEPT ![p] = @ \ {fd}]
        /\ \/ UNCHANGED pc
           \/ pc' = [pc EXCEPT ![p] = "fault"]
        /\ live[p] /\ pc[p] = "user"
        /\ res' \in {None, -1, 0}
    BY CallsDo
  <1>2. TypeOK'
    BY <1>1 DEF IInv, TypeOK
  <1>3. StandardFiles'
    BY <1>1 DEF IInv, TypeOK, StandardFiles
  <1>4. ReadersLive' /\ OneAlone'
    BY <1>1 DEF IInv, TypeOK, ReadersLive, OneAlone
  <1>5. PositionIsListed'
    BY <1>1 DEF IInv, TypeOK, PositionIsListed
  <1> QED BY <1>2, <1>3, <1>4, <1>5 DEF IInv

\* The steps of dir_read: any but those of the process that is alone end that.
LEMMA DirReadKeeps ==
    ASSUME IInv, NEW p \in Proc, NEW fd \in -1 .. MaxFd, DirRead(p, fd) PROVE IInv'
  <1>1. /\ alone' = [q \in Proc |-> q = p /\ alone[p]]
        /\ UNCHANGED <<live, flags, ptrs, loaded>> /\ res' = None
        /\ live[p] /\ pc[p] = "user"
        /\ \/ /\ dir_location < NumDentries
              /\ pc' = [pc EXCEPT ![p] = "load"]
              /\ listed' = [listed EXCEPT ![p] =
                             IF dir_location = listed[p] THEN dir_location + 1 ELSE -1]
              /\ UNCHANGED dir_location
           \/ /\ dir_location' = 0
              /\ listed' = [listed EXCEPT ![p] = 0]
              /\ UNCHANGED pc
    BY DEF DirRead, Others, InUser, read_dentry_by_index, Listed, table
  <1>2. TypeOK'
    <2>1. pc' \in [Proc -> {"user", "load", "store", "fault"}]
      BY <1>1 DEF IInv, TypeOK
    <2>2. dir_location' \in 0 .. NumDentries /\ listed' \in [Proc -> -1 .. NumDentries]
      <3>1. dir_location \in 0 .. NumDentries /\ listed \in [Proc -> -1 .. NumDentries]
        BY DEF IInv, TypeOK
      <3>2. NumDentries \in Nat
        BY DentriesAssumption
      <3>3. CASE dir_location' = 0 /\ listed' = [listed EXCEPT ![p] = 0]
        BY <3>1, <3>2, <3>3
      <3>4. CASE /\ dir_location < NumDentries /\ dir_location' = dir_location
                 /\ listed' = [listed EXCEPT ![p] =
                                IF dir_location = listed[p] THEN dir_location + 1 ELSE -1]
        BY <3>1, <3>2, <3>4
      <3> QED BY <1>1, <3>3, <3>4
    <2>3. alone' \in [Proc -> BOOLEAN]
      BY <1>1
    <2> QED BY <1>1, <2>1, <2>2, <2>3 DEF IInv, TypeOK
  <1>3. StandardFiles'
    BY <1>1 DEF IInv, StandardFiles
  <1>4. OneAlone' /\ ReadersLive'
    BY <1>1 DEF IInv, TypeOK, OneAlone, ReadersLive
  <1>5. PositionIsListed'
    <2> SUFFICES ASSUME alone[p]
                 PROVE  /\ pc'[p] = "user" => listed'[p] = dir_location'
                        /\ pc'[p] \in {"load", "store"} =>
                              listed'[p] = dir_location' + 1 /\ dir_location' < NumDentries
                        /\ pc'[p] # "store"
      BY <1>1 DEF IInv, TypeOK, PositionIsListed
    <2>1. listed[p] = dir_location
      BY <1>1 DEF IInv, PositionIsListed
    <2> QED BY <1>1, <2>1, DentriesAssumption DEF IInv, TypeOK
  <1> QED BY <1>2, <1>3, <1>4, <1>5 DEF IInv

LEMMA DirLoadKeeps == ASSUME IInv, NEW p \in Proc, DirLoad(p) PROVE IInv'
  <1>1. /\ pc[p] = "load" /\ pc' = [pc EXCEPT ![p] = "store"]
        /\ loaded' = [loaded EXCEPT ![p] = dir_location]
        /\ alone' = [q \in Proc |-> q = p /\ alone[p]]
        /\ UNCHANGED <<live, flags, ptrs, dir_location, listed>> /\ res' = None
    BY DEF DirLoad, Others, table
  <1>2. TypeOK'
    BY <1>1 DEF IInv, TypeOK
  <1>3. StandardFiles' /\ OneAlone' /\ ReadersLive'
    BY <1>1 DEF IInv, TypeOK, StandardFiles, OneAlone, ReadersLive
  <1>4. PositionIsListed'
    BY <1>1 DEF IInv, TypeOK, PositionIsListed
  <1> QED BY <1>2, <1>3, <1>4 DEF IInv

LEMMA DirStoreKeeps == ASSUME IInv, NEW p \in Proc, DirStore(p) PROVE IInv'
  <1>1. /\ pc[p] = "store" /\ pc' = [pc EXCEPT ![p] = "user"]
        /\ dir_location' = IF loaded[p] < NumDentries THEN loaded[p] + 1 ELSE NumDentries
        /\ loaded' = [loaded EXCEPT ![p] = 0]
        /\ alone' = [q \in Proc |-> q = p /\ alone[p]]
        /\ UNCHANGED <<live, flags, ptrs, listed>> /\ res' = None
    BY DEF DirStore, Others, table
  <1>2. TypeOK'
    BY <1>1, DentriesAssumption DEF IInv, TypeOK
  <1>3. StandardFiles' /\ OneAlone' /\ ReadersLive'
    BY <1>1 DEF IInv, TypeOK, StandardFiles, OneAlone, ReadersLive
  <1>4. PositionIsListed'
    BY <1>1, DentriesAssumption DEF IInv, TypeOK, PositionIsListed
  <1> QED BY <1>2, <1>3, <1>4 DEF IInv

\* Every step keeps the invariant.
LEMMA NextKeeps == ASSUME IInv, [Next]_vars PROVE IInv'
  <1>1. CASE UNCHANGED vars
    BY <1>1 DEF vars, table, IInv, TypeOK, StandardFiles, OneAlone, ReadersLive,
                PositionIsListed
  <1>2. ASSUME NEW p \in Proc, Step(p) PROVE IInv'
    <2>1. CASE Execute(p)
      BY <2>1, ExecuteKeeps
    <2>2. CASE Halt(p)
      BY <2>2, HaltKeeps
    <2>3. CASE \E t \in Types \cup {"missing"} : Open(p, t)
      BY <2>3, OpenKeeps
    <2>4. CASE \E fd \in -1 .. MaxFd : Close(p, fd)
      BY <2>4, CallsKeep DEF Calls
    <2>5. CASE \E fd \in -1 .. MaxFd, op \in {"read", "write"} : Transfer(p, op, fd)
      BY <2>5, CallsKeep DEF Calls
    <2>6. CASE \/ \E page \in Page : Vidmap(p, page)
               \/ \E n \in -1 .. 12 : Dispatch(p, n)
      <3>1. -1 \in -1 .. MaxFd
        BY FdAssumption
      <3> QED BY <2>6, <3>1, CallsKeep DEF Calls
    <2>7. CASE \E fd \in -1 .. MaxFd : DirRead(p, fd)
      BY <2>7, DirReadKeeps
    <2>8. CASE DirLoad(p)
      BY <2>8, DirLoadKeeps
    <2>9. CASE DirStore(p)
      BY <2>9, DirStoreKeeps
    <2> QED BY <1>2, <2>1, <2>2, <2>3, <2>4, <2>5, <2>6, <2>7, <2>8, <2>9 DEF Step
  <1> QED BY <1>1, <1>2 DEF Next

LEMMA Invariant == Spec => []IInv
  <1>1. Init => IInv
    BY InitHolds
  <1>2. IInv /\ [Next]_vars => IInv'
    BY NextKeeps
  <1> QED BY <1>1, <1>2, PTL DEF Spec

\* The descriptor tables keep their types: open gives out descriptors of the
\* table only.
THEOREM DescriptorTypes == Spec => []TypeOK
  BY Invariant, PTL DEF IInv

\* A live process has its standard input and output, a process that has ended
\* has no descriptor.
THEOREM StandardFilesKept == Spec => []StandardFiles
  BY Invariant, PTL DEF IInv

\* A process alone with the directory has read every entry, once and in order,
\* when dir_read returns 0.
THEOREM AloneListsAll == Spec => ListsAlone
  <1>1. ASSUME IInv, NEW p \in Proc, Ends(p), alone[p]
        PROVE  listed[p] = NumDentries
    <2>1. live[p] /\ pc[p] = "user" /\ dir_location >= NumDentries
      BY <1>1 DEF Ends, DirRead, InUser
    <2>2. listed[p] = dir_location /\ dir_location \in 0 .. NumDentries
      BY <1>1, <2>1 DEF IInv, TypeOK, PositionIsListed
    <2> QED BY <2>1, <2>2, DentriesAssumption
  <1>2. IInv => [\A p \in Proc : Ends(p) /\ alone[p] => listed[p] = NumDentries]_vars
    BY <1>1
  <1> QED BY <1>2, Invariant, PTL DEF ListsAlone

-----------------------------------------------------------------------------
(***************************************************************************)
(* ece391syserr.c.  The inductive invariant follows the calls that the     *)
(* program has still to make: the descriptors in use and the count of      *)
(* failed opens before and after each of them, starting with what they are *)
(* now, and every call is answered as the program expects.                 *)
(***************************************************************************)
Op == {"open", "close_any", "close", "read", "write", "count", "open_missing", "vidmap",
       "syscall", "halt"}
AnyCall == [op : Op, arg : Int]
Slots == MinFd .. (MaxFd - 1)

\* A call that finds descriptors f in use and c failed opens leaves f2 and c2,
\* and meets its expectation.
Good(call, f, c, f2, c2) ==
    \/ call.op = "open" /\ Slots \subseteq f /\ f2 = f /\ c2 = c + 1
    \/ /\ call.op = "open"
       /\ \E fd \in Slots \ f : (\A g \in Slots \ f : fd <= g) /\ f2 = f \cup {fd}
       /\ c2 = c
    \/ call.op = "close_any" /\ call.arg \in Slots /\ f2 = f \ {call.arg} /\ c2 = c
    \/ /\ call.op = "close" /\ call.arg \in -1 .. MaxFd
       /\ ~(call.arg >= MinFd /\ call.arg \in f) /\ f2 = f /\ c2 = c
    \/ /\ call.op = "read" /\ call.arg \in -1 .. MaxFd
       /\ call.arg = 1 \/ call.arg \notin f
       /\ f2 = f /\ c2 = c
    \/ /\ call.op = "write" /\ call.arg \in -1 .. MaxFd
       /\ call.arg = 0 \/ call.arg \notin f
       /\ f2 = f /\ c2 = c
    \/ call.op = "count" /\ c = 1 /\ f2 = f /\ c2 = c
    \/ call.op = "open_missing" /\ f2 = f /\ c2 = c
    \/ call.op = "vidmap" /\ call.arg \in Page \ ProgramPage /\ f2 = f /\ c2 = c
    \/ call.op = "syscall" /\ call.arg \in {-1, 0, 12} /\ f2 = f /\ c2 = c
    \/ call.op = "halt" /\ f2 = {} /\ c2 = c

\* The calls of s lead from f and c to f2 and c2, through F and C.
Through(s, F, C) ==
    \A i \in 1 .. Len(s) : Good(s[i], F[i - 1], C[i - 1], F[i], C[i])

Runs(s, f, c, f2, c2) ==
    \E F, C : /\ F[0] = f /\ C[0] = c /\ F[Len(s)] = f2 /\ C[Len(s)] = c2
             /\ Through(s, F, C)

\* After the first call the others are left.
LEMMA RunsTail ==
    ASSUME NEW s \in Seq(AnyCall), s # <<>>, NEW f, NEW c, NEW f2, NEW c2,
           Runs(s, f, c, f2, c2)
    PROVE  \E f1, c1 : Good(s[1], f, c, f1, c1) /\ Runs(Tail(s), f1, c1, f2, c2)
  <1> DEFINE n == Len(s)
             r == Tail(s)
  <1>1. /\ n \in Nat \ {0} /\ Len(r) = n - 1
        /\ \A i \in 1 .. (n - 1) : r[i] = s[i + 1]
    OBVIOUS
  <1>2. PICK F, C : /\ F[0] = f /\ C[0] = c /\ F[n] = f2 /\ C[n] = c2
                    /\ \A i \in 1 .. n : Good(s[i], F[i - 1], C[i - 1], F[i], C[i])
    BY DEF Runs, Through
  <1> HIDE DEF n, r
  <1> DEFINE G == [i \in 0 .. (n - 1) |-> F[i + 1]]
             D == [i \in 0 .. (n - 1) |-> C[i + 1]]
  <1>3. \A i \in 0 .. (n - 1) : G[i] = F[i + 1] /\ D[i] = C[i + 1]
    OBVIOUS
  <1> HIDE DEF G, D
  <1>4. Through(r, G, D)
    <2>1. SUFFICES ASSUME NEW i \in 1 .. Len(r)
                   PROVE  Good(r[i], G[i - 1], D[i - 1], G[i], D[i])
      BY DEF Through
    <2>2. /\ i \in 1 .. (n - 1) /\ i \in 0 .. (n - 1) /\ i - 1 \in 0 .. (n - 1)
          /\ i + 1 \in 1 .. n /\ (i - 1) + 1 = i /\ (i + 1) - 1 = i
      BY <1>1
    <2>3. G[i - 1] = F[(i - 1) + 1] /\ D[i - 1] = C[(i - 1) + 1]
      BY <1>3, <2>2
    <2>4. G[i] = F[i + 1] /\ D[i] = C[i + 1] /\ r[i] = s[i + 1]
      BY <1>1, <1>3, <2>2
    <2>5. Good(s[i + 1], F[(i + 1) - 1], C[(i + 1) - 1], F[i + 1], C[i + 1])
      BY <1>2, <2>2
    <2> QED BY <2>2, <2>3, <2>4, <2>5
  <1>5. G[0] = F[1] /\ D[0] = C[1] /\ G[Len(r)] = f2 /\ D[Len(r)] = c2
    <2>1. 0 \in 0 .. (n - 1) /\ 0 + 1 = 1 /\ n - 1 \in 0 .. (n - 1) /\ (n - 1) + 1 = n
      BY <1>1
    <2>2. G[0] = F[0 + 1] /\ D[0] = C[0 + 1] /\ G[n - 1] = F[(n - 1) + 1]
          /\ D[n - 1] = C[(n - 1) + 1]
      BY <1>3, <2>1
    <2> QED BY <1>1, <1>2, <2>1, <2>2
  <1>6. Good(s[1], f, c, F[1], C[1])
    <2>1. 1 \in 1 .. n /\ 1 - 1 = 0
      BY <1>1
    <2>2. Good(s[1], F[1 - 1], C[1 - 1], F[1], C[1])
      BY <1>2, <2>1
    <2> QED BY <1>2, <2>1, <2>2
  <1>7. Runs(r, F[1], C[1], f2, c2)
    BY <1>4, <1>5 DEF Runs
  <1> QED BY <1>6, <1>7 DEF r

\* Calls after calls.
LEMMA RunsJoin ==
    ASSUME NEW s \in Seq(AnyCall), NEW t \in Seq(AnyCall), NEW f, NEW c, NEW f1, NEW c1,
           NEW f2, NEW c2, Runs(s, f, c, f1, c1), Runs(t, f1, c1, f2, c2)
    PROVE  Runs(s \o t, f, c, f2, c2)
  <1> DEFINE n == Len(s)
             m == Len(t)
             r == s \o t
  <1>1. /\ n \in Nat /\ m \in Nat /\ Len(r) = n + m
        /\ \A i \in 1 .. n : r[i] = s[i]
        /\ \A i \in 1 .. m : r[n + i] = t[i]
    OBVIOUS
  <1>2. PICK F, C : /\ F[0] = f /\ C[0] = c /\ F[n] = f1 /\ C[n] = c1
                    /\ \A i \in 1 .. n : Good(s[i], F[i - 1], C[i - 1], F[i], C[i])
    BY DEF Runs, Through
  <1>3. PICK G, D : /\ G[0] = f1 /\ D[0] = c1 /\ G[m] = f2 /\ D[m] = c2
                    /\ \A i \in 1 .. m : Good(t[i], G[i - 1], D[i - 1], G[i], D[i])
    BY DEF Runs, Through
  <1> HIDE DEF n, m, r
  <1> DEFINE H == [i \in 0 .. (n + m) |-> IF i <= n THEN F[i] ELSE G[i - n]]
             E == [i \in 0 .. (n + m) |-> IF i <= n THEN C[i] ELSE D[i - n]]
  <1>4. \A i \in 0 .. n : H[i] = F[i] /\ E[i] = C[i]
    BY <1>1
  <1>5. \A i \in 0 .. m : H[n + i] = G[i] /\ E[n + i] = D[i]
    <2>1. TAKE i \in 0 .. m
    <2>2. CASE i = 0
      BY <1>1, <1>2, <1>3, <2>2
    <2>3. CASE i # 0
      <3>1. n + i \in 0 .. (n + m) /\ ~(n + i <= n) /\ (n + i) - n = i
        BY <1>1, <2>3
      <3> QED BY <3>1
    <2> QED BY <2>2, <2>3
  <1> HIDE DEF H, E
  <1>6. Through(r, H, E)
    <2>1. SUFFICES ASSUME NEW i \in 1 .. (n + m)
                   PROVE  Good(r[i], H[i - 1], E[i - 1], H[i], E[i])
      BY <1>1 DEF Through
    <2>2. CASE i <= n
      <3>1. i \in 1 .. n /\ i \in 0 .. n /\ i - 1 \in 0 .. n
        BY <1>1, <2>2
      <3>2. H[i] = F[i] /\ E[i] = C[i] /\ H[i - 1] = F[i - 1] /\ E[i - 1] = C[i - 1]
        BY <1>4, <3>1
      <3>3. Good(s[i], F[i - 1], C[i - 1], F[i], C[i]) /\ r[i] = s[i]
        BY <1>1, <1>2, <3>1
      <3> QED BY <3>2, <3>3
    <2>3. CASE ~(i <= n)
      <3>1. PICK j \in 1 .. m : i = n + j
        <4>1. i - n \in 1 .. m /\ i = n + (i - n)
          BY <1>1, <2>3
        <4> QED BY <4>1
      <3>2. j \in 0 .. m /\ j - 1 \in 0 .. m /\ i - 1 = n + (j - 1)
        BY <1>1, <3>1
      <3>3. H[i] = G[j] /\ E[i] = D[j] /\ H[i - 1] = G[j - 1] /\ E[i - 1] = D[j - 1]
        BY <1>5, <3>1, <3>2
      <3>4. Good(t[j], G[j - 1], D[j - 1], G[j], D[j]) /\ r[i] = t[j]
        BY <1>1, <1>3, <3>1
      <3> QED BY <3>3, <3>4
    <2> QED BY <2>2, <2>3
  <1>7. H[0] = f /\ E[0] = c /\ H[Len(r)] = f2 /\ E[Len(r)] = c2
    <2>1. 0 \in 0 .. n /\ m \in 0 .. m
      BY <1>1
    <2> QED BY <1>1, <1>2, <1>3, <1>4, <1>5, <2>1
  <1>8. Runs(r, f, c, f2, c2)
    BY <1>6, <1>7 DEF Runs
  <1> QED BY <1>8 DEF r

\* Calls that change nothing.
LEMMA RunsSame ==
    ASSUME NEW s \in Seq(AnyCall), NEW f, NEW c,
           \A i \in 1 .. Len(s) : Good(s[i], f, c, f, c)
    PROVE  Runs(s, f, c, f, c)
  <1> DEFINE F == [i \in 0 .. Len(s) |-> f]
             C == [i \in 0 .. Len(s) |-> c]
  <1>1. Len(s) \in Nat
    OBVIOUS
  <1>2. \A i \in 0 .. Len(s) : F[i] = f /\ C[i] = c
    OBVIOUS
  <1> HIDE DEF F, C
  <1>3. Through(s, F, C)
    <2>1. SUFFICES ASSUME NEW i \in 1 .. Len(s)
                   PROVE  Good(s[i], F[i - 1], C[i - 1], F[i], C[i])
      BY DEF Through
    <2>2. i \in 0 .. Len(s) /\ i - 1 \in 0 .. Len(s)
      BY <1>1
    <2> QED BY <1>2, <2>2
  <1>4. F[0] = f /\ C[0] = c /\ F[Len(s)] = f /\ C[Len(s)] = c
    BY <1>1, <1>2
  <1> QED BY <1>3, <1>4 DEF Runs

(***************************************************************************)
(* Each test, from the table of a new process and back to it.              *)
(***************************************************************************)
LEMMA CallType ==
    ASSUME NEW op \in Op, NEW arg \in Int
    PROVE  Call(op, arg) \in AnyCall /\ Call(op, arg).op = op /\ Call(op, arg).arg = arg
  BY DEF Call, AnyCall

LEMMA ForAllCalls ==
    ASSUME NEW op \in Op, NEW low \in Nat, NEW high \in Nat, low <= high + 1
    PROVE  /\ ForAll(op, low, high) \in Seq(AnyCall)
           /\ Len(ForAll(op, low, high)) = high - low + 1
           /\ \A i \in 1 .. (high - low + 1) :
                 ForAll(op, low, high)[i] = Call(op, low + i - 1)
  <1> DEFINE n == high - low + 1
  <1>1. n \in Nat
    OBVIOUS
  <1>2. \A i \in 1 .. n : Call(op, low + i - 1) \in AnyCall
    BY <1>1 DEF Call, AnyCall, Op
  <1> HIDE DEF n
  <1>3. ForAll(op, low, high) = [i \in 1 .. n |-> Call(op, low + i - 1)]
    BY DEF ForAll, n
  <1>4. /\ ForAll(op, low, high) \in Seq(AnyCall)
        /\ Len(ForAll(op, low, high)) = n
        /\ \A i \in 1 .. n : ForAll(op, low, high)[i] = Call(op, low + i - 1)
    BY <1>1, <1>2, <1>3
  <1> QED BY <1>4 DEF n

\* The table of a new process.
Std == {0, 1}

LEMMA Fds == MaxFd \in Nat /\ MaxFd > 2 /\ MinFd = 2 /\ Slots = 2 .. (MaxFd - 1)
  BY FdAssumption DEF MinFd, Slots

\* err_neg_fd and err_big_fd.
LEMMA FdRuns ==
    ASSUME NEW fd \in {-1, MaxFd}, NEW c
    PROVE  err_fd(fd) \in Seq(AnyCall) /\ Runs(err_fd(fd), Std, c, Std, c)
  <1>1. fd \in Int /\ fd \in -1 .. MaxFd /\ fd \notin Std
    BY Fds DEF Std
  <1>2. err_fd(fd) \in Seq(AnyCall) /\ Len(err_fd(fd)) = 3
    <2>1. /\ Call("read", fd) \in AnyCall /\ Call("write", fd) \in AnyCall
          /\ Call("close", fd) \in AnyCall
      BY <1>1, CallType DEF Op
    <2> QED BY <2>1 DEF err_fd
  <1>3. ASSUME NEW i \in 1 .. 3 PROVE Good(err_fd(fd)[i], Std, c, Std, c)
    <2>1. Good(Call("read", fd), Std, c, Std, c)
      BY <1>1 DEF Good, Call
    <2>2. Good(Call("write", fd), Std, c, Std, c)
      BY <1>1 DEF Good, Call
    <2>3. Good(Call("close", fd), Std, c, Std, c)
      BY <1>1 DEF Good, Call
    <2>4. /\ err_fd(fd)[1] = Call("read", fd) /\ err_fd(fd)[2] = Call("write", fd)
          /\ err_fd(fd)[3] = Call("close", fd)
      BY DEF err_fd
    <2>5. i = 1 \/ i = 2 \/ i = 3
      OBVIOUS
    <2> QED BY <2>1, <2>2, <2>3, <2>4, <2>5
  <1> QED BY <1>2, <1>3, RunsSame

\* The opens of err_open_lots take the descriptors in order; the last fails.
LEMMA OpensRun ==
    LET s == [i \in 1 .. (MaxFd - 1) |-> Call("open", 0)]
    IN  s \in Seq(AnyCall) /\ Runs(s, Std, 0, 0 .. (MaxFd - 1), 1)
  <1> DEFINE n == MaxFd - 1
             s == [i \in 1 .. n |-> Call("open", 0)]
             top == [i \in 0 .. n |-> IF i < n THEN i + 1 ELSE n]
             F == [i \in 0 .. n |-> 0 .. top[i]]
             C == [i \in 0 .. n |-> IF i < n THEN 0 ELSE 1]
  <1>1. n \in Nat /\ n > 1 /\ Slots = 2 .. n
    BY Fds
  <1>2. Call("open", 0) \in AnyCall /\ Call("open", 0).op = "open"
    BY DEF Call, AnyCall, Op
  <1> HIDE DEF n
  <1>3. s \in Seq(AnyCall) /\ Len(s) = n
    BY <1>1, <1>2
  <1>4. /\ \A i \in 0 .. n : i < n => F[i] = 0 .. (i + 1) /\ C[i] = 0
        /\ F[n] = 0 .. n /\ C[n] = 1
    BY <1>1
  <1>5. \A i \in 1 .. n : s[i] = Call("open", 0)
    OBVIOUS
  <1> HIDE DEF s, F, C
  <1>6. Through(s, F, C)
    <2>1. SUFFICES ASSUME NEW i \in 1 .. n
                   PROVE  Good(s[i], F[i - 1], C[i - 1], F[i], C[i])
      BY <1>3 DEF Through
    <2>2. /\ i - 1 \in 0 .. n /\ i - 1 < n /\ (i - 1) + 1 = i
      BY <1>1
    <2>3. F[i - 1] = 0 .. i /\ C[i - 1] = 0
      <3>1. F[i - 1] = 0 .. ((i - 1) + 1) /\ C[i - 1] = 0
        BY <1>4, <2>2
      <3> QED BY <2>2, <3>1
    <2>4. CASE i < n
      <3>1. F[i] = 0 .. (i + 1) /\ C[i] = 0
        BY <1>1, <1>4, <2>4
      <3>2. /\ i + 1 \in Slots \ (0 .. i)
            /\ \A g \in Slots \ (0 .. i) : i + 1 <= g
            /\ 0 .. (i + 1) = (0 .. i) \cup {i + 1}
        BY <1>1, <2>4
      <3>3. Good(Call("open", 0), 0 .. i, 0, 0 .. (i + 1), 0)
        BY <1>2, <3>2 DEF Good
      <3> QED BY <1>5, <2>3, <3>1, <3>3
    <2>5. CASE i = n
      <3>1. Slots \subseteq 0 .. n /\ 0 + 1 = 1
        BY <1>1
      <3>2. Good(Call("open", 0), 0 .. n, 0, 0 .. n, 1)
        BY <1>2, <3>1 DEF Good
      <3> QED BY <1>4, <1>5, <2>3, <2>5, <3>2
    <2> QED BY <1>1, <2>4, <2>5
  <1>7. F[0] = Std /\ C[0] = 0
    <2>1. F[0] = 0 .. (0 + 1) /\ C[0] = 0
      BY <1>1, <1>4
    <2>2. 0 .. (0 + 1) = {0, 1}
      OBVIOUS
    <2> QED BY <2>1, <2>2 DEF Std
  <1>8. Runs(s, Std, 0, 0 .. n, 1)
    BY <1>3, <1>4, <1>6, <1>7 DEF Runs
  <1> QED BY <1>3, <1>8 DEF s, n

\* Its closes free them again.
LEMMA ClosesRun ==
    LET s == ForAll("close_any", MinFd, MaxFd - 1)
    IN  s \in Seq(AnyCall) /\ Runs(s, 0 .. (MaxFd - 1), 1, Std, 1)
  <1> DEFINE n == MaxFd - 2
             s == ForAll("close_any", MinFd, MaxFd - 1)
             F == [i \in 0 .. n |-> Std \cup ((2 + i) .. (n + 1))]
             C == [i \in 0 .. n |-> 1]
  <1>1. n \in Nat /\ n > 0 /\ Slots = 2 .. (n + 1) /\ MaxFd - 1 = n + 1 /\ MinFd = 2
    BY Fds
  <1>2. /\ s \in Seq(AnyCall) /\ Len(s) = n
        /\ \A i \in 1 .. n : s[i] = Call("close_any", 2 + i - 1)
    <2>1. /\ "close_any" \in Op /\ 2 \in Nat /\ MaxFd - 1 \in Nat
          /\ 2 <= (MaxFd - 1) + 1 /\ (MaxFd - 1) - 2 + 1 = n
      BY Fds DEF Op
    <2> QED BY <1>1, <2>1, ForAllCalls
  <1> HIDE DEF n, s
  <1>3. \A i \in 0 .. n : F[i] = Std \cup ((2 + i) .. (n + 1)) /\ C[i] = 1
    OBVIOUS
  <1> HIDE DEF F, C
  <1>4. Through(s, F, C)
    <2>1. SUFFICES ASSUME NEW i \in 1 .. n
                   PROVE  Good(s[i], F[i - 1], C[i - 1], F[i], C[i])
      BY <1>2 DEF Through
    <2> DEFINE fd == 2 + i - 1
               from == Std \cup (fd .. (n + 1))
               to == Std \cup ((2 + i) .. (n + 1))
    <2>2. i - 1 \in 0 .. n /\ i \in 0 .. n /\ 2 + (i - 1) = fd /\ fd \in Slots
      BY <1>1
    <2>3. F[i - 1] = Std \cup ((2 + (i - 1)) .. (n + 1)) /\ C[i - 1] = 1 /\ F[i] = to /\ C[i] = 1
      BY <1>3, <2>2
    <2>4. to = from \ {fd}
      BY <1>1 DEF Std
    <2>5. Call("close_any", fd).op = "close_any" /\ Call("close_any", fd).arg = fd
      BY DEF Call
    <2>6. Good(Call("close_any", fd), from, 1, to, 1)
      BY <2>2, <2>4, <2>5 DEF Good
    <2>7. s[i] = Call("close_any", fd)
      BY <1>2
    <2> QED BY <2>2, <2>3, <2>6, <2>7
  <1>5. F[0] = 0 .. (n + 1) /\ F[n] = Std /\ C[0] = 1 /\ C[n] = 1
    <2>1. F[0] = Std \cup ((2 + 0) .. (n + 1)) /\ F[n] = Std \cup ((2 + n) .. (n + 1))
      BY <1>1, <1>3
    <2>2. Std \cup ((2 + 0) .. (n + 1)) = 0 .. (n + 1) /\ (2 + n) .. (n + 1) = {}
      BY <1>1 DEF Std
    <2> QED BY <1>1, <1>3, <2>1, <2>2
  <1>6. Runs(s, 0 .. (n + 1), 1, Std, 1)
    BY <1>2, <1>4, <1>5 DEF Runs
  <1> QED BY <1>1, <1>2, <1>6 DEF s

LEMMA JoinType == ASSUME NEW s \in Seq(AnyCall), NEW t \in Seq(AnyCall)
                  PROVE  s \o t \in Seq(AnyCall)
  OBVIOUS

\* Of the MaxFd - 1 opens exactly one fails, and the table is empty again.
LEMMA OpenLotsRuns == err_open_lots \in Seq(AnyCall) /\ Runs(err_open_lots, Std, 0, Std, 1)
  <1> DEFINE s == [i \in 1 .. (MaxFd - 1) |-> Call("open", 0)]
             t == ForAll("close_any", MinFd, MaxFd - 1)
             u == <<Call("count", 0)>>
  <1>1. s \in Seq(AnyCall) /\ Runs(s, Std, 0, 0 .. (MaxFd - 1), 1)
    BY OpensRun
  <1>2. t \in Seq(AnyCall) /\ Runs(t, 0 .. (MaxFd - 1), 1, Std, 1)
    BY ClosesRun
  <1>3. u \in Seq(AnyCall) /\ Runs(u, Std, 1, Std, 1)
    <2>1. Call("count", 0) \in AnyCall /\ Call("count", 0).op = "count"
      BY DEF Call, AnyCall, Op
    <2>2. u \in Seq(AnyCall) /\ Len(u) = 1 /\ u[1] = Call("count", 0)
      BY <2>1
    <2>3. Good(Call("count", 0), Std, 1, Std, 1)
      BY <2>1 DEF Good
    <2>4. \A i \in 1 .. Len(u) : Good(u[i], Std, 1, Std, 1)
      BY <2>2, <2>3
    <2> HIDE DEF u
    <2> QED BY <2>2, <2>4, RunsSame
  <1>4. err_open_lots = (s \o t) \o u
    BY DEF err_open_lots
  <1> HIDE DEF s, t, u
  <1>5. s \o t \in Seq(AnyCall) /\ Runs(s \o t, Std, 0, Std, 1)
    BY <1>1, <1>2, RunsJoin, JoinType
  <1>6. (s \o t) \o u \in Seq(AnyCall) /\ Runs((s \o t) \o u, Std, 0, Std, 1)
    BY <1>3, <1>5, RunsJoin, JoinType
  <1> QED BY <1>4, <1>6

LEMMA OpenRuns ==
    ASSUME NEW c
    PROVE  err_open \in Seq(AnyCall) /\ Runs(err_open, Std, c, Std, c)
  <1>1. Call("open_missing", 0) \in AnyCall /\ Call("open_missing", 0).op = "open_missing"
    BY DEF Call, AnyCall, Op
  <1>2. /\ err_open \in Seq(AnyCall) /\ Len(err_open) = 3
        /\ \A i \in 1 .. 3 : err_open[i] = Call("open_missing", 0)
    BY <1>1 DEF err_open
  <1>3. Good(Call("open_missing", 0), Std, c, Std, c)
    BY <1>1 DEF Good
  <1> QED BY <1>2, <1>3, RunsSame

\* close of all descriptors, read and write of those that were not opened.
LEMMA UnopenedRuns ==
    ASSUME NEW c
    PROVE  err_unopened \in Seq(AnyCall) /\ Runs(err_unopened, Std, c, Std, c)
  <1>0. /\ MaxFd \in Nat /\ MaxFd > 2 /\ MinFd = 2 /\ 0 \in Nat /\ 2 \in Nat
        /\ MaxFd - 1 \in Nat /\ 0 <= (MaxFd - 1) + 1 /\ 2 <= (MaxFd - 1) + 1
        /\ {"close", "read", "write"} \subseteq Op
    BY Fds DEF Op
  <1> DEFINE s == ForAll("close", 0, MaxFd - 1)
             t(op) == ForAll(op, 2, MaxFd - 1)
  <1>1. s \in Seq(AnyCall) /\ Runs(s, Std, c, Std, c)
    <2>1. /\ s \in Seq(AnyCall) /\ Len(s) = (MaxFd - 1) - 0 + 1
          /\ \A i \in 1 .. ((MaxFd - 1) - 0 + 1) : s[i] = Call("close", 0 + i - 1)
      BY <1>0, ForAllCalls
    <2>2. ASSUME NEW i \in 1 .. Len(s) PROVE Good(s[i], Std, c, Std, c)
      <3> DEFINE fd == 0 + i - 1
      <3>1. fd \in 0 .. (MaxFd - 1) /\ fd \in Int /\ fd \in -1 .. MaxFd
            /\ ~(fd >= MinFd /\ fd \in Std) /\ s[i] = Call("close", fd)
        BY <1>0, <2>1 DEF Std
      <3>2. Call("close", fd).op = "close" /\ Call("close", fd).arg = fd
        BY DEF Call
      <3> HIDE DEF fd
      <3> QED BY <3>1, <3>2 DEF Good
    <2> HIDE DEF s
    <2> QED BY <2>1, <2>2, RunsSame
  <1>2. ASSUME NEW op \in {"read", "write"}
        PROVE  t(op) \in Seq(AnyCall) /\ Runs(t(op), Std, c, Std, c)
    <2> DEFINE u == t(op)
    <2>1. /\ u \in Seq(AnyCall) /\ Len(u) = (MaxFd - 1) - 2 + 1
          /\ \A i \in 1 .. ((MaxFd - 1) - 2 + 1) : u[i] = Call(op, 2 + i - 1)
      BY <1>0, ForAllCalls
    <2>2. ASSUME NEW i \in 1 .. Len(u) PROVE Good(u[i], Std, c, Std, c)
      <3> DEFINE fd == 2 + i - 1
      <3>1. fd \in 2 .. (MaxFd - 1) /\ fd \in -1 .. MaxFd /\ fd \notin Std /\ u[i] = Call(op, fd)
        BY <1>0, <2>1 DEF Std
      <3>2. Call(op, fd).op = op /\ Call(op, fd).arg = fd
        BY DEF Call
      <3> HIDE DEF fd
      <3> QED BY <3>1, <3>2 DEF Good
    <2>3. Runs(u, Std, c, Std, c)
      <3> HIDE DEF u
      <3> QED BY <2>1, <2>2, RunsSame
    <2> QED BY <2>1, <2>3
  <1>3. err_unopened = (s \o t("read")) \o t("write")
    BY <1>0 DEF err_unopened
  <1>4. /\ t("read") \in Seq(AnyCall) /\ Runs(t("read"), Std, c, Std, c)
        /\ t("write") \in Seq(AnyCall) /\ Runs(t("write"), Std, c, Std, c)
    BY <1>2
  <1> HIDE DEF s, t
  <1>5. s \o t("read") \in Seq(AnyCall) /\ Runs(s \o t("read"), Std, c, Std, c)
    BY <1>1, <1>4, RunsJoin, JoinType
  <1>6. /\ (s \o t("read")) \o t("write") \in Seq(AnyCall)
        /\ Runs((s \o t("read")) \o t("write"), Std, c, Std, c)
    BY <1>4, <1>5, RunsJoin, JoinType
  <1> QED BY <1>3, <1>6

LEMMA VidmapRuns ==
    ASSUME NEW c
    PROVE  err_vidmap \in Seq(AnyCall) /\ Runs(err_vidmap, Std, c, Std, c)
  <1>1. /\ Call("vidmap", 0) \in AnyCall /\ Call("vidmap", 0).op = "vidmap"
        /\ Call("vidmap", 1) \in AnyCall /\ Call("vidmap", 1).op = "vidmap"
    BY CallType DEF Op
  <1>2. Good(Call("vidmap", 0), Std, c, Std, c) /\ Good(Call("vidmap", 1), Std, c, Std, c)
    BY <1>1 DEF Good, Call, Page, ProgramPage
  <1>3. err_vidmap \in Seq(AnyCall) /\ Len(err_vidmap) = 2
        /\ err_vidmap[1] = Call("vidmap", 0) /\ err_vidmap[2] = Call("vidmap", 1)
    BY <1>1 DEF err_vidmap
  <1>4. \A i \in 1 .. Len(err_vidmap) : Good(err_vidmap[i], Std, c, Std, c)
    BY <1>2, <1>3
  <1> QED BY <1>3, <1>4, RunsSame

LEMMA StdinOutRuns ==
    ASSUME NEW c
    PROVE  err_stdin_out \in Seq(AnyCall) /\ Runs(err_stdin_out, Std, c, Std, c)
  <1>1. /\ Call("write", 0) \in AnyCall /\ Call("write", 0).op = "write"
        /\ Call("write", 0).arg = 0
        /\ Call("read", 1) \in AnyCall /\ Call("read", 1).op = "read" /\ Call("read", 1).arg = 1
        /\ 0 \in -1 .. MaxFd /\ 1 \in -1 .. MaxFd
    BY CallType, Fds DEF Op
  <1>2. Good(Call("write", 0), Std, c, Std, c) /\ Good(Call("read", 1), Std, c, Std, c)
    BY <1>1 DEF Good
  <1>3. err_stdin_out \in Seq(AnyCall) /\ Len(err_stdin_out) = 2
        /\ err_stdin_out[1] = Call("write", 0) /\ err_stdin_out[2] = Call("read", 1)
    BY <1>1 DEF err_stdin_out
  <1>4. \A i \in 1 .. Len(err_stdin_out) : Good(err_stdin_out[i], Std, c, Std, c)
    BY <1>2, <1>3
  <1> QED BY <1>3, <1>4, RunsSame

LEMMA SyscallNumRuns ==
    ASSUME NEW c
    PROVE  err_syscall_num \in Seq(AnyCall) /\ Runs(err_syscall_num, Std, c, Std, c)
  <1>1. \A n \in Int : Call("syscall", n) \in AnyCall /\ Call("syscall", n).op = "syscall"
    BY CallType DEF Op
  <1>2. \A n \in {-1, 0, 12} : Good(Call("syscall", n), Std, c, Std, c)
    BY <1>1 DEF Good, Call
  <1>3. /\ 12 \in Int /\ -1 \in Int /\ 0 \in Int
    OBVIOUS
  <1>4. /\ Call("syscall", 12) \in AnyCall /\ Call("syscall", -1) \in AnyCall
        /\ Call("syscall", 0) \in AnyCall
    BY <1>1, <1>3
  <1>5. /\ err_syscall_num \in Seq(AnyCall) /\ Len(err_syscall_num) = 3
        /\ err_syscall_num[1] = Call("syscall", 12) /\ err_syscall_num[2] = Call("syscall", -1)
        /\ err_syscall_num[3] = Call("syscall", 0)
    BY <1>4 DEF err_syscall_num
  <1>6. \A i \in 1 .. Len(err_syscall_num) : Good(err_syscall_num[i], Std, c, Std, c)
    BY <1>2, <1>3, <1>5
  <1> QED BY <1>5, <1>6, RunsSame

\* A test that starts with the table of a new process and ends with it, or all
\* of them in a row.
LEMMA AllRun == AllTests \in Seq(AnyCall) /\ Runs(AllTests, Std, 0, Std, 1)
  <1> DEFINE a == err_fd(-1) \o err_fd(MaxFd)
             b == a \o err_open_lots
             d == b \o err_open
             e == d \o err_unopened
             g == e \o err_vidmap
             h == g \o err_stdin_out
  <1>1. a \in Seq(AnyCall) /\ Runs(a, Std, 0, Std, 0)
    <2>1. /\ err_fd(-1) \in Seq(AnyCall) /\ Runs(err_fd(-1), Std, 0, Std, 0)
          /\ err_fd(MaxFd) \in Seq(AnyCall) /\ Runs(err_fd(MaxFd), Std, 0, Std, 0)
      BY FdRuns
    <2> QED BY <2>1, RunsJoin, JoinType
  <1>2. b \in Seq(AnyCall) /\ Runs(b, Std, 0, Std, 1)
    <2> HIDE DEF a
    <2> QED BY <1>1, OpenLotsRuns, RunsJoin, JoinType
  <1>3. d \in Seq(AnyCall) /\ Runs(d, Std, 0, Std, 1)
    <2> HIDE DEF b
    <2>1. err_open \in Seq(AnyCall) /\ Runs(err_open, Std, 1, Std, 1)
      BY OpenRuns
    <2> QED BY <1>2, <2>1, RunsJoin, JoinType
  <1>4. e \in Seq(AnyCall) /\ Runs(e, Std, 0, Std, 1)
    <2> HIDE DEF d
    <2>1. err_unopened \in Seq(AnyCall) /\ Runs(err_unopened, Std, 1, Std, 1)
      BY UnopenedRuns
    <2> QED BY <1>3, <2>1, RunsJoin, JoinType
  <1>5. g \in Seq(AnyCall) /\ Runs(g, Std, 0, Std, 1)
    <2> HIDE DEF e
    <2>1. err_vidmap \in Seq(AnyCall) /\ Runs(err_vidmap, Std, 1, Std, 1)
      BY VidmapRuns
    <2> QED BY <1>4, <2>1, RunsJoin, JoinType
  <1>6. h \in Seq(AnyCall) /\ Runs(h, Std, 0, Std, 1)
    <2> HIDE DEF g
    <2>1. err_stdin_out \in Seq(AnyCall) /\ Runs(err_stdin_out, Std, 1, Std, 1)
      BY StdinOutRuns
    <2> QED BY <1>5, <2>1, RunsJoin, JoinType
  <1>7. err_syscall_num \in Seq(AnyCall) /\ Runs(err_syscall_num, Std, 1, Std, 1)
    BY SyscallNumRuns
  <1>8. AllTests = h \o err_syscall_num
    BY DEF AllTests
  <1> HIDE DEF h
  <1> QED BY <1>6, <1>7, <1>8, RunsJoin, JoinType

\* What the user may choose.
LEMMA SelectedRuns ==
    ASSUME NEW select \in 0 .. Len(Tests)
    PROVE  /\ Selected(select) \in Seq(AnyCall)
           /\ \E c2 : Runs(Selected(select), Std, 0, {}, c2)
  <1> DEFINE s == IF select = 0 THEN AllTests ELSE Tests[select]
             u == <<Call("halt", 0)>>
  <1>1. \E c2 : s \in Seq(AnyCall) /\ Runs(s, Std, 0, Std, c2)
    <2>1. CASE select = 0
      BY <2>1, AllRun
    <2>2. CASE select # 0
      <3>1. Len(Tests) = 8
        BY DEF Tests
      <3>2. select \in {1, 2, 3, 4, 5, 6, 7, 8}
        BY <2>2, <3>1
      <3>3. /\ Tests[1] = err_fd(-1) /\ Tests[2] = err_fd(MaxFd) /\ Tests[3] = err_open_lots
            /\ Tests[4] = err_open /\ Tests[5] = err_unopened /\ Tests[6] = err_vidmap
            /\ Tests[7] = err_stdin_out /\ Tests[8] = err_syscall_num
        BY DEF Tests
      <3>4. s = Tests[select]
        BY <2>2
      <3> HIDE DEF s
      <3> DEFINE Ok(t, c2) == t \in Seq(AnyCall) /\ Runs(t, Std, 0, Std, c2)
      <3>5. Ok(err_fd(-1), 0) /\ Ok(err_fd(MaxFd), 0)
        BY FdRuns
      <3>6. Ok(err_open_lots, 1)
        BY OpenLotsRuns
      <3>7. Ok(err_open, 0)
        BY OpenRuns
      <3>8. Ok(err_unopened, 0)
        BY UnopenedRuns
      <3>9. Ok(err_vidmap, 0)
        BY VidmapRuns
      <3>10. Ok(err_stdin_out, 0)
        BY StdinOutRuns
      <3>11. Ok(err_syscall_num, 0)
        BY SyscallNumRuns
      <3> HIDE DEF Ok
      <3>12. Ok(s, 0) \/ Ok(s, 1)
        BY <3>2, <3>3, <3>4, <3>5, <3>6, <3>7, <3>8, <3>9, <3>10, <3>11
      <3> QED BY <3>12 DEF Ok
    <2> QED BY <2>1, <2>2
  <1>2. PICK c2 : s \in Seq(AnyCall) /\ Runs(s, Std, 0, Std, c2)
    BY <1>1
  <1>3. u \in Seq(AnyCall) /\ Runs(u, Std, c2, {}, c2)
    <2>1. Call("halt", 0) \in AnyCall /\ Call("halt", 0).op = "halt"
      BY CallType DEF Op
    <2>2. u \in Seq(AnyCall) /\ Len(u) = 1 /\ u[1] = Call("halt", 0)
      BY <2>1
    <2>3. Good(Call("halt", 0), Std, c2, {}, c2)
      BY <2>1 DEF Good
    <2> DEFINE F == [i \in 0 .. 1 |-> IF i = 0 THEN Std ELSE {}]
               C == [i \in 0 .. 1 |-> c2]
    <2>4. F[0] = Std /\ F[1] = {} /\ C[0] = c2 /\ C[1] = c2
      OBVIOUS
    <2> HIDE DEF F, C
    <2>5. Through(u, F, C)
      <3>1. SUFFICES ASSUME NEW i \in 1 .. 1
                     PROVE  Good(u[i], F[i - 1], C[i - 1], F[i], C[i])
        BY <2>2 DEF Through
      <3>2. i = 1 /\ i - 1 = 0
        OBVIOUS
      <3> QED BY <2>2, <2>3, <2>4, <3>2
    <2> HIDE DEF u
    <2> QED BY <2>2, <2>4, <2>5 DEF Runs
  <1>4. Selected(select) = s \o u
    BY DEF Selected
  <1> HIDE DEF s, u
  <1> QED BY <1>2, <1>3, <1>4, RunsJoin, JoinType

-----------------------------------------------------------------------------
\* The tests as they run: what is still to be called is answered as expected.
TInv ==
    /\ IInv
    /\ ~fail
    /\ script \in Seq(AnyCall)
    /\ script # <<>> => \E f2, c2 : Runs(script, flags[Tester], cnt, f2, c2)

LEMMA TestInitHolds == ASSUME TestInit PROVE TInv
  BY InitHolds DEF TestInit, TInv

\* A new process for the tests.
LEMMA StartKeeps ==
    ASSUME TInv, NEW select \in 0 .. Len(Tests), Start(select)
    PROVE  TInv' /\ Next
  <1>1. Execute(Tester) /\ script' = Selected(select) /\ cnt' = 0 /\ fail' = fail
    BY DEF Start
  <1>2. IInv' /\ Next
    BY <1>1, ExecuteKeeps, TesterAssumption DEF TInv, Next, Step
  <1>3. flags'[Tester] = Std
    BY <1>1, TesterAssumption DEF Execute, TInv, IInv, TypeOK, Std
  <1>4. script' \in Seq(AnyCall) /\ \E c2 : Runs(script', Std, 0, {}, c2)
    BY <1>1, SelectedRuns
  <1> QED BY <1>1, <1>2, <1>3, <1>4 DEF TInv

\* The kernel's answer to each kind of call.
LEMMA OpenAnswers ==
    ASSUME IInv, Open(Tester, "dir"), NEW call, call.op = "open", NEW c \in Nat, NEW f1, NEW c1,
           Good(call, flags[Tester], c, f1, c1)
    PROVE  /\ flags'[Tester] = f1
           /\ c1 = IF res' = -1 THEN c + 1 ELSE c
  <1>1. flags \in [Proc -> SUBSET Fd] /\ Tester \in Proc
    BY TesterAssumption DEF IInv, TypeOK
  <1>2. PICK fd \in Slots :
           /\ fd \notin flags[Tester] \/ fd = MaxFd - 1
           /\ \A j \in MinFd .. (fd - 1) : j \in flags[Tester]
           /\ \/ fd \in flags[Tester] /\ res' = -1 /\ flags' = flags
              \/ /\ fd \notin flags[Tester] /\ res' = fd
                 /\ flags' = [flags EXCEPT ![Tester] = @ \cup {fd}]
    BY DEF Open, Reaches, Slots
  <1>3. CASE Slots \subseteq flags[Tester]
    <2>1. res' = -1 /\ flags' = flags
      BY <1>2, <1>3
    <2>2. f1 = flags[Tester] /\ c1 = c + 1
      BY <1>3 DEF Good
    <2> QED BY <2>1, <2>2
  <1>4. CASE ~(Slots \subseteq flags[Tester])
    <2>1. PICK gd \in Slots \ flags[Tester] :
             /\ \A g \in Slots \ flags[Tester] : gd <= g
             /\ f1 = flags[Tester] \cup {gd}
      BY <1>4 DEF Good
    <2>2. c1 = c
      BY <1>4 DEF Good
    <2>3. ~(gd < fd)
      BY <1>2, <2>1, Fds
    <2>4. fd \notin flags[Tester]
      BY <1>2, <2>1, <2>3, Fds
    <2>5. fd = gd /\ fd # -1
      BY <2>1, <2>3, <2>4, Fds
    <2>6. flags' = [flags EXCEPT ![Tester] = @ \cup {fd}] /\ res' = fd
      BY <1>2, <2>4
    <2> QED BY <1>1, <2>1, <2>2, <2>5, <2>6
  <1> QED BY <1>3, <1>4

LEMMA CloseAnswers ==
    ASSUME IInv, NEW call \in AnyCall, call.op \in {"close", "close_any"},
           Close(Tester, call.arg), NEW c, NEW f1, NEW c1,
           Good(call, flags[Tester], c, f1, c1)
    PROVE  /\ flags'[Tester] = f1 /\ c1 = c
           /\ call.op = "close" => res' = -1
           /\ call.arg \in -1 .. MaxFd
  <1>1. flags \in [Proc -> SUBSET Fd] /\ Tester \in Proc
    BY TesterAssumption DEF IInv, TypeOK
  <1>2. CASE call.op = "close"
    <2>1. /\ call.arg \in -1 .. MaxFd /\ ~(call.arg >= MinFd /\ call.arg \in flags[Tester])
          /\ f1 = flags[Tester] /\ c1 = c
      BY <1>2 DEF Good
    <2> QED BY <1>2, <2>1 DEF Close, Closable
  <1>3. CASE call.op = "close_any"
    <2>1. call.arg \in Slots /\ f1 = flags[Tester] \ {call.arg} /\ c1 = c
      BY <1>3 DEF Good
    <2>2. call.arg \in -1 .. MaxFd
      BY <2>1, Fds
    <2>3. CASE flags' = flags
      <3>1. call.arg \notin flags[Tester]
        BY <1>1, <2>1, <2>3, Fds DEF Close, Closable
      <3> QED BY <1>3, <2>1, <2>2, <2>3, <3>1
    <2>4. CASE flags' = [flags EXCEPT ![Tester] = @ \ {call.arg}]
      BY <1>1, <1>3, <2>1, <2>2, <2>4
    <2> QED BY <2>3, <2>4 DEF Close
  <1> QED BY <1>2, <1>3

\* read and write; the standard input cannot be written, nor the output read.
LEMMA TransferAnswers ==
    ASSUME IInv, NEW call \in AnyCall, call.op \in {"read", "write"},
           \/ Transfer(Tester, call.op, call.arg)
           \/ call.op = "read" /\ DirRead(Tester, call.arg),
           NEW c, NEW f1, NEW c1, Good(call, flags[Tester], c, f1, c1)
    PROVE  /\ flags'[Tester] = f1 /\ c1 = c /\ res' = -1
           /\ call.arg \in -1 .. MaxFd /\ Transfer(Tester, call.op, call.arg)
  <1>1. /\ call.arg \in -1 .. MaxFd /\ f1 = flags[Tester] /\ c1 = c
        /\ \/ call.arg \notin flags[Tester]
           \/ call.op = "read" /\ call.arg = 1
           \/ call.op = "write" /\ call.arg = 0
    BY DEF Good
  <1>2. live[Tester]
    BY DEF Transfer, DirRead, InUser
  <1>3. ptrs[Tester][0] = "stdin" /\ ptrs[Tester][1] = "stdout"
    BY <1>2, TesterAssumption DEF IInv, StandardFiles
  <1>4. ~InUse(Tester, call.arg) \/ Fails(call.op, ptrs[Tester][call.arg])
    BY <1>1, <1>3 DEF InUse, Fails
  <1>5. ~(call.op = "read" /\ DirRead(Tester, call.arg))
    BY <1>1, <1>3 DEF DirRead, InUse
  <1>6. Transfer(Tester, call.op, call.arg)
    BY <1>5
  <1>7. res' = -1 /\ flags' = flags
    BY <1>1, <1>3, <1>4, <1>6 DEF Transfer, CallsThrough, InUse, table
  <1> QED BY <1>1, <1>6, <1>7

\* Every call the program makes: it is a step of the kernel, is answered as
\* expected and leads to the next state of the run.
LEMMA CallAnswers ==
    ASSUME IInv, cnt \in Nat, NEW call \in AnyCall, call.op # "count", Invoke(call),
           NEW f1, NEW c1, Good(call, flags[Tester], cnt, f1, c1)
    PROVE  /\ flags'[Tester] = f1
           /\ c1 = IF call.op = "open" /\ res' = -1 THEN cnt + 1 ELSE cnt
           /\ call.op \notin Unchecked => res' = -1
           /\ Step(Tester)
  <1>0. call.op \in Op /\ flags \in [Proc -> SUBSET Fd] /\ Tester \in Proc
    BY TesterAssumption DEF AnyCall, IInv, TypeOK
  <1>1. CASE call.op = "open"
    <2>1. Open(Tester, "dir")
      BY <1>1 DEF Invoke
    <2>2. Step(Tester)
      BY <2>1, DirAssumption DEF Step
    <2>3. flags'[Tester] = f1 /\ c1 = IF res' = -1 THEN cnt + 1 ELSE cnt
      BY <1>1, <2>1, OpenAnswers
    <2> QED BY <1>1, <2>2, <2>3 DEF Unchecked
  <1>2. CASE call.op \in {"close", "close_any"}
    <2>1. Close(Tester, call.arg)
      BY <1>2 DEF Invoke
    <2>2. /\ flags'[Tester] = f1 /\ c1 = cnt /\ (call.op = "close" => res' = -1)
          /\ call.arg \in -1 .. MaxFd
      BY <1>2, <2>1, CloseAnswers
    <2>3. Step(Tester)
      BY <2>1, <2>2 DEF Step
    <2> QED BY <1>2, <2>2, <2>3 DEF Unchecked
  <1>3. CASE call.op \in {"read", "write"}
    <2>1. \/ Transfer(Tester, call.op, call.arg)
          \/ call.op = "read" /\ DirRead(Tester, call.arg)
      BY <1>3 DEF Invoke
    <2>2. /\ flags'[Tester] = f1 /\ c1 = cnt /\ res' = -1
          /\ call.arg \in -1 .. MaxFd /\ Transfer(Tester, call.op, call.arg)
      BY <1>3, <2>1, TransferAnswers
    <2>3. Step(Tester)
      BY <1>3, <2>2 DEF Step
    <2> QED BY <1>3, <2>2, <2>3
  <1>4. CASE call.op = "halt"
    <2>1. Halt(Tester)
      BY <1>4 DEF Invoke
    <2>2. flags'[Tester] = {}
      BY <1>0, <2>1 DEF Halt
    <2>3. f1 = {} /\ c1 = cnt
      BY <1>4 DEF Good
    <2>4. Step(Tester)
      BY <2>1 DEF Step
    <2> QED BY <1>4, <2>2, <2>3, <2>4 DEF Unchecked
  <1>5. CASE call.op = "open_missing"
    <2>1. Open(Tester, "missing")
      BY <1>5 DEF Invoke
    <2>2. f1 = flags[Tester] /\ c1 = cnt
      BY <1>5 DEF Good
    <2>3. Step(Tester) /\ res' = -1 /\ flags' = flags
      BY <2>1 DEF Step, Open
    <2> QED BY <1>5, <2>2, <2>3
  <1>6. CASE call.op = "vidmap"
    <2>1. Vidmap(Tester, call.arg)
      BY <1>6 DEF Invoke
    <2>2. f1 = flags[Tester] /\ c1 = cnt /\ call.arg \in Page \ ProgramPage
      BY <1>6 DEF Good
    <2>3. Step(Tester) /\ res' = -1 /\ flags' = flags
      BY <2>1, <2>2 DEF Step, Vidmap, table
    <2> QED BY <1>6, <2>2, <2>3
  <1>7. CASE call.op = "syscall"
    <2>1. Dispatch(Tester, call.arg)
      BY <1>7 DEF Invoke
    <2>2. f1 = flags[Tester] /\ c1 = cnt /\ call.arg \in {-1, 0, 12}
      BY <1>7 DEF Good
    <2>3. call.arg \in -1 .. 12 /\ call.arg \notin SyscallNumber
      BY <2>2 DEF SyscallNumber
    <2>4. Step(Tester)
      BY <2>1, <2>3 DEF Step
    <2>5. res' = -1 /\ flags' = flags
      BY <2>1, <2>3 DEF Dispatch, table
    <2> QED BY <1>7, <2>2, <2>4, <2>5
  <1> QED BY <1>0, <1>1, <1>2, <1>3, <1>4, <1>5, <1>6, <1>7 DEF Op

\* A step of a process touches only its own descriptors.
LEMMA OthersKept ==
    ASSUME IInv, NEW p \in Proc \ {Tester}, Step(p)
    PROVE  flags'[Tester] = flags[Tester]
  <1>1. flags \in [Proc -> SUBSET Fd] /\ Tester \in Proc
    BY TesterAssumption DEF IInv, TypeOK
  <1>2. flags' = flags \/ \E S : flags' = [flags EXCEPT ![p] = S]
    <2>1. CASE Execute(p) \/ Halt(p)
      BY <2>1 DEF Execute, Halt
    <2>2. ASSUME NEW t \in Types \cup {"missing"}, Open(p, t)
          PROVE  flags' = flags \/ \E S : flags' = [flags EXCEPT ![p] = S]
      BY <2>2 DEF Open
    <2>3. ASSUME NEW fd \in -1 .. MaxFd, Close(p, fd)
          PROVE  flags' = flags \/ \E S : flags' = [flags EXCEPT ![p] = S]
      BY <2>3 DEF Close
    <2>4. CASE \/ \E fd \in -1 .. MaxFd : DirRead(p, fd)
               \/ \E fd \in -1 .. MaxFd, op \in {"read", "write"} : Transfer(p, op, fd)
               \/ \E page \in Page : Vidmap(p, page)
               \/ \E n \in -1 .. 12 : Dispatch(p, n)
               \/ DirLoad(p) \/ DirStore(p)
      BY <2>4 DEF DirRead, Transfer, Vidmap, Dispatch, DirLoad, DirStore, table
    <2> QED BY <2>1, <2>2, <2>3, <2>4 DEF Step
  <1> QED BY <1>1, <1>2

\* Every step of the tests keeps the invariant and is one of the kernel.
LEMMA TestNextKeeps ==
    ASSUME TInv, cnt \in Nat, [TestNext]_<<vars, test>>
    PROVE  TInv' /\ cnt' \in Nat /\ [Next]_vars
  <1>0. script \in Seq(AnyCall) /\ ~fail /\ IInv
    BY DEF TInv
  <1>1. ASSUME NEW select \in 0 .. Len(Tests), Start(select)
        PROVE  TInv' /\ cnt' \in Nat /\ [Next]_vars
    BY <1>1, StartKeeps DEF Start
  <1>2. CASE Test
    <2>1. /\ script # <<>> /\ Head(script).op # "count" /\ Invoke(Head(script))
          /\ script' = Tail(script)
          /\ cnt' = (IF Head(script).op = "open" /\ res' = -1 THEN cnt + 1 ELSE cnt)
          /\ fail' = (fail \/ (Head(script).op \notin Unchecked /\ res' # -1))
      BY <1>2 DEF Test
    <2>2. Head(script) = script[1] /\ Head(script) \in AnyCall /\ Tail(script) \in Seq(AnyCall)
      BY <1>0, <2>1
    <2>3. PICK f2, c2 : Runs(script, flags[Tester], cnt, f2, c2)
      BY <2>1 DEF TInv
    <2>4. PICK f1, c1 : /\ Good(script[1], flags[Tester], cnt, f1, c1)
                        /\ Runs(Tail(script), f1, c1, f2, c2)
      BY <1>0, <2>1, <2>3, RunsTail
    <2>5. /\ flags'[Tester] = f1 /\ c1 = cnt'
          /\ (Head(script).op \notin Unchecked => res' = -1)
          /\ Step(Tester)
      BY <1>0, <2>1, <2>2, <2>4, CallAnswers
    <2>6. Next /\ IInv'
      BY <1>0, <2>5, TesterAssumption, NextKeeps DEF Next
    <2>7. ~fail'
      BY <1>0, <2>1, <2>5
    <2>8. cnt' \in Nat
      BY <2>1
    <2>9. Runs(script', flags'[Tester], cnt', f2, c2)
      BY <2>1, <2>4, <2>5
    <2> QED BY <2>1, <2>2, <2>6, <2>7, <2>8, <2>9 DEF TInv
  <1>3. CASE CheckCount
    <2>1. /\ script # <<>> /\ Head(script).op = "count" /\ script' = Tail(script)
          /\ fail' = (fail \/ cnt # 1) /\ UNCHANGED vars /\ cnt' = cnt
      BY <1>3 DEF CheckCount
    <2>2. Head(script) = script[1] /\ Tail(script) \in Seq(AnyCall)
      BY <1>0, <2>1
    <2>3. PICK f2, c2 : Runs(script, flags[Tester], cnt, f2, c2)
      BY <2>1 DEF TInv
    <2>4. PICK f1, c1 : /\ Good(script[1], flags[Tester], cnt, f1, c1)
                        /\ Runs(Tail(script), f1, c1, f2, c2)
      BY <1>0, <2>1, <2>3, RunsTail
    <2>5. cnt = 1 /\ f1 = flags[Tester] /\ c1 = cnt
      BY <2>1, <2>2, <2>4 DEF Good
    <2>6. IInv' /\ flags' = flags
      BY <1>0, <2>1, NextKeeps DEF vars, table
    <2>7. Runs(script', flags'[Tester], cnt', f2, c2) /\ ~fail'
      BY <1>0, <2>1, <2>4, <2>5, <2>6
    <2> QED BY <2>1, <2>2, <2>6, <2>7 DEF TInv
  <1>4. CASE Killed
    <2>1. Halt(Tester) /\ script' = <<>> /\ cnt' = cnt /\ fail' = fail
      BY <1>4 DEF Killed
    <2>2. Next /\ IInv'
      BY <1>0, <2>1, HaltKeeps, TesterAssumption DEF Next, Step
    <2> QED BY <1>0, <2>1, <2>2 DEF TInv
  <1>5. CASE Elsewhere
    <2>1. PICK p \in Proc : (p = Tester => script = <<>>) /\ Step(p)
      BY <1>5 DEF Elsewhere
    <2>2. script' = script /\ cnt' = cnt /\ fail' = fail
      BY <1>5 DEF Elsewhere, test
    <2>3. Next /\ IInv'
      BY <1>0, <2>1, NextKeeps DEF Next
    <2>4. CASE p = Tester
      BY <1>0, <2>1, <2>2, <2>3, <2>4 DEF TInv
    <2>5. CASE p # Tester
      <3>1. flags'[Tester] = flags[Tester]
        BY <1>0, <2>1, <2>5, OthersKept
      <3> QED BY <2>2, <2>3, <3>1 DEF TInv
    <2> QED BY <2>4, <2>5
  <1>6. CASE UNCHANGED <<vars, test>>
    <2>1. UNCHANGED vars /\ script' = script /\ cnt' = cnt /\ fail' = fail
      BY <1>6 DEF test
    <2>2. IInv' /\ flags' = flags
      BY <1>0, <2>1, NextKeeps DEF vars, table
    <2> QED BY <2>1, <2>2 DEF TInv
  <1> QED BY <1>1, <1>2, <1>3, <1>4, <1>5, <1>6 DEF TestNext

LEMMA TestInvariant == TestSpec => [](TInv /\ cnt \in Nat)
  <1>1. TestInit => TInv /\ cnt \in Nat
    <2>1. TestInit => TInv
      BY TestInitHolds
    <2>2. TestInit => cnt \in Nat
      BY DEF TestInit
    <2> QED BY <2>1, <2>2
  <1>2. TInv /\ cnt \in Nat /\ [TestNext]_<<vars, test>> => (TInv /\ cnt \in Nat)'
    BY TestNextKeeps
  <1> QED BY <1>1, <1>2, PTL DEF TestSpec

\* None of the eight tests of ece391syserr.c fails, alone or in a row, for any
\* number of processes and descriptors, whatever ran in the process before and
\* whatever the others do meanwhile.
THEOREM TestsAlwaysPass == TestSpec => []TestsPass
  BY TestInvariant, PTL DEF TInv, TestsPass

\* The program is a client of the kernel: with it every step is one that the
\* kernel takes for some program, so that what is proved of all programs
\* (StandardFiles, ListsAlone) holds while the tests run.
THEOREM TestsAreClient == TestSpec => Spec
  <1>1. TestInit => Init
    BY DEF TestInit
  <1>2. TInv /\ cnt \in Nat /\ [TestNext]_<<vars, test>> => [Next]_vars
    BY TestNextKeeps
  <1> QED BY <1>1, <1>2, TestInvariant, PTL DEF TestSpec, Spec
=============================================================================
