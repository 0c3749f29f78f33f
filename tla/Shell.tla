------------------------------- MODULE Shell -------------------------------
(***************************************************************************)
(* From a typed line to a running program and back: the loop of the shell  *)
(* (ece391shell.c), the parsing, look-up and executable check of execute   *)
(* (syscall.c), read_dentry_by_name (filesystem.c), getargs (syscall.c),   *)
(* and the programs that a user calls with them (ece391cat.c,              *)
(* ece391grep.c, ece391ls.c, ece391hello.c, ece391counter.c).              *)
(*                                                                         *)
(* Text is what this module is about, so it is kept character by           *)
(* character, in sequences; a C string ends before the first NUL.  Files   *)
(* are read through file_read, which returns the bytes in order and is     *)
(* short only at the end (FileRead), and written output is collected.      *)
(* Each step is a system call of a program with the code up to the next    *)
(* one; execute runs with IF = 0.                                          *)
(***************************************************************************)
EXTENDS Integers, Sequences, FiniteSets, SequencesExt

CONSTANTS
    Char,           \* the characters, with the three below
    NUL, NL, SP,
    F_TYPE_OFFSET,  \* 32: the size of a name, and of exe_name
    ARG_MAX,        \* 100: the size of args_buf and of pcb->argument
    KEY_ARR_SIZE,   \* 128: the size of a line
    BUFSIZE,        \* 1024: the buffers of the programs
    FOUR_BYTES,     \* 4: the size of the magic number
    Dentry,         \* the directory: a sequence of [name, type, inode]
    Image,          \* what the inodes hold, the text file aside
    NumInodes,      \* num_inodes
    Program,        \* the program in an inode, "none" if it is no executable
    TextInode,      \* the inode of the text file
    Texts,          \* what the text file can hold
    Typed,          \* the lines users type at the prompt
    Answers,        \* the lines they type when a program asks
    Exit,           \* the word that ends the shell
    Count,          \* how far counter counts, by its first input character
    Status,         \* what other programs pass to halt
    Garbage         \* what a stack variable can hold before it is set

ASSUME CharAssumption ==
    /\ {NUL, NL, SP} \subseteq Char /\ NUL # NL /\ NL # SP /\ SP # NUL
    /\ Garbage \subseteq Char
ASSUME SizeAssumption ==
    {F_TYPE_OFFSET, ARG_MAX, KEY_ARR_SIZE, BUFSIZE, FOUR_BYTES} \subseteq Nat \ {0, 1}
ASSUME InodeAssumption ==
    /\ NumInodes \in Nat
    /\ Image \in [0 .. (NumInodes - 1) -> Seq(Char)]
    /\ Program \in [0 .. (NumInodes - 1) ->
                       {"none", "cat", "grep", "ls", "counter", "hello", "other"}]
    /\ Texts \subseteq Seq(Char)
\* The image of the file system: every entry has a name, no two the same, and
\* that of a directory begins with a dot (ece391grep.c 89 relies on it).
ASSUME DentryAssumption ==
    /\ Dentry \in Seq([name  : Seq(Char \ {NUL}), type : {"file", "dir", "rtc"},
                       inode : 0 .. (NumInodes - 1)])
    /\ \A i \in DOMAIN Dentry : Len(Dentry[i].name) \in 1 .. F_TYPE_OFFSET
    /\ \A i, j \in DOMAIN Dentry : Dentry[i].name = Dentry[j].name => i = j
    /\ \A i \in DOMAIN Dentry : Dentry[i].type = "dir" => Head(Dentry[i].name) = "."
\* What terminal_read gives: key_arr has no more (TerminalInput).
ASSUME TypedAssumption ==
    Typed \subseteq Seq(Char) /\ \A buf \in Typed : Len(buf) <= KEY_ARR_SIZE

VARIABLES
    pc,             \* where the shell or the program is
    text,           \* the contents of the text file
    command,        \* what the shell passes to execute
    rval,           \* what execute returns to the shell
    argument,       \* pcb->argument
    word,           \* what getargs gave: the name to open, or the search string
    entry,          \* dir_location: the next directory entry to read
    file,           \* the entry of the open file
    file_pos,       \* the position in it
    data,           \* do_one_file: its buffer, the byte at 0 first
    last,           \* do_one_file: how much of it is filled
    line_start,     \* do_one_file: the start of the line looked at
    cnt,            \* do_one_file: what the last read returned
    junk,           \* history: what data held before anything was read
    full,           \* history: execute found no free pid for the command
    out             \* what the command has written

grep == <<data, last, line_start, cnt, junk>>
open_file == <<entry, file, file_pos>>
vars == <<pc, text, full, command, rval, argument, word, open_file, grep, out>>

-----------------------------------------------------------------------------
(***************************************************************************)
(* Strings and names.                                                      *)
(***************************************************************************)
\* s[i] of a C array: NUL after the last character.
At(s, i) == IF i < Len(s) THEN s[i + 1] ELSE NUL

\* Where a loop over s that begins at i and runs until a character of Stop ends.
Scan(s, i, Stop) ==
    CHOOSE k \in i .. Len(s) :
        /\ At(s, k) \in Stop
        /\ \A j \in i .. (k - 1) : At(s, j) \notin Stop

strlen(s) == Scan(s, 0, {NUL})

CString(s) == SubSeq(s, 1, strlen(s))

\* strncmp(s1, s2, n) = 0, where s1 has no NUL among its first n.
strncmp(s1, s2, n) == \A i \in 0 .. (n - 1) : At(s1, i) = At(s2, i)

\* strlen of a name in the directory; one that fills its field runs on into
\* the type, which is not 0 for a file.
DentryLen(d) == IF Len(d.name) = F_TYPE_OFFSET THEN F_TYPE_OFFSET + 1 ELSE Len(d.name)

\* Fault: the lengths are not compared.
Names_Prefix(fname, d) ==
    Len(fname) <= F_TYPE_OFFSET /\ strncmp(fname, d.name, Len(fname))

\* The test in the loop of read_dentry_by_name: fname names the entry d.
Names(fname, d) ==
    /\ Len(fname) <= F_TYPE_OFFSET
    /\ strncmp(fname, d.name, Len(fname))
    /\ \/ Len(fname) >= F_TYPE_OFFSET /\ DentryLen(d) >= F_TYPE_OFFSET
       \/ Len(fname) = DentryLen(d)

\* The first entry it finds; 0 stands for -1.
read_dentry_by_name(fname) ==
    CHOOSE i \in 0 .. Len(Dentry) :
        /\ i # 0 => Names(fname, Dentry[i])
        /\ \A j \in 1 .. (IF i = 0 THEN Len(Dentry) ELSE i - 1) : ~Names(fname, Dentry[j])

Contents(inode) == IF inode = TextInode THEN text ELSE Image[inode]

\* read_data refuses the inode; the last one, too.
Refuses(inode) == inode >= NumInodes - 1

(***************************************************************************)
(* execute, part 1: where the name and the arguments begin and end, what   *)
(* is kept of them, and whether a local array is written past its end.     *)
(***************************************************************************)
parse(cmd) ==
    LET start  == Scan(cmd, 0, Char \ {SP})
        end    == Scan(cmd, start, {SP, NL, NUL})
        stop   == Scan(cmd, end, {NL, NUL})
        length == end - start
        kept   == IF length >= F_TYPE_OFFSET THEN F_TYPE_OFFSET - 1 ELSE length
        fails  == (length > 0 /\ end > KEY_ARR_SIZE) \/ length > F_TYPE_OFFSET + 1
    IN  [exe_name |-> SubSeq(cmd, start + 1, start + kept),
         args_buf |-> SubSeq(cmd, end + 1, stop),
         too_long |-> fails,
         overrun  |-> \/ length > F_TYPE_OFFSET /\ start + F_TYPE_OFFSET < KEY_ARR_SIZE
                      \/ ~fails /\ stop - end >= ARG_MAX]

\* getargs: the first place where a space is followed by another character.
ArgStarts(arg) ==
    {i \in 0 .. (ARG_MAX - 2) : At(arg, i) = SP /\ At(arg, i + 1) # SP}

\* Fault: the arguments are given as they were saved.
getargs_Raw(arg) == [ok |-> arg # <<>>, buf |-> arg]

getargs(arg) ==
    LET starts == ArgStarts(arg)
        offset == CHOOSE i \in starts : \A j \in starts : i <= j
    IN  IF arg = <<>> \/ starts = {} THEN [ok |-> FALSE, buf |-> <<>>]
        ELSE [ok |-> TRUE, buf |-> SubSeq(arg, offset + 2, Len(arg))]

Say(message) == out' = Append(out, message)

\* A program ends: halt leaves its status in retval, and execute makes of it
\* what the shell sees.
Halts(status) ==
    /\ pc' = "report"
    /\ rval' = IF status = 15 THEN 256 ELSE 0

-----------------------------------------------------------------------------
(***************************************************************************)
(* The shell.                                                              *)
(***************************************************************************)
Init ==
    /\ pc = "prompt"
    /\ text \in Texts
    /\ full = FALSE
    /\ entry = 1
    /\ command = <<>> /\ rval = 0
    /\ argument = <<>> /\ word = <<>>
    /\ file = 0 /\ file_pos = 0
    /\ data = <<>> /\ last = 0 /\ line_start = 0 /\ cnt = 0 /\ junk = NUL
    /\ out = <<>>

\* The shell reads a line, cuts its newline and looks what to do with it.
\* "exit" halts the shell, and halt starts a new one in its place.
Read ==
    /\ pc = "prompt"
    /\ \E buf \in Typed :
          LET n == IF buf # <<>> /\ Last(buf) = NL THEN Len(buf) - 1 ELSE Len(buf)
          IN  command' = CString(SubSeq(buf, 1, n))
    /\ pc' = IF command' \in {Exit, <<>>} THEN "prompt" ELSE "execute"
    /\ out' = <<>>
    /\ full' = FALSE
    /\ UNCHANGED <<text, rval, argument, word, open_file, grep>>

\* read_data fails or ends before it has filled the magic number, which stays
\* what it was: the stack variable was never set.
Unread(inode) == Refuses(inode) \/ Len(Contents(inode)) < FOUR_BYTES

\* execute, part 2: the program in the file of that name, if its first bytes
\* are the magic number of an executable.  An unset variable may hold just that;
\* what runs then is not followed.
Executable(name) ==
    LET i == read_dentry_by_name(name)
    IN  IF i = 0 THEN {"none"}
        ELSE IF Unread(Dentry[i].inode) THEN {"none", "wild"}
        ELSE {Program[Dentry[i].inode]}

\* execute up to the switch to user mode; the processes of the other terminals
\* may have left no pid.  A local array written past its end leaves the machine
\* in a state that is not followed.
Execute ==
    /\ pc = "execute"
    /\ full' \in BOOLEAN
    /\ LET p == parse(command)
       IN  \/ /\ p.overrun
              /\ pc' = "wild"
              /\ UNCHANGED <<rval, argument>>
           \/ /\ ~p.overrun
              /\ \E runs \in IF p.too_long THEN {"none"} ELSE Executable(p.exe_name) :
                    \/ /\ runs = "none" \/ full'
                       /\ pc' = "report"
                       /\ rval' = -1
                       /\ UNCHANGED argument
                    \/ /\ runs # "none" /\ ~full'
                       /\ pc' = runs
                       /\ argument' = p.args_buf
                       /\ UNCHANGED rval
    /\ UNCHANGED <<text, command, word, open_file, grep, out>>

\* Back in the shell: what it says about the value of execute.  The memory of
\* the program is not used again.
Report ==
    /\ pc = "report"
    /\ \/ rval = -1 /\ Say("no such command")
       \/ rval = 256 /\ Say("program terminated by exception")
       \/ rval = 0 /\ UNCHANGED out
    /\ pc' = "prompt"
    /\ command' = <<>> /\ rval' = 0
    /\ argument' = <<>> /\ word' = <<>>
    /\ file' = 0 /\ file_pos' = 0
    /\ data' = <<>> /\ last' = 0 /\ line_start' = 0 /\ cnt' = 0 /\ junk' = NUL
    /\ UNCHANGED <<text, full, entry>>

\* A program without system calls of interest here (testprint, pingpong, ...).
Other ==
    /\ pc = "other"
    /\ \E status \in Status : Halts(status)
    /\ UNCHANGED <<text, full, command, argument, word, open_file, grep, out>>

-----------------------------------------------------------------------------
(***************************************************************************)
(* Reading an open file or the directory.                                  *)
(***************************************************************************)
\* The n bytes of c from pos on, fewer at its end.
Slice(c, pos, n) == SubSeq(c, pos + 1, IF pos + n < Len(c) THEN pos + n ELSE Len(c))

\* Fault: the last entry is taken for the end.
NextName_ButLast(n) ==
    IF entry >= Len(Dentry) THEN <<>>
    ELSE LET d == Dentry[entry]
         IN  Slice(Append(d.name, d.type), 0, IF n < DentryLen(d) THEN n ELSE DentryLen(d))

\* dir_read: the name of the next entry, with its type behind it when it fills
\* its field and n has room.
NextName(n) ==
    IF entry > Len(Dentry) THEN <<>>
    ELSE LET d == Dentry[entry]
         IN  Slice(Append(d.name, d.type), 0, IF n < DentryLen(d) THEN n ELSE DentryLen(d))

\* What read gives of entry i at position pos: up to n bytes of a file, the
\* next name of a directory, nothing of the clock.
Bytes(i, pos, n) ==
    CASE Dentry[i].type = "file" -> Slice(Contents(Dentry[i].inode), pos, n)
      [] Dentry[i].type = "dir"  -> NextName(n)
      [] Dentry[i].type = "rtc"  -> <<>>

\* dir_read moves on to the next entry, and back to the first at the end.
dir_read == entry' = IF entry <= Len(Dentry) THEN entry + 1 ELSE 1

\* read of the open file returns -1.
ReadFails == Dentry[file].type = "file" /\ Refuses(Dentry[file].inode)

\* cat and grep end with the first read that fails.
Failed ==
    /\ pc \in {"cat_read", "grep_read"}
    /\ ReadFails
    /\ Say("file read failed") /\ Halts(3)
    /\ UNCHANGED <<text, full, command, argument, word, open_file, grep>>

\* getargs at the start of cat and grep.
Args ==
    /\ pc \in {"cat", "grep"}
    /\ LET a == getargs(argument)
       IN  \/ a.ok /\ word' = a.buf /\ UNCHANGED <<rval, out>>
              /\ pc' = IF pc = "cat" THEN "cat_open" ELSE "grep_open"
           \/ ~a.ok /\ Say("could not read arguments") /\ Halts(3) /\ UNCHANGED word
    /\ UNCHANGED <<text, full, command, argument, open_file, grep>>

CatOpen ==
    /\ pc = "cat_open"
    /\ LET i == read_dentry_by_name(word)
       IN  \/ /\ i = 0
              /\ Say("file not found") /\ Halts(2)
              /\ UNCHANGED open_file
           \/ /\ i # 0
              /\ pc' = "cat_read" /\ file' = i /\ file_pos' = 0
              /\ entry' = IF Dentry[i].type = "dir" THEN 1 ELSE entry
              /\ UNCHANGED <<rval, out>>
    /\ UNCHANGED <<text, full, command, argument, word, grep>>

CatRead ==
    /\ pc = "cat_read"
    /\ ~ReadFails
    /\ LET buf == Bytes(file, file_pos, BUFSIZE)
       IN  \/ buf = <<>> /\ Halts(0) /\ UNCHANGED <<file_pos, out>>
           \/ buf # <<>> /\ out' = out \o buf /\ file_pos' = file_pos + Len(buf)
              /\ UNCHANGED <<pc, rval>>
    /\ IF Dentry[file].type = "dir" THEN dir_read ELSE UNCHANGED entry
    /\ UNCHANGED <<text, full, command, argument, word, file, grep>>

\* open(".") of ls and grep, which go on at the place given.
OpenDir(next) ==
    IF read_dentry_by_name(<<".">>) = 0
    THEN Say("directory open failed") /\ Halts(2) /\ UNCHANGED entry
    ELSE pc' = next /\ entry' = 1 /\ UNCHANGED <<rval, out>>

LsOpen ==
    /\ pc = "ls"
    /\ OpenDir("ls_read")
    /\ UNCHANGED <<text, full, command, argument, word, file, file_pos, grep>>

LsRead ==
    /\ pc = "ls_read"
    /\ LET buf == NextName(F_TYPE_OFFSET)
       IN  \/ buf = <<>> /\ Halts(0) /\ UNCHANGED out
           \/ buf # <<>> /\ Say(buf) /\ UNCHANGED <<pc, rval>>
    /\ dir_read
    /\ UNCHANGED <<text, full, command, argument, word, file, file_pos, grep>>

-----------------------------------------------------------------------------
(***************************************************************************)
(* grep: every file of the directory in turn, through a buffer that is     *)
(* refilled behind the unfinished line it keeps.                           *)
(***************************************************************************)
GrepOpen ==
    /\ pc = "grep_open"
    /\ OpenDir("grep_dir")
    /\ UNCHANGED <<text, full, command, argument, word, file, file_pos, grep>>

\* The next name; do_one_file opens it (a name of the directory is found), with
\* a buffer nobody has set.
GrepDir ==
    /\ pc = "grep_dir"
    /\ LET buf == NextName(F_TYPE_OFFSET)
       IN  \/ buf = <<>> /\ Halts(0) /\ UNCHANGED <<file, file_pos, grep>>
           \/ buf # <<>> /\ Head(buf) = "." /\ UNCHANGED <<pc, rval, file, file_pos, grep>>
           \/ /\ buf # <<>> /\ Head(buf) # "."
              /\ pc' = "grep_read" /\ file' = read_dentry_by_name(buf) /\ file_pos' = 0 /\ last' = 0
              /\ junk' \in Garbage
              /\ data' = [i \in 1 .. (BUFSIZE + 1) |-> junk']
              /\ UNCHANGED <<rval, line_start, cnt>>
    /\ dir_read
    /\ UNCHANGED <<text, full, command, argument, word, out>>

GrepRead ==
    /\ pc = "grep_read"
    /\ ~ReadFails
    /\ LET buf == Bytes(file, file_pos, BUFSIZE - last)
       IN  /\ cnt' = Len(buf)
           /\ data' = [i \in DOMAIN data |->
                          IF i - last \in DOMAIN buf THEN buf[i - last] ELSE data[i]]
           /\ last' = last + Len(buf)
           /\ file_pos' = file_pos + Len(buf)
    /\ line_start' = 0
    /\ pc' = "grep_line"
    /\ UNCHANGED <<text, full, command, rval, argument, word, entry, file, junk, out>>

\* Where the line that begins at line_start ends.
line_end ==
    CHOOSE k \in line_start .. last :
        /\ k = last \/ At(data, k) = NL
        /\ \A j \in line_start .. (k - 1) : At(data, j) # NL

\* The buffer with the line closed by a NUL.
Closed == [data EXCEPT ![line_end + 1] = NUL]

\* Fault: the last line is not waited for.
Unfinished_Never == FALSE

\* The line may go on in the part of the file that is not read yet.
Unfinished == At(data, line_end) # NL /\ cnt # 0 /\ line_start # 0

\* It is moved to the start of the buffer, up to the first NUL in it.
GrepKeep ==
    /\ pc = "grep_line"
    /\ Unfinished
    /\ LET kept == CString(SubSeq(Closed, line_start + 1, Len(Closed)))
       IN  data' = [i \in DOMAIN data |->
                      IF i <= Len(kept) THEN kept[i]
                      ELSE IF i = Len(kept) + 1 THEN NUL ELSE Closed[i]]
    /\ last' = last - line_start
    /\ pc' = "grep_read"
    /\ UNCHANGED <<text, full, command, rval, argument, word, open_file, line_start, cnt, junk, out>>

\* The search string is found at some place of the line.
Found ==
    \E check \in line_start .. (line_end - 1) :
        /\ At(word, 0) = At(Closed, check)
        /\ \A i \in 0 .. (Len(word) - 1) : At(Closed, check + i) = At(word, i)

GrepSearch ==
    /\ pc = "grep_line"
    /\ ~Unfinished
    /\ data' = Closed
    /\ IF Found
       THEN Say([file |-> file, line |-> CString(SubSeq(Closed, line_start + 1, Len(Closed)))])
       ELSE UNCHANGED out
    /\ \/ /\ line_end + 1 < last
          /\ line_start' = line_end + 1
          /\ UNCHANGED <<pc, last>>
       \/ /\ line_end + 1 >= last
          /\ last' = 0
          /\ pc' = IF cnt = 0 THEN "grep_close" ELSE "grep_read"
          /\ UNCHANGED line_start
    /\ UNCHANGED <<text, full, command, rval, argument, word, open_file, cnt, junk>>

GrepClose ==
    /\ pc = "grep_close"
    /\ pc' = "grep_dir"
    /\ UNCHANGED <<text, full, command, rval, argument, word, open_file, grep, out>>

-----------------------------------------------------------------------------
(***************************************************************************)
(* counter and hello ask for a line.                                       *)
(***************************************************************************)
\* The digits of value that itoa takes off, lowest first.
Digits[value \in Nat] ==
    IF value = 0 THEN <<>> ELSE <<value % 10>> \o Digits[value \div 10]

itoa(value) == IF value = 0 THEN <<0>> ELSE Reverse(Digits[value])

\* What counter makes of its line: how far to count, -1 for a wrong choice.
Choice(buf) ==
    LET n == strlen(buf)
    IN  IF n > 2 \/ (n = 2 /\ At(buf, 0) \notin DOMAIN Count) THEN -1
        ELSE IF At(buf, 0) \in DOMAIN Count THEN Count[At(buf, 0)] ELSE 0

Counter ==
    /\ pc = "counter"
    /\ \E buf \in Answers :
          LET max == Choice(buf)
          IN  out' = IF max = -1 THEN <<"Wrong Choice!">>
                     ELSE [i \in 1 .. max |-> itoa(i)]
    /\ Halts(0)
    /\ UNCHANGED <<text, full, command, argument, word, open_file, grep>>

Hello ==
    /\ pc = "hello"
    /\ \E buf \in Answers : out' = <<"Hello, ", CString(buf)>>
    /\ Halts(0)
    /\ UNCHANGED <<text, full, command, argument, word, open_file, grep>>

Next ==
    \/ Read \/ Execute \/ Report \/ Other \/ Args \/ Failed
    \/ CatOpen \/ CatRead \/ LsOpen \/ LsRead
    \/ GrepOpen \/ GrepDir \/ GrepRead \/ GrepKeep \/ GrepSearch \/ GrepClose
    \/ Counter \/ Hello

Spec == Init /\ [][Next]_vars

-----------------------------------------------------------------------------
(***************************************************************************)
(* Properties.                                                             *)
(***************************************************************************)
\* What was typed before the first Enter; a user who types ahead leaves more.
FirstLine(s) == SubSeq(s, 1, Scan(s, 0, {NL, NUL}))

\* Where the first word of a line begins and ends.
Word(line) ==
    CHOOSE s \in (1 .. Len(line) + 1) \X (0 .. Len(line)) :
        /\ s[1] <= s[2] + 1
        /\ \A k \in 1 .. (s[1] - 1) : line[k] = SP
        /\ \A k \in s[1] .. s[2] : line[k] # SP
        /\ s[1] <= Len(line) => line[s[1]] # SP
        /\ s[2] < Len(line) => line[s[2] + 1] = SP

FirstWord(line) == SubSeq(line, Word(line)[1], Word(line)[2])
Rest(line) == SubSeq(line, Word(line)[2] + 1, Len(line))

\* The line stays within the limits: a word that leaves room for its NUL in
\* exe_name, and arguments that leave room for theirs in args_buf.
Fits(line) == Len(FirstWord(line)) < F_TYPE_OFFSET /\ Len(Rest(line)) < ARG_MAX

\* The programs a user means by a word: the executables of that name.
Meant(w) == {Program[d.inode] : d \in {e \in Range(Dentry) : e.name = w}} \ {"none"}

\* The word names a file of which execute can read the magic number, or none.
Legible(w) == \A d \in Range(Dentry) : d.name = w => ~Unread(d.inode)

\* execute runs the program whose name is the first word of the line, and
\* fails when there is none or no pid is free for it (syscall.c 132-200,
\* filesystem.c 57-91); no local array is overrun, as long as the line fits the
\* arrays.  Of a file too short for a magic number, or in the last inode, this
\* is not said: execute looks at what the stack held.
RunsWhatWasTyped ==
    [][Execute /\ Fits(FirstLine(command)) /\ Legible(FirstWord(FirstLine(command))) =>
          LET meant == Meant(FirstWord(FirstLine(command)))
          IN  IF meant = {} \/ full' THEN pc' = "report" /\ rval' = -1
              ELSE pc' \in meant]_vars

\* What getargs hands to the program is the rest of the line it was started
\* with, from its first other character than a space on; it fails exactly when
\* nothing was typed after the word (syscall.c 158-166, 500-521).
ArgumentIsRest ==
    [][Args /\ Fits(FirstLine(command)) =>
          LET rest == Rest(FirstLine(command))
          IN  IF rest = <<>> THEN pc' = "report"
              ELSE \E n \in 1 .. Len(rest) :
                      /\ rest = [i \in 1 .. n |-> SP] \o word'
                      /\ word' # <<>> => Head(word') # SP]_vars

\* The lines of a text, each from its first character to the one before its
\* newline, by where they begin.
LineStarts(t) == {i \in 1 .. Len(t) : i = 1 \/ t[i - 1] = NL}
LineAt(t, i) == SubSeq(t, i, Scan(t, i - 1, {NL, NUL}))
Holds(line, w) == \E i \in 1 .. (Len(line) - Len(w) + 1) : SubSeq(line, i, i + Len(w) - 1) = w

\* The lines of t that hold w, by where they begin.
Holding(t, w) == {i \in LineStarts(t) : Holds(LineAt(t, i), w)}

\* The output o has of file f the lines of t that begin in S, each once, in
\* order and whole, and no others.
Printed(o, f, t, S) ==
    \E start \in [{j \in DOMAIN o : o[j].file = f} -> S] :
        /\ \A i \in S : \E j \in DOMAIN start : start[j] = i
        /\ \A j, k \in DOMAIN start : j < k => start[j] < start[k]
        /\ \A j \in DOMAIN start : o[j].line = LineAt(t, start[j])

\* What grep works for: a file that is text, with no line longer than the
\* buffer, a search string, and behind the buffer a byte, read before it is
\* set, that is not a newline.
Greppable(t) ==
    /\ Dentry[file].type = "file"
    /\ word # <<>>
    /\ NUL \notin Range(t)
    /\ \A i \in LineStarts(t) : Len(LineAt(t, i)) <= BUFSIZE
    /\ junk # NL

\* When grep closes a file it has printed the lines that hold the search string
\* (ece391grep.c 10-67).
GrepFindsLines ==
    LET t == Contents(Dentry[file].inode)
    IN  pc = "grep_close" /\ Greppable(t) => Printed(out, file, t, Holding(t, word))

\* What cat and ls have written when they end: cat the file, but for one in the
\* last inode, which read_data refuses (filesystem.c 158); ls every name once
\* (ece391cat.c 21-29, ece391ls.c 17-26).
OutputIsRight ==
    [][pc' = "report" =>
          /\ pc = "cat_read" /\ Dentry[file].type = "file" =>
                out' = IF Dentry[file].inode = NumInodes - 1 THEN <<"file read failed">>
                       ELSE Contents(Dentry[file].inode)
          /\ pc = "ls_read" => out' = [i \in DOMAIN Dentry |-> Dentry[i].name]]_vars
=============================================================================
