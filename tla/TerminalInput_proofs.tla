------------------------ MODULE TerminalInput_proofs ------------------------
(***************************************************************************)
(* That lines reach their readers, for any number of terminals, any size   *)
(* of the buffer and any requests, as long as none of the listed races     *)
(* happens and the 8-bit count of keys that did not fit does not wrap.     *)
(***************************************************************************)
EXTENDS TerminalInput, SequenceTheorems, TLAPS

\* No race so far, and not enough keys for key_arr_overflow to wrap.
Calm == ~raced /\ MaxKeys < Size + 255

\* A buffer holds as much of a line as fits and counts the rest; what is behind a
\* NUL may be gone.
Kept(h, l) ==
    /\ h.ptr = MinOf(Len(l), Size - 1)
    /\ h.overflow = Len(l) - h.ptr
    /\ \A c \in 1 .. h.ptr : Whole(l, c) => h.arr[c] = l[c]

\* A reader past the test belongs to the terminal on the screen.
OnScreen == ~raced => Reading \subseteq {current_terminal}

\* A reader that has not begun to copy has nothing yet.
Fresh == \A t \in Terminal :
    reader[t].pc \in {"wait", "seen", "passed"} => reader[t].i = 0 /\ reader[t].buf = <<>>

\* No line is longer than the number of keys hit.
Short == \A t \in Terminal : Len(line[t]) <= keys

Lines == Calm => \A t \in Terminal :
    reader[t].pc \notin {"clear", "wipe"} => Kept(Held(t), line[t])

\* A raised flag is for the terminal on the screen, and a reader that is past
\* the test has taken it.
Raised ==
    Calm => /\ enter_state => entered[current_terminal]
            /\ \A t \in Reading : entered[t]
            /\ Consuming # {} => ~enter_state

\* How far a reader has come with the line.
Copied(t) ==
    /\ Len(reader[t].buf) >= reader[t].i
    /\ reader[t].i <= MinOf(MinOf(Len(line[t]), Size - 1), reader[t].n)
    /\ \A j \in 1 .. reader[t].i : Whole(line[t], j) => reader[t].buf[j] = line[t][j]

Copies ==
    Calm => \A t \in Consuming :
        /\ Copied(t)
        /\ reader[t].pc = "copy" => Len(reader[t].buf) = reader[t].i
        /\ reader[t].pc \in {"clear", "wipe"} =>
              /\ key_arr_ptr = 0
              /\ reader[t].i = MinOf(MinOf(Len(line[t]), Size - 1), reader[t].n)
        /\ reader[t].pc = "wipe" => key_arr_overflow = 0

IInv == TypeOK /\ OnScreen /\ Fresh /\ Short /\ Lines /\ Raised /\ Copies

USE FirstAssumption, SizeAssumption, NBytesAssumption, BoundAssumption, NulAssumption

LEMMA Buffers == Empty \in [Cells -> Cell] /\ Size \in Nat /\ Size >= 2
  BY DEF Empty, Cells, Cell

LEMMA InitHolds == Init => IInv
  <1> SUFFICES ASSUME Init PROVE IInv
    OBVIOUS
  <1>1. \A t \in Terminal : reader[t] = [pc |-> "busy", i |-> 0, n |-> 0, buf |-> <<>>]
    BY DEF Init
  <1>2. [pc |-> "busy", i |-> 0, n |-> 0, buf |-> <<>>] \in Reader
    BY DEF Reader
  <1>3. TypeOK
    <2>1. reader \in [Terminal -> Reader]
      BY <1>2 DEF Init
    <2>2. terminal_info \in [Terminal -> [arr : [Cells -> Cell], ptr : 0 .. (Size - 1),
                                          overflow : 0 .. 255]]
      BY Buffers DEF Init
    <2>3. line \in [Terminal -> Seq(Cell)] /\ entered \in [Terminal -> BOOLEAN]
      BY DEF Init
    <2>4. /\ current_terminal \in Terminal /\ key_arr \in [Cells -> Cell]
          /\ key_arr_ptr \in 0 .. (Size - 1) /\ key_arr_overflow \in 0 .. 255
      BY Buffers DEF Init
    <2>5. keys \in 0 .. MaxKeys /\ erased \in 0 .. MaxErase
      BY DEF Init
    <2>6. enter_state \in BOOLEAN /\ raced \in BOOLEAN
      BY Zenon DEF Init
    <2> QED BY <2>1, <2>2, <2>3, <2>4, <2>5, <2>6 DEF TypeOK
  <1>4. Reading = {} /\ Consuming = {}
    BY <1>1 DEF Reading, Consuming
  <1>5. OnScreen /\ Fresh /\ Raised /\ Copies
    BY <1>1, <1>4 DEF Init, OnScreen, Fresh, Raised, Copies
  <1>6. Short /\ Lines
    BY DEF Init, Short, Lines, Kept, Held, MinOf
  <1> QED BY <1>3, <1>5, <1>6 DEF IInv

\* strncpy keeps what it reaches: up to the first '\0' of a line, and that.
LEMMA CopyKeeps ==
    ASSUME NEW arr \in [Cells -> Cell], NEW l \in Seq(Cell), NEW ptr \in 0 .. (Size - 1),
           NEW over \in 0 .. 255, Kept([arr |-> arr, ptr |-> ptr, overflow |-> over], l)
    PROVE  /\ strncpy(arr) \in [Cells -> Cell]
           /\ Kept([arr |-> strncpy(arr), ptr |-> ptr, overflow |-> over], l)
  <1>1. strncpy(arr) \in [Cells -> Cell]
    BY DEF strncpy, Cell
  <1>2. /\ ptr = MinOf(Len(l), Size - 1) /\ over = Len(l) - ptr
        /\ \A c \in 1 .. ptr : Whole(l, c) => arr[c] = l[c]
    BY DEF Kept
  <1>3. ASSUME NEW c \in 1 .. ptr, Whole(l, c) PROVE strncpy(arr)[c] = l[c]
    <2>1. \A j \in 1 .. (c - 1) : l[j] # NUL
      BY <1>3 DEF Whole
    <2>2. \A j \in 1 .. c : j \in 1 .. ptr /\ \A i \in 1 .. (j - 1) : i \in 1 .. (c - 1)
      OBVIOUS
    <2>3. \A j \in 1 .. c : Whole(l, j)
      BY <2>1, <2>2 DEF Whole
    <2>4. \A j \in 1 .. c : arr[j] = l[j]
      BY <1>2, <2>2, <2>3
    <2>5. c \in Cells /\ c \in 1 .. c /\ \A j \in 1 .. c : j = c \/ j \in 1 .. (c - 1)
      BY DEF Cells
    <2>6. strncpy(arr)[c] = IF \E b \in 1 .. c : arr[b] = NUL THEN NUL ELSE arr[c]
      BY <2>5 DEF strncpy
    <2> QED BY <2>1, <2>4, <2>5, <2>6
  <1> QED BY <1>1, <1>2, <1>3 DEF Kept

\* The buffer on the screen, as a record.
Shown == [arr |-> key_arr, ptr |-> key_arr_ptr, overflow |-> key_arr_overflow]

BufferOK ==
    /\ key_arr \in [Cells -> Cell]
    /\ key_arr_ptr \in 0 .. (Size - 1)
    /\ key_arr_overflow \in 0 .. 255

LEMMA PushTypes ==
    ASSUME BufferOK, NEW k \in Cell, key_arr_push(k) PROVE BufferOK'
  <1>1. CASE key_arr_ptr < Size - 1
    BY <1>1 DEF key_arr_push, BufferOK, Cell
  <1>2. CASE ~(key_arr_ptr < Size - 1)
    BY <1>2 DEF key_arr_push, BufferOK
  <1> QED BY <1>1, <1>2

LEMMA PushKeeps ==
    ASSUME BufferOK, NEW k \in Cell, key_arr_push(k), NEW l \in Seq(Cell), Kept(Shown, l),
           Len(l) + 1 < Size + 255
    PROVE  Kept(Shown', Append(l, k))
  <1>1. /\ key_arr_ptr = MinOf(Len(l), Size - 1)
        /\ key_arr_overflow = Len(l) - key_arr_ptr
        /\ \A c \in 1 .. key_arr_ptr : Whole(l, c) => key_arr[c] = l[c]
    BY DEF Kept, Shown
  <1>2. /\ Len(Append(l, k)) = Len(l) + 1 /\ Len(l) \in Nat
        /\ Append(l, k)[Len(l) + 1] = k
        /\ \A c \in 1 .. Len(l) : Append(l, k)[c] = l[c]
    OBVIOUS
  <1> DEFINE m == Append(l, k)
  <1> HIDE DEF m
  <1>5. \A c \in 1 .. Len(l) : Whole(m, c) <=> Whole(l, c)
    BY <1>2 DEF Whole, m
  <1>3. CASE key_arr_ptr < Size - 1
    <2>1. key_arr_ptr = Len(l)
      BY <1>1, <1>2, <1>3 DEF MinOf
    <2>2. /\ key_arr' = [key_arr EXCEPT ![key_arr_ptr + 1] = k]
          /\ key_arr_ptr' = key_arr_ptr + 1 /\ key_arr_overflow' = key_arr_overflow
      BY <1>3 DEF key_arr_push
    <2>3. key_arr_ptr + 1 \in Cells
      BY <1>2, <1>3, <2>1 DEF Cells
    <2>4. key_arr'[key_arr_ptr + 1] = k /\ \A c \in 1 .. key_arr_ptr : key_arr'[c] = key_arr[c]
      BY <1>2, <2>1, <2>2, <2>3, <1>3 DEF BufferOK, Cells
    <2>5. key_arr_ptr' = MinOf(Len(Append(l, k)), Size - 1)
      BY <1>2, <1>3, <2>1, <2>2 DEF MinOf
    <2>6. \A c \in 1 .. key_arr_ptr' : Whole(m, c) => key_arr'[c] = m[c]
      BY <1>1, <1>2, <1>5, <2>1, <2>2, <2>4 DEF m
    <2> QED BY <1>1, <1>2, <2>1, <2>2, <2>5, <2>6 DEF Kept, Shown, m
  <1>4. CASE ~(key_arr_ptr < Size - 1)
    <2>1. /\ key_arr_ptr = Size - 1 /\ Len(l) >= Size - 1
          /\ key_arr' = key_arr /\ key_arr_ptr' = key_arr_ptr
      BY <1>1, <1>2, <1>4 DEF MinOf, key_arr_push
    <2>2. key_arr_overflow + 1 <= 255
      BY <1>1, <1>2, <2>1
    <2>3. key_arr_overflow' = key_arr_overflow + 1
      BY <1>4, <2>2 DEF key_arr_push, BufferOK
    <2>4. key_arr_ptr' = MinOf(Len(Append(l, k)), Size - 1)
      BY <1>2, <2>1 DEF MinOf
    <2>5. \A c \in 1 .. key_arr_ptr' : Whole(m, c) => key_arr'[c] = m[c]
      BY <1>1, <1>2, <1>5, <2>1 DEF m
    <2> QED BY <1>1, <1>2, <2>1, <2>3, <2>4, <2>5 DEF Kept, Shown, m
  <1> QED BY <1>3, <1>4

LEMMA PopTypes == ASSUME BufferOK, key_arr_pop PROVE BufferOK'
  BY DEF BufferOK, key_arr_pop

\* A line without its last key.
LEMMA Shorter ==
    ASSUME NEW S, NEW l \in Seq(S), l # <<>>
    PROVE  /\ Front(l) \in Seq(S) /\ Len(Front(l)) = Len(l) - 1 /\ Len(l) \in Nat \ {0}
           /\ \A c \in 1 .. (Len(l) - 1) : Front(l)[c] = l[c]
  <1> DEFINE k == Len(l) - 1
             r == SubSeq(l, 1, k)
  <1>1. Len(l) \in Nat \ {0} /\ k \in Nat /\ \A i \in 1 .. k : l[i] \in S
    OBVIOUS
  <1> HIDE DEF k
  <1>2. /\ r \in Seq(S) /\ Len(r) = IF 1 <= k THEN k - 1 + 1 ELSE 0
        /\ \A i \in 1 .. k - 1 + 1 : r[i] = l[1 + i - 1]
    BY <1>1, SubSeqProperties
  <1> HIDE DEF r
  <1>3. Len(r) = k /\ \A i \in 1 .. k : r[i] = l[i]
    BY <1>1, <1>2
  <1>4. Front(l) = r
    BY DEF Front, r, k
  <1> QED BY <1>1, <1>2, <1>3, <1>4 DEF k

LEMMA PopKeeps ==
    ASSUME BufferOK, key_arr_pop, NEW l \in Seq(Cell), Kept(Shown, l)
    PROVE  Kept(Shown', IF l = <<>> THEN l ELSE Front(l))
  <1>1. /\ key_arr_ptr = MinOf(Len(l), Size - 1)
        /\ key_arr_overflow = Len(l) - key_arr_ptr
        /\ \A c \in 1 .. key_arr_ptr : Whole(l, c) => key_arr[c] = l[c]
        /\ key_arr' = key_arr /\ Len(l) \in Nat
    BY DEF Kept, Shown, key_arr_pop
  <1>2. CASE l = <<>>
    <2>1. key_arr_ptr = 0 /\ key_arr_overflow = 0
      BY <1>1, <1>2 DEF MinOf
    <2>2. key_arr_ptr' = 0 /\ key_arr_overflow' = 0
      BY <2>1 DEF key_arr_pop
    <2> QED BY <1>1, <1>2, <2>2 DEF Kept, Shown, MinOf
  <1>3. CASE l # <<>>
    <2>1. /\ Len(Front(l)) = Len(l) - 1 /\ Len(l) >= 1
          /\ \A c \in 1 .. (Len(l) - 1) : Front(l)[c] = l[c]
      BY <1>3, Shorter
    <2> DEFINE m == Front(l)
    <2> HIDE DEF m
    <2>4. \A c \in 1 .. (Len(l) - 1) : Whole(m, c) <=> Whole(l, c)
      BY <1>1, <2>1 DEF Whole, m
    <2>2. CASE key_arr_overflow > 0
      <3>1. key_arr_ptr = Size - 1 /\ Len(l) > Size - 1
        BY <1>1, <2>2 DEF MinOf, BufferOK
      <3>2. key_arr_overflow' = key_arr_overflow - 1 /\ key_arr_ptr' = key_arr_ptr
        BY <2>2 DEF key_arr_pop, BufferOK
      <3>3. key_arr_ptr' = MinOf(Len(Front(l)), Size - 1)
        BY <1>1, <2>1, <3>1, <3>2 DEF MinOf
      <3>4. \A c \in 1 .. key_arr_ptr' : Whole(m, c) => key_arr'[c] = m[c]
        BY <1>1, <2>1, <2>4, <3>1, <3>2 DEF m
      <3> QED BY <1>1, <1>3, <2>1, <3>2, <3>3, <3>4 DEF Kept, Shown, BufferOK, m
    <2>3. CASE key_arr_overflow = 0
      <3>1. key_arr_ptr = Len(l) /\ Len(l) <= Size - 1
        BY <1>1, <2>3 DEF MinOf, BufferOK
      <3>2. key_arr_overflow' = 0 /\ key_arr_ptr' = key_arr_ptr - 1
        BY <2>1, <2>3, <3>1 DEF key_arr_pop
      <3>3. key_arr_ptr' = MinOf(Len(Front(l)), Size - 1)
        BY <1>1, <2>1, <3>1, <3>2 DEF MinOf
      <3>4. \A c \in 1 .. key_arr_ptr' : Whole(m, c) => key_arr'[c] = m[c]
        BY <1>1, <2>1, <2>4, <3>1, <3>2 DEF m
      <3> QED BY <1>1, <1>3, <2>1, <3>1, <3>2, <3>3, <3>4 DEF Kept, Shown, m
    <2> QED BY <2>2, <2>3 DEF BufferOK
  <1> QED BY <1>2, <1>3
\* A key on the terminal on the screen: what the two printable cases share.
LEMMA KeyKeeps ==
    ASSUME IInv, NEW k \in Cell, keys < MaxKeys, keys' = keys + 1, key_arr_push(k),
           line' = [line EXCEPT ![current_terminal] = Append(@, k)],
           raced' = (raced \/ Consuming # {}),
           UNCHANGED <<current_terminal, terminal_info, reader, erased>>
    PROVE  /\ OnScreen' /\ Fresh' /\ Short' /\ Lines' /\ Copies' /\ BufferOK'
           /\ keys' \in 0 .. MaxKeys /\ line' \in [Terminal -> Seq(Cell)]
           /\ raced' \in BOOLEAN /\ (~raced' => ~raced /\ Consuming = {})
           /\ Reading' = Reading /\ Consuming' = Consuming
  <1>1. BufferOK /\ current_terminal \in Terminal /\ line \in [Terminal -> Seq(Cell)]
        /\ keys \in 0 .. MaxKeys /\ raced \in BOOLEAN
    BY DEF IInv, TypeOK, BufferOK
  <1>2. raced' \in BOOLEAN /\ (~raced' => ~raced /\ Consuming = {})
    BY <1>1, Zenon
  <1>3. Reading' = Reading /\ Consuming' = Consuming
    BY DEF Reading, Consuming
  <1>4. BufferOK'
    BY <1>1, PushTypes
  <1>5. keys' \in 0 .. MaxKeys
    BY <1>1
  <1>6. line' \in [Terminal -> Seq(Cell)]
    BY <1>1
  <1>7. OnScreen' /\ Fresh'
    BY <1>2, <1>3 DEF IInv, OnScreen, Fresh
  <1>8. /\ line'[current_terminal] = Append(line[current_terminal], k)
        /\ \A t \in Terminal \ {current_terminal} : line'[t] = line[t]
    BY <1>1
  <1>9. \A t \in Terminal : Len(line[t]) <= keys /\ Len(line[t]) \in Nat
    BY <1>1 DEF IInv, Short
  <1>10. Len(Append(line[current_terminal], k)) = Len(line[current_terminal]) + 1
    BY <1>1
  <1>11. Short'
    BY <1>1, <1>8, <1>9, <1>10 DEF Short
  <1>12. Copies'
    BY <1>2, <1>3 DEF Copies, Calm
  <1>13. ASSUME Calm' PROVE Lines'
    <2>1. Calm /\ Consuming = {}
      BY <1>2, <1>13 DEF Calm
    <2>2. \A t \in Terminal : reader[t].pc \notin {"clear", "wipe"}
      BY <2>1 DEF Consuming
    <2>3. \A t \in Terminal : Kept(Held(t), line[t])
      BY <2>1, <2>2 DEF IInv, Lines
    <2>4. Kept(Shown, line[current_terminal])
      BY <1>1, <2>3 DEF Held, Shown
    <2>5. Len(line[current_terminal]) + 1 < Size + 255
      BY <1>1, <1>9, <2>1 DEF Calm
    <2>6. Kept(Shown', Append(line[current_terminal], k))
      BY <1>1, <2>4, <2>5, PushKeeps
    <2>7. \A t \in Terminal : Held(t)' = IF t = current_terminal THEN Shown' ELSE Held(t)
      BY DEF Held, Shown
    <2> QED BY <1>8, <2>3, <2>6, <2>7 DEF Lines
  <1> QED BY <1>2, <1>3, <1>4, <1>5, <1>6, <1>7, <1>11, <1>12, <1>13 DEF Lines

LEMMA PressKeyKeeps == ASSUME IInv, NEW k \in Typed, PressKey(k) PROVE IInv'
  <1>1. k \in Cell
    <2>1. [on |-> current_terminal, enter |-> FALSE] \in Key
      BY DEF Key, IInv, TypeOK
    <2> QED BY <2>1, Zenon DEF Typed, Cell
  <1>2. /\ keys < MaxKeys /\ keys' = keys + 1 /\ key_arr_push(k)
        /\ line' = [line EXCEPT ![current_terminal] = Append(@, k)]
        /\ raced' = (raced \/ Consuming # {})
        /\ UNCHANGED <<current_terminal, terminal_info, reader, erased>>
        /\ UNCHANGED <<enter_state, entered>>
    BY DEF PressKey
  <1>3. /\ OnScreen' /\ Fresh' /\ Short' /\ Lines' /\ Copies' /\ BufferOK'
        /\ keys' \in 0 .. MaxKeys /\ line' \in [Terminal -> Seq(Cell)]
        /\ raced' \in BOOLEAN /\ (~raced' => ~raced /\ Consuming = {})
        /\ Reading' = Reading /\ Consuming' = Consuming
    BY <1>1, <1>2, KeyKeeps
  <1>4. TypeOK'
    BY <1>2, <1>3 DEF IInv, TypeOK, BufferOK
  <1>5. Raised'
    BY <1>2, <1>3 DEF IInv, Raised, Calm
  <1> QED BY <1>3, <1>4, <1>5 DEF IInv

LEMMA PressEnterKeeps == ASSUME IInv, PressEnter PROVE IInv'
  <1> DEFINE k == [on |-> current_terminal, enter |-> TRUE]
  <1>1. k \in Cell
    BY DEF Key, Cell, IInv, TypeOK
  <1>2. /\ keys < MaxKeys /\ keys' = keys + 1 /\ key_arr_push(k)
        /\ line' = [line EXCEPT ![current_terminal] = Append(@, k)]
        /\ raced' = (raced \/ Consuming # {})
        /\ UNCHANGED <<current_terminal, terminal_info, reader, erased>>
        /\ enter_state' = TRUE
        /\ entered' = [entered EXCEPT ![current_terminal] = TRUE]
    BY DEF PressEnter
  <1> HIDE DEF k
  <1>3. /\ OnScreen' /\ Fresh' /\ Short' /\ Lines' /\ Copies' /\ BufferOK'
        /\ keys' \in 0 .. MaxKeys /\ line' \in [Terminal -> Seq(Cell)]
        /\ raced' \in BOOLEAN /\ (~raced' => ~raced /\ Consuming = {})
        /\ Reading' = Reading /\ Consuming' = Consuming
    BY <1>1, <1>2, KeyKeeps
  <1>4. TypeOK'
    BY <1>2, <1>3 DEF IInv, TypeOK, BufferOK
  <1>5. Raised'
    <2>1. /\ entered'[current_terminal] = TRUE
          /\ \A t \in Terminal : entered[t] => entered'[t]
      BY <1>2 DEF IInv, TypeOK
    <2>2. Reading \subseteq Terminal
      BY DEF Reading
    <2> QED BY <1>2, <1>3, <2>1, <2>2 DEF IInv, Raised, Calm
  <1> QED BY <1>3, <1>4, <1>5 DEF IInv

LEMMA BackspaceKeeps == ASSUME IInv, PressBackspace PROVE IInv'
  <1>1. BufferOK /\ current_terminal \in Terminal /\ line \in [Terminal -> Seq(Cell)]
        /\ keys \in 0 .. MaxKeys /\ raced \in BOOLEAN /\ erased \in 0 .. MaxErase
    BY DEF IInv, TypeOK, BufferOK
  <1>2. /\ key_arr_pop /\ erased' = erased + 1 /\ erased < MaxErase
        /\ raced' = (raced \/ Consuming # {})
        /\ UNCHANGED <<current_terminal, enter_state, terminal_info, reader, keys, entered>>
    BY DEF PressBackspace
  <1> DEFINE old == line[current_terminal]
             new == IF old = <<>> THEN old ELSE Front(old)
  <1>3. old \in Seq(Cell) /\ new \in Seq(Cell) /\ Len(new) <= Len(old)
    BY <1>1, Shorter
  <1>4. /\ line' = [line EXCEPT ![current_terminal] = new]
    BY <1>1 DEF PressBackspace
  <1> HIDE DEF new
  <1>5. /\ line' \in [Terminal -> Seq(Cell)] /\ line'[current_terminal] = new
        /\ \A t \in Terminal \ {current_terminal} : line'[t] = line[t]
    BY <1>1, <1>3, <1>4
  <1>6. raced' \in BOOLEAN /\ (~raced' => ~raced /\ Consuming = {})
    BY <1>1, <1>2, Zenon
  <1>7. Reading' = Reading /\ Consuming' = Consuming
    BY <1>2 DEF Reading, Consuming
  <1>8. BufferOK'
    BY <1>1, <1>2, PopTypes
  <1>9. TypeOK'
    BY <1>1, <1>2, <1>5, <1>6, <1>8 DEF IInv, TypeOK, BufferOK
  <1>10. OnScreen' /\ Fresh' /\ Raised' /\ Copies'
    BY <1>2, <1>6, <1>7 DEF IInv, OnScreen, Fresh, Raised, Copies, Calm
  <1>11. Short'
    <2>1. \A t \in Terminal : Len(line[t]) \in Nat /\ Len(line[t]) <= keys
      BY <1>1 DEF IInv, Short
    <2>2. \A t \in Terminal : Len(line'[t]) \in Nat /\ Len(line'[t]) <= Len(line[t])
      <3>1. Len(line'[current_terminal]) <= Len(line[current_terminal])
        BY <1>3, <1>5
      <3>2. \A t \in Terminal : Len(line'[t]) \in Nat
        BY <1>5
      <3> QED BY <1>5, <2>1, <3>1, <3>2
    <2> QED BY <1>1, <1>2, <2>1, <2>2 DEF Short
  <1>12. ASSUME Calm' PROVE Lines'
    <2>1. Calm /\ Consuming = {}
      BY <1>6, <1>12 DEF Calm
    <2>2. \A t \in Terminal : reader[t].pc \notin {"clear", "wipe"}
      BY <2>1 DEF Consuming
    <2>3. \A t \in Terminal : Kept(Held(t), line[t])
      BY <2>1, <2>2 DEF IInv, Lines
    <2>4. Kept(Shown, old)
      BY <1>1, <2>3 DEF Held, Shown
    <2>5. Kept(Shown', new)
      BY <1>1, <1>2, <1>3, <2>4, PopKeeps DEF new
    <2>6. \A t \in Terminal : Held(t)' = IF t = current_terminal THEN Shown' ELSE Held(t)
      BY <1>2 DEF Held, Shown
    <2> QED BY <1>5, <2>3, <2>5, <2>6 DEF Lines
  <1> QED BY <1>9, <1>10, <1>11, <1>12 DEF IInv, Lines
\* The switch exchanges two buffers.
LEMMA SwitchKeeps ==
    ASSUME IInv, NEW u \in Terminal, switch_to_terminal(u) PROVE IInv'
  <1> DEFINE c == current_terminal
             info == [arr : [Cells -> Cell], ptr : 0 .. (Size - 1), overflow : 0 .. 255]
             gone == [arr |-> strncpy(key_arr), ptr |-> key_arr_ptr,
                      overflow |-> key_arr_overflow]
             come == [arr |-> strncpy(terminal_info[u].arr), ptr |-> terminal_info[u].ptr,
                      overflow |-> terminal_info[u].overflow]
  <1>1. /\ u # c /\ current_terminal' = u
        /\ terminal_info' = [terminal_info EXCEPT ![c] = gone]
        /\ Shown' = come
        /\ raced' = (raced \/ Reading # {} \/ enter_state)
        /\ UNCHANGED <<enter_state, reader, keys, erased, line, entered>>
    BY DEF switch_to_terminal, Shown
  <1>2. /\ c \in Terminal /\ BufferOK /\ terminal_info \in [Terminal -> info]
        /\ raced \in BOOLEAN /\ enter_state \in BOOLEAN /\ line \in [Terminal -> Seq(Cell)]
    BY DEF IInv, TypeOK, BufferOK
  <1>3. raced' \in BOOLEAN /\ (~raced' => ~raced /\ Reading = {} /\ ~enter_state)
    BY <1>1, <1>2, Zenon
  <1>4. Reading' = Reading /\ Consuming' = Consuming /\ Consuming \subseteq Reading
    BY <1>1 DEF Reading, Consuming
  <1>5. \A a \in [Cells -> Cell] : strncpy(a) \in [Cells -> Cell]
    BY DEF strncpy, Cell
  <1>6. gone \in info /\ come \in info
    BY <1>2, <1>5 DEF BufferOK
  <1>7. /\ terminal_info' \in [Terminal -> info] /\ terminal_info'[c] = gone
        /\ \A t \in Terminal \ {c} : terminal_info'[t] = terminal_info[t]
    BY <1>1, <1>2, <1>6
  <1>8. BufferOK'
    BY <1>1, <1>6 DEF Shown, BufferOK
  <1>9. TypeOK'
    BY <1>1, <1>3, <1>7, <1>8 DEF IInv, TypeOK, BufferOK
  <1>10. OnScreen' /\ Fresh' /\ Short'
    BY <1>1, <1>3, <1>4 DEF IInv, OnScreen, Fresh, Short
  <1>11. Raised' /\ Copies'
    BY <1>1, <1>3, <1>4 DEF Raised, Copies, Calm
  <1>12. ASSUME Calm' PROVE Lines'
    <2>1. Calm /\ Consuming = {}
      BY <1>3, <1>4, <1>12 DEF Calm
    <2>2. \A t \in Terminal : reader[t].pc \notin {"clear", "wipe"}
      BY <2>1 DEF Consuming
    <2>3. \A t \in Terminal : Kept(Held(t), line[t])
      BY <2>1, <2>2 DEF IInv, Lines
    <2>4. Kept(gone, line[c])
      <3>1. Kept([arr |-> key_arr, ptr |-> key_arr_ptr, overflow |-> key_arr_overflow], line[c])
        BY <1>2, <2>3 DEF Held
      <3> QED BY <1>2, <3>1, CopyKeeps DEF BufferOK
    <2>5. Kept(come, line[u])
      <3>1. terminal_info[u] \in info
        BY <1>2
      <3>2. Kept(terminal_info[u], line[u])
        BY <1>1, <2>3 DEF Held
      <3>3. Kept([arr |-> terminal_info[u].arr, ptr |-> terminal_info[u].ptr,
                  overflow |-> terminal_info[u].overflow], line[u])
        BY <3>2 DEF Kept
      <3> QED BY <1>2, <3>1, <3>3, CopyKeeps
    <2> HIDE DEF gone, come, info
    <2>6. \A t \in Terminal : Held(t)' = IF t = u THEN come ELSE terminal_info'[t]
      BY <1>1 DEF Held, Shown
    <2>7. \A t \in Terminal \ {c, u} : Kept(terminal_info[t], line[t])
      BY <2>3 DEF Held
    <2>8. \A t \in Terminal : Kept(Held(t)', line[t])
      BY <1>1, <1>7, <2>4, <2>5, <2>6, <2>7
    <2> QED BY <1>1, <2>8 DEF Lines
  <1> QED BY <1>9, <1>10, <1>11, <1>12 DEF IInv, Lines
-----------------------------------------------------------------------------
(***************************************************************************)
(* The steps of terminal_read.                                             *)
(***************************************************************************)
LEMMA ReaderTypes ==
    ASSUME NEW r \in Reader
    PROVE  r.i \in 0 .. (Size - 1) /\ r.i \in Nat /\ r.n \in Nat /\ r.buf \in Seq(Cell)
  <1>1. r.i \in 0 .. (Size - 1) /\ r.n \in NBytes \cup {0} /\ r.buf \in Seq(Cell)
    BY DEF Reader
  <1>2. r.n \in Nat
    <2>1. ASSUME r.n \in NBytes PROVE r.n \in Nat
      BY <2>1, Zenon
    <2>2. 0 \in Nat
      OBVIOUS
    <2> QED BY <1>1, <2>1, <2>2, Zenon
  <1>3. \A i \in 0 .. (Size - 1) : i \in Nat
    OBVIOUS
  <1> QED BY <1>1, <1>2, <1>3

\* One reader moves to pc and nothing else of it changes.
LEMMA Moves ==
    ASSUME TypeOK, NEW t \in Terminal,
           NEW pc \in {"busy", "wait", "seen", "passed", "copy", "clear", "wipe"},
           Goto(t, pc)
    PROVE  /\ reader' \in [Terminal -> Reader] /\ reader'[t].pc = pc
           /\ \A u \in Terminal : /\ reader'[u].i = reader[u].i
                                  /\ reader'[u].n = reader[u].n
                                  /\ reader'[u].buf = reader[u].buf
                                  /\ u # t => reader'[u] = reader[u]
  <1>1. reader' = [reader EXCEPT ![t].pc = pc] /\ reader \in [Terminal -> Reader]
    BY DEF Goto, TypeOK
  <1> DEFINE r == [reader[t] EXCEPT !.pc = pc]
  <1>2. reader[t] \in Reader
    BY <1>1
  <1>3. /\ r \in Reader /\ r.pc = pc /\ r.i = reader[t].i /\ r.n = reader[t].n
        /\ r.buf = reader[t].buf
    BY <1>2 DEF Reader
  <1>4. reader' = [reader EXCEPT ![t] = r]
    BY <1>1
  <1> HIDE DEF r
  <1>5. /\ reader' \in [Terminal -> Reader] /\ reader'[t] = r
        /\ \A u \in Terminal \ {t} : reader'[u] = reader[u]
    BY <1>1, <1>3, <1>4
  <1> QED BY <1>3, <1>5

LEMMA CallKeeps ==
    ASSUME IInv, NEW t \in Terminal, NEW n \in NBytes, ReadCall(t, n) PROVE IInv'
  <1> DEFINE r == [pc |-> "wait", i |-> 0, n |-> n, buf |-> <<>>]
  <1>1. r \in Reader /\ r.pc = "wait" /\ r.i = 0 /\ r.buf = <<>>
    BY DEF Reader
  <1>2. /\ reader[t].pc = "busy" /\ reader' = [reader EXCEPT ![t] = r]
        /\ UNCHANGED <<current_terminal, key_arr, key_arr_ptr, key_arr_overflow, enter_state,
                       terminal_info, keys, erased, line, entered, raced>>
    BY DEF ReadCall, buffer
  <1> HIDE DEF r
  <1>3. /\ reader' \in [Terminal -> Reader] /\ reader'[t] = r
        /\ \A u \in Terminal \ {t} : reader'[u] = reader[u]
    BY <1>1, <1>2 DEF IInv, TypeOK
  <1>4. TypeOK'
    BY <1>2, <1>3 DEF IInv, TypeOK
  <1>5. Reading' = Reading /\ Consuming' = Consuming /\ t \notin Reading /\ t \notin Consuming
    BY <1>1, <1>2, <1>3 DEF Reading, Consuming
  <1>6. OnScreen' /\ Fresh' /\ Short' /\ Raised'
    BY <1>1, <1>2, <1>3, <1>5 DEF IInv, OnScreen, Fresh, Short, Raised, Calm
  <1>7. Lines'
    BY <1>1, <1>2, <1>3 DEF IInv, Lines, Calm, Held
  <1>8. Copies'
    <2>1. \A u \in Consuming : u \in Terminal /\ reader'[u] = reader[u]
      BY <1>3, <1>5 DEF Consuming
    <2> QED BY <1>2, <1>5, <2>1 DEF IInv, Copies, Copied, Calm
  <1> QED BY <1>4, <1>6, <1>7, <1>8 DEF IInv

LEMMA SeesKeeps == ASSUME IInv, NEW t \in Terminal, ReadSeesEnter(t) PROVE IInv'
  <1>1. /\ reader[t].pc = "wait" /\ Goto(t, "seen")
        /\ UNCHANGED <<current_terminal, key_arr, key_arr_ptr, key_arr_overflow, enter_state,
                       terminal_info, keys, erased, line, entered, raced>>
    BY DEF ReadSeesEnter, buffer
  <1>2. /\ reader' \in [Terminal -> Reader] /\ reader'[t].pc = "seen"
        /\ \A u \in Terminal : /\ reader'[u].i = reader[u].i
                               /\ reader'[u].n = reader[u].n
                               /\ reader'[u].buf = reader[u].buf
                               /\ u # t => reader'[u] = reader[u]
    BY <1>1, Moves DEF IInv
  <1>3. TypeOK'
    BY <1>1, <1>2 DEF IInv, TypeOK
  <1>4. Reading' = Reading /\ Consuming' = Consuming
    BY <1>1, <1>2 DEF Reading, Consuming
  <1>5. OnScreen' /\ Fresh' /\ Short' /\ Raised'
    BY <1>1, <1>2, <1>4 DEF IInv, OnScreen, Fresh, Short, Raised, Calm
  <1>6. Lines'
    BY <1>1, <1>2 DEF IInv, Lines, Calm, Held
  <1>7. Copies'
    <2>1. \A u \in Consuming : u \in Terminal /\ reader'[u] = reader[u]
      BY <1>1, <1>2 DEF Consuming
    <2> QED BY <1>1, <1>4, <2>1 DEF IInv, Copies, Copied, Calm
  <1> QED BY <1>3, <1>5, <1>6, <1>7 DEF IInv

LEMMA TestsKeeps == ASSUME IInv, NEW t \in Terminal, ReadTestsTerminal(t) PROVE IInv'
  <1>1. /\ reader[t].pc = "seen"
        /\ raced' = (raced \/ (t = current_terminal /\ ~enter_state))
        /\ UNCHANGED <<current_terminal, key_arr, key_arr_ptr, key_arr_overflow, enter_state,
                       terminal_info, keys, erased, line, entered>>
    BY DEF ReadTestsTerminal, buffer
  <1>2. PICK pc \in {"passed", "wait"} :
           Goto(t, pc) /\ (pc = "passed" <=> t = current_terminal)
    BY DEF ReadTestsTerminal
  <1>3. /\ reader' \in [Terminal -> Reader] /\ reader'[t].pc = pc
        /\ \A u \in Terminal : /\ reader'[u].i = reader[u].i
                               /\ reader'[u].n = reader[u].n
                               /\ reader'[u].buf = reader[u].buf
                               /\ u # t => reader'[u] = reader[u]
    BY <1>2, Moves DEF IInv
  <1>4. raced' \in BOOLEAN /\ (~raced' => ~raced)
        /\ (~raced' /\ t = current_terminal => enter_state)
    <2>1. raced \in BOOLEAN /\ enter_state \in BOOLEAN
      BY DEF IInv, TypeOK
    <2> QED BY <1>1, <2>1, Zenon
  <1>5. TypeOK'
    BY <1>1, <1>3, <1>4 DEF IInv, TypeOK
  <1>6. /\ Consuming' = Consuming /\ t \notin Consuming /\ Reading \subseteq Terminal
        /\ Reading' = IF t = current_terminal THEN Reading \cup {t} ELSE Reading
    BY <1>1, <1>2, <1>3 DEF Reading, Consuming
  <1>7. OnScreen' /\ Fresh' /\ Short'
    BY <1>1, <1>2, <1>3, <1>4, <1>6 DEF IInv, OnScreen, Fresh, Short
  <1>8. Raised'
    BY <1>1, <1>4, <1>6 DEF IInv, Raised, Calm
  <1>9. Lines'
    BY <1>1, <1>2, <1>3, <1>4 DEF IInv, Lines, Calm, Held
  <1>10. Copies'
    <2>1. \A u \in Consuming : u \in Terminal /\ reader'[u] = reader[u]
      BY <1>3, <1>6 DEF Consuming
    <2> QED BY <1>1, <1>4, <1>6, <2>1 DEF IInv, Copies, Copied, Calm
  <1> QED BY <1>5, <1>7, <1>8, <1>9, <1>10 DEF IInv
LEMMA TakesKeeps == ASSUME IInv, NEW t \in Terminal, ReadTakesEnter(t) PROVE IInv'
  <1>1. /\ reader[t].pc = "passed" /\ Goto(t, "copy") /\ enter_state' = FALSE
        /\ UNCHANGED <<current_terminal, key_arr, key_arr_ptr, key_arr_overflow,
                       terminal_info, keys, erased, line, entered, raced>>
    BY DEF ReadTakesEnter, buffer
  <1>2. /\ reader' \in [Terminal -> Reader] /\ reader'[t].pc = "copy"
        /\ \A u \in Terminal : /\ reader'[u].i = reader[u].i
                               /\ reader'[u].n = reader[u].n
                               /\ reader'[u].buf = reader[u].buf
                               /\ u # t => reader'[u] = reader[u]
    BY <1>1, Moves DEF IInv
  <1>3. TypeOK'
    BY <1>1, <1>2 DEF IInv, TypeOK
  <1>4. Reading' = Reading /\ t \in Reading /\ Consuming' = Consuming \cup {t}
    BY <1>1, <1>2 DEF Reading, Consuming
  <1>5. OnScreen' /\ Fresh' /\ Short' /\ Raised'
    BY <1>1, <1>2, <1>4 DEF IInv, OnScreen, Fresh, Short, Raised, Calm
  <1>6. Lines'
    BY <1>1, <1>2 DEF IInv, Lines, Calm, Held
  <1>7. Copies'
    <2>1. \A u \in Consuming \ {t} : u \in Terminal /\ reader'[u] = reader[u]
      BY <1>1, <1>2 DEF Consuming
    <2>2. reader'[t].i = 0 /\ reader'[t].buf = <<>>
      BY <1>1, <1>2 DEF IInv, Fresh
    <2>3. Len(line'[t]) \in Nat /\ reader'[t].n \in Nat
      <3>1. line' \in [Terminal -> Seq(Cell)] /\ reader'[t] \in Reader
        BY <1>3 DEF TypeOK
      <3> QED BY <3>1, ReaderTypes
    <2>4. Copied(t)' /\ Len(reader'[t].buf) = reader'[t].i
      BY <2>2, <2>3 DEF Copied, MinOf
    <2> QED BY <1>1, <1>2, <1>4, <2>1, <2>4 DEF IInv, Copies, Copied, Calm
  <1> QED BY <1>3, <1>5, <1>6, <1>7 DEF IInv

\* While t consumes the line its buffer is the one on the screen.
LEMMA CopyingShown ==
    ASSUME IInv, Calm, NEW t \in Consuming
    PROVE  /\ t \in Terminal /\ t = current_terminal /\ Consuming = {t}
           /\ reader[t].pc = "copy" => Kept(Shown, line[t])
  <1>1. t \in Reading /\ t \in Terminal /\ Consuming \subseteq Reading
    BY DEF Consuming, Reading
  <1>2. t = current_terminal /\ Consuming = {t}
    BY <1>1 DEF IInv, OnScreen, Calm
  <1>3. reader[t].pc = "copy" => Kept(Held(t), line[t])
    BY <1>1 DEF IInv, Lines
  <1> QED BY <1>1, <1>2, <1>3 DEF Held, Shown

LEMMA CopyStepKeeps == ASSUME IInv, NEW t \in Terminal, ReadCopies(t) PROVE IInv'
  <1> DEFINE i == reader[t].i
             b == Append(reader[t].buf, key_arr[i + 1])
             r == [reader[t] EXCEPT !.i = i + 1, !.buf = b]
  <1>1. /\ reader[t].pc = "copy" /\ i < key_arr_ptr /\ i < reader[t].n
        /\ UNCHANGED <<current_terminal, key_arr, key_arr_ptr, key_arr_overflow, enter_state,
                       terminal_info, keys, erased, line, entered, raced>>
    BY DEF ReadCopies, buffer
  <1>2. /\ reader \in [Terminal -> Reader] /\ reader[t] \in Reader /\ BufferOK
        /\ line[t] \in Seq(Cell)
    BY DEF IInv, TypeOK, BufferOK
  <1>3. /\ i \in Nat /\ i + 1 \in 0 .. (Size - 1) /\ i + 1 \in Cells
        /\ reader[t].buf \in Seq(Cell) /\ reader[t].n \in Nat
    BY <1>1, <1>2, ReaderTypes DEF BufferOK, Cells
  <1>4. b \in Seq(Cell) /\ Len(b) = Len(reader[t].buf) + 1 /\ b[Len(b)] = key_arr[i + 1]
        /\ \A j \in 1 .. Len(reader[t].buf) : b[j] = reader[t].buf[j]
    BY <1>2, <1>3 DEF BufferOK
  <1>5. reader' = [reader EXCEPT ![t] = r]
    BY <1>2 DEF ReadCopies
  <1> HIDE DEF b
  <1>6. /\ r \in Reader /\ r.pc = "copy" /\ r.i = i + 1 /\ r.n = reader[t].n /\ r.buf = b
    BY <1>1, <1>2, <1>3, <1>4 DEF Reader
  <1> HIDE DEF r
  <1>7. /\ reader' \in [Terminal -> Reader] /\ reader'[t] = r
        /\ \A u \in Terminal \ {t} : reader'[u] = reader[u]
    BY <1>2, <1>5, <1>6
  <1>8. TypeOK'
    BY <1>1, <1>7 DEF IInv, TypeOK
  <1>9. Reading' = Reading /\ Consuming' = Consuming /\ t \in Consuming
    BY <1>1, <1>6, <1>7 DEF Reading, Consuming
  <1>10. OnScreen' /\ Fresh' /\ Short' /\ Raised'
    BY <1>1, <1>6, <1>7, <1>9 DEF IInv, OnScreen, Fresh, Short, Raised, Calm
  <1>11. Lines'
    BY <1>1, <1>6, <1>7 DEF IInv, Lines, Calm, Held
  <1>12. ASSUME Calm' PROVE Copies'
    <2>1. Calm /\ Consuming = {t} /\ Kept(Shown, line[t])
      BY <1>1, <1>9, <1>12, CopyingShown DEF Calm
    <2>2. /\ Len(reader[t].buf) = i
          /\ \A j \in 1 .. i : Whole(line[t], j) => reader[t].buf[j] = line[t][j]
      BY <1>1, <1>9, <2>1 DEF IInv, Copies, Copied
    <2>3. /\ key_arr_ptr = MinOf(Len(line[t]), Size - 1)
          /\ \A j \in 1 .. key_arr_ptr : Whole(line[t], j) => key_arr[j] = line[t][j]
      BY <2>1 DEF Kept, Shown
    <2>4. Whole(line[t], i + 1) => key_arr[i + 1] = line[t][i + 1]
      BY <1>1, <1>2, <1>3, <2>3 DEF BufferOK
    <2>5. Len(b) = i + 1 /\ \A j \in 1 .. (i + 1) : Whole(line[t], j) => b[j] = line[t][j]
      BY <1>3, <1>4, <2>2, <2>4
    <2>6. i + 1 <= MinOf(MinOf(Len(line[t]), Size - 1), reader[t].n)
      BY <1>1, <1>2, <1>3, <2>3 DEF MinOf, BufferOK
    <2>7. Copied(t)' /\ Len(reader'[t].buf) = reader'[t].i
      BY <1>1, <1>3, <1>6, <1>7, <2>5, <2>6 DEF Copied
    <2> QED BY <1>6, <1>7, <1>9, <2>1, <2>7 DEF Copies
  <1> QED BY <1>8, <1>10, <1>11, <1>12 DEF IInv, Copies
LEMMA CopiedKeeps == ASSUME IInv, NEW t \in Terminal, ReadCopied(t) PROVE IInv'
  <1> DEFINE b == Append(reader[t].buf, NUL)
             r == [reader[t] EXCEPT !.pc = "clear", !.buf = b]
  <1>1. /\ reader[t].pc = "copy" /\ key_arr_ptr' = 0
        /\ ~(reader[t].i < key_arr_ptr /\ reader[t].i < reader[t].n)
        /\ UNCHANGED <<current_terminal, key_arr, key_arr_overflow, enter_state,
                       terminal_info, keys, erased, line, entered, raced>>
    BY DEF ReadCopied
  <1>2. reader \in [Terminal -> Reader] /\ reader[t] \in Reader
    BY DEF IInv, TypeOK
  <1>3. /\ reader[t].i \in Nat /\ reader[t].n \in Nat /\ reader[t].buf \in Seq(Cell)
        /\ Len(reader[t].buf) \in Nat
    BY <1>2, ReaderTypes
  <1>4. b \in Seq(Cell) /\ Len(b) = Len(reader[t].buf) + 1
        /\ \A j \in 1 .. Len(reader[t].buf) : b[j] = reader[t].buf[j]
    BY <1>3 DEF Cell
  <1>5. reader' = [reader EXCEPT ![t] = r]
    BY <1>2 DEF ReadCopied
  <1> HIDE DEF b
  <1>6. r \in Reader /\ r.pc = "clear" /\ r.i = reader[t].i /\ r.n = reader[t].n /\ r.buf = b
    BY <1>2, <1>4 DEF Reader
  <1> HIDE DEF r
  <1>7. /\ reader' \in [Terminal -> Reader] /\ reader'[t] = r
        /\ \A u \in Terminal \ {t} : reader'[u] = reader[u]
    BY <1>2, <1>5, <1>6
  <1>8. TypeOK'
    BY <1>1, <1>7 DEF IInv, TypeOK
  <1>9. Reading' = Reading /\ Consuming' = Consuming /\ t \in Consuming
    BY <1>1, <1>6, <1>7 DEF Reading, Consuming
  <1>10. OnScreen' /\ Fresh' /\ Short' /\ Raised'
    BY <1>1, <1>6, <1>7, <1>9 DEF IInv, OnScreen, Fresh, Short, Raised, Calm
  <1>11. ASSUME Calm' PROVE Lines' /\ Copies'
    <2>1. Calm /\ t = current_terminal /\ Consuming = {t} /\ Kept(Shown, line[t])
      BY <1>1, <1>9, <1>11, CopyingShown DEF Calm
    <2>2. Lines'
      BY <1>1, <1>6, <1>7, <2>1 DEF IInv, Lines, Held
    <2>3. key_arr_ptr = MinOf(Len(line[t]), Size - 1) /\ Copied(t)
      BY <1>9, <2>1 DEF IInv, Copies, Kept, Shown
    <2>4. key_arr_ptr \in Nat
      BY DEF IInv, TypeOK
    <2>5. reader[t].i = MinOf(MinOf(Len(line[t]), Size - 1), reader[t].n)
      BY <1>1, <1>3, <2>3, <2>4 DEF Copied, MinOf
    <2>6. Copied(t)'
      <3>1. /\ Len(reader[t].buf) >= reader[t].i
            /\ \A j \in 1 .. reader[t].i :
                  Whole(line[t], j) => reader[t].buf[j] = line[t][j]
        BY <2>3 DEF Copied
      <3>2. /\ Len(b) >= reader[t].i
            /\ \A j \in 1 .. reader[t].i : Whole(line[t], j) => b[j] = line[t][j]
        BY <1>3, <1>4, <3>1
      <3> QED BY <1>1, <1>6, <1>7, <2>3, <3>2 DEF Copied
    <2> QED BY <1>1, <1>6, <1>7, <1>9, <2>1, <2>2, <2>5, <2>6 DEF Copies
  <1> QED BY <1>8, <1>10, <1>11 DEF IInv, Lines, Copies

LEMMA ClearsKeeps == ASSUME IInv, NEW t \in Terminal, ReadClears(t) PROVE IInv'
  <1>1. /\ reader[t].pc = "clear" /\ Goto(t, "wipe") /\ key_arr_overflow' = 0
        /\ UNCHANGED <<current_terminal, key_arr, key_arr_ptr, enter_state,
                       terminal_info, keys, erased, line, entered, raced>>
    BY DEF ReadClears
  <1>2. /\ reader' \in [Terminal -> Reader] /\ reader'[t].pc = "wipe"
        /\ \A u \in Terminal : /\ reader'[u].i = reader[u].i
                               /\ reader'[u].n = reader[u].n
                               /\ reader'[u].buf = reader[u].buf
                               /\ u # t => reader'[u] = reader[u]
    BY <1>1, Moves DEF IInv
  <1>3. TypeOK'
    BY <1>1, <1>2 DEF IInv, TypeOK
  <1>4. Reading' = Reading /\ Consuming' = Consuming /\ t \in Consuming
    BY <1>1, <1>2 DEF Reading, Consuming
  <1>5. OnScreen' /\ Fresh' /\ Short' /\ Raised'
    BY <1>1, <1>2, <1>4 DEF IInv, OnScreen, Fresh, Short, Raised, Calm
  <1>6. ASSUME Calm' PROVE Lines' /\ Copies'
    <2>1. Calm /\ t = current_terminal /\ Consuming = {t}
      BY <1>1, <1>4, <1>6, CopyingShown DEF Calm
    <2>2. Lines'
      BY <1>1, <1>2, <2>1 DEF IInv, Lines, Held
    <2>3. /\ Copied(t) /\ key_arr_ptr = 0
          /\ reader[t].i = MinOf(MinOf(Len(line[t]), Size - 1), reader[t].n)
      BY <1>1, <1>4, <2>1 DEF IInv, Copies
    <2>4. Copied(t)'
      BY <1>1, <1>2, <2>3 DEF Copied
    <2> QED BY <1>1, <1>2, <1>4, <2>1, <2>2, <2>3, <2>4 DEF Copies
  <1> QED BY <1>3, <1>5, <1>6 DEF IInv, Lines, Copies

LEMMA ReturnsKeeps == ASSUME IInv, NEW t \in Terminal, ReadReturns(t) PROVE IInv'
  <1>1. /\ reader[t].pc = "wipe" /\ Goto(t, "busy") /\ key_arr' = Empty
        /\ line' = [line EXCEPT ![t] = <<>>] /\ entered' = [entered EXCEPT ![t] = FALSE]
        /\ UNCHANGED <<current_terminal, key_arr_ptr, key_arr_overflow, enter_state,
                       terminal_info, keys, erased, raced>>
    BY DEF ReadReturns
  <1>2. /\ reader' \in [Terminal -> Reader] /\ reader'[t].pc = "busy"
        /\ \A u \in Terminal : /\ reader'[u].i = reader[u].i
                               /\ reader'[u].n = reader[u].n
                               /\ reader'[u].buf = reader[u].buf
                               /\ u # t => reader'[u] = reader[u]
    BY <1>1, Moves DEF IInv
  <1>3. /\ line \in [Terminal -> Seq(Cell)] /\ entered \in [Terminal -> BOOLEAN]
        /\ keys \in Nat
    BY DEF IInv, TypeOK
  <1>4. /\ line' \in [Terminal -> Seq(Cell)] /\ line'[t] = <<>>
        /\ \A u \in Terminal \ {t} : line'[u] = line[u] /\ entered'[u] = entered[u]
    BY <1>1, <1>3
  <1>5. entered' \in [Terminal -> BOOLEAN]
    BY <1>1, <1>3
  <1>6. TypeOK'
    BY <1>1, <1>2, <1>4, <1>5, Buffers DEF IInv, TypeOK
  <1>7. /\ Reading' = Reading \ {t} /\ Consuming' = Consuming \ {t}
        /\ t \in Consuming /\ Consuming \subseteq Reading /\ Reading \subseteq Terminal
    BY <1>1, <1>2 DEF Reading, Consuming
  <1>8. OnScreen' /\ Fresh'
    BY <1>1, <1>2, <1>7 DEF IInv, OnScreen, Fresh
  <1>9. Short'
    BY <1>1, <1>3, <1>4 DEF IInv, Short
  <1>10. ASSUME Calm' PROVE Lines' /\ Raised' /\ Copies'
    <2>1. Calm /\ t = current_terminal /\ Consuming = {t}
      BY <1>1, <1>7, <1>10, CopyingShown DEF Calm
    <2>2. key_arr_ptr = 0 /\ key_arr_overflow = 0 /\ ~enter_state
      BY <1>1, <1>7, <2>1 DEF IInv, Copies, Raised
    <2>3. Kept(Held(t)', line'[t])
      BY <1>1, <1>4, <2>1, <2>2 DEF Kept, Held, MinOf
    <2>4. \A u \in Terminal \ {t} : Held(u)' = Held(u)
      BY <1>1, <2>1 DEF Held
    <2>5. Lines'
      BY <1>1, <1>2, <1>4, <2>1, <2>3, <2>4 DEF IInv, Lines
    <2>6. Raised'
      BY <1>1, <1>4, <1>7, <2>1, <2>2 DEF IInv, Raised
    <2> QED BY <1>7, <2>1, <2>5, <2>6 DEF Copies
  <1> QED BY <1>6, <1>8, <1>9, <1>10 DEF IInv, Lines, Raised, Copies

\* A killed reader is gone; if it had begun to copy, that is a race.
LEMMA KilledKeeps == ASSUME IInv, NEW t \in Terminal, ReadKilled(t) PROVE IInv'
  <1>1. /\ Goto(t, "busy") /\ raced' = (raced \/ t \in Consuming)
        /\ UNCHANGED <<current_terminal, key_arr, key_arr_ptr, key_arr_overflow, enter_state,
                       terminal_info, keys, erased, line, entered>>
    BY DEF ReadKilled, buffer
  <1>2. /\ reader' \in [Terminal -> Reader] /\ reader'[t].pc = "busy"
        /\ \A u \in Terminal : /\ reader'[u].i = reader[u].i
                               /\ reader'[u].n = reader[u].n
                               /\ reader'[u].buf = reader[u].buf
                               /\ u # t => reader'[u] = reader[u]
    BY <1>1, Moves DEF IInv
  <1>3. raced' \in BOOLEAN /\ (~raced' => ~raced /\ t \notin Consuming)
    <2>1. raced \in BOOLEAN
      BY DEF IInv, TypeOK
    <2> QED BY <1>1, <2>1, Zenon
  <1>4. TypeOK'
    BY <1>1, <1>2, <1>3 DEF IInv, TypeOK
  <1>5. Reading' = Reading \ {t} /\ Consuming' = Consuming \ {t}
    BY <1>1, <1>2 DEF Reading, Consuming
  <1>6. OnScreen' /\ Fresh' /\ Short'
    BY <1>1, <1>2, <1>3, <1>5 DEF IInv, OnScreen, Fresh, Short
  <1>7. Raised'
    BY <1>1, <1>3, <1>5 DEF IInv, Raised, Calm
  <1>8. ASSUME Calm' PROVE Lines' /\ Copies'
    <2>1. Calm /\ t \notin Consuming
      BY <1>3, <1>8 DEF Calm
    <2>2. reader[t].pc \notin {"clear", "wipe"}
      BY <2>1 DEF Consuming
    <2>3. \A u \in Terminal : Held(u)' = Held(u)
      BY <1>1 DEF Held
    <2>4. Lines'
      BY <1>1, <1>2, <2>1, <2>2, <2>3 DEF IInv, Lines
    <2>5. \A u \in Consuming : u \in Terminal /\ reader'[u] = reader[u]
      BY <1>2, <2>1 DEF Consuming
    <2> QED BY <1>1, <1>5, <2>1, <2>4, <2>5 DEF IInv, Copies, Copied
  <1> QED BY <1>4, <1>6, <1>7, <1>8 DEF IInv, Lines, Copies

LEMMA NextKeeps == IInv /\ [Next]_vars => IInv'
  <1>1. ASSUME IInv, UNCHANGED vars PROVE IInv'
    <2>1. UNCHANGED <<current_terminal, key_arr, key_arr_ptr, key_arr_overflow, enter_state,
                      terminal_info, reader, keys, erased, line, entered, raced>>
      BY <1>1 DEF vars, buffer
    <2>2. Reading' = Reading /\ Consuming' = Consuming
      BY <2>1 DEF Reading, Consuming
    <2>3. TypeOK' /\ OnScreen' /\ Fresh' /\ Short' /\ Raised'
      BY <1>1, <2>1, <2>2 DEF IInv, TypeOK, OnScreen, Fresh, Short, Raised, Calm
    <2>4. Lines'
      BY <1>1, <2>1 DEF IInv, Lines, Calm, Held
    <2>5. Copies'
      BY <1>1, <2>1, <2>2 DEF IInv, Copies, Copied, Calm
    <2> QED BY <2>3, <2>4, <2>5 DEF IInv
  <1>2. ASSUME IInv, NEW t \in Terminal, ReadStep(t) PROVE IInv'
    BY <1>2, SeesKeeps, TestsKeeps, TakesKeeps, CopyStepKeeps, CopiedKeeps, ClearsKeeps,
       ReturnsKeeps DEF ReadStep
  <1> QED BY <1>1, <1>2, PressKeyKeeps, PressEnterKeeps, BackspaceKeeps, SwitchKeeps,
             CallKeeps, KilledKeeps DEF Next

LEMMA Invariant == Spec => []IInv
  BY InitHolds, NextKeeps, PTL DEF Spec

\* key_arr_ptr and its saved copies stay inside the buffer, whatever is typed,
\* read and switched (lib.c 795-830, terminal.c 25-60 and 230-277).
THEOREM InputTypes == Spec => []TypeOK
  <1>1. IInv => TypeOK BY DEF IInv
  <1> QED BY <1>1, Invariant, PTL

\* For any number of terminals, two readers are past the test of terminal_read
\* at once only after one of the races (terminal.c 34-40).
THEOREM ReadersAlone == Spec => []OneReader
  <1>1. IInv => OneReader BY DEF IInv, OnScreen, OneReader
  <1> QED BY <1>1, Invariant, PTL

\* For any number of terminals and any size of the buffer, switching loses and
\* mixes nothing up to the first F1 of a line until a race, if key_arr_overflow,
\* a uint8_t, cannot wrap (lib.c 795-830, terminal.c 230-277).
THEOREM LinesKept == ASSUME MaxKeys < Size + 255 PROVE Spec => []BuffersHoldLines
  <1>1. IInv => BuffersHoldLines
    <2> SUFFICES ASSUME IInv, ~raced, NEW t \in Terminal \ Consuming
                 PROVE  LET fits == MinOf(Len(line[t]), Size - 1)
                        IN  /\ Held(t).ptr = fits
                            /\ Held(t).overflow = Len(line[t]) - fits
                            /\ \A c \in 1 .. fits :
                                  Whole(line[t], c) => Held(t).arr[c] = line[t][c]
      BY DEF BuffersHoldLines
    <2>1. Kept(Held(t), line[t])
      BY DEF IInv, Lines, Calm, Consuming
    <2> QED BY <2>1 DEF Kept
  <1> QED BY <1>1, Invariant, PTL

\* Until a race, terminal_read returns the line of its own terminal, cut at
\* nbytes and at the size of the buffer, after an Enter there; up to the first F1
\* byte by byte (terminal.c 25-60).
THEOREM OwnLineRead == ASSUME MaxKeys < Size + 255 PROVE Spec => ReadsOwnLine
  <1> DEFINE Own(t) == /\ reader[t].i = MinOf(MinOf(Len(line[t]), Size - 1), reader[t].n)
                       /\ \A c \in 1 .. reader[t].i :
                             Whole(line[t], c) => reader[t].buf[c] = line[t][c]
                       /\ entered[t]
  <1>1. ASSUME IInv, NEW t \in Terminal, ReadReturns(t), ~raced PROVE Own(t)
    <2>1. Calm /\ t \in Consuming /\ t \in Reading /\ reader[t].pc = "wipe"
      BY <1>1 DEF Calm, ReadReturns, Consuming, Reading
    <2> QED BY <1>1, <2>1 DEF IInv, Raised, Copies, Copied
  <1> DEFINE A == \A t \in Terminal : ReadReturns(t) /\ ~raced => Own(t)
  <1>2. IInv => [A]_vars
    BY <1>1
  <1>3. ReadsOwnLine <=> [][A]_vars
    BY DEF ReadsOwnLine
  <1> QED BY <1>2, <1>3, Invariant, PTL
=============================================================================
