---------------------------- MODULE Shell_proofs ----------------------------
(***************************************************************************)
(* That execute runs the program whose name was typed and that getargs     *)
(* hands it the rest of the line, for every alphabet, directory and line   *)
(* and all sizes of the arrays.                                            *)
(*                                                                         *)
(* The loops of execute, getargs and read_dentry_by_name are searches for  *)
(* the first place with some property.  That they find one is the          *)
(* principle of the least number; what they find is then compared with     *)
(* the words of the line as Word defines them.                             *)
(*                                                                         *)
(* Then that cat and ls write all of a file and of the directory, and that *)
(* grep prints the lines that hold its word, for every text and size of    *)
(* its buffer.                                                             *)
(***************************************************************************)
EXTENDS Shell, WellFoundedInduction, SequenceTheorems, TLAPS

Text == Seq(Char \ {NUL})

-----------------------------------------------------------------------------
(* Searches. *)

LEMMA LeastNumber ==
    ASSUME NEW T \in SUBSET Nat, T # {}
    PROVE  \E x \in T : \A y \in T : x <= y
  <1>1. PICK x \in T : \A y \in T : ~(<<y, x>> \in OpToRel(<, Nat))
    BY WFMin, NatLessThanWellFounded
  <1>2. \A y \in T : ~(y < x)
    BY <1>1 DEF OpToRel
  <1> QED BY <1>2

\* A loop that stops at the end of the string at the latest stops at the first
\* place that it looks for.
LEMMA ScanFinds ==
    ASSUME NEW s \in Seq(Char), NEW i \in 0 .. Len(s), NEW Stop, NUL \in Stop
    PROVE  /\ Scan(s, i, Stop) \in i .. Len(s)
           /\ At(s, Scan(s, i, Stop)) \in Stop
           /\ \A j \in i .. (Scan(s, i, Stop) - 1) : At(s, j) \notin Stop
  <1> DEFINE T == {k \in i .. Len(s) : At(s, k) \in Stop}
  <1>1. Len(s) \in T /\ T \in SUBSET Nat
    BY DEF At
  <1>2. PICK k \in T : \A y \in T : k <= y
    <2> HIDE DEF T
    <2> QED BY <1>1, LeastNumber
  <1>3. \A j \in i .. (k - 1) : At(s, j) \notin Stop
    <2>1. ASSUME NEW j \in i .. (k - 1), At(s, j) \in Stop PROVE FALSE
      <3>1. j \in T
        BY <2>1
      <3> QED BY <1>1, <1>2, <3>1
    <2> QED BY <2>1
  <1>4. k \in i .. Len(s) /\ At(s, k) \in Stop
    OBVIOUS
  <1> HIDE DEF T
  <1>5. \E x \in i .. Len(s) : /\ At(s, x) \in Stop
                               /\ \A j \in i .. (x - 1) : At(s, j) \notin Stop
    BY <1>3, <1>4
  <1> QED BY <1>5 DEF Scan

\* A part of a text.
LEMMA PartOf ==
    ASSUME NEW S, NEW s \in Seq(S), NEW a \in Nat \ {0}, NEW b \in 0 .. Len(s)
    PROVE  /\ SubSeq(s, a, b) \in Seq(S)
           /\ Len(SubSeq(s, a, b)) = IF a <= b THEN b - a + 1 ELSE 0
           /\ \A i \in 1 .. (b - a + 1) : SubSeq(s, a, b)[i] = s[a + i - 1]
  <1>1. \A i \in a .. b : s[i] \in S
    OBVIOUS
  <1> QED BY <1>1, SubSeqProperties

LEMMA ElementOf ==
    ASSUME NEW S, NEW s \in Seq(S), NEW i \in DOMAIN s
    PROVE  s[i] \in S
  OBVIOUS

LEMMA SameSequence ==
    ASSUME NEW S, NEW s \in Seq(S), NEW t \in Seq(S), Len(s) = Len(t),
           \A i \in 1 .. Len(s) : s[i] = t[i]
    PROVE  s = t
  OBVIOUS

\* A part of the first m characters is a part of the whole.
LEMMA PartOfPart ==
    ASSUME NEW S, NEW s \in Seq(S), NEW m \in 0 .. Len(s), NEW a \in Nat \ {0},
           NEW b \in 0 .. m
    PROVE  SubSeq(SubSeq(s, 1, m), a, b) = SubSeq(s, a, b)
  <1> DEFINE l == SubSeq(s, 1, m)
  <1>1. l \in Seq(S) /\ Len(l) = m /\ \A i \in 1 .. m : l[i] = s[i]
    BY PartOf
  <1> HIDE DEF l
  <1>2. /\ SubSeq(l, a, b) \in Seq(S)
        /\ Len(SubSeq(l, a, b)) = IF a <= b THEN b - a + 1 ELSE 0
        /\ \A i \in 1 .. (b - a + 1) : SubSeq(l, a, b)[i] = l[a + i - 1]
    BY <1>1, PartOf
  <1>3. /\ SubSeq(s, a, b) \in Seq(S)
        /\ Len(SubSeq(s, a, b)) = IF a <= b THEN b - a + 1 ELSE 0
        /\ \A i \in 1 .. (b - a + 1) : SubSeq(s, a, b)[i] = s[a + i - 1]
    BY PartOf
  <1>4. \A i \in 1 .. Len(SubSeq(l, a, b)) : SubSeq(l, a, b)[i] = SubSeq(s, a, b)[i]
    BY <1>1, <1>2, <1>3
  <1> QED BY <1>2, <1>3, <1>4, SameSequence DEF l

\* The string in a buffer.
LEMMA CStringText ==
    ASSUME NEW s \in Seq(Char)
    PROVE  CString(s) \in Text /\ Len(CString(s)) <= Len(s)
  <1> DEFINE n == Scan(s, 0, {NUL})
  <1>1. /\ n \in 0 .. Len(s)
        /\ \A j \in 0 .. (n - 1) : At(s, j) \notin {NUL}
    BY ScanFinds
  <1> HIDE DEF n
  <1>2. \A i \in 1 .. n : s[i] \in Char \ {NUL}
    <2>1. ASSUME NEW i \in 1 .. n PROVE s[i] # NUL
      <3>1. i - 1 \in 0 .. (n - 1) /\ At(s, i - 1) = s[i]
        BY <1>1 DEF At
      <3> QED BY <1>1, <3>1
    <2> QED BY <1>1, <2>1
  <1>3. /\ SubSeq(s, 1, n) \in Seq(Char \ {NUL})
        /\ Len(SubSeq(s, 1, n)) = IF 1 <= n THEN n - 1 + 1 ELSE 0
    BY <1>1, <1>2, SubSeqProperties
  <1>4. Len(SubSeq(s, 1, n)) <= Len(s)
    <2>1. n \in Nat /\ Len(s) \in Nat /\ n <= Len(s)
      BY <1>1
    <2> QED BY <1>3, <2>1
  <1>5. CString(s) = SubSeq(s, 1, n)
    BY Zenon DEF CString, strlen, n
  <1> QED BY <1>3, <1>4, <1>5 DEF Text

-----------------------------------------------------------------------------
(* The line and its first word. *)

\* Word is what its definition says: there is one such pair.
LEMMA WordIs ==
    ASSUME NEW l \in Text, NEW a \in 1 .. (Len(l) + 1), NEW b \in 0 .. Len(l),
           a <= b + 1,
           \A k \in 1 .. (a - 1) : l[k] = SP,
           \A k \in a .. b : l[k] # SP,
           a <= Len(l) => l[a] # SP,
           b < Len(l) => l[b + 1] = SP
    PROVE  Word(l)[1] = a /\ Word(l)[2] = b
  <1> DEFINE Is(s) == /\ s[1] <= s[2] + 1
                      /\ \A k \in 1 .. (s[1] - 1) : l[k] = SP
                      /\ \A k \in s[1] .. s[2] : l[k] # SP
                      /\ s[1] <= Len(l) => l[s[1]] # SP
                      /\ s[2] < Len(l) => l[s[2] + 1] = SP
             Pairs == (1 .. Len(l) + 1) \X (0 .. Len(l))
             w == CHOOSE s \in Pairs : Is(s)
  <1>1. <<a, b>> \in Pairs /\ Is(<<a, b>>)
    OBVIOUS
  <1>2. w \in Pairs /\ Is(w)
    <2> HIDE DEF Is, Pairs
    <2> QED BY <1>1, Zenon
  <1>3. Word(l) = w
    BY DEF Word
  <1> DEFINE c == w[1]
             d == w[2]
  <1>4. /\ c \in 1 .. (Len(l) + 1) /\ d \in 0 .. Len(l) /\ c <= d + 1
        /\ \A k \in 1 .. (c - 1) : l[k] = SP
        /\ \A k \in c .. d : l[k] # SP
        /\ c <= Len(l) => l[c] # SP
        /\ d < Len(l) => l[d + 1] = SP
    <2> HIDE DEF w
    <2> QED BY <1>2
  <1> HIDE DEF c, d
  <1>5. Len(l) \in Nat
    BY DEF Text
  <1>6. ~(a < c)
    <2>1. SUFFICES ASSUME a < c PROVE FALSE
      OBVIOUS
    <2>2. a \in 1 .. (c - 1) /\ a <= Len(l)
      BY <1>4, <1>5, <2>1
    <2> QED BY <1>4, <2>2
  <1>7. ~(c < a)
    <2>1. SUFFICES ASSUME c < a PROVE FALSE
      OBVIOUS
    <2>2. c \in 1 .. (a - 1) /\ c <= Len(l)
      BY <1>4, <1>5, <2>1
    <2> QED BY <1>4, <2>2
  <1>8. a = c
    BY <1>4, <1>6, <1>7
  <1>9. ~(b < d)
    <2>1. SUFFICES ASSUME b < d PROVE FALSE
      OBVIOUS
    <2>2. b + 1 \in c .. d /\ b < Len(l)
      BY <1>4, <1>5, <1>8, <2>1
    <2> QED BY <1>4, <2>2
  <1>10. ~(d < b)
    <2>1. SUFFICES ASSUME d < b PROVE FALSE
      OBVIOUS
    <2>2. d + 1 \in a .. b /\ d < Len(l)
      BY <1>4, <1>5, <1>8, <2>1
    <2> QED BY <1>4, <2>2
  <1>11. b = d
    BY <1>4, <1>9, <1>10
  <1> QED BY <1>3, <1>8, <1>11 DEF c, d

\* Where execute finds the name and the arguments is where the first word and
\* the rest of the first line are.
LEMMA ParseMarks ==
    ASSUME NEW cmd \in Text
    PROVE  LET line  == FirstLine(cmd)
               start == Scan(cmd, 0, Char \ {SP})
               end   == Scan(cmd, start, {SP, NL, NUL})
               stop  == Scan(cmd, end, {NL, NUL})
           IN  /\ start \in Nat /\ end \in Nat /\ stop \in Nat
               /\ start <= end /\ end <= stop /\ stop <= Len(cmd)
               /\ end < stop => cmd[end + 1] = SP
               /\ FirstWord(line) = SubSeq(cmd, start + 1, end)
               /\ Rest(line) = SubSeq(cmd, end + 1, stop)
  <1> DEFINE line  == FirstLine(cmd)
             m     == Scan(cmd, 0, {NL, NUL})
             start == Scan(cmd, 0, Char \ {SP})
             end   == Scan(cmd, start, {SP, NL, NUL})
             stop  == Scan(cmd, end, {NL, NUL})
  <1>1. /\ cmd \in Seq(Char) /\ Len(cmd) \in Nat
        /\ \A k \in 0 .. Len(cmd) : At(cmd, k) \in Char
        /\ NUL \in Char \ {SP} /\ NUL # NL /\ NL # SP
    <2>1. cmd \in Seq(Char)
      BY DEF Text
    <2>2. \A k \in 0 .. Len(cmd) : At(cmd, k) \in Char
      BY <2>1, CharAssumption DEF At
    <2> QED BY <2>1, <2>2, CharAssumption
  <1>2. /\ m \in 0 .. Len(cmd) /\ At(cmd, m) \in {NL, NUL}
        /\ \A j \in 0 .. (m - 1) : At(cmd, j) \notin {NL, NUL}
    BY <1>1, ScanFinds
  <1>3. /\ start \in 0 .. Len(cmd) /\ At(cmd, start) \in Char \ {SP}
        /\ \A j \in 0 .. (start - 1) : At(cmd, j) \notin Char \ {SP}
    BY <1>1, ScanFinds
  <1> HIDE DEF m, start
  <1>4. /\ end \in start .. Len(cmd) /\ At(cmd, end) \in {SP, NL, NUL}
        /\ \A j \in start .. (end - 1) : At(cmd, j) \notin {SP, NL, NUL}
    BY <1>1, <1>3, ScanFinds
  <1> HIDE DEF end
  <1>5. end \in 0 .. Len(cmd)
    BY <1>1, <1>3, <1>4
  <1>6. /\ stop \in end .. Len(cmd) /\ At(cmd, stop) \in {NL, NUL}
        /\ \A j \in end .. (stop - 1) : At(cmd, j) \notin {NL, NUL}
    BY <1>1, <1>5, ScanFinds
  <1> HIDE DEF stop
  <1>7. start <= m
    <2>1. SUFFICES ASSUME m < start PROVE FALSE
      BY <1>2, <1>3
    <2>2. m \in 0 .. (start - 1) /\ At(cmd, m) \in Char \ {SP}
      BY <1>1, <1>2, <1>3, <2>1
    <2> QED BY <1>3, <2>2
  <1>8. end <= m
    <2>1. SUFFICES ASSUME m < end PROVE FALSE
      BY <1>2, <1>4
    <2>2. m \in start .. (end - 1) /\ At(cmd, m) \in {SP, NL, NUL}
      BY <1>2, <1>3, <1>4, <1>7, <2>1
    <2> QED BY <1>4, <2>2
  <1>9. stop = m
    <2>1. ~(m < stop)
      <3>1. SUFFICES ASSUME m < stop PROVE FALSE
        OBVIOUS
      <3>2. m \in end .. (stop - 1)
        BY <1>2, <1>5, <1>6, <1>8, <3>1
      <3> QED BY <1>2, <1>6, <3>2
    <2>2. ~(stop < m)
      <3>1. SUFFICES ASSUME stop < m PROVE FALSE
        OBVIOUS
      <3>2. stop \in 0 .. (m - 1)
        BY <1>2, <1>5, <1>6, <3>1
      <3> QED BY <1>2, <1>6, <3>2
    <2> QED BY <1>2, <1>5, <1>6, <2>1, <2>2
  <1>10. \A j \in 0 .. (Len(cmd) - 1) : At(cmd, j) = cmd[j + 1]
    BY <1>1 DEF At
  <1>11. end < stop => cmd[end + 1] = SP
    <2>1. SUFFICES ASSUME end < stop PROVE cmd[end + 1] = SP
      OBVIOUS
    <2>2. At(cmd, end) \notin {NL, NUL} /\ end \in 0 .. (Len(cmd) - 1)
      BY <1>5, <1>6, <2>1
    <2> QED BY <1>4, <1>10, <2>2
  <1>12. line = SubSeq(cmd, 1, m)
    BY DEF FirstLine, m
  <1>13. line \in Text /\ Len(line) = m /\ \A i \in 1 .. m : line[i] = cmd[i]
    BY <1>2, <1>12, PartOf DEF Text
  <1> HIDE DEF line
  <1>14. Word(line)[1] = start + 1 /\ Word(line)[2] = end
    <2>1. \A k \in 1 .. start : line[k] = SP
      <3>1. SUFFICES ASSUME NEW k \in 1 .. start PROVE line[k] = SP
        OBVIOUS
      <3>2. k - 1 \in 0 .. (start - 1) /\ k - 1 \in 0 .. (Len(cmd) - 1) /\ k \in 1 .. m
        BY <1>1, <1>2, <1>3, <1>7
      <3>3. At(cmd, k - 1) = line[k]
        BY <1>10, <1>13, <3>2
      <3>4. At(cmd, k - 1) \in Char /\ At(cmd, k - 1) \notin Char \ {SP}
        BY <1>1, <1>3, <3>2
      <3> QED BY <3>3, <3>4
    <2>2. \A k \in (start + 1) .. end : line[k] # SP
      <3>1. SUFFICES ASSUME NEW k \in (start + 1) .. end PROVE line[k] # SP
        OBVIOUS
      <3>2. k - 1 \in start .. (end - 1) /\ k - 1 \in 0 .. (Len(cmd) - 1) /\ k \in 1 .. m
        BY <1>1, <1>2, <1>3, <1>5, <1>8
      <3>3. At(cmd, k - 1) = line[k]
        BY <1>10, <1>13, <3>2
      <3> QED BY <1>4, <3>2, <3>3
    <2>3. start + 1 <= m => line[start + 1] # SP
      <3>1. SUFFICES ASSUME start + 1 <= m PROVE line[start + 1] # SP
        OBVIOUS
      <3>2. start \in 0 .. (Len(cmd) - 1) /\ start + 1 \in 1 .. m
        BY <1>1, <1>2, <1>3, <3>1
      <3> QED BY <1>3, <1>10, <1>13, <3>2
    <2>4. end < m => line[end + 1] = SP
      <3>1. end \in Nat /\ m \in Nat
        BY <1>2, <1>5
      <3> QED BY <1>9, <1>11, <1>13, <3>1
    <2>5. /\ start + 1 \in 1 .. (Len(line) + 1) /\ end \in 0 .. Len(line)
          /\ start + 1 <= end + 1 /\ start + 1 - 1 = start
      BY <1>2, <1>3, <1>4, <1>5, <1>7, <1>8, <1>13
    <2> DEFINE a == start + 1
    <2>6. a - 1 = start /\ Len(line) = m /\ a = start + 1
      BY <1>3, <1>13
    <2> HIDE DEF a
    <2>8. a \in 1 .. (Len(line) + 1) /\ a <= end + 1
      BY <2>5, <2>6
    <2>9. /\ \A k \in 1 .. (a - 1) : line[k] = SP
          /\ \A k \in a .. end : line[k] # SP
      BY <2>1, <2>2, <2>6
    <2>10. /\ a <= Len(line) => line[a] # SP
           /\ end < Len(line) => line[end + 1] = SP
      BY <2>3, <2>4, <2>6
    <2>7. Word(line)[1] = a /\ Word(line)[2] = end
      BY <1>13, <2>5, <2>8, <2>9, <2>10, WordIs
    <2> QED BY <2>7 DEF a
  <1>15. /\ start + 1 \in Nat \ {0} /\ end + 1 \in Nat \ {0} /\ end \in 0 .. m
    BY <1>2, <1>3, <1>5, <1>8
  <1>16. FirstWord(line) = SubSeq(cmd, start + 1, end)
    BY <1>1, <1>2, <1>12, <1>14, <1>15, PartOfPart DEF FirstWord
  <1>17. Rest(line) = SubSeq(cmd, end + 1, stop)
    <2>1. SubSeq(line, end + 1, m) = SubSeq(cmd, end + 1, m)
      BY <1>1, <1>2, <1>12, <1>15, PartOfPart
    <2> QED BY <1>9, <1>13, <1>14, <2>1 DEF Rest
  <1>18. /\ start \in Nat /\ end \in Nat /\ stop \in Nat
         /\ start <= end /\ end <= stop /\ stop <= Len(cmd)
    BY <1>1, <1>3, <1>4, <1>5, <1>6
  <1> QED BY <1>11, <1>16, <1>17, <1>18 DEF line, m, start, end, stop

\* A line that fits the arrays is taken apart as it should be, and no array is
\* written past its end.
LEMMA ParseFits ==
    ASSUME NEW cmd \in Text, Len(cmd) <= KEY_ARR_SIZE, Fits(FirstLine(cmd))
    PROVE  LET line == FirstLine(cmd)
               p    == parse(cmd)
           IN  /\ p.exe_name = FirstWord(line)
               /\ p.args_buf = Rest(line)
               /\ ~p.too_long
               /\ ~p.overrun
               /\ FirstWord(line) \in Text
               /\ Len(FirstWord(line)) < F_TYPE_OFFSET
               /\ Rest(line) \in Text
               /\ Len(Rest(line)) < ARG_MAX
               /\ Rest(line) # <<>> => Rest(line)[1] = SP
  <1> DEFINE line  == FirstLine(cmd)
             start == Scan(cmd, 0, Char \ {SP})
             end   == Scan(cmd, start, {SP, NL, NUL})
             stop  == Scan(cmd, end, {NL, NUL})
             length == end - start
             kept  == IF length >= F_TYPE_OFFSET THEN F_TYPE_OFFSET - 1 ELSE length
             fails == (length > 0 /\ end > KEY_ARR_SIZE) \/ length > F_TYPE_OFFSET + 1
             over  == \/ length > F_TYPE_OFFSET /\ start + F_TYPE_OFFSET < KEY_ARR_SIZE
                      \/ ~fails /\ stop - end >= ARG_MAX
  <1>1. parse(cmd) = [exe_name |-> SubSeq(cmd, start + 1, start + kept),
                      args_buf |-> SubSeq(cmd, end + 1, stop),
                      too_long |-> fails,
                      overrun  |-> over]
    BY Zenon DEF parse
  <1>2. /\ start \in Nat /\ end \in Nat /\ stop \in Nat
        /\ start <= end /\ end <= stop /\ stop <= Len(cmd)
        /\ end < stop => cmd[end + 1] = SP
        /\ FirstWord(line) = SubSeq(cmd, start + 1, end)
        /\ Rest(line) = SubSeq(cmd, end + 1, stop)
    BY ParseMarks
  <1>3. /\ F_TYPE_OFFSET \in Nat \ {0, 1} /\ ARG_MAX \in Nat \ {0, 1}
        /\ KEY_ARR_SIZE \in Nat /\ Len(cmd) \in Nat /\ Len(cmd) <= KEY_ARR_SIZE
    BY SizeAssumption DEF Text
  <1>4. Len(FirstWord(line)) < F_TYPE_OFFSET /\ Len(Rest(line)) < ARG_MAX
    BY DEF Fits
  <1> HIDE DEF line, start, end, stop
  <1>5. FirstWord(line) \in Text /\ Len(FirstWord(line)) = length
    <2>1. start + 1 \in Nat \ {0} /\ end \in 0 .. Len(cmd)
      BY <1>2, <1>3
    <2>2. /\ SubSeq(cmd, start + 1, end) \in Text
          /\ Len(SubSeq(cmd, start + 1, end)) =
                IF start + 1 <= end THEN end - (start + 1) + 1 ELSE 0
      BY <2>1, PartOf DEF Text
    <2> QED BY <1>2, <2>2
  <1>6. /\ Rest(line) \in Text /\ Len(Rest(line)) = stop - end
        /\ \A i \in 1 .. (stop - end) : Rest(line)[i] = cmd[end + i]
    <2>1. end + 1 \in Nat \ {0} /\ stop \in 0 .. Len(cmd)
      BY <1>2, <1>3
    <2>2. /\ SubSeq(cmd, end + 1, stop) \in Text
          /\ Len(SubSeq(cmd, end + 1, stop)) =
                IF end + 1 <= stop THEN stop - (end + 1) + 1 ELSE 0
          /\ \A i \in 1 .. (stop - (end + 1) + 1) :
                SubSeq(cmd, end + 1, stop)[i] = cmd[end + 1 + i - 1]
      BY <2>1, PartOf DEF Text
    <2> QED BY <1>2, <2>2
  <1>7. Rest(line) # <<>> => Rest(line)[1] = SP
    <2>1. SUFFICES ASSUME Rest(line) # <<>> PROVE Rest(line)[1] = SP
      OBVIOUS
    <2>2. Len(Rest(line)) # 0
      BY <1>6, <2>1 DEF Text
    <2> QED BY <1>2, <1>6, <2>2
  <1>8. length < F_TYPE_OFFSET /\ stop - end < ARG_MAX /\ start + length = end
    BY <1>2, <1>4, <1>5, <1>6
  <1>9. ~fails
    BY <1>2, <1>3, <1>8
  <1>10. ~over
    BY <1>2, <1>3, <1>8
  <1>11. kept = length
    BY <1>2, <1>3, <1>8
  <1>12. fails = FALSE /\ over = FALSE
    BY <1>9, <1>10, Zenon
  <1> HIDE DEF fails, over, kept, length
  <1>13. parse(cmd) = [exe_name |-> SubSeq(cmd, start + 1, start + kept),
                       args_buf |-> SubSeq(cmd, end + 1, stop),
                       too_long |-> FALSE,
                       overrun  |-> FALSE]
    BY <1>1, <1>12, Zenon
  <1>14. parse(cmd).exe_name = FirstWord(line) /\ parse(cmd).args_buf = Rest(line)
    BY <1>2, <1>8, <1>11, <1>13
  <1>15. ~parse(cmd).too_long /\ ~parse(cmd).overrun
    BY <1>13
  <1> QED BY <1>4, <1>5, <1>6, <1>7, <1>14, <1>15 DEF line

-----------------------------------------------------------------------------
(* The directory. *)

\* An entry of the directory.
LEMMA EntryTypes ==
    ASSUME NEW i \in DOMAIN Dentry
    PROVE  /\ Dentry[i].name \in Text
           /\ Len(Dentry[i].name) \in 1 .. F_TYPE_OFFSET
           /\ Dentry[i].inode \in 0 .. (NumInodes - 1)
  <1> DEFINE d == Dentry[i]
  <1>1. d \in [name : Seq(Char \ {NUL}), type : {"file", "dir", "rtc"},
               inode : 0 .. (NumInodes - 1)]
    BY DentryAssumption, ElementOf
  <1>2. Len(d.name) \in 1 .. F_TYPE_OFFSET
    BY DentryAssumption
  <1> HIDE DEF d
  <1>3. d.name \in Text /\ d.inode \in 0 .. (NumInodes - 1)
    BY <1>1 DEF Text
  <1> QED BY <1>2, <1>3 DEF d

\* For a name that leaves room in its field, read_dentry_by_name compares whole
\* names.
LEMMA NamesEqual ==
    ASSUME NEW fname \in Text, Len(fname) <= F_TYPE_OFFSET, NEW i \in DOMAIN Dentry
    PROVE  Names(fname, Dentry[i]) <=> Dentry[i].name = fname
  <1> DEFINE d == Dentry[i]
             n == Len(fname)
             name == d.name
  <1>1. /\ name \in Text /\ Len(name) \in Nat /\ Len(name) <= F_TYPE_OFFSET
        /\ n \in Nat /\ F_TYPE_OFFSET \in Nat
    BY EntryTypes, SizeAssumption DEF Text
  <1>2. DentryLen(d) = IF Len(name) = F_TYPE_OFFSET THEN F_TYPE_OFFSET + 1 ELSE Len(name)
    BY DEF DentryLen
  <1>3. Names(fname, d) <=>
          /\ n <= F_TYPE_OFFSET
          /\ strncmp(fname, name, n)
          /\ \/ n >= F_TYPE_OFFSET /\ DentryLen(d) >= F_TYPE_OFFSET
             \/ n = DentryLen(d)
    BY Zenon DEF Names
  <1>4. strncmp(fname, name, n) <=> \A k \in 0 .. (n - 1) : At(fname, k) = At(name, k)
    BY Zenon DEF strncmp
  <1> HIDE DEF d, name
  <1>5. ASSUME name = fname PROVE Names(fname, d)
    BY <1>1, <1>2, <1>3, <1>4, <1>5
  <1>6. ASSUME Names(fname, d) PROVE name = fname
    <2>1. /\ n = DentryLen(d) \/ (n >= F_TYPE_OFFSET /\ DentryLen(d) >= F_TYPE_OFFSET)
          /\ \A k \in 0 .. (n - 1) : At(fname, k) = At(name, k)
      BY <1>1, <1>3, <1>4, <1>6
    <2>2. Len(name) = n
      BY <1>1, <1>2, <2>1
    <2>3. \A k \in 1 .. n : fname[k] = name[k]
      <3>1. SUFFICES ASSUME NEW k \in 1 .. n PROVE fname[k] = name[k]
        OBVIOUS
      <3>2. k - 1 \in 0 .. (n - 1)
        BY <1>1
      <3>3. At(fname, k - 1) = fname[k] /\ At(name, k - 1) = name[k]
        BY <1>1, <2>2 DEF At
      <3> QED BY <2>1, <3>2, <3>3
    <2> QED BY <1>1, <2>2, <2>3, SameSequence DEF Text
  <1> QED BY <1>5, <1>6 DEF d, name

\* The loop of read_dentry_by_name ends at the first entry that it takes for
\* fname, whatever fname is.
LEMMA FirstEntry ==
    ASSUME NEW fname
    PROVE  LET i == read_dentry_by_name(fname)
           IN  /\ i \in 0 .. Len(Dentry)
               /\ i # 0 => Names(fname, Dentry[i])
               /\ i = 0 => \A j \in 1 .. Len(Dentry) : ~Names(fname, Dentry[j])
  <1> DEFINE Is(i) == /\ i # 0 => Names(fname, Dentry[i])
                      /\ \A j \in 1 .. (IF i = 0 THEN Len(Dentry) ELSE i - 1) :
                            ~Names(fname, Dentry[j])
             r == CHOOSE i \in 0 .. Len(Dentry) : Is(i)
             T == {i \in 1 .. Len(Dentry) : Names(fname, Dentry[i])}
  <1>1. Len(Dentry) \in Nat
    BY DentryAssumption
  <1>2. \E i \in 0 .. Len(Dentry) : Is(i)
    <2>1. CASE T = {}
      BY <1>1, <2>1
    <2>2. CASE T # {}
      <3>1. PICK k \in T : \A y \in T : k <= y
        <4>1. T \in SUBSET Nat
          BY <1>1
        <4> HIDE DEF T
        <4> QED BY <2>2, <4>1, LeastNumber
      <3>2. Is(k)
        <4>1. ASSUME NEW j \in 1 .. (k - 1), Names(fname, Dentry[j]) PROVE FALSE
          <5>1. j \in T /\ ~(k <= j)
            BY <1>1, <4>1
          <5> QED BY <3>1, <5>1
        <4> QED BY <1>1, <4>1
      <3> QED BY <1>1, <3>2
    <2> QED BY <2>1, <2>2
  <1>3. r \in 0 .. Len(Dentry) /\ Is(r)
    <2> HIDE DEF Is
    <2> QED BY <1>2, Zenon
  <1>4. read_dentry_by_name(fname) = r
    BY Zenon DEF read_dentry_by_name
  <1> HIDE DEF r
  <1> QED BY <1>3, <1>4

\* It finds the entry of that name, if there is one.
LEMMA FindsEntry ==
    ASSUME NEW fname \in Text, Len(fname) <= F_TYPE_OFFSET
    PROVE  LET i == read_dentry_by_name(fname)
           IN  \/ i = 0 /\ \A j \in DOMAIN Dentry : Dentry[j].name # fname
               \/ i \in DOMAIN Dentry /\ Dentry[i].name = fname
  <1> DEFINE i == read_dentry_by_name(fname)
  <1>1. Len(Dentry) \in Nat /\ DOMAIN Dentry = 1 .. Len(Dentry)
    BY DentryAssumption
  <1>2. /\ i \in 0 .. Len(Dentry)
        /\ i # 0 => Names(fname, Dentry[i])
        /\ i = 0 => \A j \in 1 .. Len(Dentry) : ~Names(fname, Dentry[j])
    BY FirstEntry
  <1> HIDE DEF i
  <1>3. CASE i = 0
    BY <1>1, <1>2, <1>3, NamesEqual DEF i
  <1>4. CASE i # 0
    <2>1. i \in DOMAIN Dentry
      BY <1>1, <1>2, <1>4
    <2> QED BY <1>2, <1>4, <2>1, NamesEqual DEF i
  <1> QED BY <1>3, <1>4

\* What execute may find under a name.
Outcome == {"none", "wild", "cat", "grep", "ls", "counter", "hello", "other"}

\* execute finds one of the programs or none, or runs wild.
LEMMA ExecutableType ==
    ASSUME NEW name
    PROVE  Executable(name) \subseteq Outcome
  <1> DEFINE i == read_dentry_by_name(name)
  <1>1. i \in 0 .. Len(Dentry)
    BY FirstEntry
  <1>2. Executable(name) = IF i = 0 THEN {"none"}
                           ELSE IF Unread(Dentry[i].inode) THEN {"none", "wild"}
                           ELSE {Program[Dentry[i].inode]}
    BY Zenon DEF Executable
  <1> HIDE DEF i
  <1>3. ASSUME i # 0
        PROVE  Program[Dentry[i].inode] \in
                  {"none", "cat", "grep", "ls", "counter", "hello", "other"}
    <2>1. i \in DOMAIN Dentry
      BY <1>1, <1>3, DentryAssumption
    <2>2. Dentry[i].inode \in 0 .. (NumInodes - 1)
      BY <2>1, EntryTypes
    <2> QED BY <2>2, InodeAssumption
  <1> QED BY <1>2, <1>3 DEF Outcome

\* Where execute leads.
LEMMA ExecuteGoes ==
    ASSUME Execute
    PROVE  /\ pc' \in Outcome \cup {"report"}
           /\ pc' \in {"wild", "report"} \/ argument' = parse(command).args_buf
  <1> DEFINE p == parse(command)
             S == IF p.too_long THEN {"none"} ELSE Executable(p.exe_name)
  <1>1. S \subseteq Outcome
    BY ExecutableType DEF Outcome
  <1>2. CASE pc' = "wild"
    BY <1>2 DEF Outcome
  <1>3. CASE \E runs \in S : \/ pc' = "report"
                             \/ pc' = runs /\ argument' = p.args_buf
    <2> HIDE DEF p, S
    <2> QED BY <1>1, <1>3 DEF p
  <1>4. \/ pc' = "wild"
        \/ \E runs \in S :
             \/ /\ runs = "none" \/ full'
                /\ pc' = "report"
                /\ rval' = -1
                /\ UNCHANGED argument
             \/ /\ runs # "none" /\ ~full'
                /\ pc' = runs
                /\ argument' = p.args_buf
                /\ UNCHANGED rval
    BY DEF Execute
  <1> HIDE DEF p, S
  <1> QED BY <1>2, <1>3, <1>4

\* execute finds an executable exactly when one has that name, and then that one.
LEMMA FindsProgram ==
    ASSUME NEW w \in Text, Len(w) < F_TYPE_OFFSET, Legible(w)
    PROVE  \/ Executable(w) = {"none"} /\ Meant(w) = {}
           \/ \E r : Executable(w) = {r} /\ r # "none" /\ r \in Meant(w)
  <1> DEFINE i == read_dentry_by_name(w)
             E == {e \in Range(Dentry) : e.name = w}
  <1>1. \/ i = 0 /\ \A j \in DOMAIN Dentry : Dentry[j].name # w
        \/ i \in DOMAIN Dentry /\ Dentry[i].name = w
    <2>1. Len(w) <= F_TYPE_OFFSET
      BY SizeAssumption DEF Text
    <2> QED BY <2>1, FindsEntry
  <1>2. Meant(w) = {Program[d.inode] : d \in E} \ {"none"}
    BY Zenon DEF Meant
  <1>3. Executable(w) = IF i = 0 THEN {"none"}
                        ELSE IF Unread(Dentry[i].inode) THEN {"none", "wild"}
                        ELSE {Program[Dentry[i].inode]}
    BY Zenon DEF Executable
  <1>4. DOMAIN Dentry = 1 .. Len(Dentry) /\ Len(Dentry) \in Nat
    BY DentryAssumption
  <1>5. \A j, k \in DOMAIN Dentry : Dentry[j].name = Dentry[k].name => j = k
    BY DentryAssumption
  <1>6. Range(Dentry) = {Dentry[x] : x \in DOMAIN Dentry}
    BY Zenon DEF Range
  <1> HIDE DEF i
  <1>7. CASE i = 0
    <2>1. E = {}
      BY <1>1, <1>4, <1>6, <1>7
    <2> HIDE DEF E
    <2> QED BY <1>2, <1>3, <1>7, <2>1
  <1>8. CASE i # 0
    <2>1. i \in DOMAIN Dentry /\ Dentry[i].name = w
      BY <1>1, <1>8
    <2>2. E = {Dentry[i]}
      <3>1. Dentry[i] \in E
        BY <1>6, <2>1
      <3>2. ASSUME NEW e \in E PROVE e = Dentry[i]
        <4>1. PICK x \in DOMAIN Dentry : e = Dentry[x]
          BY <1>6
        <4>2. x = i
          BY <1>5, <2>1, <4>1
        <4> QED BY <4>1, <4>2
      <3> QED BY <3>1, <3>2
    <2>3. ~Unread(Dentry[i].inode)
      BY <1>6, <2>1, Zenon DEF Legible
    <2> HIDE DEF E
    <2>4. Meant(w) = {Program[Dentry[i].inode]} \ {"none"}
      BY <1>2, <2>2
    <2>5. Executable(w) = {Program[Dentry[i].inode]}
      BY <1>3, <1>8, <2>3
    <2> QED BY <2>4, <2>5
  <1> QED BY <1>7, <1>8

-----------------------------------------------------------------------------
(* getargs. *)

\* getargs cuts the spaces before the first other character.
LEMMA GetargsCuts ==
    ASSUME NEW rest \in Text, Len(rest) < ARG_MAX, rest # <<>>, rest[1] = SP
    PROVE  \E n \in 1 .. Len(rest) :
              /\ getargs(rest).ok
              /\ rest = [i \in 1 .. n |-> SP] \o getargs(rest).buf
              /\ getargs(rest).buf # <<>> => Head(getargs(rest).buf) # SP
  <1> DEFINE n == Scan(rest, 0, Char \ {SP})
             starts == ArgStarts(rest)
             offset == CHOOSE i \in starts : \A j \in starts : i <= j
             buf == SubSeq(rest, offset + 2, Len(rest))
  <1>1. /\ rest \in Seq(Char) /\ Len(rest) \in Nat \ {0} /\ ARG_MAX \in Nat
        /\ NUL \in Char \ {SP} /\ \A i \in 1 .. Len(rest) : rest[i] \in Char
    BY CharAssumption, SizeAssumption DEF Text
  <1>2. /\ n \in 0 .. Len(rest) /\ At(rest, n) \in Char \ {SP}
        /\ \A j \in 0 .. (n - 1) : At(rest, j) \notin Char \ {SP}
    BY <1>1, ScanFinds
  <1> HIDE DEF n
  <1>3. \A j \in 0 .. (Len(rest) - 1) : At(rest, j) = rest[j + 1]
    BY <1>1 DEF At
  <1>4. n # 0
    <2>1. At(rest, 0) = SP
      BY <1>1, <1>3
    <2> QED BY <1>2, <2>1
  <1>5. \A j \in 0 .. (n - 1) : At(rest, j) = SP
    <2>1. SUFFICES ASSUME NEW j \in 0 .. (n - 1) PROVE At(rest, j) = SP
      OBVIOUS
    <2>2. j \in 0 .. (Len(rest) - 1) /\ j + 1 \in 1 .. Len(rest)
      BY <1>1, <1>2
    <2> QED BY <1>1, <1>2, <1>3, <2>2
  <1>6. offset = n - 1 /\ starts # {}
    <2>1. starts = {i \in 0 .. (ARG_MAX - 2) : At(rest, i) = SP /\ At(rest, i + 1) # SP}
      BY DEF ArgStarts
    <2> DEFINE m == n - 1
    <2>2. m \in Int /\ m + 1 = n /\ m \in 0 .. (ARG_MAX - 2) /\ m \in 0 .. (n - 1)
      BY <1>1, <1>2, <1>4
    <2> HIDE DEF m, starts
    <2>3. m \in starts
      BY <1>2, <1>5, <2>1, <2>2
    <2>4. \A j \in starts : j \in Int /\ m <= j
      <3>1. SUFFICES ASSUME NEW j \in starts, ~(m <= j) PROVE FALSE
        BY <2>1
      <3>2. j \in Int /\ At(rest, j + 1) # SP /\ j + 1 \in 0 .. (n - 1)
        BY <1>2, <2>1, <2>2, <3>1
      <3> QED BY <1>5, <3>2
    <2>5. offset \in starts /\ \A j \in starts : offset <= j
      BY <2>3, <2>4
    <2> HIDE DEF offset
    <2>6. offset = m
      BY <2>2, <2>3, <2>4, <2>5
    <2> QED BY <2>3, <2>6 DEF m
  <1> HIDE DEF offset
  <1>7. getargs(rest) = [ok |-> TRUE, buf |-> buf]
    <2>1. getargs(rest) = IF rest = <<>> \/ starts = {} THEN [ok |-> FALSE, buf |-> <<>>]
                          ELSE [ok |-> TRUE, buf |-> buf]
      BY Zenon DEF getargs, offset
    <2> HIDE DEF starts
    <2> QED BY <1>6, <2>1
  <1>8. offset + 2 = n + 1 /\ n \in 1 .. Len(rest)
    BY <1>2, <1>4, <1>6
  <1>9. /\ buf \in Seq(Char)
        /\ Len(buf) = Len(rest) - n
        /\ \A i \in 1 .. (Len(rest) - n) : buf[i] = rest[n + i]
    <2>1. /\ SubSeq(rest, n + 1, Len(rest)) \in Seq(Char)
          /\ Len(SubSeq(rest, n + 1, Len(rest))) =
                IF n + 1 <= Len(rest) THEN Len(rest) - (n + 1) + 1 ELSE 0
          /\ \A i \in 1 .. (Len(rest) - (n + 1) + 1) :
                SubSeq(rest, n + 1, Len(rest))[i] = rest[n + 1 + i - 1]
      <3>1. n + 1 \in Nat \ {0} /\ Len(rest) \in 0 .. Len(rest)
        BY <1>1, <1>8
      <3> QED BY <1>1, <3>1, PartOf
    <2> QED BY <1>1, <1>8, <2>1
  <1> HIDE DEF buf
  <1>10. buf # <<>> => Head(buf) # SP
    <2>1. SUFFICES ASSUME buf # <<>> PROVE Head(buf) # SP
      OBVIOUS
    <2>2. Len(buf) # 0 /\ Head(buf) = buf[1]
      BY <1>9, <2>1
    <2>3. n \in 0 .. (Len(rest) - 1) /\ Head(buf) = rest[n + 1]
      BY <1>1, <1>8, <1>9, <2>2
    <2> QED BY <1>2, <1>3, <2>3
  <1>11. rest = [i \in 1 .. n |-> SP] \o buf
    <2> DEFINE gap == [i \in 1 .. n |-> SP]
    <2>1. gap \in Seq(Char) /\ Len(gap) = n /\ \A i \in 1 .. n : gap[i] = SP
      BY <1>8, CharAssumption
    <2> HIDE DEF gap
    <2>2. /\ gap \o buf \in Seq(Char)
          /\ Len(gap \o buf) = n + (Len(rest) - n)
          /\ \A i \in 1 .. (n + (Len(rest) - n)) :
                (gap \o buf)[i] = IF i <= n THEN gap[i] ELSE buf[i - n]
      BY <1>9, <2>1, ConcatProperties
    <2>3. n + (Len(rest) - n) = Len(rest)
      BY <1>1, <1>8
    <2>4. ASSUME NEW i \in 1 .. Len(rest) PROVE rest[i] = (gap \o buf)[i]
      <3>1. CASE i <= n
        <4>1. i - 1 \in 0 .. (n - 1) /\ i - 1 \in 0 .. (Len(rest) - 1) /\ i \in 1 .. n
          BY <1>1, <1>8, <3>1
        <4>2. rest[i] = SP
          BY <1>3, <1>5, <4>1
        <4> QED BY <2>1, <2>2, <2>3, <3>1, <4>1, <4>2
      <3>2. CASE ~(i <= n)
        <4>1. i - n \in 1 .. (Len(rest) - n) /\ n + (i - n) = i
          BY <1>1, <1>8, <3>2
        <4> QED BY <1>9, <2>2, <2>3, <3>2, <4>1
      <3> QED BY <3>1, <3>2
    <2> QED BY <1>1, <2>2, <2>3, <2>4, SameSequence DEF gap
  <1>12. getargs(rest).ok /\ getargs(rest).buf = buf
    BY <1>7
  <1> QED BY <1>8, <1>10, <1>11, <1>12

-----------------------------------------------------------------------------
(* The behaviours. *)

\* The command is a string that fits the line, and a program that is about to
\* call getargs has the arguments of that command.
ShellInv ==
    /\ command \in Text
    /\ Len(command) <= KEY_ARR_SIZE
    /\ pc \in {"cat", "grep"} => argument = parse(command).args_buf

LEMMA EmptyText == <<>> \in Text /\ Len(<<>>) <= KEY_ARR_SIZE
  BY SizeAssumption DEF Text

LEMMA InitHolds == ASSUME Init PROVE ShellInv
  BY EmptyText DEF Init, ShellInv

\* The shell reads a line.
LEMMA ReadKeeps == ASSUME Read PROVE ShellInv'
  <1>1. PICK buf \in Typed :
          LET n == IF buf # <<>> /\ Last(buf) = NL THEN Len(buf) - 1 ELSE Len(buf)
          IN  command' = CString(SubSeq(buf, 1, n))
    BY Zenon DEF Read
  <1> DEFINE n == IF buf # <<>> /\ Last(buf) = NL THEN Len(buf) - 1 ELSE Len(buf)
             s == SubSeq(buf, 1, n)
  <1>2. /\ buf \in Seq(Char) /\ Len(buf) \in Nat /\ Len(buf) <= KEY_ARR_SIZE
        /\ KEY_ARR_SIZE \in Nat
    BY TypedAssumption, SizeAssumption
  <1>3. n \in 0 .. Len(buf)
    <2>1. buf # <<>> => Len(buf) # 0
      BY <1>2
    <2> QED BY <1>2, <2>1
  <1>4. command' = CString(s)
    BY <1>1
  <1> HIDE DEF n
  <1>5. s \in Seq(Char) /\ Len(s) = IF 1 <= n THEN n - 1 + 1 ELSE 0
    BY <1>2, <1>3, PartOf
  <1>6. Len(s) \in Nat /\ Len(s) <= KEY_ARR_SIZE
    BY <1>2, <1>3, <1>5
  <1> HIDE DEF s
  <1>7. command' \in Text /\ Len(command') <= Len(s)
    BY <1>4, <1>5, CStringText
  <1>8. Len(command') \in Nat
    BY <1>7 DEF Text
  <1>9. pc' \in {"prompt", "execute"}
    BY DEF Read
  <1> QED BY <1>2, <1>6, <1>7, <1>8, <1>9 DEF ShellInv

\* execute stores the arguments of its command in the PCB.
LEMMA ExecuteKeeps == ASSUME ShellInv, Execute PROVE ShellInv'
  <1>1. command' = command
    BY DEF Execute
  <1>2. \/ pc' \in {"wild", "report"}
        \/ argument' = parse(command).args_buf
    BY ExecuteGoes
  <1> QED BY <1>1, <1>2 DEF ShellInv

\* A step of a program leaves the command alone and calls getargs no more.
LEMMA ProgramKeeps ==
    ASSUME ShellInv, Next, ~Read, ~Execute, ~Report
    PROVE  ShellInv'
  <1>1. command' = command /\ pc' \notin {"cat", "grep"}
    <2>1. CASE Other \/ Args \/ Failed
      BY <2>1 DEF Other, Args, Failed, Halts
    <2>2. CASE CatOpen \/ CatRead \/ LsOpen \/ LsRead
      BY <2>2 DEF CatOpen, CatRead, LsOpen, OpenDir, LsRead, Halts
    <2>3. CASE GrepOpen \/ GrepDir \/ GrepRead
      BY <2>3 DEF GrepOpen, OpenDir, GrepDir, GrepRead, Halts
    <2>4. CASE GrepKeep \/ GrepSearch \/ GrepClose
      BY <2>4 DEF GrepKeep, GrepSearch, GrepClose
    <2>5. CASE Counter \/ Hello
      BY <2>5 DEF Counter, Hello, Halts
    <2> QED BY <2>1, <2>2, <2>3, <2>4, <2>5 DEF Next
  <1> QED BY <1>1 DEF ShellInv

LEMMA NextKeeps == ShellInv /\ [Next]_vars => ShellInv'
  <1>1. ASSUME ShellInv, Report PROVE ShellInv'
    <2>1. command' = <<>> /\ pc' = "prompt"
      BY <1>1 DEF Report
    <2> QED BY <2>1, EmptyText DEF ShellInv
  <1>2. ShellInv /\ UNCHANGED vars => ShellInv'
    BY DEF ShellInv, vars
  <1> QED BY <1>1, <1>2, ReadKeeps, ExecuteKeeps, ProgramKeeps

\* For every directory without equal names, every line and all sizes, execute
\* runs the program that the first word of the line names, fails when there is
\* none or no pid is free, and overruns no array, as long as the line fits the
\* arrays and the magic number of the file can be read (syscall.c 132-200,
\* filesystem.c 57-91).
THEOREM CommandsRun == Spec => RunsWhatWasTyped
  <1>1. ASSUME ShellInv, Execute, Fits(FirstLine(command)),
               Legible(FirstWord(FirstLine(command)))
        PROVE  LET meant == Meant(FirstWord(FirstLine(command)))
               IN  IF meant = {} \/ full' THEN pc' = "report" /\ rval' = -1
                   ELSE pc' \in meant
    <2> DEFINE w == FirstWord(FirstLine(command))
               p == parse(command)
    <2>1. p.exe_name = w /\ ~p.too_long /\ ~p.overrun /\ w \in Text /\ Len(w) < F_TYPE_OFFSET
      BY <1>1, ParseFits DEF ShellInv
    <2>2. \/ Executable(w) = {"none"} /\ Meant(w) = {}
          \/ \E r : Executable(w) = {r} /\ r # "none" /\ r \in Meant(w)
      <3>1. Legible(w)
        BY <1>1
      <3> HIDE DEF w
      <3> QED BY <2>1, <3>1, FindsProgram
    <2>3. \E runs \in Executable(w) :
             \/ (runs = "none" \/ full') /\ pc' = "report" /\ rval' = -1
             \/ runs # "none" /\ ~full' /\ pc' = runs
      <3>1. \/ p.overrun
            \/ \E runs \in IF p.too_long THEN {"none"} ELSE Executable(p.exe_name) :
                  \/ (runs = "none" \/ full') /\ pc' = "report" /\ rval' = -1
                  \/ runs # "none" /\ ~full' /\ pc' = runs
        BY <1>1, Zenon DEF Execute
      <3> HIDE DEF p, w
      <3> QED BY <2>1, <3>1
    <2> HIDE DEF w
    <2>4. IF Meant(w) = {} \/ full' THEN pc' = "report" /\ rval' = -1 ELSE pc' \in Meant(w)
      BY <2>2, <2>3
    <2> QED BY <2>4 DEF w
  <1>2. ShellInv /\ [Next]_vars =>
          [Execute /\ Fits(FirstLine(command)) /\ Legible(FirstWord(FirstLine(command))) =>
             LET meant == Meant(FirstWord(FirstLine(command)))
             IN  IF meant = {} \/ full' THEN pc' = "report" /\ rval' = -1
                 ELSE pc' \in meant]_vars
    BY <1>1, Zenon
  <1>3. Init => ShellInv
    BY InitHolds
  <1> QED BY <1>2, <1>3, NextKeeps, PTL DEF Spec, RunsWhatWasTyped

\* For every line and all sizes, a program gets the rest of its line from
\* getargs, without the spaces before it, and an error when there is none
\* (syscall.c 158-166, 500-521).
THEOREM ArgumentsArrive == Spec => ArgumentIsRest
  <1>1. ASSUME ShellInv, Args, Fits(FirstLine(command))
        PROVE  LET rest == Rest(FirstLine(command))
               IN  IF rest = <<>> THEN pc' = "report"
                   ELSE \E n \in 1 .. Len(rest) :
                           /\ rest = [i \in 1 .. n |-> SP] \o word'
                           /\ word' # <<>> => Head(word') # SP
    <2> DEFINE rest == Rest(FirstLine(command))
    <2>1. argument = rest /\ rest \in Text /\ Len(rest) < ARG_MAX
          /\ (rest # <<>> => rest[1] = SP)
      BY <1>1, ParseFits DEF ShellInv, Args
    <2>2. \/ getargs(argument).ok /\ word' = getargs(argument).buf
          \/ ~getargs(argument).ok /\ pc' = "report"
      BY <1>1, Zenon DEF Args, Halts
    <2> HIDE DEF rest
    <2>3. CASE rest = <<>>
      <3>1. getargs(rest) = [ok |-> FALSE, buf |-> <<>>]
        BY <2>3, Zenon DEF getargs
      <3>2. ~getargs(rest).ok
        BY <3>1
      <3> QED BY <2>1, <2>2, <2>3, <3>2 DEF rest
    <2>4. CASE rest # <<>>
      <3>1. PICK n \in 1 .. Len(rest) :
              /\ getargs(rest).ok
              /\ rest = [i \in 1 .. n |-> SP] \o getargs(rest).buf
              /\ getargs(rest).buf # <<>> => Head(getargs(rest).buf) # SP
        BY <2>1, <2>4, GetargsCuts
      <3>2. word' = getargs(rest).buf
        BY <2>1, <2>2, <3>1
      <3>3. /\ rest = [i \in 1 .. n |-> SP] \o word'
            /\ word' # <<>> => Head(word') # SP
        BY <3>1, <3>2, Zenon
      <3> QED BY <2>4, <3>3, Zenon DEF rest
    <2> QED BY <2>3, <2>4
  <1>2. ShellInv /\ [Next]_vars =>
          [Args /\ Fits(FirstLine(command)) =>
             LET rest == Rest(FirstLine(command))
             IN  IF rest = <<>> THEN pc' = "report"
                 ELSE \E n \in 1 .. Len(rest) :
                         /\ rest = [i \in 1 .. n |-> SP] \o word'
                         /\ word' # <<>> => Head(word') # SP]_vars
    BY <1>1, Zenon
  <1>3. Init => ShellInv
    BY InitHolds
  <1> QED BY <1>2, <1>3, NextKeeps, PTL DEF Spec, ArgumentIsRest

-----------------------------------------------------------------------------
(* What cat and ls write. *)

\* Nothing has been written when a program starts; cat has written what lies
\* before the position in its file, ls the names before the next entry.
Written ==
    /\ text \in Seq(Char)
    /\ pc \in {"execute", "cat", "cat_open", "ls"} => out = <<>>
    /\ pc = "cat_read" =>
          /\ file \in DOMAIN Dentry
          /\ Dentry[file].type = "file" =>
                /\ file_pos \in 0 .. Len(Contents(Dentry[file].inode))
                /\ out = SubSeq(Contents(Dentry[file].inode), 1, file_pos)
                /\ ReadFails => file_pos = 0
    /\ pc = "ls_read" =>
          /\ entry \in 1 .. (Len(Dentry) + 1)
          /\ out = [i \in 1 .. (entry - 1) |-> Dentry[i].name]

LEMMA ContentsText ==
    ASSUME text \in Seq(Char), NEW i \in DOMAIN Dentry
    PROVE  Contents(Dentry[i].inode) \in Seq(Char)
  <1>1. Dentry[i].inode \in 0 .. (NumInodes - 1)
    BY EntryTypes
  <1>2. Image[Dentry[i].inode] \in Seq(Char)
    BY <1>1, InodeAssumption
  <1> QED BY <1>2 DEF Contents

LEMMA AppendToEmpty == ASSUME NEW x PROVE Append(<<>>, x) = <<x>>
  OBVIOUS

\* cat reads on where it was, and gets nothing only at the end.
LEMMA SliceGoesOn ==
    ASSUME NEW c \in Seq(Char), NEW pos \in 0 .. Len(c), NEW n \in Nat \ {0}
    PROVE  LET buf == Slice(c, pos, n)
           IN  /\ buf = <<>> => pos = Len(c)
               /\ pos + Len(buf) \in 0 .. Len(c)
               /\ SubSeq(c, 1, pos) \o buf = SubSeq(c, 1, pos + Len(buf))
  <1> DEFINE e == IF pos + n < Len(c) THEN pos + n ELSE Len(c)
             buf == SubSeq(c, pos + 1, e)
  <1>1. Slice(c, pos, n) = buf
    BY Zenon DEF Slice
  <1>2. e \in pos .. Len(c) /\ pos + 1 \in Nat \ {0} /\ Len(c) \in Nat
        /\ (e = pos => pos = Len(c))
    OBVIOUS
  <1> HIDE DEF e
  <1>3. e \in 0 .. Len(c)
    BY <1>2
  <1>4. buf \in Seq(Char) /\ Len(buf) = IF pos + 1 <= e THEN e - (pos + 1) + 1 ELSE 0
    BY <1>2, <1>3, PartOf
  <1>5. Len(buf) = e - pos
    BY <1>2, <1>4
  <1>6. SubSeq(c, 1, pos) \o buf = SubSeq(c, 1, e)
    <2>1. 1 \in 1 .. (Len(c) + 1) /\ pos \in (1 - 1) .. Len(c)
      BY <1>2
    <2> QED BY <1>2, <2>1, ConcatAdjacentSubSeq
  <1> HIDE DEF buf
  <1>7. pos + Len(buf) = e
    BY <1>2, <1>5
  <1>8. buf = <<>> => pos = Len(c)
    BY <1>2, <1>5
  <1> QED BY <1>1, <1>3, <1>6, <1>7, <1>8

\* ls gets the whole name of the next entry, and nothing only at the end.
LEMMA NextNameIs ==
    ASSUME entry \in 1 .. (Len(Dentry) + 1)
    PROVE  IF entry = Len(Dentry) + 1 THEN NextName(F_TYPE_OFFSET) = <<>>
           ELSE /\ entry \in DOMAIN Dentry
                /\ NextName(F_TYPE_OFFSET) = Dentry[entry].name
                /\ Dentry[entry].name # <<>>
  <1>1. Len(Dentry) \in Nat /\ DOMAIN Dentry = 1 .. Len(Dentry) /\ F_TYPE_OFFSET \in Nat
    BY DentryAssumption, SizeAssumption
  <1>2. CASE entry = Len(Dentry) + 1
    <2>1. entry > Len(Dentry)
      BY <1>1, <1>2
    <2> QED BY <1>2, <2>1 DEF NextName
  <1>3. CASE entry # Len(Dentry) + 1
    <2>1. entry \in DOMAIN Dentry /\ ~(entry > Len(Dentry))
      BY <1>1, <1>3
    <2> DEFINE d == Dentry[entry]
               name == d.name
               n == IF F_TYPE_OFFSET < DentryLen(d) THEN F_TYPE_OFFSET ELSE DentryLen(d)
               c == Append(name, d.type)
    <2>2. name \in Text /\ Len(name) \in 1 .. F_TYPE_OFFSET
      BY <2>1, EntryTypes
    <2>3. n = Len(name)
      BY <1>1, <2>2 DEF DentryLen
    <2>4. NextName(F_TYPE_OFFSET) = Slice(c, 0, n)
      BY <2>1 DEF NextName
    <2> HIDE DEF n
    <2>5. Slice(c, 0, n) = SubSeq(c, 0 + 1, IF 0 + n < Len(c) THEN 0 + n ELSE Len(c))
      BY DEF Slice
    <2> DEFINE S == Char \cup {d.type}
    <2>6. name \in Seq(S) /\ d.type \in S
      BY <2>2 DEF Text
    <2> HIDE DEF d, name
    <2>7. c \in Seq(S) /\ Len(c) = Len(name) + 1 /\ \A i \in 1 .. Len(name) : c[i] = name[i]
      BY <2>6, AppendProperties
    <2> HIDE DEF c, S
    <2>8. SubSeq(c, 0 + 1, IF 0 + n < Len(c) THEN 0 + n ELSE Len(c)) = SubSeq(c, 1, Len(name))
      BY <2>2, <2>3, <2>7
    <2>9. /\ SubSeq(c, 1, Len(name)) \in Seq(S)
          /\ Len(SubSeq(c, 1, Len(name))) =
                IF 1 <= Len(name) THEN Len(name) - 1 + 1 ELSE 0
          /\ \A i \in 1 .. (Len(name) - 1 + 1) : SubSeq(c, 1, Len(name))[i] = c[1 + i - 1]
      <3>1. Len(name) \in 0 .. Len(c)
        BY <2>2, <2>7
      <3> QED BY <2>7, <3>1, PartOf
    <2>10. SubSeq(c, 1, Len(name)) = name
      <3>1. Len(SubSeq(c, 1, Len(name))) = Len(name)
        BY <2>2, <2>9
      <3>2. \A i \in 1 .. Len(name) : SubSeq(c, 1, Len(name))[i] = name[i]
        BY <2>2, <2>7, <2>9
      <3> QED BY <2>6, <2>9, <3>1, <3>2, SameSequence
    <2>11. NextName(F_TYPE_OFFSET) = name
      BY <2>4, <2>5, <2>8, <2>10
    <2>12. name # <<>>
      BY <2>2
    <2> QED BY <1>3, <2>1, <2>11, <2>12 DEF name, d
  <1> QED BY <1>2, <1>3

LEMMA WrittenInit == ASSUME Init PROVE Written
  BY InodeAssumption DEF Init, Written

\* execute starts a program that has written nothing.
LEMMA ExecuteWrites == ASSUME Written, Execute PROVE Written'
  <1>1. out = <<>> /\ UNCHANGED <<text, out>>
    BY DEF Execute, Written
  <1>2. pc' \notin {"cat_read", "ls_read"}
    BY ExecuteGoes DEF Outcome
  <1> QED BY <1>1, <1>2 DEF Written

LEMMA CatOpenWrites == ASSUME Written, CatOpen PROVE Written'
  <1> DEFINE i == read_dentry_by_name(word)
  <1>1. out = <<>> /\ text' = text /\ text \in Seq(Char)
    BY DEF CatOpen, Written
  <1>2. \/ pc' = "report"
        \/ i # 0 /\ pc' = "cat_read" /\ file' = i /\ file_pos' = 0 /\ out' = out
    BY DEF CatOpen, Halts
  <1>3. i \in 0 .. Len(Dentry)
    BY FirstEntry
  <1> HIDE DEF i
  <1>4. CASE pc' = "report"
    BY <1>1, <1>4 DEF Written
  <1>5. CASE i # 0 /\ pc' = "cat_read" /\ file' = i /\ file_pos' = 0 /\ out' = out
    <2>1. i \in DOMAIN Dentry
      BY <1>3, <1>5, DentryAssumption
    <2> DEFINE c == Contents(Dentry[i].inode)
    <2>2. c \in Seq(Char)
      BY <1>1, <2>1, ContentsText
    <2>3. Contents(Dentry[file].inode)' = c
      BY <1>1, <1>5 DEF Contents
    <2> HIDE DEF c
    <2>4. 0 \in 0 .. Len(c) /\ SubSeq(c, 1, 0) = <<>>
      BY <2>2, SubSeqEmpty
    <2> QED BY <1>1, <1>5, <2>1, <2>3, <2>4 DEF Written
  <1> QED BY <1>2, <1>4, <1>5

LEMMA CatReadWrites == ASSUME Written, CatRead PROVE Written'
  <1>1. text' = text /\ file' = file /\ text \in Seq(Char) /\ file \in DOMAIN Dentry
        /\ pc = "cat_read" /\ ~ReadFails
    BY DEF CatRead, Written
  <1> DEFINE c == Contents(Dentry[file].inode)
             buf == Bytes(file, file_pos, BUFSIZE)
  <1>2. \/ pc' = "report"
        \/ pc' = pc /\ out' = out \o buf /\ file_pos' = file_pos + Len(buf)
    BY DEF CatRead, Halts
  <1>3. CASE pc' = "report"
    BY <1>1, <1>3 DEF Written
  <1>4. CASE pc' = pc /\ out' = out \o buf /\ file_pos' = file_pos + Len(buf)
    <2>1. c \in Seq(Char)
      BY <1>1, ContentsText
    <2>2. Contents(Dentry[file].inode)' = c /\ (ReadFails' <=> ReadFails)
      BY <1>1 DEF Contents, ReadFails
    <2>3. ASSUME Dentry[file].type = "file"
          PROVE  file_pos' \in 0 .. Len(c) /\ out' = SubSeq(c, 1, file_pos')
      <3>1. file_pos \in 0 .. Len(c) /\ out = SubSeq(c, 1, file_pos)
        BY <1>1, <2>3 DEF Written
      <3>2. buf = Slice(c, file_pos, BUFSIZE)
        BY <2>3 DEF Bytes
      <3>3. BUFSIZE \in Nat \ {0}
        BY SizeAssumption
      <3> HIDE DEF c, buf
      <3>4. /\ file_pos + Len(buf) \in 0 .. Len(c)
            /\ SubSeq(c, 1, file_pos) \o buf = SubSeq(c, 1, file_pos + Len(buf))
        BY <2>1, <3>1, <3>2, <3>3, SliceGoesOn
      <3> QED BY <1>4, <3>1, <3>4
    <2> HIDE DEF c, buf
    <2> QED BY <1>1, <1>4, <2>2, <2>3 DEF Written
  <1> QED BY <1>2, <1>3, <1>4

LEMMA LsReadWrites == ASSUME Written, LsRead PROVE Written'
  <1> DEFINE buf == NextName(F_TYPE_OFFSET)
  <1>1. /\ text' = text /\ text \in Seq(Char) /\ pc = "ls_read"
        /\ entry \in 1 .. (Len(Dentry) + 1)
        /\ out = [i \in 1 .. (entry - 1) |-> Dentry[i].name]
        /\ entry' = IF entry <= Len(Dentry) THEN entry + 1 ELSE 1
    BY DEF LsRead, Written, dir_read
  <1>2. \/ pc' = "report"
        \/ pc' = pc /\ buf # <<>> /\ out' = Append(out, buf)
    BY DEF LsRead, Halts, Say
  <1>3. CASE pc' = "report"
    BY <1>1, <1>3 DEF Written
  <1>4. CASE pc' = pc /\ buf # <<>> /\ out' = Append(out, buf)
    <2>1. Len(Dentry) \in Nat
      BY DentryAssumption
    <2>2. entry # Len(Dentry) + 1 /\ entry \in DOMAIN Dentry /\ buf = Dentry[entry].name
      BY <1>1, <1>4, NextNameIs
    <2> HIDE DEF buf
    <2>3. entry' = entry + 1 /\ entry' \in 1 .. (Len(Dentry) + 1) /\ entry' - 1 = entry
      BY <1>1, <2>1, <2>2
    <2>4. Append(out, buf) = [i \in 1 .. entry |-> Dentry[i].name]
      <3> DEFINE S == {Dentry[i].name : i \in 1 .. entry}
                 all == [i \in 1 .. entry |-> Dentry[i].name]
      <3>1. out \in Seq(S) /\ Len(out) = entry - 1 /\ buf \in S /\ entry \in Nat \ {0}
        <4>1. entry \in Nat \ {0} /\ entry \in 1 .. entry /\ entry - 1 \in Nat
          BY <1>1, <2>1
        <4>2. buf \in S
          BY <2>2, <4>1
        <4>3. \A i \in 1 .. (entry - 1) : Dentry[i].name \in S
          BY <4>1
        <4> HIDE DEF S
        <4>4. out \in Seq(S) /\ Len(out) = entry - 1
          BY <1>1, <4>1, <4>3
        <4> QED BY <4>1, <4>2, <4>4
      <3>2. all \in Seq(S) /\ Len(all) = entry
        BY <1>1, <2>1
      <3>3. \A i \in 1 .. entry : Append(out, buf)[i] = all[i]
        BY <1>1, <2>2, <3>1
      <3>4. Append(out, buf) \in Seq(S) /\ Len(Append(out, buf)) = entry
        BY <3>1
      <3> HIDE DEF S, all
      <3>5. Append(out, buf) = all
        BY <3>2, <3>3, <3>4, SameSequence
      <3> QED BY <3>5 DEF all
    <2>5. out' = [i \in 1 .. (entry' - 1) |-> Dentry[i].name]
      BY <1>4, <2>3, <2>4
    <2> QED BY <1>1, <1>4, <2>3, <2>5 DEF Written
  <1> QED BY <1>2, <1>3, <1>4

LEMMA WrittenNext == Written /\ [Next]_vars => Written'
  <1> SUFFICES ASSUME Written, [Next]_vars PROVE Written'
    OBVIOUS
  <1>1. CASE Read
    <2>1. pc' \in {"prompt", "execute"} /\ out' = <<>> /\ text' = text
      BY <1>1 DEF Read
    <2> QED BY <2>1 DEF Written
  <1>2. CASE Execute
    BY <1>2, ExecuteWrites
  <1>3. CASE Report \/ Other \/ Failed \/ Counter \/ Hello
    <2>1. pc' \in {"prompt", "report"} /\ text' = text
      BY <1>3 DEF Report, Other, Failed, Counter, Hello, Halts
    <2> QED BY <2>1 DEF Written
  <1>4. CASE Args
    <2>1. text' = text
      BY <1>4 DEF Args
    <2>2. \/ pc' = (IF pc = "cat" THEN "cat_open" ELSE "grep_open") /\ out' = out
          \/ pc' = "report"
      BY <1>4, Zenon DEF Args, Halts
    <2> QED BY <2>1, <2>2 DEF Written
  <1>5. CASE CatOpen
    BY <1>5, CatOpenWrites
  <1>6. CASE CatRead
    BY <1>6, CatReadWrites
  <1>7. CASE LsOpen
    <2>0. CASE pc' = "report" /\ text' = text
      BY <2>0 DEF Written
    <2> SUFFICES ASSUME pc' # "report" PROVE Written'
      BY <1>7, <2>0 DEF LsOpen
    <2>1. pc = "ls" /\ pc' = "ls_read" /\ entry' = 1 /\ out' = out /\ text' = text
      BY <1>7 DEF LsOpen, OpenDir, Halts
    <2>2. out' = <<>> /\ Len(Dentry) \in Nat
      BY <2>1, DentryAssumption DEF Written
    <2>3. <<>> = [i \in 1 .. 0 |-> Dentry[i].name]
      OBVIOUS
    <2>4. entry' - 1 = 0 /\ entry' \in 1 .. (Len(Dentry) + 1)
      BY <2>1, <2>2
    <2> QED BY <2>1, <2>2, <2>3, <2>4 DEF Written
  <1>8. CASE LsRead
    BY <1>8, LsReadWrites
  <1>9. CASE GrepOpen \/ GrepDir \/ GrepRead \/ GrepKeep \/ GrepSearch \/ GrepClose
    <2>1. /\ text' = text
          /\ pc' \in {"grep_dir", "report", "grep_read", "grep_line", "grep_close"}
      BY <1>9 DEF GrepOpen, OpenDir, GrepDir, GrepRead, GrepKeep, GrepSearch, GrepClose, Halts
    <2> QED BY <2>1 DEF Written
  <1>10. CASE UNCHANGED vars
    BY <1>10 DEF vars, open_file, Written, Contents, ReadFails
  <1> QED BY <1>1, <1>2, <1>3, <1>4, <1>5, <1>6, <1>7, <1>8, <1>9, <1>10 DEF Next

\* For all files, directories and buffer sizes, cat has written the whole file
\* when it ends, unless read_data refuses the inode, and ls every name
\* (ece391cat.c 21-29, ece391ls.c 17-26, filesystem.c 144-172, 279-313).
THEOREM OutputsRight == Spec => OutputIsRight
  <1>1. ASSUME Written, [Next]_vars, vars' # vars, pc' = "report", pc = "cat_read",
               Dentry[file].type = "file"
        PROVE  out' = IF Dentry[file].inode = NumInodes - 1 THEN <<"file read failed">>
                      ELSE Contents(Dentry[file].inode)
    <2> DEFINE c == Contents(Dentry[file].inode)
    <2>1. /\ file \in DOMAIN Dentry /\ file_pos \in 0 .. Len(c)
          /\ out = SubSeq(c, 1, file_pos) /\ (ReadFails => file_pos = 0)
          /\ text \in Seq(Char)
      BY <1>1 DEF Written
    <2>2. c \in Seq(Char)
      BY <2>1, ContentsText
    <2>3. Dentry[file].inode \in 0 .. (NumInodes - 1) /\ NumInodes \in Nat
      BY <2>1, EntryTypes, InodeAssumption
    <2>4. ReadFails <=> Dentry[file].inode = NumInodes - 1
      BY <1>1, <2>3 DEF ReadFails, Refuses
    <2>5. Failed \/ CatRead
      BY <1>1 DEF Next, Read, Execute, Report, Other, Args, CatOpen, LsOpen, LsRead,
                  GrepOpen, GrepDir, GrepRead, GrepKeep, GrepSearch, GrepClose,
                  Counter, Hello
    <2>6. CASE Failed
      <3>1. ReadFails /\ out' = Append(out, "file read failed")
        BY <2>6 DEF Failed, Say
      <3> HIDE DEF c
      <3>2. out = <<>>
        <4>1. SubSeq(c, 1, 0) = <<>>
          BY SubSeqEmpty
        <4> QED BY <2>1, <3>1, <4>1
      <3>3. out' = <<"file read failed">>
        BY <3>1, <3>2, AppendToEmpty, Zenon
      <3> QED BY <2>4, <3>1, <3>3
    <2>7. CASE CatRead
      <3> DEFINE buf == Bytes(file, file_pos, BUFSIZE)
      <3>1. ~ReadFails /\ buf = <<>> /\ out' = out
        BY <1>1, <2>7 DEF CatRead
      <3>2. buf = Slice(c, file_pos, BUFSIZE) /\ BUFSIZE \in Nat \ {0}
        BY <1>1, SizeAssumption DEF Bytes
      <3> HIDE DEF buf
      <3>3. file_pos = Len(c)
        <4> HIDE DEF c
        <4> QED BY <2>1, <2>2, <3>1, <3>2, SliceGoesOn
      <3>4. out' = c
        <4> HIDE DEF c
        <4> QED BY <2>1, <2>2, <3>1, <3>3, SubSeqFull
      <3> QED BY <2>4, <3>1, <3>4
    <2> QED BY <2>5, <2>6, <2>7
  <1>2. ASSUME Written, [Next]_vars, vars' # vars, pc' = "report", pc = "ls_read"
        PROVE  out' = [i \in DOMAIN Dentry |-> Dentry[i].name]
    <2>1. LsRead
      BY <1>2 DEF Next, Read, Execute, Report, Other, Args, Failed, CatOpen, CatRead, LsOpen,
                  GrepOpen, GrepDir, GrepRead, GrepKeep, GrepSearch, GrepClose,
                  Counter, Hello
    <2>2. NextName(F_TYPE_OFFSET) = <<>> /\ out' = out
      BY <1>2, <2>1 DEF LsRead
    <2>3. /\ entry \in 1 .. (Len(Dentry) + 1)
          /\ out = [i \in 1 .. (entry - 1) |-> Dentry[i].name]
      BY <1>2 DEF Written
    <2>4. entry = Len(Dentry) + 1
      BY <2>2, <2>3, NextNameIs
    <2>5. entry - 1 = Len(Dentry) /\ DOMAIN Dentry = 1 .. Len(Dentry)
      BY <2>4, DentryAssumption
    <2> QED BY <2>2, <2>3, <2>5
  <1>3. Written /\ [Next]_vars =>
          [pc' = "report" =>
             /\ pc = "cat_read" /\ Dentry[file].type = "file" =>
                   out' = IF Dentry[file].inode = NumInodes - 1 THEN <<"file read failed">>
                          ELSE Contents(Dentry[file].inode)
             /\ pc = "ls_read" => out' = [i \in DOMAIN Dentry |-> Dentry[i].name]]_vars
    BY <1>1, <1>2, Zenon
  <1>4. Init => Written
    BY WrittenInit
  <1> QED BY <1>3, <1>4, WrittenNext, PTL DEF Spec, OutputIsRight
-----------------------------------------------------------------------------
(* What grep prints. *)

Plain == Char \ {NUL, NL}

Record == [file : Nat, line : Text]

InFile == pc \in {"grep_read", "grep_line", "grep_close"}

\* What a program has written and grep keeps, whatever the files hold.
GrepTypes ==
    /\ text \in Seq(Char)
    /\ pc \in {"execute", "grep", "grep_open"} => out = <<>>
    /\ InFile \/ pc \in {"grep_open", "grep_dir"} => word \in Seq(Plain)
    /\ pc = "grep_dir" =>
          /\ entry \in 1 .. (Len(Dentry) + 1)
          /\ out \in Seq(Record)
          /\ \A j \in DOMAIN out : out[j].file < entry
    /\ InFile =>
          /\ file \in DOMAIN Dentry /\ entry = file + 1
          /\ Dentry[file].type # "dir"
          /\ Dentry[file].type = "file" =>
                file_pos \in 0 .. Len(Contents(Dentry[file].inode))
          /\ out \in Seq(Record)
          /\ \A j \in DOMAIN out : out[j].file <= file
          /\ data \in Seq(Char) /\ Len(data) = BUFSIZE + 1
          /\ last \in 0 .. BUFSIZE
          /\ pc = "grep_read" => last < BUFSIZE
          /\ pc = "grep_line" => line_start \in 0 .. last

\* Where grep begins a line: where one begins, at the end, or at the newline
\* behind a line that filled the buffer.
Boundary(c, q) ==
    /\ q \in 1 .. (Len(c) + 1)
    /\ q = 1 \/ q = Len(c) + 1 \/ c[q - 1] = NL \/ c[q] = NL

\* The lines that hold w and begin before place q.
Before(c, w, q) == {i \in Holding(c, w) : i < q}

\* The lines before place q of the file have been dealt with.
Reached(c, q) == Boundary(c, q) /\ Printed(out, file, c, Before(c, word, q))

\* The buffer holds, from place n on, what lies before the position in the file.
Buffered(c, n) ==
    /\ last <= file_pos
    /\ data[BUFSIZE + 1] # NL
    /\ \A i \in (n + 1) .. last : data[i] = c[file_pos - last + i]

\* What grep keeps while it reads a file that it works for.
GrepReaches ==
    LET c == Contents(Dentry[file].inode)
    IN  InFile /\ Greppable(c) =>
          /\ pc = "grep_read" => Buffered(c, 0) /\ Reached(c, file_pos - last + 1)
          /\ pc = "grep_line" =>
                /\ Buffered(c, line_start)
                /\ Reached(c, file_pos - last + line_start + 1)
                /\ last = BUFSIZE \/ file_pos = Len(c)
                /\ cnt = 0 => file_pos = Len(c)
          /\ pc = "grep_close" => Printed(out, file, c, Holding(c, word))

\* The loop over the buffer ends at the first newline, or behind what is filled.
LEMMA LineEndIs ==
    ASSUME last \in Nat, line_start \in 0 .. last
    PROVE  /\ line_end \in line_start .. last
           /\ line_end = last \/ At(data, line_end) = NL
           /\ \A j \in line_start .. (line_end - 1) : At(data, j) # NL
  <1> DEFINE Is(k) == /\ k = last \/ At(data, k) = NL
                      /\ \A j \in line_start .. (k - 1) : At(data, j) # NL
             T == {k \in line_start .. last : k = last \/ At(data, k) = NL}
  <1>1. last \in T /\ T \in SUBSET Nat
    OBVIOUS
  <1>2. PICK k \in T : \A y \in T : k <= y
    <2> HIDE DEF T
    <2> QED BY <1>1, LeastNumber
  <1>3. \A j \in line_start .. (k - 1) : At(data, j) # NL
    <2>1. ASSUME NEW j \in line_start .. (k - 1), At(data, j) = NL PROVE FALSE
      <3>1. j \in T
        BY <2>1
      <3> QED BY <1>1, <1>2, <3>1
    <2> QED BY <2>1
  <1>4. \E x \in line_start .. last : Is(x)
    BY <1>3
  <1>5. line_end = CHOOSE x \in line_start .. last : Is(x)
    BY DEF line_end
  <1> HIDE DEF Is
  <1>6. line_end \in line_start .. last /\ Is(line_end)
    BY <1>4, <1>5, Zenon
  <1> QED BY <1>6 DEF Is

LEMMA AtIs ==
    ASSUME NEW S, NEW s \in Seq(S), NEW i \in Int
    PROVE  At(s, i) = IF i < Len(s) THEN s[i + 1] ELSE NUL
  BY DEF At

\* A line ends before its newline or at the end of the text.
LEMMA LineAtIs ==
    ASSUME NEW c \in Seq(Char), NEW q \in Nat \ {0}, NEW n \in Nat, q + n - 1 <= Len(c),
           \A i \in q .. (q + n - 1) : c[i] \notin {NL, NUL},
           At(c, q + n - 1) \in {NL, NUL}
    PROVE  LineAt(c, q) = SubSeq(c, q, q + n - 1)
  <1> DEFINE m == Scan(c, q - 1, {NL, NUL})
             e == q + n - 1
  <1>1. q - 1 \in 0 .. Len(c) /\ e \in (q - 1) .. Len(c) /\ Len(c) \in Nat
    OBVIOUS
  <1>2. /\ m \in (q - 1) .. Len(c) /\ At(c, m) \in {NL, NUL}
        /\ \A j \in (q - 1) .. (m - 1) : At(c, j) \notin {NL, NUL}
    BY <1>1, ScanFinds
  <1> HIDE DEF m
  <1>3. ~(m < e)
    <2>1. SUFFICES ASSUME m < e PROVE FALSE
      OBVIOUS
    <2>2. m + 1 \in q .. (q + n - 1) /\ At(c, m) = c[m + 1]
      BY <1>1, <1>2, <2>1 DEF At
    <2> QED BY <1>2, <2>2
  <1>4. ~(e < m)
    <2>1. SUFFICES ASSUME e < m PROVE FALSE
      OBVIOUS
    <2>2. e \in (q - 1) .. (m - 1)
      BY <1>1, <1>2, <2>1
    <2> QED BY <1>2, <2>2
  <1>5. m = e
    BY <1>1, <1>2, <1>3, <1>4
  <1> QED BY <1>5 DEF LineAt, m

\* A line of no more than n characters, of which n are known, ends there.
LEMMA FullLineEnds ==
    ASSUME NEW c \in Seq(Char), NEW q \in Nat \ {0}, NEW n \in Nat, q + n - 1 <= Len(c),
           \A i \in q .. (q + n - 1) : c[i] \notin {NL, NUL},
           Len(LineAt(c, q)) <= n
    PROVE  At(c, q + n - 1) \in {NL, NUL}
  <1> DEFINE m == Scan(c, q - 1, {NL, NUL})
             e == q + n - 1
  <1>1. q - 1 \in 0 .. Len(c) /\ e \in (q - 1) .. Len(c) /\ Len(c) \in Nat
    OBVIOUS
  <1>2. /\ m \in (q - 1) .. Len(c) /\ At(c, m) \in {NL, NUL}
    BY <1>1, ScanFinds
  <1>3. LineAt(c, q) = SubSeq(c, q, m)
    BY DEF LineAt
  <1> HIDE DEF m
  <1>4. ~(m < e)
    <2>1. SUFFICES ASSUME m < e PROVE FALSE
      OBVIOUS
    <2>2. m + 1 \in q .. (q + n - 1) /\ At(c, m) = c[m + 1]
      BY <1>1, <1>2, <2>1 DEF At
    <2> QED BY <1>2, <2>2
  <1>5. m \in 0 .. Len(c)
    BY <1>1, <1>2
  <1>6. Len(SubSeq(c, q, m)) = IF q <= m THEN m - q + 1 ELSE 0
    BY <1>5, PartOf
  <1>7. m = e
    BY <1>1, <1>2, <1>3, <1>4, <1>6
  <1> QED BY <1>2, <1>7

\* The string in a buffer from place a to the NUL at e is the part of the text
\* that was read into it.
LEMMA BufferedLine ==
    ASSUME NEW d \in Seq(Char), NEW a \in Nat, NEW e \in Nat, a <= e, e < Len(d),
           d[e + 1] = NUL,
           NEW c \in Seq(Char), NEW q \in Nat \ {0}, q + (e - a) - 1 <= Len(c),
           \A i \in 1 .. (e - a) : d[a + i] = c[q + i - 1] /\ c[q + i - 1] # NUL
    PROVE  CString(SubSeq(d, a + 1, Len(d))) = SubSeq(c, q, q + (e - a) - 1)
  <1> DEFINE s == SubSeq(d, a + 1, Len(d))
             n == e - a
             m == Scan(s, 0, {NUL})
  <1>1. Len(d) \in Nat /\ Len(d) \in 0 .. Len(d) /\ a + 1 \in Nat \ {0} /\ n \in Nat /\ a + n = e
    OBVIOUS
  <1>2. /\ s \in Seq(Char)
        /\ Len(s) = IF a + 1 <= Len(d) THEN Len(d) - (a + 1) + 1 ELSE 0
        /\ \A i \in 1 .. (Len(d) - (a + 1) + 1) : s[i] = d[(a + 1) + i - 1]
    BY <1>1, PartOf
  <1> HIDE DEF s, n
  <1>3. Len(s) = Len(d) - a /\ \A i \in 1 .. (Len(d) - a) : s[i] = d[a + i]
    <2>1. Len(s) = Len(d) - a
      BY <1>1, <1>2
    <2>2. ASSUME NEW i \in 1 .. (Len(d) - a) PROVE s[i] = d[a + i]
      <3>1. i \in 1 .. (Len(d) - (a + 1) + 1) /\ (a + 1) + i - 1 = a + i
        BY <1>1
      <3> QED BY <1>2, <3>1
    <2> QED BY <2>1, <2>2
  <1>4. n < Len(s) /\ s[n + 1] = NUL /\ Len(s) \in Nat
    <2>1. n + 1 \in 1 .. (Len(d) - a) /\ a + (n + 1) = e + 1
      BY <1>1
    <2>2. s[n + 1] = NUL
      BY <1>3, <2>1
    <2>3. n < Len(s) /\ Len(s) \in Nat
      BY <1>1, <1>3
    <2> QED BY <2>2, <2>3
  <1>5. m \in 0 .. Len(s) /\ At(s, m) = NUL /\ \A j \in 0 .. (m - 1) : At(s, j) # NUL
    <2>1. 0 \in 0 .. Len(s) /\ NUL \in {NUL}
      BY <1>4
    <2>2. /\ m \in 0 .. Len(s) /\ At(s, m) \in {NUL}
          /\ \A j \in 0 .. (m - 1) : At(s, j) \notin {NUL}
      BY <1>2, <2>1, ScanFinds
    <2> HIDE DEF m
    <2> QED BY <2>2
  <1> HIDE DEF m
  <1>6. ~(n < m)
    <2>1. SUFFICES ASSUME n < m PROVE FALSE
      OBVIOUS
    <2>2. n \in 0 .. (m - 1) /\ At(s, n) = s[n + 1]
      BY <1>1, <1>4, <1>5, <2>1 DEF At
    <2> QED BY <1>4, <1>5, <2>2
  <1>7. ~(m < n)
    <2>1. SUFFICES ASSUME m < n PROVE FALSE
      OBVIOUS
    <2>2. m + 1 \in 1 .. n /\ At(s, m) = s[m + 1] /\ m + 1 \in 1 .. (Len(d) - a)
      BY <1>1, <1>3, <1>4, <1>5, <2>1 DEF At
    <2>3. s[m + 1] = d[a + (m + 1)]
      BY <1>3, <2>2
    <2>4. d[a + (m + 1)] = c[q + (m + 1) - 1] /\ c[q + (m + 1) - 1] # NUL
      <3>1. \A i \in 1 .. n : d[a + i] = c[q + i - 1] /\ c[q + i - 1] # NUL
        BY DEF n
      <3> QED BY <2>2, <3>1
    <2> QED BY <1>5, <2>2, <2>3, <2>4
  <1>8. m = n
    BY <1>1, <1>5, <1>6, <1>7
  <1>9. CString(s) = SubSeq(s, 1, n)
    BY <1>8, Zenon DEF CString, strlen, m
  <1> DEFINE u == SubSeq(s, 1, n)
             v == SubSeq(c, q, q + n - 1)
  <1>10. u \in Seq(Char) /\ Len(u) = n /\ \A i \in 1 .. n : u[i] = s[i]
    <2>1. n \in 0 .. Len(s)
      BY <1>1, <1>4
    <2>2. /\ u \in Seq(Char) /\ Len(u) = IF 1 <= n THEN n - 1 + 1 ELSE 0
          /\ \A i \in 1 .. (n - 1 + 1) : u[i] = s[1 + i - 1]
      BY <1>2, <2>1, PartOf
    <2> HIDE DEF u
    <2> QED BY <1>1, <2>2
  <1>11. v \in Seq(Char) /\ Len(v) = n /\ \A i \in 1 .. n : v[i] = c[q + i - 1]
    <2>1. q + n - 1 \in 0 .. Len(c)
      BY <1>1 DEF n
    <2> DEFINE z == q + n - 1
    <2>2. z \in 0 .. Len(c) /\ z - q + 1 = n
      BY <1>1, <2>1
    <2> HIDE DEF z
    <2>3. /\ SubSeq(c, q, z) \in Seq(Char)
          /\ Len(SubSeq(c, q, z)) = IF q <= z THEN z - q + 1 ELSE 0
          /\ \A i \in 1 .. (z - q + 1) : SubSeq(c, q, z)[i] = c[q + i - 1]
      BY <2>2, PartOf
    <2>4. Len(SubSeq(c, q, z)) = n
      BY <1>1, <2>2, <2>3
    <2> QED BY <2>2, <2>3, <2>4 DEF z
  <1> HIDE DEF u, v
  <1>12. \A i \in 1 .. n : u[i] = v[i]
    <2>1. SUFFICES ASSUME NEW i \in 1 .. n PROVE u[i] = v[i]
      OBVIOUS
    <2>2. i \in 1 .. (Len(d) - a) /\ d[a + i] = c[q + i - 1]
      BY <1>1, <1>3, <1>4 DEF n
    <2> QED BY <1>3, <1>10, <1>11, <2>2
  <1>13. u = v
    BY <1>10, <1>11, <1>12, SameSequence
  <1> QED BY <1>9, <1>13 DEF s, u, v, n


\* The search through the buffer finds the word in a line that holds it.
LEMMA SearchFinds ==
    ASSUME NEW d \in Seq(Char), NEW a \in Nat, NEW e \in Nat, a <= e, e < Len(d),
           d[e + 1] = NUL,
           NEW line \in Seq(Char), Len(line) = e - a,
           \A i \in 1 .. (e - a) : d[a + i] = line[i],
           NEW w \in Seq(Plain), w # <<>>
    PROVE  (\E check \in a .. (e - 1) :
                /\ At(w, 0) = At(d, check)
                /\ \A i \in 0 .. (Len(w) - 1) : At(d, check + i) = At(w, i))
           <=> Holds(line, w)
  <1> DEFINE n == Len(w)
             m == e - a
  <1>1. n \in Nat \ {0} /\ m \in Nat /\ Len(d) \in Nat /\ a + m = e /\ Len(line) = m
    OBVIOUS
  <1>2. \A i \in 0 .. (n - 1) : At(w, i) = w[i + 1] /\ w[i + 1] \in Plain
    BY DEF At
  <1>3. \A k \in 0 .. e : At(d, k) = d[k + 1]
    BY DEF At
  <1>4. \A i \in 1 .. m : d[a + i] = line[i]
    OBVIOUS
  <1> HIDE DEF n, m
  <1>5. ASSUME NEW check \in a .. (e - 1),
               \A i \in 0 .. (n - 1) : At(d, check + i) = At(w, i)
        PROVE  Holds(line, w)
    <2>1. check + n <= e
      <3>1. SUFFICES ASSUME ~(check + n <= e) PROVE FALSE
        OBVIOUS
      <3>2. e - check \in 0 .. (n - 1) /\ check + (e - check) = e /\ e \in 0 .. e
        BY <1>1, <3>1
      <3>3. At(d, e) = At(w, e - check)
        BY <1>5, <3>2
      <3>4. At(d, e) = NUL
        BY <1>3, <3>2
      <3>5. At(w, e - check) \in Plain
        BY <1>2, <3>2
      <3> QED BY <3>3, <3>4, <3>5 DEF Plain
    <2> DEFINE k == check - a + 1
               z == k + n - 1
               u == SubSeq(line, k, z)
    <2>2. k \in 1 .. (Len(line) - n + 1) /\ z \in 0 .. Len(line) /\ k \in Nat \ {0}
          /\ z - k + 1 = n
      BY <1>1, <2>1
    <2>3. \A i \in 1 .. n : line[k + i - 1] = w[i]
      <3>1. SUFFICES ASSUME NEW i \in 1 .. n PROVE line[k + i - 1] = w[i]
        OBVIOUS
      <3>2. /\ i - 1 \in 0 .. (n - 1) /\ (i - 1) + 1 = i
            /\ check + (i - 1) \in 0 .. e /\ k + i - 1 \in 1 .. m
            /\ a + (k + i - 1) = check + (i - 1) + 1
        BY <1>1, <2>1
      <3>3. At(d, check + (i - 1)) = w[i]
        BY <1>2, <1>5, <3>2
      <3>4. At(d, check + (i - 1)) = d[a + (k + i - 1)]
        BY <1>3, <3>2
      <3>5. d[a + (k + i - 1)] = line[k + i - 1]
        BY <1>4, <3>2
      <3> QED BY <3>3, <3>4, <3>5
    <2> HIDE DEF k, z
    <2>4. /\ u \in Seq(Char) /\ Len(u) = IF k <= z THEN z - k + 1 ELSE 0
          /\ \A i \in 1 .. (z - k + 1) : u[i] = line[k + i - 1]
      BY <2>2, PartOf
    <2> HIDE DEF u
    <2>5. Len(u) = n /\ \A i \in 1 .. n : u[i] = w[i]
      BY <1>1, <2>2, <2>3, <2>4
    <2>6. w \in Seq(Char) /\ Len(w) = n
      BY DEF Plain, n
    <2>7. u = w
      BY <2>4, <2>5, <2>6, SameSequence
    <2> QED BY <2>2, <2>6, <2>7 DEF Holds, u, z
  <1>6. ASSUME Holds(line, w)
        PROVE  \E check \in a .. (e - 1) :
                  \A i \in 0 .. (n - 1) : At(d, check + i) = At(w, i)
    <2>1. PICK k \in 1 .. (Len(line) - n + 1) : SubSeq(line, k, k + n - 1) = w
      BY <1>6 DEF Holds, n
    <2> DEFINE z == k + n - 1
               check == a + k - 1
    <2>2. /\ k \in Nat \ {0} /\ z \in 0 .. Len(line) /\ z - k + 1 = n
          /\ check \in a .. (e - 1) /\ SubSeq(line, k, z) = w
      BY <1>1, <2>1
    <2>3. \A i \in 1 .. (z - k + 1) : SubSeq(line, k, z)[i] = line[k + i - 1]
      <3> HIDE DEF z
      <3> QED BY <2>2, PartOf
    <2>4. ASSUME NEW i \in 0 .. (n - 1) PROVE At(d, check + i) = At(w, i)
      <3>1. /\ i + 1 \in 1 .. n /\ k + (i + 1) - 1 \in 1 .. m
            /\ a + (k + (i + 1) - 1) = (check + i) + 1
            /\ check + i \in 0 .. e
        BY <1>1, <2>1
      <3>2. w[i + 1] = line[k + (i + 1) - 1]
        BY <2>2, <2>3, <3>1
      <3>3. d[a + (k + (i + 1) - 1)] = line[k + (i + 1) - 1]
        BY <1>4, <3>1
      <3>4. At(d, check + i) = d[(check + i) + 1]
        BY <1>3, <3>1
      <3> QED BY <1>2, <3>1, <3>2, <3>3, <3>4
    <2> QED BY <2>2, <2>4
  <1>7. ASSUME NEW check \in a .. (e - 1),
               \A i \in 0 .. (n - 1) : At(d, check + i) = At(w, i)
        PROVE  At(w, 0) = At(d, check)
    <2>1. 0 \in 0 .. (n - 1) /\ check + 0 = check
      BY <1>1
    <2> QED BY <1>7, <2>1
  <1> QED BY <1>5, <1>6, <1>7 DEF n

\* From a place up to the next one, with no newline but one just before it, no
\* other line begins.
LEMMA NextPlace ==
    ASSUME NEW c \in Seq(Char), NEW w, NEW q \in Nat \ {0}, NEW p \in Nat,
           q <= p,
           \A i \in q .. (p - 2) : c[i] # NL
    PROVE  Before(c, w, p) =
              Before(c, w, q) \cup (IF q < p /\ q \in Holding(c, w) THEN {q} ELSE {})
  <1>1. ASSUME NEW i \in LineStarts(c), q < i, i < p PROVE FALSE
    <2>1. i \in 1 .. Len(c) /\ (i = 1 \/ c[i - 1] = NL)
      BY <1>1 DEF LineStarts
    <2>2. i # 1 /\ i - 1 \in q .. (p - 2)
      BY <1>1, <2>1
    <2> QED BY <2>1, <2>2
  <1>2. Holding(c, w) \subseteq LineStarts(c) /\ LineStarts(c) \subseteq Nat
    BY DEF Holding, LineStarts
  <1>3. ASSUME NEW i \in Holding(c, w)
        PROVE  i < p <=> (i < q \/ (q < p /\ i = q))
    <2>1. i \in LineStarts(c) /\ i \in Nat /\ q <= p
      BY <1>2
    <2> QED BY <1>1, <2>1
  <1> QED BY <1>3 DEF Before

LEMMA BeforeAll ==
    ASSUME NEW c \in Seq(Char), NEW w
    PROVE  Before(c, w, Len(c) + 1) = Holding(c, w) /\ Before(c, w, 1) = {}
  <1>1. \A i \in Holding(c, w) : i \in 1 .. Len(c)
    BY DEF Holding, LineStarts
  <1>2. \A i \in Holding(c, w) : i < Len(c) + 1 /\ ~(i < 1)
    BY <1>1
  <1> QED BY <1>2 DEF Before

\* Of a file that was not begun nothing is printed.
LEMMA PrintedNone ==
    ASSUME NEW o, NEW f, NEW c, \A j \in DOMAIN o : o[j].file # f
    PROVE  Printed(o, f, c, {})
  <1> DEFINE D == {j \in DOMAIN o : o[j].file = f}
             start == [j \in D |-> 0]
  <1>1. D = {}
    OBVIOUS
  <1>2. start \in [D -> {}] /\ DOMAIN start = {}
    BY <1>1
  <1> HIDE DEF start
  <1> QED BY <1>2 DEF Printed

\* A line is printed behind the others.
LEMMA PrintedMore ==
    ASSUME NEW R, NEW o \in Seq(R), NEW f, NEW c, NEW S \in SUBSET Nat, Printed(o, f, c, S),
           NEW q \in Nat, \A i \in S : i < q,
           NEW r \in R, r.file = f, r.line = LineAt(c, q)
    PROVE  Printed(Append(o, r), f, c, S \cup {q})
  <1> DEFINE D == {j \in DOMAIN o : o[j].file = f}
             n == Len(o) + 1
             p == Append(o, r)
             E == {j \in DOMAIN p : p[j].file = f}
  <1>1. PICK old \in [D -> S] :
          /\ \A i \in S : \E j \in D : old[j] = i
          /\ \A j, k \in D : j < k => old[j] < old[k]
          /\ \A j \in D : o[j].line = LineAt(c, old[j])
    BY DEF Printed
  <1>2. /\ Len(o) \in Nat /\ n \in Nat
        /\ DOMAIN o = 1 .. Len(o) /\ DOMAIN p = 1 .. n
        /\ \A j \in 1 .. Len(o) : p[j] = o[j]
        /\ p[n] = r
    OBVIOUS
  <1> HIDE DEF p, n
  <1>3. n = Len(o) + 1
    BY DEF n
  <1>4. E = D \cup {n} /\ n \notin D /\ \A j \in D : j \in Nat /\ j < n
    <2>1. \A j \in 1 .. n : j = n \/ j \in 1 .. Len(o)
      BY <1>2, <1>3
    <2>2. \A j \in D : j \in 1 .. Len(o) /\ p[j] = o[j] /\ j \in 1 .. n
      BY <1>2, <1>3
    <2>3. n \in E
      BY <1>2, <1>3
    <2>4. D \subseteq E
      BY <1>2, <2>2
    <2>5. E \subseteq D \cup {n}
      BY <1>2, <2>1
    <2>6. \A j \in D : j \in Nat /\ j < n
      BY <1>2, <1>3, <2>2
    <2> QED BY <2>3, <2>4, <2>5, <2>6
  <1> DEFINE new == [j \in E |-> IF j = n THEN q ELSE old[j]]
             T == S \cup {q}
  <1>5. \A j \in D : o[j] = p[j]
    BY <1>2
  <1> HIDE DEF D, E
  <1>6. new \in [E -> T] /\ DOMAIN new = E /\ new[n] = q /\ \A j \in D : new[j] = old[j]
    BY <1>1, <1>4
  <1> HIDE DEF new
  <1>7. \A i \in T : \E j \in E : new[j] = i
    BY <1>1, <1>4, <1>6
  <1>8. \A j, k \in E : j < k => new[j] < new[k]
    <2>1. SUFFICES ASSUME NEW j \in E, NEW k \in E, j < k PROVE new[j] < new[k]
      OBVIOUS
    <2>2. j \in D
      BY <1>2, <1>4, <2>1
    <2>3. CASE k = n
      BY <1>1, <1>6, <2>2, <2>3
    <2>4. CASE k # n
      BY <1>1, <1>4, <1>6, <2>1, <2>2, <2>4
    <2> QED BY <2>3, <2>4
  <1>9. \A j \in E : p[j].line = LineAt(c, new[j])
    <2>1. SUFFICES ASSUME NEW j \in E PROVE p[j].line = LineAt(c, new[j])
      OBVIOUS
    <2>2. CASE j = n
      BY <1>2, <1>6, <2>2
    <2>3. CASE j # n
      BY <1>1, <1>4, <1>5, <1>6, <2>3
    <2> QED BY <2>2, <2>3
  <1>10. \E start \in [E -> T] :
           /\ \A i \in T : \E j \in DOMAIN start : start[j] = i
           /\ \A j, k \in DOMAIN start : j < k => start[j] < start[k]
           /\ \A j \in DOMAIN start : p[j].line = LineAt(c, start[j])
    <2> HIDE DEF T
    <2> QED BY <1>6, <1>7, <1>8, <1>9
  <1> QED BY <1>10 DEF Printed, E, p


\* The arguments of a command and what getargs makes of them are of one line.
LEMMA ArgumentPlain ==
    ASSUME NEW cmd \in Text
    PROVE  parse(cmd).args_buf \in Seq(Plain)
  <1> DEFINE start == Scan(cmd, 0, Char \ {SP})
             end   == Scan(cmd, start, {SP, NL, NUL})
             stop  == Scan(cmd, end, {NL, NUL})
  <1>1. cmd \in Seq(Char) /\ Len(cmd) \in Nat /\ NUL \in Char \ {SP}
    BY CharAssumption DEF Text
  <1>2. start \in 0 .. Len(cmd)
    BY <1>1, ScanFinds
  <1> HIDE DEF start
  <1>3. end \in start .. Len(cmd)
    BY <1>1, <1>2, ScanFinds
  <1> HIDE DEF end
  <1>4. end \in 0 .. Len(cmd)
    BY <1>1, <1>2, <1>3
  <1>5. /\ stop \in end .. Len(cmd)
        /\ \A j \in end .. (stop - 1) : At(cmd, j) \notin {NL, NUL}
    BY <1>1, <1>4, ScanFinds
  <1> HIDE DEF stop
  <1>6. \A i \in (end + 1) .. stop : cmd[i] \in Plain
    <2>1. SUFFICES ASSUME NEW i \in (end + 1) .. stop PROVE cmd[i] \in Plain
      OBVIOUS
    <2>2. i - 1 \in end .. (stop - 1) /\ i \in 1 .. Len(cmd) /\ At(cmd, i - 1) = cmd[i]
      BY <1>1, <1>4, <1>5 DEF At
    <2>3. cmd[i] \in Char /\ cmd[i] \notin {NL, NUL}
      BY <1>1, <1>5, <2>2
    <2> QED BY <2>3 DEF Plain
  <1>7. SubSeq(cmd, end + 1, stop) \in Seq(Plain)
    <2>1. end + 1 \in Nat /\ stop \in Nat /\ end + 1 >= 1 /\ stop <= Len(cmd)
      BY <1>1, <1>4, <1>5
    <2> QED BY <1>1, <1>6, <2>1, SubSeqProperties
  <1>8. parse(cmd).args_buf = SubSeq(cmd, end + 1, stop)
    BY DEF parse, start, end, stop
  <1> QED BY <1>7, <1>8

LEMMA GetargsPlain ==
    ASSUME NEW arg \in Seq(Plain), getargs(arg).ok
    PROVE  getargs(arg).buf \in Seq(Plain)
  <1> DEFINE starts == ArgStarts(arg)
             offset == CHOOSE i \in starts : \A j \in starts : i <= j
             buf == SubSeq(arg, offset + 2, Len(arg))
  <1>1. getargs(arg) = IF arg = <<>> \/ starts = {} THEN [ok |-> FALSE, buf |-> <<>>]
                       ELSE [ok |-> TRUE, buf |-> buf]
    BY Zenon DEF getargs
  <1>2. starts \in SUBSET Nat /\ Len(arg) \in 0 .. Len(arg)
    BY DEF ArgStarts
  <1> HIDE DEF starts
  <1>3. starts # {} /\ getargs(arg).buf = buf
    <2> HIDE DEF buf
    <2> QED BY <1>1
  <1>4. \E i \in starts : \A j \in starts : i <= j
    BY <1>2, <1>3, LeastNumber
  <1>5. offset \in starts
    BY <1>4, Zenon
  <1> HIDE DEF offset
  <1>6. offset + 2 \in Nat \ {0}
    BY <1>2, <1>5
  <1>7. buf \in Seq(Plain)
    BY <1>2, <1>6, PartOf
  <1> QED BY <1>3, <1>7

LEMMA EntryType ==
    ASSUME NEW i \in DOMAIN Dentry
    PROVE  Dentry[i].type \in {"file", "dir", "rtc"}
  <1>1. Dentry[i] \in [name : Seq(Char \ {NUL}), type : {"file", "dir", "rtc"},
                       inode : 0 .. (NumInodes - 1)]
    BY DentryAssumption, ElementOf
  <1> QED BY <1>1

\* A read into the buffer gives what comes next in the file, as much as there is
\* room for, unless the file ends.
LEMMA BytesAre ==
    ASSUME GrepTypes, pc = "grep_read"
    PROVE  LET n   == BUFSIZE - last
               buf == Bytes(file, file_pos, n)
               c   == Contents(Dentry[file].inode)
           IN  /\ n \in Nat \ {0}
               /\ buf \in Seq(Char)
               /\ Len(buf) \in 0 .. n
               /\ Dentry[file].type = "file" =>
                     /\ file_pos + Len(buf) \in 0 .. Len(c)
                     /\ Len(buf) = n \/ file_pos + Len(buf) = Len(c)
                     /\ \A i \in 1 .. Len(buf) : buf[i] = c[file_pos + i]
  <1> DEFINE n   == BUFSIZE - last
             buf == Bytes(file, file_pos, n)
             c   == Contents(Dentry[file].inode)
  <1>1. /\ InFile /\ file \in DOMAIN Dentry /\ Dentry[file].type # "dir"
        /\ Dentry[file].type = "file" => file_pos \in 0 .. Len(c)
        /\ last \in 0 .. BUFSIZE /\ last < BUFSIZE /\ text \in Seq(Char)
    BY DEF GrepTypes, InFile
  <1>2. n \in Nat \ {0} /\ c \in Seq(Char)
    BY <1>1, SizeAssumption, ContentsText
  <1> HIDE DEF n
  <1>3. CASE Dentry[file].type = "rtc"
    <2>1. buf = <<>>
      BY <1>3 DEF Bytes
    <2>2. buf \in Seq(Char) /\ Len(buf) = 0
      BY <2>1
    <2> HIDE DEF buf
    <2>3. Len(buf) \in 0 .. n /\ Dentry[file].type # "file"
      BY <1>2, <1>3, <2>2
    <2> QED BY <1>2, <2>2, <2>3 DEF n, buf
  <1>4. CASE Dentry[file].type = "file"
    <2>1. buf = Slice(c, file_pos, n)
      BY <1>4 DEF Bytes
    <2> HIDE DEF c
    <2> DEFINE e == IF file_pos + n < Len(c) THEN file_pos + n ELSE Len(c)
    <2>2. buf = SubSeq(c, file_pos + 1, e)
      BY <2>1, Zenon DEF Slice
    <2>3. /\ file_pos \in Nat /\ Len(c) \in Nat /\ e \in file_pos .. Len(c) /\ e \in 0 .. Len(c)
          /\ e - file_pos \in 0 .. n
          /\ e - file_pos = n \/ e = Len(c)
      BY <1>1, <1>2, <1>4
    <2> HIDE DEF e, buf
    <2>4. /\ buf \in Seq(Char)
          /\ Len(buf) = IF file_pos + 1 <= e THEN e - (file_pos + 1) + 1 ELSE 0
          /\ \A i \in 1 .. (e - (file_pos + 1) + 1) : buf[i] = c[(file_pos + 1) + i - 1]
      <3>1. file_pos + 1 \in Nat \ {0}
        BY <2>3
      <3> QED BY <1>2, <2>2, <2>3, <3>1, PartOf
    <2>5. Len(buf) = e - file_pos
      BY <2>3, <2>4
    <2>6. /\ Len(buf) \in 0 .. n /\ file_pos + Len(buf) \in 0 .. Len(c)
          /\ Len(buf) = n \/ file_pos + Len(buf) = Len(c)
      BY <1>2, <2>3, <2>5
    <2>7. \A i \in 1 .. Len(buf) : buf[i] = c[file_pos + i]
      <3>1. SUFFICES ASSUME NEW i \in 1 .. Len(buf) PROVE buf[i] = c[file_pos + i]
        OBVIOUS
      <3>2. i \in 1 .. (e - (file_pos + 1) + 1) /\ (file_pos + 1) + i - 1 = file_pos + i
        BY <2>3, <2>5
      <3> QED BY <2>4, <3>2
    <2> QED BY <1>2, <2>4, <2>6, <2>7 DEF n, buf, c
  <1> QED BY <1>1, <1>3, <1>4, EntryType

-----------------------------------------------------------------------------
(* The steps of grep and its types. *)

LEMMA GrepTypesInit == ASSUME Init PROVE GrepTypes
  BY InodeAssumption DEF Init, GrepTypes, InFile

LEMMA ArgsTypes == ASSUME ShellInv, GrepTypes, Args PROVE GrepTypes'
  <1> DEFINE a == getargs(argument)
  <1>1. text' = text /\ pc \in {"cat", "grep"}
    BY DEF Args
  <1>2. \/ a.ok /\ word' = a.buf /\ out' = out
           /\ pc' = IF pc = "cat" THEN "cat_open" ELSE "grep_open"
        \/ pc' = "report"
    BY Zenon DEF Args, Halts
  <1>3. argument \in Seq(Plain)
    BY <1>1, ArgumentPlain DEF ShellInv
  <1>4. a.ok => a.buf \in Seq(Plain)
    BY <1>3, GetargsPlain
  <1> HIDE DEF a
  <1> QED BY <1>1, <1>2, <1>4 DEF GrepTypes, InFile

\* Every file of the directory is found under its name.
LEMMA GrepDirFinds ==
    ASSUME GrepTypes, GrepDir, pc' # "report"
    PROVE  /\ entry \in DOMAIN Dentry /\ entry' = entry + 1
           /\ NextName(F_TYPE_OFFSET) = Dentry[entry].name
           /\ pc' = "grep_read" => file' = entry /\ Dentry[entry].type # "dir"
  <1> DEFINE buf == NextName(F_TYPE_OFFSET)
  <1>1. /\ entry \in 1 .. (Len(Dentry) + 1) /\ pc = "grep_dir"
        /\ Len(Dentry) \in Nat /\ DOMAIN Dentry = 1 .. Len(Dentry)
    BY DentryAssumption DEF GrepDir, GrepTypes
  <1>2. buf # <<>> /\ (pc' = "grep_read" => file' = read_dentry_by_name(buf) /\ Head(buf) # ".")
    BY <1>1 DEF GrepDir, Halts
  <1>3. entry # Len(Dentry) + 1 /\ entry \in DOMAIN Dentry /\ buf = Dentry[entry].name
    BY <1>1, <1>2, NextNameIs
  <1>4. entry' = entry + 1
    BY <1>1, <1>3 DEF GrepDir, dir_read
  <1> HIDE DEF buf
  <1>5. buf \in Text /\ Len(buf) <= F_TYPE_OFFSET
    BY <1>3, EntryTypes, SizeAssumption
  <1>6. read_dentry_by_name(buf) = entry
    <2> DEFINE i == read_dentry_by_name(buf)
    <2>1. \/ i = 0 /\ \A j \in DOMAIN Dentry : Dentry[j].name # buf
          \/ i \in DOMAIN Dentry /\ Dentry[i].name = buf
      BY <1>5, FindsEntry
    <2> HIDE DEF i
    <2>2. i = entry
      BY <1>3, <2>1, DentryAssumption
    <2> QED BY <2>2 DEF i
  <1>7. Head(buf) # "." => Dentry[entry].type # "dir"
    BY <1>3, DentryAssumption
  <1> QED BY <1>2, <1>3, <1>4, <1>6, <1>7 DEF buf

LEMMA GrepDirTypes == ASSUME GrepTypes, GrepDir PROVE GrepTypes'
  <1>1. /\ pc = "grep_dir" /\ text' = text /\ word' = word /\ out' = out
        /\ pc' \in {"report", "grep_dir", "grep_read"}
    BY DEF GrepDir, Halts
  <1>2. /\ text \in Seq(Char) /\ word \in Seq(Plain)
        /\ entry \in 1 .. (Len(Dentry) + 1)
        /\ out \in Seq(Record)
        /\ \A j \in DOMAIN out : out[j].file < entry
    BY <1>1 DEF GrepTypes
  <1>3. \A j \in DOMAIN out : out[j].file \in Nat
    <2>1. \A j \in DOMAIN out : out[j] \in Record
      BY <1>2, ElementOf
    <2> QED BY <2>1 DEF Record
  <1>4. CASE pc' = "report"
    BY <1>1, <1>2, <1>4 DEF GrepTypes, InFile
  <1>5. CASE pc' = "grep_dir"
    <2>1. entry \in DOMAIN Dentry /\ entry' = entry + 1
      BY <1>5, GrepDirFinds
    <2>2. entry' \in 1 .. (Len(Dentry) + 1) /\ \A j \in DOMAIN out : out[j].file < entry'
      BY <1>2, <1>3, <2>1, DentryAssumption
    <2> QED BY <1>1, <1>2, <1>5, <2>2 DEF GrepTypes, InFile
  <1>6. CASE pc' = "grep_read"
    <2>1. /\ entry \in DOMAIN Dentry /\ entry' = entry + 1 /\ file' = entry
          /\ Dentry[entry].type # "dir"
      BY <1>6, GrepDirFinds
    <2>2. /\ file_pos' = 0 /\ last' = 0 /\ junk' \in Garbage
          /\ data' = [i \in 1 .. (BUFSIZE + 1) |-> junk']
      BY <1>1, <1>6 DEF GrepDir, Halts
    <2>3. data' \in Seq(Char) /\ Len(data') = BUFSIZE + 1 /\ 0 \in 0 .. BUFSIZE /\ 0 < BUFSIZE
      BY <2>2, CharAssumption, SizeAssumption
    <2>4. \A j \in DOMAIN out : out[j].file <= entry
      BY <1>2, <1>3
    <2> DEFINE c == Contents(Dentry[entry].inode)
    <2>5. Contents(Dentry[file].inode)' = c /\ c \in Seq(Char)
      BY <1>1, <1>2, <2>1, ContentsText DEF Contents
    <2>6. 0 \in 0 .. Len(c)
      <3> HIDE DEF c
      <3> QED BY <2>5
    <2> HIDE DEF c
    <2> QED BY <1>1, <1>2, <1>6, <2>1, <2>2, <2>3, <2>4, <2>5, <2>6 DEF GrepTypes, InFile
  <1> QED BY <1>1, <1>4, <1>5, <1>6

LEMMA GrepReadTypes == ASSUME GrepTypes, GrepRead PROVE GrepTypes'
  <1> DEFINE n   == BUFSIZE - last
             buf == Bytes(file, file_pos, n)
             c   == Contents(Dentry[file].inode)
  <1>1. /\ pc = "grep_read" /\ pc' = "grep_line" /\ line_start' = 0
        /\ UNCHANGED <<text, word, entry, file, out>>
        /\ last' = last + Len(buf) /\ file_pos' = file_pos + Len(buf)
        /\ data' = [i \in DOMAIN data |-> IF i - last \in DOMAIN buf THEN buf[i - last] ELSE data[i]]
    BY DEF GrepRead
  <1>2. /\ n \in Nat \ {0} /\ buf \in Seq(Char) /\ Len(buf) \in 0 .. n
        /\ Dentry[file].type = "file" => file_pos + Len(buf) \in 0 .. Len(c)
    BY <1>1, BytesAre
  <1>3. /\ data \in Seq(Char) /\ Len(data) = BUFSIZE + 1 /\ last \in 0 .. BUFSIZE
        /\ BUFSIZE \in Nat
    BY <1>1, SizeAssumption DEF GrepTypes, InFile
  <1>4. last' \in 0 .. BUFSIZE /\ line_start' \in 0 .. last'
    BY <1>1, <1>2, <1>3
  <1> HIDE DEF buf
  <1>5. data' \in Seq(Char) /\ Len(data') = BUFSIZE + 1
    <2>1. DOMAIN data = 1 .. (BUFSIZE + 1) /\ \A i \in DOMAIN data : data[i] \in Char
      BY <1>3
    <2>2. \A j \in DOMAIN buf : buf[j] \in Char
      BY <1>2
    <2> QED BY <1>1, <1>3, <2>1, <2>2
  <1>6. c' = c
    BY <1>1 DEF Contents
  <1> HIDE DEF c
  <1> QED BY <1>1, <1>2, <1>4, <1>5, <1>6 DEF GrepTypes, InFile, c

\* The buffer with the line closed.
LEMMA ClosedIs ==
    ASSUME GrepTypes, pc = "grep_line"
    PROVE  /\ line_end \in line_start .. last /\ line_end \in Nat
           /\ line_start \in Nat /\ last \in 0 .. BUFSIZE
           /\ line_end = last \/ data[line_end + 1] = NL
           /\ \A i \in (line_start + 1) .. line_end : data[i] # NL
           /\ Closed \in Seq(Char) /\ Len(Closed) = BUFSIZE + 1
           /\ Closed[line_end + 1] = NUL
           /\ \A i \in 1 .. (BUFSIZE + 1) : i # line_end + 1 => Closed[i] = data[i]
  <1>1. /\ data \in Seq(Char) /\ Len(data) = BUFSIZE + 1 /\ last \in 0 .. BUFSIZE
        /\ line_start \in 0 .. last /\ BUFSIZE \in Nat /\ NUL \in Char
    BY SizeAssumption, CharAssumption DEF GrepTypes, InFile
  <1> DEFINE l == line_end
  <1>2. /\ l \in line_start .. last
        /\ l = last \/ At(data, l) = NL
        /\ \A j \in line_start .. (l - 1) : At(data, j) # NL
    BY <1>1, LineEndIs
  <1>3. Closed = [data EXCEPT ![l + 1] = NUL]
    BY DEF Closed
  <1> HIDE DEF l
  <1>4. \A i \in 0 .. BUFSIZE : At(data, i) = data[i + 1]
    BY <1>1 DEF At
  <1>5. l \in Nat /\ l \in 0 .. BUFSIZE /\ l + 1 \in 1 .. (BUFSIZE + 1) /\ line_start \in Nat
    BY <1>1, <1>2
  <1>6. \A i \in (line_start + 1) .. l : data[i] # NL
    <2>1. SUFFICES ASSUME NEW i \in (line_start + 1) .. l PROVE data[i] # NL
      OBVIOUS
    <2>2. i - 1 \in line_start .. (l - 1) /\ i - 1 \in 0 .. BUFSIZE /\ (i - 1) + 1 = i
      BY <1>1, <1>5
    <2> QED BY <1>2, <1>4, <2>2
  <1>7. Closed \in Seq(Char) /\ Len(Closed) = BUFSIZE + 1 /\ Closed[l + 1] = NUL
        /\ \A i \in 1 .. (BUFSIZE + 1) : i # l + 1 => Closed[i] = data[i]
    BY <1>1, <1>3, <1>5
  <1> QED BY <1>1, <1>2, <1>4, <1>5, <1>6, <1>7 DEF l


\* What the string functions see of the line.
LineInBuffer == CString(SubSeq(Closed, line_start + 1, Len(Closed)))

LEMMA LineInBufferText ==
    ASSUME GrepTypes, pc = "grep_line"
    PROVE  LineInBuffer \in Text
  <1>1. /\ Closed \in Seq(Char) /\ Len(Closed) \in 0 .. Len(Closed)
        /\ line_start + 1 \in Nat \ {0}
    BY ClosedIs
  <1> DEFINE s == SubSeq(Closed, line_start + 1, Len(Closed))
  <1>2. s \in Seq(Char)
    BY <1>1, PartOf
  <1> HIDE DEF s
  <1>3. CString(s) \in Text
    BY <1>2, CStringText
  <1> QED BY <1>3 DEF LineInBuffer, s

LEMMA GrepKeepTypes == ASSUME GrepTypes, GrepKeep PROVE GrepTypes'
  <1>1. /\ pc = "grep_line" /\ pc' = "grep_read" /\ last' = last - line_start
        /\ line_start # 0
        /\ UNCHANGED <<text, word, entry, file, file_pos, out>>
    BY DEF GrepKeep, Unfinished, open_file
  <1> DEFINE kept == LineInBuffer
  <1>2. data' = [i \in DOMAIN data |->
                    IF i <= Len(kept) THEN kept[i]
                    ELSE IF i = Len(kept) + 1 THEN NUL ELSE Closed[i]]
    BY DEF GrepKeep, LineInBuffer
  <1>3. kept \in Text
    BY <1>1, LineInBufferText
  <1> HIDE DEF kept
  <1>4. /\ data \in Seq(Char) /\ Len(data) = BUFSIZE + 1 /\ last \in 0 .. BUFSIZE
        /\ line_start \in 0 .. last /\ BUFSIZE \in Nat /\ NUL \in Char
    BY <1>1, SizeAssumption, CharAssumption DEF GrepTypes, InFile
  <1>5. last' \in 0 .. BUFSIZE /\ last' < BUFSIZE
    BY <1>1, <1>4
  <1>6. data' \in Seq(Char) /\ Len(data') = BUFSIZE + 1
    <2>1. DOMAIN data = 1 .. (BUFSIZE + 1)
      BY <1>4
    <2>2. \A i \in 1 .. (BUFSIZE + 1) : Closed[i] \in Char
      <3>1. Closed \in Seq(Char) /\ Len(Closed) = BUFSIZE + 1
        BY <1>1, ClosedIs
      <3> QED BY <1>4, <3>1
    <2>3. \A i \in 1 .. (BUFSIZE + 1) : i <= Len(kept) => kept[i] \in Char
      BY <1>3, <1>4 DEF Text
    <2> QED BY <1>2, <1>4, <2>1, <2>2, <2>3
  <1>7. Contents(Dentry[file].inode)' = Contents(Dentry[file].inode)
    BY <1>1 DEF Contents
  <1> QED BY <1>1, <1>5, <1>6, <1>7 DEF GrepTypes, InFile

LEMMA GrepSearchTypes == ASSUME GrepTypes, GrepSearch PROVE GrepTypes'
  <1>1. /\ pc = "grep_line" /\ data' = Closed
        /\ UNCHANGED <<text, word, entry, file, file_pos>>
    BY DEF GrepSearch, open_file
  <1>2. \/ line_end + 1 < last /\ line_start' = line_end + 1 /\ pc' = pc /\ last' = last
        \/ last' = 0 /\ pc' \in {"grep_close", "grep_read"}
    BY DEF GrepSearch
  <1>3. out' = out \/ out' = Append(out, [file |-> file, line |-> LineInBuffer])
    BY Zenon DEF GrepSearch, Say, LineInBuffer
  <1>4. /\ line_end \in Nat /\ last \in 0 .. BUFSIZE
        /\ Closed \in Seq(Char) /\ Len(Closed) = BUFSIZE + 1
    BY <1>1, ClosedIs
  <1>5. /\ last' \in 0 .. BUFSIZE
        /\ pc' = "grep_line" => line_start' \in 0 .. last'
        /\ pc' = "grep_read" => last' < BUFSIZE
        /\ pc' \in {"grep_line", "grep_close", "grep_read"}
    BY <1>1, <1>2, <1>4, SizeAssumption
  <1>6. /\ out \in Seq(Record) /\ file \in DOMAIN Dentry
        /\ \A j \in DOMAIN out : out[j].file <= file
    BY <1>1 DEF GrepTypes, InFile
  <1>7. out' \in Seq(Record) /\ \A j \in DOMAIN out' : out'[j].file <= file
    <2> DEFINE r == [file |-> file, line |-> LineInBuffer]
    <2>1. r \in Record /\ r.file = file /\ file \in Nat
      BY <1>1, <1>6, LineInBufferText, DentryAssumption DEF Record
    <2> HIDE DEF r
    <2>2. CASE out' = Append(out, r)
      <3>1. out' \in Seq(Record) /\ Len(out') = Len(out) + 1 /\ out'[Len(out) + 1] = r
            /\ \A j \in 1 .. Len(out) : out'[j] = out[j]
        BY <1>6, <2>1, <2>2, AppendProperties
      <3>2. \A j \in 1 .. (Len(out) + 1) : j = Len(out) + 1 \/ j \in 1 .. Len(out)
        BY <1>6
      <3> QED BY <1>6, <2>1, <3>1, <3>2
    <2> QED BY <1>3, <1>6, <2>2 DEF r
  <1>8. Contents(Dentry[file].inode)' = Contents(Dentry[file].inode)
    BY <1>1 DEF Contents
  <1> QED BY <1>1, <1>4, <1>5, <1>7, <1>8 DEF GrepTypes, InFile

LEMMA GrepTypesNext == ShellInv /\ GrepTypes /\ [Next]_vars => GrepTypes'
  <1> SUFFICES ASSUME ShellInv, GrepTypes, [Next]_vars PROVE GrepTypes'
    OBVIOUS
  <1>1. CASE Read
    <2>1. pc' \in {"prompt", "execute"} /\ out' = <<>> /\ text' = text
      BY <1>1 DEF Read
    <2> QED BY <2>1 DEF GrepTypes, InFile
  <1>2. CASE Execute
    <2>1. out = <<>> /\ UNCHANGED <<text, out>>
      BY <1>2 DEF Execute, GrepTypes
    <2>2. pc' \in Outcome \cup {"report"}
      BY <1>2, ExecuteGoes
    <2> QED BY <2>1, <2>2 DEF GrepTypes, InFile, Outcome
  <1>3. CASE Report \/ Other \/ Failed \/ Counter \/ Hello
    <2>1. pc' \in {"prompt", "report"} /\ text' = text
      BY <1>3 DEF Report, Other, Failed, Counter, Hello, Halts
    <2> QED BY <2>1 DEF GrepTypes, InFile
  <1>4. CASE Args
    BY <1>4, ArgsTypes
  <1>5. CASE CatOpen \/ CatRead \/ LsOpen \/ LsRead
    <2>1. pc' \in {"cat_read", "ls_read", "report"} /\ text' = text
      BY <1>5 DEF CatOpen, CatRead, LsOpen, OpenDir, LsRead, Halts
    <2> QED BY <2>1 DEF GrepTypes, InFile
  <1>6. CASE GrepOpen
    <2>0. CASE pc' = "report" /\ text' = text
      BY <2>0 DEF GrepTypes, InFile
    <2> SUFFICES ASSUME pc' # "report" PROVE GrepTypes'
      BY <1>6, <2>0 DEF GrepOpen
    <2>1. /\ pc = "grep_open" /\ pc' = "grep_dir" /\ entry' = 1
          /\ UNCHANGED <<text, word, out>>
      BY <1>6 DEF GrepOpen, OpenDir, Halts
    <2>2. out = <<>> /\ word \in Seq(Plain) /\ text \in Seq(Char)
      BY <2>1 DEF GrepTypes
    <2>3. out' \in Seq(Record) /\ DOMAIN out' = {}
      BY <2>1, <2>2
    <2>4. 1 \in 1 .. (Len(Dentry) + 1)
      BY DentryAssumption
    <2> QED BY <2>1, <2>2, <2>3, <2>4 DEF GrepTypes, InFile
  <1>7. CASE GrepDir
    BY <1>7, GrepDirTypes
  <1>8. CASE GrepRead
    BY <1>8, GrepReadTypes
  <1>9. CASE GrepKeep
    BY <1>9, GrepKeepTypes
  <1>10. CASE GrepSearch
    BY <1>10, GrepSearchTypes
  <1>11. CASE GrepClose
    <2>1. /\ pc = "grep_close" /\ pc' = "grep_dir" /\ UNCHANGED <<text, word, entry, file, out>>
      BY <1>11 DEF GrepClose, open_file
    <2>2. /\ file \in DOMAIN Dentry /\ entry = file + 1 /\ word \in Seq(Plain)
          /\ out \in Seq(Record) /\ text \in Seq(Char)
          /\ \A j \in DOMAIN out : out[j].file <= file
      BY <2>1 DEF GrepTypes, InFile
    <2>3. \A j \in DOMAIN out : out[j].file \in Nat
      <3>1. \A j \in DOMAIN out : out[j] \in Record
        BY <2>2, ElementOf
      <3> QED BY <3>1 DEF Record
    <2>4. entry \in 1 .. (Len(Dentry) + 1) /\ \A j \in DOMAIN out : out[j].file < entry
      BY <2>2, <2>3, DentryAssumption
    <2> QED BY <2>1, <2>2, <2>4 DEF GrepTypes, InFile
  <1>12. CASE UNCHANGED vars
    <2>1. Contents(Dentry[file].inode)' = Contents(Dentry[file].inode)
      BY <1>12 DEF vars, open_file, Contents
    <2> QED BY <1>12, <2>1 DEF vars, open_file, grep, GrepTypes, InFile
  <1> QED BY <1>1, <1>2, <1>3, <1>4, <1>5, <1>6, <1>7, <1>8, <1>9, <1>10, <1>11, <1>12 DEF Next


-----------------------------------------------------------------------------
(* How far grep is. *)

\* Nothing that says what grep works for changes while it reads a file.
LEMMA SameFile ==
    ASSUME UNCHANGED <<text, file, word, junk>>
    PROVE  LET c == Contents(Dentry[file].inode)
           IN  c' = c /\ (Greppable(c)' <=> Greppable(c))
  <1> DEFINE c == Contents(Dentry[file].inode)
  <1>1. c' = c
    BY DEF Contents
  <1> HIDE DEF c
  <1>2. Greppable(c)' <=> Greppable(c)
    BY <1>1 DEF Greppable
  <1> QED BY <1>1, <1>2 DEF c

\* The invariant, for a file that grep works for.
LEMMA ReachesIs ==
    ASSUME GrepTypes, GrepReaches, InFile, Greppable(Contents(Dentry[file].inode))
    PROVE  LET c == Contents(Dentry[file].inode)
           IN  /\ c \in Seq(Char)
               /\ \A i \in 1 .. Len(c) : c[i] # NUL
               /\ \A i \in LineStarts(c) : Len(LineAt(c, i)) <= BUFSIZE
               /\ word \in Seq(Plain) /\ word # <<>>
               /\ file_pos \in 0 .. Len(c)
               /\ BUFSIZE \in Nat
               /\ pc = "grep_read" => Buffered(c, 0) /\ Reached(c, file_pos - last + 1)
               /\ pc = "grep_line" =>
                     /\ Buffered(c, line_start)
                     /\ Reached(c, file_pos - last + line_start + 1)
                     /\ last = BUFSIZE \/ file_pos = Len(c)
                     /\ cnt = 0 => file_pos = Len(c)
               /\ pc = "grep_close" => Printed(out, file, c, Holding(c, word))
  <1> DEFINE c == Contents(Dentry[file].inode)
  <1>1. Greppable(c) /\ file \in DOMAIN Dentry /\ text \in Seq(Char) /\ word \in Seq(Plain)
    BY DEF GrepTypes
  <1>2. c \in Seq(Char)
    BY <1>1, ContentsText
  <1>3. Dentry[file].type = "file" /\ word # <<>> /\ NUL \notin Range(c)
        /\ \A i \in LineStarts(c) : Len(LineAt(c, i)) <= BUFSIZE
    BY <1>1, Zenon DEF Greppable
  <1>4. file_pos \in 0 .. Len(c)
    BY <1>3 DEF GrepTypes
  <1>5. /\ pc = "grep_read" => Buffered(c, 0) /\ Reached(c, file_pos - last + 1)
        /\ pc = "grep_line" =>
              /\ Buffered(c, line_start)
              /\ Reached(c, file_pos - last + line_start + 1)
              /\ last = BUFSIZE \/ file_pos = Len(c)
              /\ cnt = 0 => file_pos = Len(c)
        /\ pc = "grep_close" => Printed(out, file, c, Holding(c, word))
    BY <1>1, Zenon DEF GrepReaches
  <1> HIDE DEF c
  <1>6. \A i \in 1 .. Len(c) : c[i] # NUL
    BY <1>2, <1>3 DEF Range
  <1>7. BUFSIZE \in Nat
    BY SizeAssumption
  <1> QED BY <1>1, <1>2, <1>3, <1>4, <1>5, <1>6, <1>7 DEF c

LEMMA GrepDirReaches == ASSUME GrepTypes, GrepDir PROVE GrepReaches'
  <1> DEFINE c == Contents(Dentry[file].inode)
  <1>1. pc' \in {"report", "grep_dir", "grep_read"}
    BY DEF GrepDir, Halts
  <1>2. CASE pc' # "grep_read"
    BY <1>1, <1>2 DEF GrepReaches, InFile
  <1>3. CASE pc' = "grep_read"
    <2>1. SUFFICES ASSUME Greppable(c)'
                   PROVE  Buffered(c, 0)' /\ Reached(c, file_pos - last + 1)'
      BY <1>3, Zenon DEF GrepReaches, InFile
    <2>2. entry \in DOMAIN Dentry /\ file' = entry
      BY <1>3, GrepDirFinds
    <2>3. /\ file_pos' = 0 /\ last' = 0 /\ out' = out /\ text' = text
          /\ data' = [i \in 1 .. (BUFSIZE + 1) |-> junk']
          /\ pc = "grep_dir"
      BY <1>3 DEF GrepDir, Halts
    <2>4. /\ out \in Seq(Record) /\ \A j \in DOMAIN out : out[j].file < entry
          /\ text' \in Seq(Char)
      BY <2>3 DEF GrepTypes
    <2>5. \A j \in DOMAIN out' : out'[j].file # file'
      <3>1. \A j \in DOMAIN out : out[j].file \in Nat
        <4>1. \A j \in DOMAIN out : out[j] \in Record
          BY <2>4, ElementOf
        <4> QED BY <4>1 DEF Record
      <3>2. entry \in Nat
        BY <2>2, DentryAssumption
      <3> QED BY <2>2, <2>3, <2>4, <3>1, <3>2
    <2>6. c' \in Seq(Char)
      <3>1. c' = Contents(Dentry[entry].inode)
        BY <2>2, <2>3 DEF Contents
      <3>2. text \in Seq(Char)
        BY DEF GrepTypes
      <3> QED BY <2>2, <3>1, <3>2, ContentsText
    <2>7. junk' # NL
      BY <2>1, Zenon DEF Greppable
    <2> HIDE DEF c
    <2>8. Buffered(c, 0)'
      <3>1. BUFSIZE + 1 \in 1 .. (BUFSIZE + 1)
        BY SizeAssumption
      <3>2. data'[BUFSIZE + 1] # NL /\ last' <= file_pos'
        BY <2>3, <2>7, <3>1
      <3>3. (0 + 1) .. last' = {}
        BY <2>3
      <3> QED BY <3>2, <3>3 DEF Buffered
    <2>9. file_pos' - last' + 1 = 1
      BY <2>3
    <2>10. Boundary(c', 1)
      BY <2>6 DEF Boundary
    <2>11. Printed(out', file', c', Before(c', word', 1))
      BY <2>5, <2>6, BeforeAll, PrintedNone
    <2> QED BY <2>8, <2>9, <2>10, <2>11 DEF Reached
  <1> QED BY <1>2, <1>3

LEMMA GrepReadReaches == ASSUME GrepTypes, GrepReaches, GrepRead PROVE GrepReaches'
  <1> DEFINE c   == Contents(Dentry[file].inode)
             n   == BUFSIZE - last
             buf == Bytes(file, file_pos, n)
  <1>1. /\ pc = "grep_read" /\ pc' = "grep_line" /\ line_start' = 0 /\ InFile
        /\ UNCHANGED <<text, word, file, junk, out>>
        /\ cnt' = Len(buf) /\ last' = last + Len(buf) /\ file_pos' = file_pos + Len(buf)
        /\ data' = [i \in DOMAIN data |-> IF i - last \in DOMAIN buf THEN buf[i - last] ELSE data[i]]
    BY DEF GrepRead, InFile
  <1>2. c' = c /\ (Greppable(c)' <=> Greppable(c))
    BY <1>1, SameFile
  <1>3. SUFFICES ASSUME Greppable(c)
                 PROVE  /\ Buffered(c, line_start)'
                        /\ Reached(c, file_pos - last + line_start + 1)'
                        /\ last' = BUFSIZE \/ file_pos' = Len(c)
                        /\ cnt' = 0 => file_pos' = Len(c)
    <2> HIDE DEF c, n, buf
    <2> QED BY <1>1, <1>2, Zenon DEF GrepReaches, c
  <1>4. /\ c \in Seq(Char) /\ file_pos \in 0 .. Len(c) /\ BUFSIZE \in Nat
        /\ Buffered(c, 0) /\ Reached(c, file_pos - last + 1)
    BY <1>1, <1>3, ReachesIs
  <1>5. Dentry[file].type = "file"
    BY <1>3, Zenon DEF Greppable
  <1>6. /\ n \in Nat \ {0} /\ buf \in Seq(Char) /\ Len(buf) \in 0 .. n
        /\ file_pos + Len(buf) \in 0 .. Len(c)
        /\ Len(buf) = n \/ file_pos + Len(buf) = Len(c)
        /\ \A i \in 1 .. Len(buf) : buf[i] = c[file_pos + i]
    BY <1>1, <1>5, BytesAre
  <1>7. /\ data \in Seq(Char) /\ Len(data) = BUFSIZE + 1 /\ last \in 0 .. BUFSIZE
        /\ n = BUFSIZE - last
    BY <1>1 DEF GrepTypes
  <1> HIDE DEF c, n, buf
  <1>8. /\ last <= file_pos /\ data[BUFSIZE + 1] # NL
        /\ \A i \in 1 .. last : data[i] = c[file_pos - last + i]
    BY <1>4 DEF Buffered
  <1>9. /\ last' = BUFSIZE \/ file_pos' = Len(c)
        /\ cnt' = 0 => file_pos' = Len(c)
        /\ last' <= file_pos' /\ file_pos' - last' = file_pos - last
    BY <1>1, <1>4, <1>6, <1>7, <1>8
  <1>10. data'[BUFSIZE + 1] # NL
    <2>1. BUFSIZE + 1 \in DOMAIN data /\ (BUFSIZE + 1) - last \notin DOMAIN buf
      BY <1>4, <1>6, <1>7
    <2> DEFINE b == BUFSIZE + 1
    <2> HIDE DEF b
    <2>2. b \in DOMAIN data /\ b - last \notin DOMAIN buf /\ data[b] # NL
      BY <1>8, <2>1, Zenon DEF b
    <2>3. data'[b] = IF b - last \in DOMAIN buf THEN buf[b - last] ELSE data[b]
      BY <1>1, <2>2, Zenon
    <2>4. data'[b] # NL
      BY <2>2, <2>3, Zenon
    <2> QED BY <2>4, Zenon DEF b
  <1>11. ASSUME NEW i \in 1 .. last' PROVE data'[i] = c[file_pos' - last' + i]
    <2>1. i \in DOMAIN data /\ DOMAIN buf = 1 .. Len(buf)
      BY <1>1, <1>4, <1>6, <1>7
    <2>2. CASE i <= last
      <3>1. i - last \notin DOMAIN buf /\ i \in 1 .. last
        BY <1>7, <2>1, <2>2
      <3> QED BY <1>1, <1>8, <1>9, <2>1, <3>1
    <2>3. CASE ~(i <= last)
      <3>1. i - last \in 1 .. Len(buf) /\ file_pos + (i - last) = file_pos - last + i
        BY <1>1, <1>4, <1>6, <1>7, <2>3
      <3> QED BY <1>1, <1>6, <1>9, <2>1, <3>1
    <2> QED BY <2>2, <2>3
  <1>12. Buffered(c, line_start)'
    <2>1. (line_start' + 1) .. last' = 1 .. last'
      BY <1>1
    <2> QED BY <1>2, <1>9, <1>10, <1>11, <2>1 DEF Buffered
  <1>13. Reached(c, file_pos - last + line_start + 1)'
    <2>1. file_pos' - last' + line_start' + 1 = file_pos - last + 1
      BY <1>1, <1>4, <1>7, <1>9
    <2> DEFINE q == file_pos - last + 1
               z == file_pos - last + line_start + 1
    <2>2. Boundary(c, q) /\ Printed(out, file, c, Before(c, word, q)) /\ z' = q
      BY <1>4, <2>1 DEF Reached
    <2> HIDE DEF q, z
    <2>3. Boundary(c', z') /\ Printed(out', file', c', Before(c', word', z'))
      BY <1>1, <1>2, <2>2
    <2> QED BY <2>3 DEF Reached, z
  <1> QED BY <1>9, <1>12, <1>13

\* The line in the buffer is a part of the file.
LEMMA LineIsOfFile ==
    ASSUME GrepTypes, GrepReaches, pc = "grep_line", Greppable(Contents(Dentry[file].inode))
    PROVE  LET c == Contents(Dentry[file].inode)
               q == file_pos - last + line_start + 1
               n == line_end - line_start
           IN  /\ q \in Nat \ {0} /\ n \in Nat /\ q + n - 1 <= file_pos
               /\ q + n - 1 = file_pos - last + line_end
               /\ \A i \in q .. (q + n - 1) : c[i] \notin {NL, NUL}
               /\ \A i \in 1 .. n : Closed[line_start + i] = c[q + i - 1]
               /\ LineInBuffer = SubSeq(c, q, q + n - 1)
  <1> DEFINE c == Contents(Dentry[file].inode)
             q == file_pos - last + line_start + 1
             n == line_end - line_start
  <1>1. /\ c \in Seq(Char) /\ \A i \in 1 .. Len(c) : c[i] # NUL
        /\ file_pos \in 0 .. Len(c) /\ BUFSIZE \in Nat /\ Buffered(c, line_start)
    BY ReachesIs DEF InFile
  <1>2. /\ line_end \in line_start .. last /\ line_end \in Nat
        /\ line_start \in Nat /\ last \in 0 .. BUFSIZE
        /\ \A i \in (line_start + 1) .. line_end : data[i] # NL
        /\ Closed \in Seq(Char) /\ Len(Closed) = BUFSIZE + 1
        /\ Closed[line_end + 1] = NUL
        /\ \A i \in 1 .. (BUFSIZE + 1) : i # line_end + 1 => Closed[i] = data[i]
    BY ClosedIs
  <1> DEFINE l == line_end
  <1> HIDE DEF c, l
  <1>3. /\ last <= file_pos
        /\ \A i \in (line_start + 1) .. last : data[i] = c[file_pos - last + i]
    BY <1>1 DEF Buffered
  <1>4. /\ l \in line_start .. last /\ l \in Nat
        /\ \A i \in (line_start + 1) .. l : data[i] # NL
        /\ Closed[l + 1] = NUL
        /\ \A i \in 1 .. (BUFSIZE + 1) : i # l + 1 => Closed[i] = data[i]
    BY <1>2 DEF l
  <1>5. /\ q \in Nat \ {0} /\ l - line_start \in Nat /\ q + (l - line_start) - 1 <= file_pos
        /\ q + (l - line_start) - 1 = file_pos - last + l
        /\ q + (l - line_start) - 1 <= Len(c)
    BY <1>1, <1>2, <1>3, <1>4
  <1>6. ASSUME NEW i \in 1 .. (l - line_start)
        PROVE  /\ Closed[line_start + i] = c[q + i - 1]
               /\ c[q + i - 1] # NL /\ c[q + i - 1] # NUL
    <2>1. /\ line_start + i \in (line_start + 1) .. last
          /\ line_start + i \in (line_start + 1) .. l
          /\ line_start + i \in 1 .. (BUFSIZE + 1) /\ line_start + i # l + 1
          /\ file_pos - last + (line_start + i) = q + i - 1
          /\ q + i - 1 \in 1 .. Len(c)
      BY <1>1, <1>2, <1>3, <1>4
    <2>2. Closed[line_start + i] = data[line_start + i] /\ data[line_start + i] # NL
      BY <1>4, <2>1
    <2>3. data[line_start + i] = c[q + i - 1]
      BY <1>3, <2>1
    <2> QED BY <1>1, <2>1, <2>2, <2>3
  <1> HIDE DEF q
  <1>7. LineInBuffer = SubSeq(c, q, q + (l - line_start) - 1)
    <2>1. line_start <= l /\ l < Len(Closed) /\ line_start \in Nat
      BY <1>1, <1>2, <1>4
    <2>2. \A i \in 1 .. (l - line_start) :
             Closed[line_start + i] = c[q + i - 1] /\ c[q + i - 1] # NUL
      BY <1>6
    <2>3. CString(SubSeq(Closed, line_start + 1, Len(Closed))) =
             SubSeq(c, q, q + (l - line_start) - 1)
      <3> DEFINE d == Closed
      <3>1. d \in Seq(Char) /\ l < Len(d) /\ d[l + 1] = NUL
            /\ \A i \in 1 .. (l - line_start) :
                  d[line_start + i] = c[q + i - 1] /\ c[q + i - 1] # NUL
        BY <1>2, <1>4, <2>1, <2>2
      <3> HIDE DEF d
      <3>2. CString(SubSeq(d, line_start + 1, Len(d))) =
               SubSeq(c, q, q + (l - line_start) - 1)
        <4>1. line_start <= l /\ l \in Nat /\ line_start \in Nat /\ c \in Seq(Char)
          BY <1>1, <1>4, <2>1
        <4>2. q \in Nat \ {0} /\ q + (l - line_start) - 1 <= Len(c)
          BY <1>5
        <4> QED BY <2>1, <3>1, <4>1, <4>2, BufferedLine
      <3> QED BY <3>2 DEF d
    <2> QED BY <2>3 DEF LineInBuffer
  <1>8. \A i \in q .. (q + (l - line_start) - 1) : c[i] \notin {NL, NUL}
    <2>1. SUFFICES ASSUME NEW i \in q .. (q + (l - line_start) - 1) PROVE c[i] \notin {NL, NUL}
      OBVIOUS
    <2>2. i - q + 1 \in 1 .. (l - line_start) /\ q + (i - q + 1) - 1 = i
      BY <1>5
    <2> QED BY <1>6, <2>2
  <1> QED BY <1>5, <1>6, <1>7, <1>8 DEF c, q, l


LEMMA GrepKeepReaches == ASSUME GrepTypes, GrepReaches, GrepKeep PROVE GrepReaches'
  <1> DEFINE c == Contents(Dentry[file].inode)
             q == file_pos - last + line_start + 1
             kept == LineInBuffer
  <1>1. /\ pc = "grep_line" /\ pc' = "grep_read" /\ InFile
        /\ last' = last - line_start /\ Unfinished
        /\ UNCHANGED <<text, word, file, file_pos, junk, out>>
        /\ data' = [i \in DOMAIN data |->
                      IF i <= Len(kept) THEN kept[i]
                      ELSE IF i = Len(kept) + 1 THEN NUL ELSE Closed[i]]
    BY DEF GrepKeep, LineInBuffer, open_file, InFile
  <1>2. c' = c /\ (Greppable(c)' <=> Greppable(c))
    BY <1>1, SameFile
  <1>3. SUFFICES ASSUME Greppable(c)
                 PROVE  Buffered(c, 0)' /\ Reached(c, file_pos - last + 1)'
    <2> HIDE DEF c, q, kept
    <2> QED BY <1>1, <1>2, Zenon DEF GrepReaches, c
  <1>4. /\ c \in Seq(Char) /\ file_pos \in 0 .. Len(c) /\ BUFSIZE \in Nat
        /\ Buffered(c, line_start) /\ Reached(c, q)
    BY <1>1, <1>3, ReachesIs
  <1>5. /\ line_end \in line_start .. last /\ line_end \in Nat
        /\ line_start \in Nat /\ last \in 0 .. BUFSIZE
        /\ line_end = last \/ data[line_end + 1] = NL
        /\ Closed[line_end + 1] = NUL
        /\ \A i \in 1 .. (BUFSIZE + 1) : i # line_end + 1 => Closed[i] = data[i]
    BY <1>1, ClosedIs
  <1>6. data \in Seq(Char) /\ Len(data) = BUFSIZE + 1
    BY <1>1 DEF GrepTypes
  <1>7. line_end = last /\ line_start # 0
    <2>1. At(data, line_end) # NL /\ line_start # 0
      BY <1>1 DEF Unfinished
    <2> DEFINE l == line_end
    <2>2. l \in line_start .. last /\ l \in Nat /\ (l = last \/ data[l + 1] = NL) /\ At(data, l) # NL
      BY <1>5, <2>1
    <2> HIDE DEF l
    <2>3. At(data, l) = data[l + 1]
      BY <1>4, <1>5, <1>6, <2>2 DEF At
    <2> QED BY <2>1, <2>2, <2>3 DEF l
  <1> DEFINE n == last - line_start
  <1>8. /\ q \in Nat \ {0} /\ n \in Nat /\ q + n - 1 <= file_pos
        /\ q + n - 1 = file_pos - last + last
        /\ kept = SubSeq(c, q, q + n - 1)
    BY <1>1, <1>3, <1>7, LineIsOfFile
  <1> HIDE DEF c, kept
  <1>9. /\ Len(kept) = n
        /\ \A i \in 1 .. n : kept[i] = c[q + i - 1]
    <2> DEFINE z == q + n - 1
    <2>1. z \in 0 .. Len(c) /\ q \in Nat \ {0} /\ z - q + 1 = n /\ kept = SubSeq(c, q, z) /\ n \in Nat
      BY <1>4, <1>8
    <2> HIDE DEF z, q, n
    <2>2. /\ Len(SubSeq(c, q, z)) = IF q <= z THEN z - q + 1 ELSE 0
          /\ \A i \in 1 .. (z - q + 1) : SubSeq(c, q, z)[i] = c[q + i - 1]
      BY <1>4, <2>1, PartOf
    <2> QED BY <2>1, <2>2
  <1>10. /\ last <= file_pos /\ data[BUFSIZE + 1] # NL
    BY <1>4 DEF Buffered
  <1>11. Buffered(c, 0)'
    <2>1. last' <= file_pos' /\ last' = n
      BY <1>1, <1>4, <1>5, <1>10
    <2>2. DOMAIN data = 1 .. (BUFSIZE + 1) /\ n < BUFSIZE + 1 /\ n \in Nat
      BY <1>4, <1>5, <1>6, <1>8
    <2>3. data'[BUFSIZE + 1] # NL
      <3> DEFINE b == BUFSIZE + 1
      <3>1. b \in DOMAIN data /\ ~(b <= Len(kept)) /\ b \in 1 .. (BUFSIZE + 1) /\ data[b] # NL
        BY <1>4, <1>9, <1>10, <2>2
      <3>2. Closed[b] = NUL \/ Closed[b] = data[b]
        BY <1>5, <3>1
      <3> HIDE DEF b
      <3>3. data'[b] = NUL \/ data'[b] = Closed[b]
        BY <1>1, <3>1
      <3>4. data'[b] # NL
        BY <3>1, <3>2, <3>3, CharAssumption
      <3> QED BY <3>4 DEF b
    <2>4. ASSUME NEW i \in (0 + 1) .. last' PROVE data'[i] = c'[file_pos' - last' + i]
      <3>1. i \in 1 .. n /\ i \in DOMAIN data /\ i <= Len(kept)
        BY <1>4, <1>9, <2>1, <2>2
      <3>2. data'[i] = kept[i]
        BY <1>1, <3>1
      <3>3. kept[i] = c[q + i - 1]
        BY <1>9, <3>1
      <3>4. q + i - 1 = file_pos' - last' + i
        BY <1>1, <1>4, <1>5, <3>1
      <3> QED BY <1>2, <3>2, <3>3, <3>4
    <2> QED BY <2>1, <2>3, <2>4 DEF Buffered
  <1>12. Reached(c, file_pos - last + 1)'
    <2> DEFINE z == file_pos - last + 1
    <2>1. z' = q
      BY <1>1, <1>4, <1>5
    <2>2. Boundary(c, q) /\ Printed(out, file, c, Before(c, word, q))
      BY <1>4 DEF Reached
    <2> HIDE DEF q, z
    <2>3. Boundary(c', z') /\ Printed(out', file', c', Before(c', word', z'))
      BY <1>1, <1>2, <2>1, <2>2
    <2> QED BY <2>3 DEF Reached, z
  <1> QED BY <1>11, <1>12

\* A line that is searched is a whole line of the file, or nothing between the
\* end of one that filled the buffer and its newline.
LEMMA SearchedLine ==
    ASSUME GrepTypes, GrepReaches, GrepSearch, Greppable(Contents(Dentry[file].inode))
    PROVE  LET c == Contents(Dentry[file].inode)
               q == file_pos - last + line_start + 1
               n == line_end - line_start
           IN  /\ q \in LineStarts(c) => /\ At(c, q + n - 1) \in {NL, NUL}
                                         /\ LineAt(c, q) = LineInBuffer
               /\ q \notin LineStarts(c) => n = 0
               /\ line_end < last => c[q + n] = NL
  <1> DEFINE c == Contents(Dentry[file].inode)
             l == line_end
             a == line_start
             q == file_pos - last + a + 1
             n == l - a
  <1>1. pc = "grep_line" /\ ~Unfinished /\ InFile
    BY DEF GrepSearch, InFile
  <1>2. /\ c \in Seq(Char) /\ \A i \in 1 .. Len(c) : c[i] # NUL
        /\ \A i \in LineStarts(c) : Len(LineAt(c, i)) <= BUFSIZE
        /\ file_pos \in 0 .. Len(c) /\ BUFSIZE \in Nat /\ Buffered(c, a)
        /\ Reached(c, q)
        /\ last = BUFSIZE \/ file_pos = Len(c)
        /\ cnt = 0 => file_pos = Len(c)
    BY <1>1, ReachesIs
  <1>3. /\ l \in a .. last /\ l \in Nat /\ a \in Nat /\ last \in 0 .. BUFSIZE
        /\ l = last \/ data[l + 1] = NL
    BY <1>1, ClosedIs
  <1>4. /\ q \in Nat \ {0} /\ n \in Nat /\ q + n - 1 <= file_pos
        /\ q + n - 1 = file_pos - last + l
        /\ \A i \in q .. (q + n - 1) : c[i] \notin {NL, NUL}
        /\ LineInBuffer = SubSeq(c, q, q + n - 1)
    BY <1>1, LineIsOfFile
  <1>5. /\ data \in Seq(Char) /\ Len(data) = BUFSIZE + 1
    BY <1>1 DEF GrepTypes
  <1>6. ~Unfinished <=> At(data, l) = NL \/ cnt = 0 \/ a = 0
    BY DEF Unfinished
  <1> HIDE DEF c, l, a
  <1>7. /\ last <= file_pos /\ data[BUFSIZE + 1] # NL
        /\ \A i \in (a + 1) .. last : data[i] = c[file_pos - last + i]
    BY <1>2 DEF Buffered
  <1>8. l < last => c[q + n] = NL /\ q + n <= Len(c)
    <2>1. SUFFICES ASSUME l < last PROVE c[q + n] = NL /\ q + n <= Len(c)
      OBVIOUS
    <2>2. l + 1 \in (a + 1) .. last /\ file_pos - last + (l + 1) = q + n /\ q + n <= Len(c)
      BY <1>2, <1>3, <1>7, <2>1
    <2> QED BY <1>3, <1>7, <2>1, <2>2
  <1>9. ASSUME q \in LineStarts(c) PROVE At(c, q + n - 1) \in {NL, NUL}
    <2>1. CASE l < last
      <3>1. At(c, q + n - 1) = c[q + n]
        BY <1>2, <1>4, <1>8, <2>1 DEF At
      <3> QED BY <1>8, <2>1, <3>1
    <2>2. CASE ~(l < last)
      <3>1. l = last /\ q + n - 1 = file_pos
        BY <1>2, <1>3, <1>4, <2>2
      <3>2. CASE file_pos = Len(c)
        <4>1. At(c, q + n - 1) = NUL
          BY <1>2, <3>1, <3>2 DEF At
        <4> QED BY <4>1
      <3>3. CASE file_pos # Len(c)
        <4>1. last = BUFSIZE /\ cnt # 0
          BY <1>2, <3>3
        <4>2. At(data, l) # NL
          BY <1>2, <1>5, <1>7, <3>1, <4>1 DEF At
        <4>3. a = 0 /\ n = BUFSIZE
          BY <1>1, <1>3, <1>6, <3>1, <4>1, <4>2
        <4>4. Len(LineAt(c, q)) <= n /\ q + n - 1 <= Len(c)
          BY <1>2, <1>4, <1>9, <4>3
        <4> HIDE DEF q, n
        <4> QED BY <1>2, <1>4, <4>4, FullLineEnds
      <3> QED BY <3>2, <3>3
    <2> QED BY <2>1, <2>2
  <1>10. ASSUME q \in LineStarts(c) PROVE LineAt(c, q) = LineInBuffer
    <2>1. At(c, q + n - 1) \in {NL, NUL} /\ q + n - 1 <= Len(c)
      BY <1>2, <1>4, <1>9, <1>10
    <2> HIDE DEF q, n
    <2> QED BY <1>2, <1>4, <2>1, LineAtIs
  <1>11. ASSUME q \notin LineStarts(c) PROVE n = 0
    <2>1. SUFFICES ASSUME n # 0 PROVE FALSE
      OBVIOUS
    <2>2. /\ q \in 1 .. (Len(c) + 1)
          /\ q = 1 \/ q = Len(c) + 1 \/ c[q - 1] = NL \/ c[q] = NL
      BY <1>2 DEF Reached, Boundary
    <2>3. q \in q .. (q + n - 1) /\ q \in 1 .. Len(c) /\ q # Len(c) + 1
      BY <1>2, <1>4, <2>1
    <2>4. c[q] # NL
      BY <1>4, <2>3
    <2> HIDE DEF q
    <2> QED BY <1>11, <2>2, <2>3, <2>4 DEF LineStarts
  <1> QED BY <1>8, <1>9, <1>10, <1>11 DEF c, l, a

\* A search prints the line if it holds the word, and grep is at the next place.
LEMMA SearchReaches ==
    ASSUME GrepTypes, GrepReaches, GrepSearch, Greppable(Contents(Dentry[file].inode))
    PROVE  LET c == Contents(Dentry[file].inode)
               p == file_pos - last + line_end + (IF line_end < last THEN 2 ELSE 1)
           IN  Boundary(c, p) /\ Printed(out', file, c, Before(c, word, p))
  <1> DEFINE c == Contents(Dentry[file].inode)
             l == line_end
             a == line_start
             q == file_pos - last + a + 1
             n == l - a
             p == file_pos - last + l + (IF l < last THEN 2 ELSE 1)
  <1>1. pc = "grep_line" /\ InFile
    BY DEF GrepSearch, InFile
  <1>2. /\ c \in Seq(Char) /\ file_pos \in 0 .. Len(c) /\ BUFSIZE \in Nat
        /\ word \in Seq(Plain) /\ word # <<>> /\ Buffered(c, a) /\ Reached(c, q)
        /\ \A i \in 1 .. Len(c) : c[i] # NUL
    BY <1>1, ReachesIs
  <1>3. /\ l \in a .. last /\ l \in Nat /\ a \in Nat /\ last \in 0 .. BUFSIZE
        /\ Closed \in Seq(Char) /\ Len(Closed) = BUFSIZE + 1 /\ Closed[l + 1] = NUL
    BY <1>1, ClosedIs
  <1>4. /\ q \in Nat \ {0} /\ n \in Nat /\ q + n - 1 <= file_pos
        /\ q + n - 1 = file_pos - last + l
        /\ \A i \in q .. (q + n - 1) : c[i] \notin {NL, NUL}
        /\ \A i \in 1 .. n : Closed[a + i] = c[q + i - 1]
        /\ LineInBuffer = SubSeq(c, q, q + n - 1)
    BY <1>1, LineIsOfFile
  <1>5. /\ q \in LineStarts(c) => At(c, q + n - 1) \in {NL, NUL} /\ LineAt(c, q) = LineInBuffer
        /\ q \notin LineStarts(c) => n = 0
        /\ l < last => c[q + n] = NL
    BY SearchedLine
  <1>6. Found <=> \E check \in a .. (l - 1) :
                     /\ At(word, 0) = At(Closed, check)
                     /\ \A i \in 0 .. (Len(word) - 1) : At(Closed, check + i) = At(word, i)
    BY Zenon DEF Found
  <1>7. out' = IF Found THEN Append(out, [file |-> file, line |-> LineInBuffer]) ELSE out
    BY Zenon DEF GrepSearch, Say, LineInBuffer
  <1>8. out \in Seq(Record) /\ file \in DOMAIN Dentry
    BY <1>1 DEF GrepTypes
  <1> HIDE DEF c, l, a
  <1>9. last <= file_pos
    BY <1>2 DEF Buffered
  <1>10. /\ p = q + n \/ p = q + n + 1
         /\ p \in Nat /\ p <= Len(c) + 1
         /\ IF l < last THEN p = q + n + 1 ELSE p = q + n
    BY <1>2, <1>3, <1>4, <1>9
  <1> HIDE DEF p
  <1>11. Boundary(c, p)
    <2>1. Boundary(c, q)
      BY <1>2 DEF Reached
    <2>2. CASE l < last
      <3>1. p - 1 = q + n /\ c[q + n] = NL /\ p \in 1 .. (Len(c) + 1)
        BY <1>4, <1>5, <1>10, <2>2
      <3> QED BY <3>1 DEF Boundary
    <2>3. CASE ~(l < last) /\ q \notin LineStarts(c)
      <3>1. p = q
        BY <1>4, <1>5, <1>10, <2>3
      <3> QED BY <2>1, <3>1
    <2>4. CASE ~(l < last) /\ q \in LineStarts(c)
      <3>1. p = q + n /\ At(c, q + n - 1) \in {NL, NUL}
        BY <1>5, <1>10, <2>4
      <3>2. p \in 1 .. (Len(c) + 1) /\ p - 1 = q + n - 1
        BY <1>4, <1>10, <3>1
      <3>3. CASE p # Len(c) + 1
        <4>1. p \in 1 .. Len(c) /\ At(c, p - 1) = c[p]
          BY <1>2, <3>2, <3>3 DEF At
        <4>2. c[p] = NL
          BY <1>2, <3>1, <3>2, <4>1
        <4> QED BY <3>2, <4>2 DEF Boundary
      <3>4. CASE p = Len(c) + 1
        BY <3>2, <3>4 DEF Boundary
      <3> QED BY <3>3, <3>4
    <2> QED BY <2>2, <2>3, <2>4
  <1> DEFINE line == LineInBuffer
  <1>12. line \in Seq(Char) /\ Len(line) = n /\ \A i \in 1 .. n : line[i] = c[q + i - 1]
    <2> DEFINE z == q + n - 1
    <2>1. z \in 0 .. Len(c) /\ q \in Nat \ {0} /\ z - q + 1 = n /\ n \in Nat
          /\ line = SubSeq(c, q, z)
      BY <1>2, <1>4
    <2> HIDE DEF z, q, n, line
    <2>2. /\ SubSeq(c, q, z) \in Seq(Char)
          /\ Len(SubSeq(c, q, z)) = IF q <= z THEN z - q + 1 ELSE 0
          /\ \A i \in 1 .. (z - q + 1) : SubSeq(c, q, z)[i] = c[q + i - 1]
      BY <1>2, <2>1, PartOf
    <2> QED BY <2>1, <2>2
  <1> HIDE DEF line
  <1>13. Found <=> Holds(line, word)
    <2> DEFINE d == Closed
    <2>1. d \in Seq(Char) /\ l < Len(d) /\ d[l + 1] = NUL /\ a <= l
      BY <1>2, <1>3
    <2>2. \A i \in 1 .. (l - a) : d[a + i] = line[i]
      BY <1>4, <1>12
    <2>3. Found <=> \E check \in a .. (l - 1) :
                       /\ At(word, 0) = At(d, check)
                       /\ \A i \in 0 .. (Len(word) - 1) : At(d, check + i) = At(word, i)
      BY <1>6, Zenon
    <2>4. Len(line) = l - a
      BY <1>12
    <2> HIDE DEF d
    <2>5. (\E check \in a .. (l - 1) :
                /\ At(word, 0) = At(d, check)
                /\ \A i \in 0 .. (Len(word) - 1) : At(d, check + i) = At(word, i))
           <=> Holds(line, word)
      BY <1>2, <1>3, <1>12, <2>1, <2>2, <2>4, SearchFinds
    <2> QED BY <2>3, <2>5, Zenon
  <1>14. Holds(line, word) => n # 0
    <2>1. Len(word) \in Nat \ {0}
      BY <1>2
    <2>2. n = 0 => 1 .. (Len(line) - Len(word) + 1) = {}
      BY <1>12, <2>1
    <2> QED BY <2>2 DEF Holds
  <1>15. Found <=> q < p /\ q \in Holding(c, word)
    <2>1. n # 0 => q < p
      BY <1>4, <1>10
    <2>2. q \in LineStarts(c) => LineAt(c, q) = line
      BY <1>5 DEF line
    <2>3. n # 0 => q \in LineStarts(c)
      BY <1>5
    <2>4. q \in Holding(c, word) <=> q \in LineStarts(c) /\ Holds(LineAt(c, q), word)
      BY DEF Holding
    <2> HIDE DEF q, n
    <2> QED BY <1>13, <1>14, <2>1, <2>2, <2>3, <2>4
  <1>16. Before(c, word, p) =
            Before(c, word, q) \cup (IF q < p /\ q \in Holding(c, word) THEN {q} ELSE {})
    <2>1. p \in Nat /\ q \in Nat \ {0} /\ q <= p /\ p - 2 <= q + n - 1
      BY <1>4, <1>10
    <2>2. \A i \in q .. (q + n - 1) : c[i] # NL
      BY <1>4
    <2> HIDE DEF c, q, n, p
    <2>3. c \in Seq(Char)
      BY <1>2
    <2>4. \A i \in q .. (p - 2) : c[i] # NL
      BY <1>4, <2>1, <2>2
    <2> QED BY <2>1, <2>3, <2>4, NextPlace
  <1>17. Printed(out, file, c, Before(c, word, q))
    BY <1>2 DEF Reached
  <1>18. CASE ~Found
    <2>1. out' = out /\ Before(c, word, p) = Before(c, word, q)
      BY <1>7, <1>15, <1>16, <1>18
    <2> QED BY <1>11, <1>17, <2>1 DEF p, c, l
  <1>19. CASE Found
    <2> DEFINE r == [file |-> file, line |-> line]
               S == Before(c, word, q)
    <2>1. out' = Append(out, r) /\ Before(c, word, p) = S \cup {q}
      BY <1>7, <1>15, <1>16, <1>19 DEF line
    <2>2. r \in Record /\ r.file = file /\ r.line = LineAt(c, q)
      <3>1. file \in Nat /\ line \in Text
        BY <1>1, <1>8, LineInBufferText, DentryAssumption DEF line
      <3>2. LineAt(c, q) = line
        <4>1. q \in LineStarts(c)
          BY <1>15, <1>19 DEF Holding
        <4> QED BY <1>5, <4>1 DEF line
      <3> QED BY <3>1, <3>2 DEF Record
    <2>3. S \in SUBSET Nat /\ \A i \in S : i < q
      BY DEF Before, Holding, LineStarts
    <2>4. q \in Nat
      BY <1>4
    <2> HIDE DEF r, S, q
    <2>5. Printed(out, file, c, S)
      BY <1>17 DEF S
    <2>6. Printed(Append(out, r), file, c, S \cup {q})
      BY <1>8, <2>2, <2>3, <2>4, <2>5, PrintedMore
    <2>7. Printed(out', file, c, Before(c, word, p))
      BY <2>1, <2>6
    <2> QED BY <1>11, <2>7 DEF p, c, l
  <1> QED BY <1>18, <1>19


LEMMA GrepSearchReaches == ASSUME GrepTypes, GrepReaches, GrepSearch PROVE GrepReaches'
  <1> DEFINE c == Contents(Dentry[file].inode)
             l == line_end
             p == file_pos - last + l + (IF l < last THEN 2 ELSE 1)
  <1>1. /\ pc = "grep_line" /\ InFile /\ data' = Closed
        /\ UNCHANGED <<text, word, file, file_pos, junk, cnt>>
        /\ \/ l + 1 < last /\ line_start' = l + 1 /\ pc' = pc /\ last' = last
           \/ l + 1 >= last /\ last' = 0
              /\ pc' = IF cnt = 0 THEN "grep_close" ELSE "grep_read"
    BY DEF GrepSearch, open_file, InFile
  <1>2. c' = c /\ (Greppable(c)' <=> Greppable(c))
    BY <1>1, SameFile
  <1>3. SUFFICES ASSUME Greppable(c)
                 PROVE  /\ pc' = "grep_read" =>
                              Buffered(c, 0)' /\ Reached(c, file_pos - last + 1)'
                        /\ pc' = "grep_line" =>
                              /\ Buffered(c, line_start)'
                              /\ Reached(c, file_pos - last + line_start + 1)'
                              /\ last' = BUFSIZE \/ file_pos' = Len(c)
                              /\ cnt' = 0 => file_pos' = Len(c)
                        /\ pc' = "grep_close" =>
                              Printed(out', file, c, Holding(c, word))
    <2> HIDE DEF c, l
    <2> QED BY <1>1, <1>2, Zenon DEF GrepReaches, c
  <1>4. /\ c \in Seq(Char) /\ file_pos \in 0 .. Len(c) /\ BUFSIZE \in Nat
        /\ Buffered(c, line_start)
        /\ last = BUFSIZE \/ file_pos = Len(c)
        /\ cnt = 0 => file_pos = Len(c)
    BY <1>1, <1>3, ReachesIs
  <1>5. /\ l \in line_start .. last /\ l \in Nat
        /\ line_start \in Nat /\ last \in 0 .. BUFSIZE
        /\ Closed[l + 1] = NUL
        /\ \A i \in 1 .. (BUFSIZE + 1) : i # l + 1 => Closed[i] = data[i]
    BY <1>1, ClosedIs
  <1>6. Boundary(c, p) /\ Printed(out', file, c, Before(c, word, p))
    BY <1>3, SearchReaches
  <1> HIDE DEF c, l
  <1>7. /\ last <= file_pos /\ data[BUFSIZE + 1] # NL
        /\ \A i \in (line_start + 1) .. last : data[i] = c[file_pos - last + i]
    BY <1>4 DEF Buffered
  <1>8. data'[BUFSIZE + 1] # NL
    <2>1. BUFSIZE + 1 \in 1 .. (BUFSIZE + 1)
      BY <1>4
    <2>2. Closed[BUFSIZE + 1] = NUL \/ Closed[BUFSIZE + 1] = data[BUFSIZE + 1]
      BY <1>5, <2>1
    <2> QED BY <1>1, <1>7, <2>2, CharAssumption
  <1>9. CASE l + 1 < last /\ line_start' = l + 1 /\ pc' = pc /\ last' = last
    <2>1. ASSUME NEW i \in (line_start' + 1) .. last'
          PROVE  data'[i] = c'[file_pos' - last' + i]
      <3>1. i \in (line_start + 1) .. last /\ i \in 1 .. (BUFSIZE + 1) /\ i # l + 1
        BY <1>4, <1>5, <1>9
      <3>2. Closed[i] = data[i] /\ data[i] = c[file_pos - last + i]
        BY <1>5, <1>7, <3>1
      <3> QED BY <1>1, <1>2, <1>9, <3>2
    <2>2. Buffered(c, line_start)'
      BY <1>1, <1>7, <1>8, <1>9, <2>1 DEF Buffered
    <2> DEFINE z == file_pos - last + line_start + 1
    <2>3. z' = p
      BY <1>1, <1>4, <1>5, <1>9
    <2> HIDE DEF z, p
    <2>4. Boundary(c', z') /\ Printed(out', file', c', Before(c', word', z'))
      BY <1>1, <1>2, <1>6, <2>3
    <2>5. Reached(c, file_pos - last + line_start + 1)'
      BY <2>4 DEF Reached, z
    <2>6. pc' = "grep_line" /\ last' = last /\ file_pos' = file_pos /\ cnt' = cnt
      BY <1>1, <1>9
    <2> QED BY <1>4, <2>2, <2>5, <2>6
  <1>10. CASE l + 1 >= last /\ last' = 0
              /\ pc' = IF cnt = 0 THEN "grep_close" ELSE "grep_read"
    <2>1. p = file_pos + 1
      BY <1>4, <1>5, <1>10
    <2>2. CASE cnt = 0
      <3>1. p = Len(c) + 1 /\ Before(c, word, Len(c) + 1) = Holding(c, word)
        BY <1>4, <2>1, <2>2, BeforeAll
      <3>2. Printed(out', file, c, Holding(c, word)) /\ pc' = "grep_close"
        <4> HIDE DEF p
        <4> QED BY <1>6, <1>10, <2>2, <3>1
      <3> QED BY <3>2
    <2>3. CASE cnt # 0
      <3>1. Buffered(c, 0)'
        <4>1. (0 + 1) .. last' = {} /\ last' <= file_pos'
          BY <1>1, <1>4, <1>10
        <4> QED BY <1>8, <4>1 DEF Buffered
      <3> DEFINE z == file_pos - last + 1
      <3>2. z' = p
        BY <1>1, <1>4, <1>10, <2>1
      <3> HIDE DEF z, p
      <3>3. Boundary(c', z') /\ Printed(out', file', c', Before(c', word', z'))
        BY <1>1, <1>2, <1>6, <3>2
      <3>4. Reached(c, file_pos - last + 1)'
        BY <3>3 DEF Reached, z
      <3>5. pc' = "grep_read"
        BY <1>10, <2>3
      <3> QED BY <3>1, <3>4, <3>5
    <2> QED BY <2>2, <2>3
  <1> QED BY <1>1, <1>9, <1>10

LEMMA GrepReachesNext ==
    GrepTypes /\ GrepReaches /\ [Next]_vars => GrepReaches'
  <1> SUFFICES ASSUME GrepTypes, GrepReaches, [Next]_vars PROVE GrepReaches'
    OBVIOUS
  <1>1. ASSUME ~InFile' PROVE GrepReaches'
    BY <1>1 DEF GrepReaches
  <1>2. CASE Read \/ Report \/ Other \/ Args \/ Failed
    <2>1. ~InFile'
      BY <1>2 DEF Read, Report, Other, Args, Failed, Halts, InFile
    <2> QED BY <1>1, <2>1
  <1>3. CASE Execute
    <2>1. ~InFile'
      BY <1>3, ExecuteGoes DEF InFile, Outcome
    <2> QED BY <1>1, <2>1
  <1>4. CASE CatOpen \/ CatRead \/ LsOpen \/ LsRead \/ Counter \/ Hello
    <2>1. ~InFile'
      BY <1>4 DEF CatOpen, CatRead, LsOpen, OpenDir, LsRead, Counter, Hello, Halts, InFile
    <2> QED BY <1>1, <2>1
  <1>5. CASE GrepOpen \/ GrepClose
    <2>1. ~InFile'
      BY <1>5 DEF GrepOpen, OpenDir, GrepClose, Halts, InFile
    <2> QED BY <1>1, <2>1
  <1>6. CASE GrepDir
    BY <1>6, GrepDirReaches
  <1>7. CASE GrepRead
    BY <1>7, GrepReadReaches
  <1>8. CASE GrepKeep
    BY <1>8, GrepKeepReaches
  <1>9. CASE GrepSearch
    BY <1>9, GrepSearchReaches
  <1>10. CASE UNCHANGED vars
    <2> DEFINE c == Contents(Dentry[file].inode)
               q1 == file_pos - last + 1
               q2 == file_pos - last + line_start + 1
    <2>1. c' = c /\ (Greppable(c)' <=> Greppable(c))
      BY <1>10, SameFile DEF vars, open_file, grep
    <2>2. UNCHANGED <<pc, word, file, file_pos, data, last, line_start, cnt, out>>
      BY <1>10 DEF vars, open_file, grep
    <2> HIDE DEF c
    <2>3. /\ Buffered(c, 0)' <=> Buffered(c, 0)
          /\ Buffered(c, line_start)' <=> Buffered(c, line_start)
      BY <2>1, <2>2 DEF Buffered
    <2>4. q1' = q1 /\ q2' = q2
      BY <2>2
    <2> HIDE DEF q1, q2
    <2>5. /\ Reached(c, q1)' <=> Reached(c, q1)
          /\ Reached(c, q2)' <=> Reached(c, q2)
      BY <2>1, <2>2, <2>4 DEF Reached
    <2>6. /\ Printed(out, file, c, Holding(c, word))' <=> Printed(out, file, c, Holding(c, word))
          /\ Len(c)' = Len(c) /\ InFile' = InFile
      BY <2>1, <2>2 DEF InFile
    <2> QED BY <2>1, <2>2, <2>3, <2>5, <2>6, Zenon DEF GrepReaches, c, q1, q2
  <1> QED BY <1>2, <1>3, <1>4, <1>5, <1>6, <1>7, <1>8, <1>9, <1>10 DEF Next

\* For every text without a NUL and without a line longer than the buffer, every
\* size of the buffer and every word, grep prints exactly the lines that hold the
\* word, each once, in order and whole, however the reads cut them (ece391grep.c
\* 10-67).
THEOREM GrepPrintsLines == Spec => []GrepFindsLines
  <1>1. Init => ShellInv /\ GrepTypes /\ GrepReaches
    <2>1. ASSUME Init PROVE GrepReaches
      BY <2>1 DEF Init, GrepReaches, InFile
    <2> QED BY <2>1, InitHolds, GrepTypesInit
  <1>2. GrepReaches => GrepFindsLines
    <2>1. SUFFICES ASSUME GrepReaches, pc = "grep_close",
                          Greppable(Contents(Dentry[file].inode))
                   PROVE  Printed(out, file, Contents(Dentry[file].inode),
                                  Holding(Contents(Dentry[file].inode), word))
      BY DEF GrepFindsLines
    <2>2. InFile
      BY <2>1 DEF InFile
    <2> QED BY <2>1, <2>2, Zenon DEF GrepReaches
  <1> QED BY <1>1, <1>2, NextKeeps, GrepTypesNext, GrepReachesNext, PTL DEF Spec

=============================================================================
