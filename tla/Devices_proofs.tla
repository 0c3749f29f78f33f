--------------------------- MODULE Devices_proofs ---------------------------
(***************************************************************************)
(* The devices that the kernel shares out among programs: the clock        *)
(* (rtc.c), the user video page (paging.c, syscall.c) and the sound card   *)
(* (sb16.c), for every number of terminals and programs, every rate and    *)
(* all files.                                                              *)
(***************************************************************************)
EXTENDS Rtc, VideoMap, Sb16, TLAPS

-----------------------------------------------------------------------------
(* The clock: every terminal sees one of its own rate. *)

\* A flag that is set, or that a read has seen, stands for a virtual tick since
\* the last read.
FlagsAreTicks ==
    \A t \in Terminal :
        itr_occur_table[t] = 1 \/ pc[t] = "clear" => hist[t].virtual = 1

\* The counter runs since the last virtual tick; one since the last read means
\* that no more hardware ticks have passed since than since that read.
CounterSinceRead ==
    \A t \in Terminal :
        hist[t].reads >= 1 /\ hist[t].virtual = 1 =>
            counter_table[t] < constant_arr[t] /\ counter_table[t] <= hist[t].last

\* The same for the read before the last, which a virtual tick has followed;
\* with a second one a period has passed.
CounterSinceBefore ==
    \A t \in Terminal :
        hist[t].reads = 2 =>
            /\ hist[t].virtual = 0 => /\ counter_table[t] < constant_arr[t]
                                      /\ counter_table[t] <= hist[t].before
            /\ hist[t].virtual = 1 => hist[t].before >= constant_arr[t]

RtcInv == RtcTypeOK /\ FlagsAreTicks /\ CounterSinceRead /\ CounterSinceBefore

\* The initial state.
LEMMA RtcInitHolds == ASSUME RtcInit PROVE RtcInv
  <1>1. 0 \in Terminal /\ Base \in Nat /\ Base >= 2
    BY TerminalAssumption, BaseAssumption DEF Terminal
  <1>2. [virtual |-> 0, last |-> 0, before |-> 0, reads |-> 0] \in History
    BY <1>1 DEF History
  <1>3. RtcTypeOK
    <2>1. hist \in [Terminal -> History]
      BY <1>2 DEF RtcInit
    <2>2. /\ counter_table \in [Terminal -> 0 .. Base]
          /\ constant_arr \in [Terminal -> 1 .. Base]
      BY <1>1 DEF RtcInit
    <2> QED BY <1>1, <2>1, <2>2 DEF RtcInit, RtcTypeOK
  <1>4. \A t \in Terminal : hist[t].virtual = 0 /\ hist[t].reads = 0
    BY DEF RtcInit
  <1>5. FlagsAreTicks
    BY DEF RtcInit, FlagsAreTicks
  <1> QED BY <1>3, <1>4, <1>5 DEF RtcInv, CounterSinceRead, CounterSinceBefore

\* A frequency other than 0 that rtc_set_freq takes gives a period between 1
\* and Base.
LEMMA PeriodType ==
    ASSUME NEW freq \in Int, Valid(freq), freq # 0
    PROVE  Base \div freq \in 1 .. Base
  <1>1. freq \in 1 .. Base /\ Base \in Nat
    BY BaseAssumption DEF Valid
  <1> DEFINE q == Base \div freq
             r == Base % freq
  <1>2. q \in Int /\ r \in 0 .. (freq - 1) /\ Base = freq * q + r
    BY <1>1
  <1> HIDE DEF q, r
  <1>3. q >= 1
    <2>1. SUFFICES ASSUME q <= 0 PROVE FALSE
      BY <1>2
    <2>2. freq * q <= 0
      BY <1>1, <1>2, <2>1
    <2> QED BY <1>1, <1>2, <2>2
  <1>4. q <= Base
    <2>1. q <= freq * q
      BY <1>1, <1>2, <1>3
    <2> QED BY <1>1, <1>2, <2>1
  <1> QED BY <1>1, <1>2, <1>3, <1>4 DEF q

\* The histories keep their types.
LEMMA AtMostType ==
    ASSUME NEW n \in Nat, NEW m \in Nat
    PROVE  AtMost(n, m) \in Nat /\ AtMost(n, m) <= n /\ AtMost(n, m) <= m
           /\ (n <= m => AtMost(n, m) = n) /\ (n >= m => AtMost(n, m) = m)
  BY DEF AtMost

\* Setting a frequency starts the count of reads anew for the running terminal
\* and concerns no other.
LEMMA SetFreqKeeps ==
    ASSUME RtcInv, NEW freq \in Int, rtc_set_freq(freq)
    PROVE  RtcInv'
  <1>1. CASE ~Valid(freq)
    BY <1>1 DEF RtcInv, rtc_set_freq, RtcTypeOK, FlagsAreTicks, CounterSinceRead,
                CounterSinceBefore
  <1>2. CASE Valid(freq)
    <2> DEFINE r == running_terminal
    <2>1. /\ r \in Terminal
          /\ hist' = [hist EXCEPT ![r].reads = 0, ![r].last = 0, ![r].before = 0]
          /\ UNCHANGED <<running_terminal, itr_occur_table, counter_table, pc>>
          /\ hung' \in BOOLEAN
          /\ hist \in [Terminal -> History]
      BY <1>2 DEF RtcInv, RtcTypeOK, rtc_set_freq
    <2>2. /\ constant_arr' \in [Terminal -> 1 .. Base]
          /\ \A t \in Terminal \ {r} : constant_arr'[t] = constant_arr[t]
      <3>1. CASE freq = 0
        BY <3>1 DEF RtcInv, RtcTypeOK, rtc_set_freq
      <3>2. CASE freq # 0
        <4>1. constant_arr' = [constant_arr EXCEPT ![r] = Base \div freq]
          BY <1>2, <3>2 DEF rtc_set_freq, Slot
        <4>2. Base \div freq \in 1 .. Base
          BY <1>2, <3>2, PeriodType
        <4> QED BY <4>1, <4>2 DEF RtcInv, RtcTypeOK
      <3> QED BY <3>1, <3>2
    <2>3. /\ hist' \in [Terminal -> History]
          /\ hist'[r].reads = 0
          /\ hist'[r].virtual = hist[r].virtual
          /\ \A t \in Terminal \ {r} : hist'[t] = hist[t]
      <3>1. hist[r] \in History /\ Base \in Nat
        BY <2>1, BaseAssumption
      <3>2. hist'[r] = [virtual |-> hist[r].virtual, last |-> 0,
                        before |-> 0, reads |-> 0]
        BY <2>1, <3>1 DEF History
      <3>3. hist'[r] \in History
        BY <3>1, <3>2 DEF History
      <3>4. \A t \in Terminal \ {r} : hist'[t] = hist[t]
        BY <2>1
      <3>5. hist' \in [Terminal -> History]
        BY <2>1, <3>3, <3>4
      <3> QED BY <3>2, <3>4, <3>5
    <2>4. RtcTypeOK'
      BY <2>1, <2>2, <2>3 DEF RtcInv, RtcTypeOK
    <2>5. FlagsAreTicks'
      BY <2>1, <2>3 DEF RtcInv, FlagsAreTicks
    <2>6. CounterSinceRead'
      BY <2>1, <2>2, <2>3 DEF RtcInv, CounterSinceRead
    <2>7. CounterSinceBefore'
      BY <2>1, <2>2, <2>3 DEF RtcInv, CounterSinceBefore
    <2> QED BY <2>4, <2>5, <2>6, <2>7 DEF RtcInv
  <1> QED BY <1>1, <1>2

\* A tick of the hardware clock.
LEMMA HandlerKeeps ==
    ASSUME RtcInv, rtc_handler
    PROVE  RtcInv'
  <1> DEFINE raised(t) == counter_table[t] + 1 >= constant_arr[t]
  <1>1. /\ \A t \in Terminal :
              /\ counter_table[t] \in 0 .. Base
              /\ constant_arr[t] \in 1 .. Base
              /\ hist[t] \in History
        /\ Base \in Nat
    BY BaseAssumption DEF RtcInv, RtcTypeOK
  <1>2. /\ counter_table' = [t \in Terminal |->
               IF raised(t) THEN 0 ELSE AtMost(counter_table[t] + 1, Base)]
        /\ itr_occur_table' = [t \in Terminal |-> IF raised(t) THEN 1 ELSE itr_occur_table[t]]
        /\ hist' = [t \in Terminal |->
               [virtual |-> IF raised(t) THEN 1 ELSE hist[t].virtual,
                last    |-> IF hist[t].reads = 0 THEN 0
                            ELSE AtMost(hist[t].last + 1, constant_arr[t]),
                before  |-> IF hist[t].reads < 2 THEN 0
                            ELSE AtMost(hist[t].before + 1, constant_arr[t]),
                reads   |-> hist[t].reads]]
        /\ UNCHANGED <<running_terminal, constant_arr, pc, hung>>
    BY DEF rtc_handler, Elapsed
  <1>3. ASSUME NEW t \in Terminal
        PROVE  /\ counter_table'[t] \in 0 .. Base
               /\ itr_occur_table'[t] \in {0, 1}
               /\ hist'[t] \in History
               /\ counter_table'[t] = IF raised(t) THEN 0 ELSE counter_table[t] + 1
               /\ itr_occur_table'[t] = IF raised(t) THEN 1 ELSE itr_occur_table[t]
               /\ hist'[t].virtual = IF raised(t) THEN 1 ELSE hist[t].virtual
               /\ hist'[t].reads = hist[t].reads
               /\ hist[t].reads >= 1 =>
                     hist'[t].last = AtMost(hist[t].last + 1, constant_arr[t])
               /\ hist[t].reads = 2 =>
                     hist'[t].before = AtMost(hist[t].before + 1, constant_arr[t])
    <2>1. hist[t].last \in Nat /\ hist[t].before \in Nat /\ hist[t].reads \in 0 .. 2
          /\ hist[t].virtual \in 0 .. 1
      BY <1>1 DEF History
    <2>2. /\ AtMost(hist[t].last + 1, constant_arr[t]) \in 0 .. Base
          /\ AtMost(hist[t].before + 1, constant_arr[t]) \in 0 .. Base
          /\ ~raised(t) => AtMost(counter_table[t] + 1, Base) = counter_table[t] + 1
      BY <1>1, <2>1 DEF AtMost
    <2>3. itr_occur_table[t] \in {0, 1}
      BY DEF RtcInv, RtcTypeOK
    <2>4. /\ counter_table'[t] = IF raised(t) THEN 0 ELSE counter_table[t] + 1
          /\ counter_table'[t] \in 0 .. Base
      BY <1>1, <1>2, <2>2
    <2>5. hist'[t] = [virtual |-> IF raised(t) THEN 1 ELSE hist[t].virtual,
                last    |-> IF hist[t].reads = 0 THEN 0
                            ELSE AtMost(hist[t].last + 1, constant_arr[t]),
                before  |-> IF hist[t].reads < 2 THEN 0
                            ELSE AtMost(hist[t].before + 1, constant_arr[t]),
                reads   |-> hist[t].reads]
      BY <1>2
    <2>6. hist'[t] \in History
      BY <1>1, <2>1, <2>2, <2>5 DEF History
    <2> HIDE DEF raised
    <2> QED BY <1>2, <2>1, <2>3, <2>4, <2>5, <2>6
  <1>4. RtcTypeOK'
    BY <1>2, <1>3 DEF RtcInv, RtcTypeOK
  <1>5. FlagsAreTicks'
    BY <1>2, <1>3 DEF RtcInv, FlagsAreTicks
  <1>6. ASSUME NEW t \in Terminal, hist'[t].reads >= 1, hist'[t].virtual = 1
        PROVE  counter_table'[t] < constant_arr'[t] /\ counter_table'[t] <= hist'[t].last
    <2>1. hist[t].last \in Nat /\ hist[t].reads \in 0 .. 2
      BY <1>1 DEF History
    <2>2. CASE raised(t)
      BY <1>1, <1>2, <1>3, <1>6, <2>1, <2>2 DEF AtMost
    <2>3. CASE ~raised(t)
      <3>1. hist[t].reads >= 1 /\ hist[t].virtual = 1
        BY <1>3, <1>6, <2>3
      <3>2. counter_table[t] <= hist[t].last
        BY <3>1 DEF RtcInv, CounterSinceRead
      <3> QED BY <1>1, <1>2, <1>3, <2>1, <2>3, <3>1, <3>2 DEF AtMost
    <2> QED BY <2>2, <2>3
  <1>7. ASSUME NEW t \in Terminal, hist'[t].reads = 2
        PROVE  /\ hist'[t].virtual = 0 => /\ counter_table'[t] < constant_arr'[t]
                                          /\ counter_table'[t] <= hist'[t].before
               /\ hist'[t].virtual = 1 => hist'[t].before >= constant_arr'[t]
    <2>1. hist[t].before \in Nat /\ hist[t].reads = 2 /\ hist[t].virtual \in 0 .. 1
      BY <1>1, <1>3, <1>7 DEF History
    <2>2. hist[t].virtual = 0 => /\ counter_table[t] < constant_arr[t]
                                 /\ counter_table[t] <= hist[t].before
      BY <2>1 DEF RtcInv, CounterSinceBefore
    <2>3. hist[t].virtual = 1 => hist[t].before >= constant_arr[t]
      BY <2>1 DEF RtcInv, CounterSinceBefore
    <2>4. hist'[t].before = AtMost(hist[t].before + 1, constant_arr[t])
      BY <1>3, <2>1
    <2> QED BY <1>1, <1>2, <1>3, <2>1, <2>2, <2>3, <2>4 DEF AtMost
  <1> QED BY <1>4, <1>5, <1>6, <1>7 DEF RtcInv, CounterSinceRead, CounterSinceBefore

\* A read that returns.
LEMMA ReadReturnsKeeps ==
    ASSUME RtcInv, NEW t \in Terminal, ReadReturns(t)
    PROVE  RtcInv'
  <1>1. /\ pc[t] = "clear"
        /\ itr_occur_table' = [itr_occur_table EXCEPT ![t] = 0]
        /\ pc' = [pc EXCEPT ![t] = "user"]
        /\ hist' = [hist EXCEPT ![t].virtual = 0, ![t].last = 0,
                            ![t].before = IF hist[t].reads = 0 THEN 0 ELSE hist[t].last,
                            ![t].reads = AtMost(@ + 1, 2)]
        /\ UNCHANGED <<running_terminal, counter_table, constant_arr, hung>>
    BY DEF ReadReturns, Cleared
  <1>2. hist \in [Terminal -> History] /\ hist[t] \in History /\ Base \in Nat
    BY BaseAssumption DEF RtcInv, RtcTypeOK
  <1>3. hist'[t] = [virtual |-> 0, last |-> 0,
                    before |-> IF hist[t].reads = 0 THEN 0 ELSE hist[t].last,
                    reads |-> AtMost(hist[t].reads + 1, 2)]
    BY <1>1, <1>2 DEF History
  <1>4. \A u \in Terminal \ {t} : hist'[u] = hist[u]
    BY <1>1, <1>2
  <1>5. AtMost(hist[t].reads + 1, 2) \in 0 .. 2 /\ hist[t].last \in 0 .. Base
    BY <1>2 DEF AtMost, History
  <1>6. hist'[t] \in History
    BY <1>2, <1>3, <1>5 DEF History
  <1>7. hist' \in [Terminal -> History]
    BY <1>1, <1>2, <1>4, <1>6
  <1>8. RtcTypeOK'
    BY <1>1, <1>7 DEF RtcInv, RtcTypeOK
  <1>9. FlagsAreTicks'
    BY <1>1, <1>4 DEF RtcInv, RtcTypeOK, FlagsAreTicks
  <1>10. ASSUME NEW u \in Terminal, hist'[u].reads >= 1, hist'[u].virtual = 1
         PROVE  counter_table[u] < constant_arr[u] /\ counter_table[u] <= hist'[u].last
    <2>1. u # t
      BY <1>3, <1>10
    <2> QED BY <1>4, <1>10, <2>1 DEF RtcInv, CounterSinceRead
  <1>11. ASSUME hist'[t].reads = 2
         PROVE  counter_table[t] < constant_arr[t] /\ counter_table[t] <= hist'[t].before
    <2>1. hist[t].reads >= 1 /\ hist[t].reads \in 0 .. 2
      BY <1>2, <1>3, <1>11 DEF AtMost, History
    <2>2. hist[t].virtual = 1
      BY <1>1 DEF RtcInv, FlagsAreTicks
    <2>3. hist'[t].before = hist[t].last
      BY <1>3, <2>1
    <2> QED BY <2>1, <2>2, <2>3 DEF RtcInv, CounterSinceRead
  <1>12. ASSUME NEW u \in Terminal, hist'[u].reads = 2
         PROVE  /\ hist'[u].virtual = 0 => /\ counter_table[u] < constant_arr[u]
                                           /\ counter_table[u] <= hist'[u].before
                /\ hist'[u].virtual = 1 => hist'[u].before >= constant_arr[u]
    <2>1. CASE u = t
      <3>1. hist'[u].virtual = 0
        BY <1>3, <2>1
      <3> QED BY <1>11, <1>12, <2>1, <3>1
    <2>2. CASE u # t
      BY <1>4, <1>12, <2>2 DEF RtcInv, CounterSinceBefore
    <2> QED BY <2>1, <2>2
  <1>13. CounterSinceRead'
    BY <1>1, <1>10 DEF CounterSinceRead
  <1>14. CounterSinceBefore'
    BY <1>1, <1>12 DEF CounterSinceBefore
  <1> QED BY <1>8, <1>9, <1>13, <1>14 DEF RtcInv

\* Every step keeps the invariant.
LEMMA RtcNextKeeps ==
    ASSUME RtcInv, [RtcNext]_rtc_vars
    PROVE  RtcInv'
  <1>1. CASE rtc_handler
    BY <1>1, HandlerKeeps
  <1>2. CASE Schedule
    <2>1. (running_terminal + 1) % N \in Terminal
      BY TerminalAssumption DEF RtcInv, RtcTypeOK, Terminal
    <2> QED BY <1>2, <2>1 DEF Schedule, tables, RtcInv, RtcTypeOK, FlagsAreTicks, CounterSinceRead,
                        CounterSinceBefore
  <1>3. ASSUME NEW t \in Terminal, rtc_open(t) PROVE RtcInv'
    BY <1>3, SetFreqKeeps DEF rtc_open
  <1>4. ASSUME NEW t \in Terminal, NEW f \in Freqs, rtc_write(t, f) PROVE RtcInv'
    BY <1>4, SetFreqKeeps, FreqsAssumption DEF rtc_write
  <1>5. ASSUME NEW t \in Terminal, ReadCall(t) PROVE RtcInv'
    BY <1>5 DEF ReadCall, tables, RtcInv, RtcTypeOK, FlagsAreTicks, CounterSinceRead,
                CounterSinceBefore
  <1>6. ASSUME NEW t \in Terminal, ReadSees(t) PROVE RtcInv'
    BY <1>6 DEF ReadSees, tables, RtcInv, RtcTypeOK, FlagsAreTicks, CounterSinceRead,
                CounterSinceBefore
  <1>7. ASSUME NEW t \in Terminal, ReadReturns(t) PROVE RtcInv'
    BY <1>7, ReadReturnsKeeps
  <1>8. CASE UNCHANGED rtc_vars
    BY <1>8 DEF rtc_vars, tables, RtcInv, RtcTypeOK, FlagsAreTicks, CounterSinceRead,
                CounterSinceBefore
  <1> QED BY <1>1, <1>2, <1>3, <1>4, <1>5, <1>6, <1>7, <1>8 DEF RtcNext

\* The tables of rtc.c keep their types: no period is 0 (rtc_set_freq).
THEOREM RtcTypes == RtcSpec => []RtcTypeOK
  <1>1. RtcInit => RtcInv
    BY RtcInitHolds
  <1>2. RtcInv /\ [RtcNext]_rtc_vars => RtcInv'
    BY RtcNextKeeps
  <1>3. RtcInv => RtcTypeOK
    BY DEF RtcInv
  <1> QED BY <1>1, <1>2, <1>3, PTL DEF RtcSpec

\* No read returns without a virtual tick of its terminal since the read before
\* it (rtc_read, rtc_handler).
THEOREM ReadsTakeTicks == RtcSpec => OneTickPerRead
  <1>1. RtcInit => RtcInv
    BY RtcInitHolds
  <1>2. RtcInv /\ [RtcNext]_rtc_vars => RtcInv'
    BY RtcNextKeeps
  <1>3. RtcInv /\ [RtcNext]_rtc_vars =>
          [\A t \in Terminal : ReadReturns(t) => hist[t].virtual > 0]_rtc_vars
    <2>1. ASSUME RtcInv, NEW t \in Terminal, ReadReturns(t)
          PROVE  hist[t].virtual > 0
      BY <2>1 DEF RtcInv, FlagsAreTicks, ReadReturns
    <2> QED BY <2>1
  <1> QED BY <1>1, <1>2, <1>3, PTL DEF RtcSpec, OneTickPerRead

\* Reads keep the rate that their own program has set (rtc_set_freq, rtc_read,
\* rtc_handler).
THEOREM RateIsKept == RtcSpec => ReadsKeepRate
  <1>1. RtcInit => RtcInv
    BY RtcInitHolds
  <1>2. RtcInv /\ [RtcNext]_rtc_vars => RtcInv'
    BY RtcNextKeeps
  <1>3. RtcInv /\ [RtcNext]_rtc_vars =>
          [\A t \in Terminal :
             ReadReturns(t) /\ hist[t].reads = 2 => hist[t].before >= constant_arr[t]]_rtc_vars
    BY DEF RtcInv, FlagsAreTicks, CounterSinceBefore, ReadReturns
  <1> QED BY <1>1, <1>2, <1>3, PTL DEF RtcSpec, ReadsKeepRate

-----------------------------------------------------------------------------
(* The user video page.  OwnDrawings needs to know where the page points while
   it is not stale. *)

\* A page that no switch and no vidmap has made stale points to the screen of
\* the running program, or nowhere.
FreshPage == ~stale => page \in {Own, Absent}

VideoInv == VideoTypeOK /\ FreshPage /\ OwnDrawings

LEMMA Places == /\ Video \notin Terminal /\ Absent \notin Terminal /\ Video # Absent
                /\ 0 \in Terminal
  BY TerminalAssumption DEF Video, Absent, Terminal

LEMMA VideoInitHolds == VideoInit => VideoInv
  BY Places DEF VideoInit, VideoInv, VideoTypeOK, FreshPage, OwnDrawings

LEMMA VidmapKeeps == ASSUME VideoInv, vidmap PROVE VideoInv'
  <1>1. stale' = (running_terminal # current_terminal) /\ page' = Video
        /\ UNCHANGED <<current_terminal, running_terminal, terminal_running, video_mem,
                       saved_screen, smudged>>
    BY DEF vidmap
  <1>2. stale' \in BOOLEAN /\ (~stale' => running_terminal = current_terminal)
    BY <1>1, Zenon
  <1>3. VideoTypeOK'
    BY <1>1, <1>2 DEF VideoInv, VideoTypeOK
  <1>4. FreshPage'
    BY <1>1, <1>2 DEF FreshPage, Own
  <1>5. OwnDrawings'
    BY <1>1 DEF VideoInv, OwnDrawings
  <1> QED BY <1>3, <1>4, <1>5 DEF VideoInv

LEMMA DrawKeeps == ASSUME VideoInv, Draw PROVE VideoInv'
  <1>1. running_terminal \in Terminal /\ current_terminal \in Terminal
    BY DEF VideoInv, VideoTypeOK
  <1>2. VideoTypeOK'
    BY <1>1 DEF VideoInv, VideoTypeOK, Draw
  <1>3. FreshPage'
    BY DEF VideoInv, Draw, FreshPage, Own
  <1>4. ASSUME ~smudged' PROVE OwnDrawings'
    <2>1. ~smudged /\ ~stale
      BY <1>4 DEF Draw, VideoInv, VideoTypeOK
    <2>2. page = Own
      BY <2>1 DEF Draw, VideoInv, FreshPage
    <2>3. /\ video_mem \subseteq {current_terminal}
          /\ \A t \in Terminal \ {current_terminal} : saved_screen[t] \subseteq {t}
      BY <2>1 DEF VideoInv, OwnDrawings
    <2>4. CASE running_terminal = current_terminal
      BY <1>1, <2>2, <2>3, <2>4, Places DEF Draw, OwnDrawings, Own
    <2>5. CASE running_terminal # current_terminal
      BY <1>1, <2>2, <2>3, <2>5, Places DEF Draw, OwnDrawings, Own
    <2> QED BY <2>4, <2>5
  <1> QED BY <1>2, <1>3, <1>4 DEF VideoInv, OwnDrawings

LEMMA PitKeeps == ASSUME VideoInv, pit_handler PROVE VideoInv'
  <1>1. PICK t \in Terminal : /\ t \in terminal_running
                              /\ running_terminal' = t
                              /\ page' = map_user_video_to_buffer(t)
    BY DEF pit_handler, Follows
  <1>2. VideoTypeOK'
    BY <1>1 DEF pit_handler, VideoInv, VideoTypeOK, map_user_video_to_buffer
  <1>3. FreshPage'
    BY <1>1 DEF pit_handler, FreshPage, Own, map_user_video_to_buffer
  <1>4. OwnDrawings'
    BY DEF pit_handler, VideoInv, OwnDrawings
  <1> QED BY <1>2, <1>3, <1>4 DEF VideoInv

LEMMA SwitchKeeps ==
    ASSUME VideoInv, NEW t \in Terminal, switch_to_terminal(t) PROVE VideoInv'
  <1>1. VideoTypeOK'
    BY DEF switch_to_terminal, VideoInv, VideoTypeOK, Restored
  <1>2. FreshPage'
    BY DEF switch_to_terminal, VideoInv, FreshPage
  <1>3. ASSUME ~smudged' PROVE OwnDrawings'
    BY <1>3 DEF switch_to_terminal, VideoInv, VideoTypeOK, OwnDrawings, Restored
  <1> QED BY <1>1, <1>2, <1>3 DEF VideoInv, OwnDrawings

LEMMA VideoNextKeeps == VideoInv /\ [VideoNext]_video_vars => VideoInv'
  <1>1. VideoInv /\ UNCHANGED video_vars => VideoInv'
    BY DEF video_vars, VideoInv, VideoTypeOK, FreshPage, OwnDrawings, Own
  <1> QED BY <1>1, VidmapKeeps, DrawKeeps, PitKeeps, SwitchKeeps DEF VideoNext

\* The page and the screens keep their types, and the terminal that has the CPU
\* is one that was started (scheduling.c 48-57, terminal.c 165-221).
THEOREM VideoTypes == VideoSpec => []VideoTypeOK
  <1>1. VideoInv => VideoTypeOK BY DEF VideoInv
  <1> QED BY <1>1, VideoInitHolds, VideoNextKeeps, PTL DEF VideoSpec

\* For any number of terminals, every screen shows the drawings of its own
\* programs only until one draws through a stale page (paging.c 176-184).
THEOREM DrawingsStayHome == VideoSpec => []OwnDrawings
  <1>1. VideoInv => OwnDrawings BY DEF VideoInv
  <1> QED BY <1>1, VideoInitHolds, VideoNextKeeps, PTL DEF VideoSpec

-----------------------------------------------------------------------------
(* The sound card.  While no race has happened, HalfOver and sb16_handler need to
   know that the card runs only for a finished play_music, and then, for each
   point that sb16_handler can be at, how far the two halves are ahead of what
   has been heard. *)

Points == {"user", "open", "check", "fill", "dma", "start", "done", "count"}
Stages == {"none", "toggle", "restart", "pause", "mark", "forget", "rewind", "first"}

\* Types of the driver's variables, with and without a race.
SoundTypes ==
    /\ is_playing \in BOOLEAN
    /\ dsp \in BOOLEAN
    /\ irq \in BOOLEAN
    /\ raced \in BOOLEAN
    /\ audio_file \in File
    /\ current_offset \in Nat
    /\ cur_block \in 1 .. 2
    /\ position \in 1 .. 2
    /\ half \in [1 .. 2 -> [start : Nat, len : Nat]]
    /\ tail \in Stages
    /\ at \in [Proc -> Points]
    /\ bytes_read \in [Proc -> Nat]
    /\ heard \in Nat

\* One program at a time is in play_music, and only while nothing plays and
\* sb16_handler is not running.
Alone ==
    \A p \in Proc : at[p] # "user" =>
        /\ is_playing => at[p] = "count"
        /\ at[p] = "count" => is_playing
        /\ ~irq /\ tail = "none"
        /\ \A q \in Proc \ {p} : at[q] = "user"

\* What a stopped driver is like, and what the card plays for.
Quiet ==
    /\ ~is_playing /\ tail = "none" => current_offset = 0 /\ cur_block = 1
    /\ \A p \in Proc : at[p] = "count" => current_offset = 0 /\ cur_block = 1
    /\ dsp => is_playing \/ \E p \in Proc : at[p] = "done"

\* The driver plays up to the store to is_playing in stop.
Stage ==
    /\ irq => is_playing /\ tail = "none"
    /\ tail \in {"toggle", "restart", "pause", "mark"} => is_playing
    /\ tail \in {"forget", "rewind", "first"} => ~is_playing
    /\ tail = "mark" => ~dsp
    /\ tail = "first" => current_offset = 0

\* The halves hold the first n bytes of the file, in order.
Loaded(n) ==
    /\ n <= Size[audio_file]
    /\ n <= 2 * BLOCK_SIZE
    /\ n = Size[audio_file] \/ n = 2 * BLOCK_SIZE
    /\ half[1].start = 0
    /\ half[1].len = IF n < BLOCK_SIZE THEN n ELSE BLOCK_SIZE
    /\ half[2].start = half[1].len
    /\ half[2].len = n - half[1].len

\* What play_music has done when it gets to each of its steps.
Prepared ==
    \A p \in Proc :
        /\ at[p] \in {"dma", "start", "done", "count"} /\ audio_file \in Readable =>
              Loaded(bytes_read[p])
        /\ at[p] \in {"start", "done", "count"} => position = 1
        /\ at[p] \in {"done", "count"} => heard = 0

\* A half plays.  While the file has more to read, two full blocks are ahead of
\* what has been heard and the one that plays is the one to fill next; once it
\* is read to the end, at most a block is left after the half that plays.
Playing ==
    /\ half[position].start = heard
    /\ \/ /\ current_offset < Size[audio_file]
          /\ current_offset = heard + 2 * BLOCK_SIZE
          /\ cur_block = position
          /\ half[position].len = BLOCK_SIZE
          /\ half[Other(position)].start = heard + BLOCK_SIZE
          /\ half[Other(position)].len = BLOCK_SIZE
       \/ /\ current_offset = Size[audio_file]
          /\ heard + half[position].len + BLOCK_SIZE >= Size[audio_file]

\* The file is read to its end and its last block at most is not yet heard.
Ending ==
    /\ current_offset = Size[audio_file]
    /\ heard + BLOCK_SIZE >= Size[audio_file]

\* The card has gone on to the next half.
Asking ==
    \/ /\ current_offset < Size[audio_file]
       /\ current_offset = heard + BLOCK_SIZE
       /\ cur_block = Other(position)
       /\ half[position].start = heard
       /\ half[position].len = BLOCK_SIZE
    \/ Ending

\* sb16_handler has read a full block into the half that has been played.
Refilled(block) ==
    /\ current_offset <= Size[audio_file]
    /\ current_offset = heard + 2 * BLOCK_SIZE
    /\ cur_block = block
    /\ half[position].start = heard
    /\ half[position].len = BLOCK_SIZE
    /\ half[Other(position)].start = heard + BLOCK_SIZE
    /\ half[Other(position)].len = BLOCK_SIZE

Ahead ==
    is_playing /\ audio_file \in Readable /\ (\A p \in Proc : at[p] = "user") =>
        /\ ~irq /\ tail = "none" => Playing
        /\ irq => Asking
        /\ tail = "toggle" => Refilled(Other(position))
        /\ tail = "restart" => Refilled(position)
        /\ tail \in {"pause", "mark"} => Ending

Fine == Alone /\ Quiet /\ Stage /\ Prepared /\ Ahead

SoundInv == SoundTypes /\ (~raced => Fine)

\* What read_data returns is a word; for a file that it can read it lies in the
\* file and is at most what was asked for.
LEMMA BytesBounds ==
    ASSUME NEW f \in File, NEW offset \in Nat, NEW n \in Nat
    PROVE  /\ Bytes(f, offset, n) \in Nat
           /\ Bytes(f, offset, n) = Failed \/ Bytes(f, offset, n) <= n
           /\ f \in Readable /\ ~(offset < Size[f]) => Bytes(f, offset, n) = 0
           /\ f \in Readable /\ offset < Size[f] =>
                 Bytes(f, offset, n) = IF Size[f] - offset < n THEN Size[f] - offset ELSE n
  <1>1. Size[f] \in Nat /\ Failed \in Nat /\ 0 \in Nat
    BY FileAssumption, BlockAssumption DEF Failed
  <1>2. f \in Readable => f \notin Refused /\ Broken[f] = {}
    BY DEF Readable
  <1>3. CASE f \in Refused
    BY <1>1, <1>2, <1>3 DEF Bytes
  <1>4. CASE f \notin Refused /\ ~(offset < Size[f])
    <2>1. Bytes(f, offset, n) = 0
      BY <1>1, <1>4 DEF Bytes
    <2> QED BY <1>1, <1>4, <2>1
  <1>5. CASE f \notin Refused /\ offset < Size[f]
    <2> DEFINE m == IF Size[f] - offset < n THEN Size[f] - offset ELSE n
    <2>1. m \in Nat /\ m <= n
      BY <1>1, <1>5
    <2>2. ~(offset >= Size[f])
      BY <1>1, <1>5
    <2>3. Bytes(f, offset, n) =
             IF \E i \in Broken[f] : offset <= i /\ i < offset + m THEN Failed ELSE m
      BY <1>5, <2>2 DEF Bytes
    <2> HIDE DEF m
    <2>4. Bytes(f, offset, n) \in {Failed, m}
      BY <2>3
    <2>5. f \in Readable => Bytes(f, offset, n) = m
      BY <1>2, <2>3
    <2> QED BY <1>1, <1>5, <2>1, <2>4, <2>5 DEF m
  <1> QED BY <1>3, <1>4, <1>5

LEMMA OtherBlock ==
    ASSUME NEW b \in 1 .. 2
    PROVE  Other(b) \in 1 .. 2 /\ Other(b) # b /\ Other(Other(b)) = b
           /\ \A c \in 1 .. 2 : c = b \/ c = Other(b)
  BY DEF Other

LEMMA SoundInitHolds == ASSUME SoundInit PROVE SoundInv
  <1>1. Nothing \in [start : Nat, len : Nat]
    BY DEF Nothing
  <1>2. SoundTypes
    <2>1. half \in [1 .. 2 -> [start : Nat, len : Nat]]
      BY <1>1 DEF SoundInit
    <2>2. is_playing \in BOOLEAN /\ dsp \in BOOLEAN /\ irq \in BOOLEAN /\ raced \in BOOLEAN
      BY Zenon DEF SoundInit
    <2>3. /\ audio_file \in File /\ current_offset \in Nat
          /\ cur_block \in 1 .. 2 /\ position \in 1 .. 2 /\ heard \in Nat
          /\ tail \in Stages /\ at \in [Proc -> Points] /\ bytes_read \in [Proc -> Nat]
      BY FileAssumption DEF SoundInit, Points, Stages
    <2> QED BY <2>1, <2>2, <2>3 DEF SoundTypes
  <1>3. Alone /\ Quiet /\ Stage /\ Prepared /\ Ahead
    BY DEF SoundInit, Alone, Quiet, Stage, Prepared, Ahead
  <1> QED BY <1>2, <1>3 DEF SoundInv, Fine

\* A call that finds music playing changes nothing; any other finds the driver
\* silent.
LEMMA PlayCallKeeps ==
    ASSUME SoundInv, NEW p \in Proc, PlayCall(p)
    PROVE  SoundInv'
  <1>1. SoundTypes'
    <2>1. raced' \in BOOLEAN
      BY Zenon DEF PlayCall
    <2> QED BY <2>1 DEF PlayCall, state, card, SoundInv, SoundTypes, Points
  <1>2. ASSUME ~raced' PROVE Fine'
    <2>1. ~raced /\ (~is_playing => tail = "none" /\ \A q \in Proc \ {p} : at[q] = "user")
      BY <1>2, Zenon DEF PlayCall, Met
    <2>2. Alone /\ Quiet /\ Stage /\ Prepared /\ Ahead
      BY <2>1 DEF SoundInv, Fine
    <2>3. /\ UNCHANGED <<is_playing, audio_file, current_offset, cur_block, half, dsp,
                         position, irq, tail, bytes_read, heard>>
          /\ at[p] = "user"
          /\ at' = [at EXCEPT ![p] = IF is_playing THEN "user" ELSE "open"]
          /\ at \in [Proc -> Points] /\ is_playing \in BOOLEAN
      BY DEF PlayCall, state, card, SoundInv, SoundTypes
    <2>4. CASE is_playing
      <3>1. at' = at
        BY <2>3, <2>4
      <3> QED BY <2>2, <2>3, <3>1
              DEF Fine, Alone, Quiet, Stage, Prepared, Loaded, Ahead, Playing, Asking,
                  Refilled, Ending
    <2>5. CASE ~is_playing
      <3>1. at'[p] = "open" /\ \A q \in Proc \ {p} : at'[q] = "user"
        BY <2>1, <2>3, <2>5
      <3>2. ~is_playing' /\ tail' = "none" /\ ~irq'
        BY <2>1, <2>2, <2>3, <2>5 DEF Stage
      <3>3. ~dsp'
        BY <2>1, <2>2, <2>3, <2>5 DEF Quiet
      <3>4. Alone'
        BY <3>1, <3>2 DEF Alone
      <3>5. Quiet' /\ Stage'
        BY <2>1, <2>2, <2>3, <2>5, <3>1, <3>2, <3>3 DEF Quiet, Stage
      <3> QED BY <3>1, <3>2, <3>4, <3>5 DEF Fine, Prepared, Ahead
    <2> QED BY <2>4, <2>5
  <1> QED BY <1>1, <1>2 DEF SoundInv

\* A program that is in play_music without a race is there alone.
LEMMA InPlayMusic ==
    ASSUME SoundInv, ~raced, NEW p \in Proc, at[p] # "user"
    PROVE  /\ Quiet /\ Prepared
           /\ is_playing => at[p] = "count"
           /\ at[p] = "count" => is_playing
           /\ ~irq /\ tail = "none"
           /\ \A q \in Proc \ {p} : at[q] = "user"
           /\ current_offset = 0 /\ cur_block = 1
           /\ dsp => at[p] \in {"done", "count"}
  <1>1. Alone /\ Quiet /\ Prepared
    BY DEF SoundInv, Fine
  <1>2. /\ is_playing => at[p] = "count"
        /\ at[p] = "count" => is_playing
        /\ ~irq /\ tail = "none"
        /\ \A q \in Proc \ {p} : at[q] = "user"
    BY <1>1 DEF Alone
  <1>3. current_offset = 0 /\ cur_block = 1
    BY <1>1, <1>2 DEF Quiet
  <1>4. dsp => at[p] \in {"done", "count"}
    BY <1>1, <1>2 DEF Quiet
  <1> QED BY <1>1, <1>2, <1>3, <1>4

\* The steps of play_music before the card starts, which go on or leave.
LEMMA PlayStepKeeps ==
    ASSUME SoundInv, NEW p \in Proc,
           \/ \E f \in File : PlayFind(p, f)
           \/ PlayMissing(p) \/ PlayReset(p) \/ PlayRefused(p)
    PROVE  SoundInv'
  <1>1. SoundTypes'
    <2>1. CASE \E f \in File : PlayFind(p, f)
      BY <2>1 DEF PlayFind, Goes, card, SoundInv, SoundTypes, Points
    <2>2. CASE PlayMissing(p)
      BY <2>2 DEF PlayMissing, Goes, state, card, SoundInv, SoundTypes, Points
    <2>3. CASE PlayReset(p)
      BY <2>3 DEF PlayReset, Reset_DSP, Goes, state, SoundInv, SoundTypes, Points
    <2>4. CASE PlayRefused(p)
      BY <2>4 DEF PlayRefused, Goes, state, card, SoundInv, SoundTypes, Points
    <2> QED BY <2>1, <2>2, <2>3, <2>4
  <1>2. ASSUME ~raced' PROVE Fine'
    <2>1. /\ ~raced /\ at[p] \in {"open", "check"} /\ at \in [Proc -> Points]
          /\ at' \in {[at EXCEPT ![p] = "check"], [at EXCEPT ![p] = "fill"],
                      [at EXCEPT ![p] = "user"]}
          /\ UNCHANGED <<is_playing, current_offset, cur_block, irq, tail>>
          /\ dsp' => dsp
      BY <1>2 DEF PlayFind, PlayMissing, PlayReset, PlayRefused, Goes, Reset_DSP, state, card,
                  SoundInv, SoundTypes
    <2>2. /\ ~is_playing /\ ~irq /\ tail = "none" /\ ~dsp
          /\ \A q \in Proc \ {p} : at[q] = "user"
          /\ current_offset = 0 /\ cur_block = 1
      BY <2>1, InPlayMusic
    <2>3. at'[p] \in {"user", "check", "fill"} /\ \A q \in Proc \ {p} : at'[q] = "user"
      BY <2>1, <2>2
    <2>4. ~is_playing' /\ ~irq' /\ tail' = "none" /\ ~dsp' /\ current_offset' = 0 /\ cur_block' = 1
      BY <2>1, <2>2
    <2> QED BY <2>3, <2>4 DEF Fine, Alone, Quiet, Stage, Prepared, Ahead
  <1> QED BY <1>1, <1>2 DEF SoundInv

LEMMA PlayFillKeeps ==
    ASSUME SoundInv, NEW p \in Proc, PlayFill(p)
    PROVE  SoundInv'
  <1> DEFINE n == Bytes(audio_file, current_offset, 2 * BLOCK_SIZE)
             first == IF n < BLOCK_SIZE THEN n ELSE BLOCK_SIZE
             parts == [b \in 1 .. 2 |->
                          IF b = 1 THEN [start |-> current_offset, len |-> first]
                          ELSE [start |-> current_offset + first, len |-> n - first]]
  <1>1. /\ at[p] = "fill"
        /\ bytes_read' = [bytes_read EXCEPT ![p] = n]
        /\ half' = IF n = Failed THEN [b \in 1 .. 2 |-> Nothing] ELSE parts
        /\ at' = [at EXCEPT ![p] = "dma"]
        /\ UNCHANGED <<is_playing, audio_file, current_offset, cur_block, dsp, position, irq,
                       tail, heard, raced>>
    BY DEF PlayFill, Goes, card
  <1>2. /\ current_offset \in Nat /\ audio_file \in File /\ BLOCK_SIZE \in Nat
        /\ 2 * BLOCK_SIZE \in Nat /\ 2 * BLOCK_SIZE < Failed
        /\ at \in [Proc -> Points]
        /\ bytes_read \in [Proc -> Nat]
    BY BlockAssumption DEF SoundInv, SoundTypes, Failed
  <1>3. /\ n \in Nat
        /\ audio_file \in Readable /\ ~(current_offset < Size[audio_file]) => n = 0
        /\ audio_file \in Readable /\ current_offset < Size[audio_file] =>
              n = IF Size[audio_file] - current_offset < 2 * BLOCK_SIZE
                  THEN Size[audio_file] - current_offset ELSE 2 * BLOCK_SIZE
    BY <1>2, BytesBounds
  <1> HIDE DEF n
  <1>4. first \in Nat /\ n - first \in Nat /\ current_offset + first \in Nat
    BY <1>2, <1>3
  <1>5. SoundTypes'
    <2>1. parts \in [1 .. 2 -> [start : Nat, len : Nat]]
      BY <1>2, <1>4
    <2>2. [b \in 1 .. 2 |-> Nothing] \in [1 .. 2 -> [start : Nat, len : Nat]]
      BY DEF Nothing
    <2>3. half' \in [1 .. 2 -> [start : Nat, len : Nat]]
      BY <1>1, <2>1, <2>2
    <2> QED BY <1>1, <1>3, <2>3 DEF SoundInv, SoundTypes, Points
  <1>6. ASSUME ~raced' PROVE Fine'
    <2>1. /\ ~is_playing /\ ~irq /\ tail = "none" /\ ~dsp
          /\ \A q \in Proc \ {p} : at[q] = "user"
          /\ current_offset = 0 /\ cur_block = 1
      BY <1>1, <1>6, InPlayMusic
    <2>2. at'[p] = "dma" /\ \A q \in Proc \ {p} : at'[q] = "user"
      BY <1>1, <1>2, <2>1
    <2>3. ASSUME audio_file \in Readable PROVE Loaded(bytes_read[p])'
      <3>1. Size[audio_file] \in Nat
        BY <1>2, FileAssumption
      <3>2. /\ n <= Size[audio_file] /\ n <= 2 * BLOCK_SIZE
            /\ n = Size[audio_file] \/ n = 2 * BLOCK_SIZE
        BY <1>2, <1>3, <2>1, <2>3, <3>1
      <3>3. n # Failed
        BY <1>2, <1>3, <3>2
      <3>4. half'[1] = [start |-> 0, len |-> first] /\ half'[2] = [start |-> first, len |-> n - first]
        BY <1>1, <1>2, <1>4, <2>1, <3>3
      <3>5. bytes_read'[p] = n
        BY <1>1, <1>2
      <3> QED BY <1>1, <1>3, <3>2, <3>4, <3>5 DEF Loaded
    <2>4. Prepared'
      BY <1>1, <2>2, <2>3 DEF Prepared
    <2> QED BY <1>1, <2>1, <2>2, <2>4 DEF Fine, Alone, Quiet, Stage, Ahead
  <1> QED BY <1>5, <1>6 DEF SoundInv

\* The DMA controller and the card are set up, and is_playing is set.
LEMMA PlayBeginsKeeps ==
    ASSUME SoundInv, NEW p \in Proc, PlayDMA(p) \/ PlayStart(p) \/ PlayDone(p)
    PROVE  SoundInv'
  <1>1. SoundTypes'
    <2>1. CASE PlayDMA(p)
      BY <2>1 DEF PlayDMA, Transfer_Sound_DMA, Goes, state, SoundInv, SoundTypes, Points
    <2>2. CASE PlayStart(p)
      BY <2>2 DEF PlayStart, start_play, Goes, state, SoundInv, SoundTypes, Points
    <2>3. CASE PlayDone(p)
      BY <2>3 DEF PlayDone, Goes, card, SoundInv, SoundTypes, Points
    <2> QED BY <2>1, <2>2, <2>3
  <1>2. ASSUME ~raced' PROVE Fine'
    <2>1. /\ ~raced /\ at[p] \in {"dma", "start", "done"} /\ at \in [Proc -> Points]
          /\ UNCHANGED <<audio_file, current_offset, cur_block, half, irq, tail, bytes_read>>
      BY <1>2 DEF PlayDMA, PlayStart, PlayDone, Goes, state, card, SoundInv, SoundTypes
    <2>2. /\ ~is_playing /\ ~irq /\ tail = "none"
          /\ \A q \in Proc \ {p} : at[q] = "user"
          /\ current_offset = 0 /\ cur_block = 1
          /\ dsp => at[p] = "done"
          /\ Prepared
      BY <2>1, InPlayMusic
    <2>3. /\ \A q \in Proc \ {p} : at'[q] = "user"
          /\ at'[p] \in {"start", "done", "count"}
      BY <2>1, <2>2 DEF PlayDMA, PlayStart, PlayDone, Goes
    <2>4. (is_playing' => at'[p] = "count") /\ (at'[p] = "count" => is_playing')
      BY <2>1, <2>2, <2>3 DEF PlayDMA, PlayStart, PlayDone, Goes, state
    <2>5. dsp' => at'[p] \in {"done", "count"}
      BY <2>1, <2>2, <2>3 DEF PlayDMA, PlayStart, PlayDone, Goes, state, card
    <2>6. /\ position' = 1
          /\ at'[p] \in {"done", "count"} => heard' = 0
      BY <2>1, <2>2, <2>3
         DEF PlayDMA, PlayStart, PlayDone, Goes, state, card, Transfer_Sound_DMA, Prepared
    <2>7. audio_file \in Readable => Loaded(bytes_read[p])'
      BY <2>1, <2>2 DEF Prepared, Loaded
    <2>8. Prepared'
      BY <2>1, <2>3, <2>6, <2>7 DEF Prepared
    <2>9. Alone' /\ Stage'
      BY <2>1, <2>2, <2>3, <2>4 DEF Alone, Stage
    <2>10. Quiet'
      BY <2>1, <2>2, <2>3, <2>4, <2>5 DEF Quiet
    <2>11. Ahead'
      BY <2>3 DEF Ahead
    <2> QED BY <2>8, <2>9, <2>10, <2>11 DEF Fine
  <1> QED BY <1>1, <1>2 DEF SoundInv

\* The end of play_music hands the two halves over to sb16_handler.
LEMMA PlayCountKeeps ==
    ASSUME SoundInv, NEW p \in Proc, PlayCount(p)
    PROVE  SoundInv'
  <1>1. /\ at[p] = "count" /\ at' = [at EXCEPT ![p] = "user"]
        /\ current_offset' = (current_offset + bytes_read[p]) % Word
        /\ bytes_read' = [bytes_read EXCEPT ![p] = 0]
        /\ UNCHANGED <<is_playing, audio_file, cur_block, half, dsp, position, irq, tail,
                       heard, raced>>
    BY DEF PlayCount, Goes, card
  <1>2. /\ SoundTypes /\ at \in [Proc -> Points] /\ bytes_read[p] \in Nat
        /\ audio_file \in File
        /\ BLOCK_SIZE \in Nat \ {0} /\ Word \in Nat /\ Word > 0
        /\ Size[audio_file] \in Nat /\ Size[audio_file] < Word
    BY BlockAssumption, FileAssumption DEF SoundInv, SoundTypes
  <1>3. SoundTypes'
    <2>1. current_offset' \in Nat
      BY <1>1, <1>2 DEF SoundTypes
    <2> QED BY <1>1, <1>2, <2>1 DEF SoundTypes, Points
  <1>4. ASSUME ~raced' PROVE Fine'
    <2>1. /\ is_playing /\ ~irq /\ tail = "none"
          /\ \A q \in Proc \ {p} : at[q] = "user"
          /\ current_offset = 0 /\ cur_block = 1
          /\ Prepared
      BY <1>1, <1>4, InPlayMusic
    <2>2. \A q \in Proc : at'[q] = "user"
      BY <1>1, <1>2, <2>1
    <2>3. Alone' /\ Quiet' /\ Stage' /\ Prepared'
      BY <1>1, <2>1, <2>2 DEF Alone, Quiet, Stage, Prepared
    <2>4. ASSUME audio_file \in Readable PROVE Playing'
      <3> DEFINE n == bytes_read[p]
      <3>1. Loaded(n) /\ position = 1 /\ heard = 0 /\ n \in Nat
        BY <1>1, <1>2, <2>1, <2>4 DEF Prepared
      <3>2. current_offset' = n % Word
        BY <1>1, <1>2, <2>1
      <3> HIDE DEF n
      <3>3. /\ n <= Size[audio_file]
            /\ n = Size[audio_file] \/ n = 2 * BLOCK_SIZE
            /\ half[1].start = 0
            /\ half[1].len = IF n < BLOCK_SIZE THEN n ELSE BLOCK_SIZE
            /\ half[2].start = half[1].len
            /\ half[2].len = n - half[1].len
            /\ n <= 2 * BLOCK_SIZE
        BY <3>1 DEF Loaded
      <3>4. current_offset' = n
        BY <1>2, <3>1, <3>2, <3>3
      <3>5. /\ half'[1] = half[1] /\ half'[2] = half[2]
            /\ position' = 1 /\ Other(position)' = 2 /\ heard' = 0 /\ cur_block' = 1
            /\ audio_file' = audio_file
        BY <1>1, <2>1, <3>1 DEF Other
      <3>6. CASE n < Size[audio_file]
        <4>1. n = 2 * BLOCK_SIZE
          BY <1>2, <3>1, <3>3, <3>6
        <4>2. half[1].len = BLOCK_SIZE /\ half[2].start = BLOCK_SIZE /\ half[2].len = BLOCK_SIZE
          BY <1>2, <3>3, <4>1
        <4>3. heard' + BLOCK_SIZE = BLOCK_SIZE /\ heard' + 2 * BLOCK_SIZE = 2 * BLOCK_SIZE
          BY <1>2, <3>5
        <4> QED BY <3>3, <3>4, <3>5, <3>6, <4>1, <4>2, <4>3 DEF Playing
      <3>7. CASE ~(n < Size[audio_file])
        <4>1. n = Size[audio_file]
          BY <1>2, <3>1, <3>3, <3>7
        <4>2. heard' + half[1].len + BLOCK_SIZE >= Size[audio_file]
          BY <1>2, <3>1, <3>3, <3>5, <4>1
        <4> QED BY <3>3, <3>4, <3>5, <4>1, <4>2 DEF Playing
      <3> QED BY <3>6, <3>7
    <2>5. Ahead'
      BY <1>1, <2>1, <2>4 DEF Ahead
    <2> QED BY <2>3, <2>5 DEF Fine
  <1> QED BY <1>3, <1>4 DEF SoundInv

\* When the card runs and no race has happened, a file plays.
LEMMA CardPlays ==
    ASSUME SoundInv, ~raced, HalfOver
    PROVE  /\ is_playing
           /\ \A p \in Proc : at[p] = "user"
           /\ audio_file \in Readable => Playing
  <1>1. Alone /\ Quiet /\ Ahead
    BY DEF SoundInv, Fine
  <1>2. is_playing
    BY <1>1 DEF HalfOver, Quiet
  <1>3. \A p \in Proc : at[p] = "user"
    BY <1>1, <1>2 DEF Alone, HalfOver
  <1> QED BY <1>1, <1>2, <1>3 DEF Ahead, HalfOver

LEMMA HalfOverKeeps ==
    ASSUME SoundInv, HalfOver
    PROVE  SoundInv'
  <1>1. /\ SoundTypes
        /\ position \in 1 .. 2 /\ heard \in Nat /\ current_offset \in Nat
        /\ half[position] \in [start : Nat, len : Nat]
        /\ BLOCK_SIZE \in Nat /\ Size[audio_file] \in Nat
    BY BlockAssumption, FileAssumption DEF SoundInv, SoundTypes
  <1>2. /\ irq' = TRUE
        /\ heard' = half[position].start + half[position].len
        /\ position' = Other(position)
        /\ UNCHANGED <<is_playing, audio_file, current_offset, cur_block, half, dsp, tail, at,
                       bytes_read, raced>>
        /\ tail = "none"
    BY DEF HalfOver, state, calls
  <1>3. Other(position) \in 1 .. 2 /\ Other(Other(position)) = position
    BY <1>1, OtherBlock
  <1>4. SoundTypes'
    <2>1. heard' \in Nat
      BY <1>1, <1>2
    <2>2. irq' \in BOOLEAN
      BY <1>2, Zenon
    <2> QED BY <1>1, <1>2, <1>3, <2>1, <2>2 DEF SoundTypes
  <1>5. ASSUME ~raced' PROVE Fine'
    <2>1. /\ is_playing /\ (\A p \in Proc : at[p] = "user")
          /\ audio_file \in Readable => Playing
      BY <1>2, <1>5, CardPlays
    <2>2. Alone' /\ Quiet' /\ Stage' /\ Prepared'
      BY <1>2, <2>1 DEF Alone, Quiet, Stage, Prepared
    <2>3. ASSUME audio_file \in Readable PROVE Asking'
      <3>1. Playing
        BY <2>1, <2>3
      <3>2. CASE current_offset < Size[audio_file]
        <4>1. /\ half[position].start = heard
              /\ current_offset = heard + 2 * BLOCK_SIZE
              /\ cur_block = position
              /\ half[position].len = BLOCK_SIZE
              /\ half[Other(position)].start = heard + BLOCK_SIZE
              /\ half[Other(position)].len = BLOCK_SIZE
          BY <1>1, <3>1, <3>2 DEF Playing
        <4>2. heard' = heard + BLOCK_SIZE
          BY <1>2, <4>1
        <4>3. current_offset' = heard' + BLOCK_SIZE
          BY <1>1, <1>2, <4>1, <4>2
        <4>4. half'[position'] = half[Other(position)] /\ Other(position)' = position
          BY <1>2, <1>3
        <4> QED BY <1>2, <3>2, <4>1, <4>2, <4>3, <4>4 DEF Asking
      <3>3. CASE ~(current_offset < Size[audio_file])
        <4>1. /\ half[position].start = heard
              /\ current_offset = Size[audio_file]
              /\ heard + half[position].len + BLOCK_SIZE >= Size[audio_file]
          BY <1>1, <3>1, <3>3 DEF Playing
        <4>2. heard' + BLOCK_SIZE >= Size[audio_file]
          BY <1>1, <1>2, <4>1
        <4> QED BY <1>2, <4>1, <4>2 DEF Asking, Ending
      <3> QED BY <3>2, <3>3
    <2>4. Ahead'
      BY <1>2, <2>1, <2>3 DEF Ahead
    <2> QED BY <2>2, <2>4 DEF Fine
  <1> QED BY <1>4, <1>5 DEF SoundInv

\* When sb16_handler runs and no race has happened, a file plays.
LEMMA HandlerPlays ==
    ASSUME SoundInv, sb16_handler, ~raced
    PROVE  /\ is_playing /\ tail = "none"
           /\ \A p \in Proc : at[p] = "user"
           /\ audio_file \in Readable => Asking
  <1>1. Alone /\ Stage /\ Ahead /\ irq
    BY DEF SoundInv, Fine, sb16_handler
  <1>2. is_playing /\ tail = "none"
    BY <1>1 DEF Stage
  <1>3. \A p \in Proc : at[p] = "user"
    BY <1>1 DEF Alone
  <1> QED BY <1>1, <1>2, <1>3 DEF Ahead

LEMMA SoundHandlerKeeps ==
    ASSUME SoundInv, sb16_handler
    PROVE  SoundInv'
  <1> DEFINE n == Bytes(audio_file, current_offset, BLOCK_SIZE)
  <1>1. /\ SoundTypes /\ current_offset \in Nat /\ audio_file \in File
        /\ BLOCK_SIZE \in Nat \ {0} /\ position \in 1 .. 2 /\ cur_block \in 1 .. 2
        /\ half \in [1 .. 2 -> [start : Nat, len : Nat]]
        /\ heard \in Nat
        /\ Word \in Nat /\ Word > 0 /\ BLOCK_SIZE < Failed
        /\ Size[audio_file] \in Nat /\ Size[audio_file] < Word
    BY BlockAssumption, FileAssumption DEF SoundInv, SoundTypes, Failed
  <1>2. /\ n \in Nat
        /\ audio_file \in Readable /\ ~(current_offset < Size[audio_file]) => n = 0
        /\ audio_file \in Readable /\ current_offset < Size[audio_file] =>
              n = IF Size[audio_file] - current_offset < BLOCK_SIZE
                  THEN Size[audio_file] - current_offset ELSE BLOCK_SIZE
    BY <1>1, BytesBounds
  <1>3. /\ irq' = FALSE
        /\ half' = IF n = 0 THEN half
                   ELSE [half EXCEPT ![cur_block] = Part(current_offset, n)]
        /\ current_offset' = (current_offset + n) % Word
        /\ tail' = IF n = BLOCK_SIZE THEN "toggle" ELSE IF n = 0 THEN "pause" ELSE "none"
        /\ UNCHANGED <<is_playing, audio_file, cur_block, dsp, position, heard, at,
                       bytes_read, raced>>
    BY DEF sb16_handler, AtEnd, calls
  <1> HIDE DEF n
  <1>4. SoundTypes'
    <2>1. Part(current_offset, n) \in [start : Nat, len : Nat]
      BY <1>1, <1>2 DEF Part, Nothing
    <2>2. half' \in [1 .. 2 -> [start : Nat, len : Nat]]
      BY <1>1, <1>3, <2>1
    <2>3. current_offset' \in Nat /\ tail' \in Stages
      BY <1>1, <1>2, <1>3 DEF Stages
    <2>4. irq' \in BOOLEAN
      BY <1>3, Zenon
    <2> QED BY <1>1, <1>3, <2>2, <2>3, <2>4 DEF SoundTypes
  <1>5. ASSUME ~raced' PROVE Fine'
    <2>1. /\ is_playing /\ (\A p \in Proc : at[p] = "user")
          /\ audio_file \in Readable => Asking
      BY <1>3, <1>5, HandlerPlays
    <2>2. Alone' /\ Quiet' /\ Stage' /\ Prepared'
      BY <1>3, <2>1 DEF Alone, Quiet, Stage, Prepared
    <2>3. CASE audio_file \in Readable /\ current_offset < Size[audio_file]
      <3>1. /\ current_offset = heard + BLOCK_SIZE
            /\ cur_block = Other(position)
            /\ half[position].start = heard
            /\ half[position].len = BLOCK_SIZE
        BY <1>1, <2>1, <2>3 DEF Asking, Ending
      <3>2. /\ n > 0 /\ n <= BLOCK_SIZE /\ current_offset + n <= Size[audio_file]
            /\ n = BLOCK_SIZE \/ current_offset + n = Size[audio_file]
        BY <1>1, <1>2, <2>3
      <3>3. current_offset' = current_offset + n
        BY <1>1, <1>2, <1>3, <3>2
      <3>4. /\ Other(position) \in 1 .. 2 /\ Other(position) # position
        BY <1>1, OtherBlock
      <3>5. Part(current_offset, n) = [start |-> current_offset, len |-> n]
        BY <1>1, <1>2, <3>2 DEF Part
      <3>6. /\ half'[position] = half[position]
            /\ half'[Other(position)].start = heard + BLOCK_SIZE
            /\ half'[Other(position)].len = n
        BY <1>1, <1>2, <1>3, <3>1, <3>2, <3>4, <3>5
      <3>7. position' = position /\ Other(position)' = Other(position) /\ heard' = heard
            /\ audio_file' = audio_file /\ cur_block' = cur_block
        BY <1>3 DEF Other
      <3>8. CASE n = BLOCK_SIZE
        <4>1. tail' = "toggle" /\ current_offset' = heard' + 2 * BLOCK_SIZE
          BY <1>1, <1>3, <3>1, <3>3, <3>7, <3>8
        <4>2. Refilled(Other(position))'
          BY <3>1, <3>2, <3>3, <3>6, <3>7, <3>8, <4>1 DEF Refilled
        <4>3. Ahead'
          BY <1>3, <4>1, <4>2 DEF Ahead
        <4> QED BY <2>2, <4>3 DEF Fine
      <3>9. CASE n # BLOCK_SIZE
        <4>1. tail' = "none" /\ current_offset' = Size[audio_file]
          BY <1>1, <1>3, <3>2, <3>3, <3>9
        <4>2. heard' + BLOCK_SIZE + BLOCK_SIZE >= Size[audio_file]
          BY <1>1, <1>2, <3>1, <3>2, <3>3, <3>7, <4>1
        <4>3. Playing'
          BY <3>1, <3>6, <3>7, <4>1, <4>2 DEF Playing
        <4>4. Ahead'
          BY <1>3, <4>1, <4>3 DEF Ahead
        <4> QED BY <2>2, <4>4 DEF Fine
      <3> QED BY <3>8, <3>9
    <2>4. CASE audio_file \in Readable /\ ~(current_offset < Size[audio_file])
      <3>1. Ending
        BY <1>1, <2>1, <2>4 DEF Asking
      <3>2. n = 0 /\ tail' = "pause"
        BY <1>1, <1>2, <1>3, <2>4
      <3>3. current_offset' = current_offset
        <4>1. current_offset < Word /\ current_offset' = (current_offset + 0) % Word
          BY <1>1, <1>3, <3>1, <3>2 DEF Ending
        <4> QED BY <1>1, <4>1
      <3>4. Ending'
        BY <1>3, <3>1, <3>3 DEF Ending
      <3>5. Ahead'
        BY <1>3, <3>2, <3>4 DEF Ahead
      <3> QED BY <2>2, <3>5 DEF Fine
    <2>5. CASE audio_file \notin Readable
      BY <1>3, <2>2, <2>5 DEF Fine, Ahead
    <2> QED BY <2>3, <2>4, <2>5
  <1> QED BY <1>4, <1>5 DEF SoundInv

\* Behind the sti the statements come one by one.
LEMMA TailKeeps ==
    ASSUME SoundInv, Tail
    PROVE  SoundInv'
  <1>1. /\ SoundTypes /\ position \in 1 .. 2 /\ cur_block \in 1 .. 2
        /\ current_offset \in Nat /\ heard \in Nat
        /\ BLOCK_SIZE \in Nat \ {0} /\ Size[audio_file] \in Nat
    BY BlockAssumption, FileAssumption DEF SoundInv, SoundTypes
  <1>2. /\ UNCHANGED <<half, position, irq, heard, at, bytes_read, raced>>
        /\ tail \in {"toggle", "restart", "pause", "mark", "forget", "rewind", "first"}
    BY DEF Tail, BlockToggled, BlockRestarted, StopPause, StopMark, StopForget, StopRewind,
           StopFirst, Then, calls
  <1>3. Other(cur_block) \in 1 .. 2 /\ Other(Other(position)) = position
    BY <1>1, OtherBlock
  <1>4. SoundTypes'
    <2>1. is_playing' \in BOOLEAN /\ dsp' \in BOOLEAN
      BY <1>1 DEF Tail, BlockToggled, BlockRestarted, StopPause, StopMark, StopForget,
           StopRewind, StopFirst, start_play, SoundTypes
    <2>2. audio_file' \in File /\ current_offset' \in Nat /\ cur_block' \in 1 .. 2
      BY <1>1, <1>3, FileAssumption
         DEF Tail, BlockToggled, BlockRestarted, StopPause, StopMark, StopForget, StopRewind,
             StopFirst, Toggled, SoundTypes
    <2>3. tail' \in Stages
      BY DEF Tail, BlockToggled, BlockRestarted, StopPause, StopMark, StopForget, StopRewind,
             StopFirst, Then, Stages
    <2> QED BY <1>1, <1>2, <2>1, <2>2, <2>3 DEF SoundTypes
  <1>5. ASSUME ~raced' PROVE Fine'
    <2>1. Alone /\ Quiet /\ Stage /\ Ahead
      BY <1>2, <1>5 DEF SoundInv, Fine
    <2>2. (\A p \in Proc : at[p] = "user") /\ ~irq
      BY <1>2, <2>1 DEF Alone, Stage
    <2>3. Alone' /\ Prepared'
      BY <1>2, <2>2 DEF Alone, Prepared
    <2>4. CASE BlockToggled
      <3>1. /\ tail = "toggle" /\ tail' = "restart" /\ cur_block' = Other(cur_block)
            /\ UNCHANGED <<is_playing, audio_file, current_offset, dsp>>
        BY <2>4 DEF BlockToggled, Then, Toggled
      <3>2. Quiet' /\ Stage'
        BY <1>2, <2>1, <2>2, <3>1 DEF Quiet, Stage
      <3>3. is_playing /\ audio_file \in Readable => Refilled(Other(position))
        BY <2>1, <2>2, <3>1 DEF Ahead
      <3>4. Refilled(Other(position)) => Refilled(position)'
        BY <1>2, <1>3, <3>1 DEF Refilled, Other
      <3>5. Ahead'
        BY <1>2, <2>2, <3>1, <3>3, <3>4 DEF Ahead
      <3> QED BY <2>3, <3>2, <3>5 DEF Fine
    <2>5. CASE BlockRestarted
      <3>1. /\ tail = "restart" /\ tail' = "none"
            /\ UNCHANGED <<is_playing, audio_file, current_offset, cur_block>>
        BY <2>5 DEF BlockRestarted, Then
      <3>2. is_playing
        BY <2>1, <3>1 DEF Stage
      <3>3. Quiet' /\ Stage'
        BY <1>2, <2>2, <3>1, <3>2 DEF Quiet, Stage
      <3>4. audio_file \in Readable => Refilled(position)
        BY <2>1, <2>2, <3>1, <3>2 DEF Ahead
      <3>5. Refilled(position) => Playing'
        <4>1. SUFFICES ASSUME Refilled(position) PROVE Playing'
          OBVIOUS
        <4>2. /\ current_offset < Size[audio_file] \/ current_offset = Size[audio_file]
              /\ heard + BLOCK_SIZE + BLOCK_SIZE = current_offset
          BY <1>1, <4>1 DEF Refilled
        <4>3. Other(position)' = Other(position)
          BY <1>2 DEF Other
        <4>4. heard + BLOCK_SIZE + BLOCK_SIZE >= current_offset
          BY <1>1, <4>2
        <4> QED BY <1>2, <3>1, <4>1, <4>2, <4>3, <4>4 DEF Refilled, Playing
      <3>6. Ahead'
        BY <1>2, <2>2, <3>1, <3>4, <3>5 DEF Ahead
      <3> QED BY <2>3, <3>3, <3>6 DEF Fine
    <2>6. CASE StopPause
      <3>1. /\ tail = "pause" /\ tail' = "mark" /\ dsp' = FALSE
            /\ UNCHANGED <<is_playing, audio_file, current_offset, cur_block>>
        BY <2>6 DEF StopPause, Then
      <3>2. Quiet' /\ Stage'
        BY <1>2, <2>1, <2>2, <3>1 DEF Quiet, Stage
      <3>3. Ahead'
        BY <1>2, <2>1, <2>2, <3>1 DEF Ahead, Ending
      <3> QED BY <2>3, <3>2, <3>3 DEF Fine
    <2>7. CASE StopMark \/ StopForget \/ StopRewind \/ StopFirst
      <3>1. /\ ~is_playing'
            /\ tail = "mark" => tail' = "forget"
            /\ tail # "mark" => ~is_playing
            /\ tail' \in {"forget", "rewind", "first", "none"}
            /\ dsp' = dsp
        BY <2>1, <2>7 DEF StopMark, StopForget, StopRewind, StopFirst, Then, Stage
      <3>2. tail' = "first" => current_offset' = 0
        BY <2>7 DEF StopMark, StopForget, StopRewind, StopFirst, Then
      <3>3. tail' = "none" => current_offset' = 0 /\ cur_block' = 1
        BY <2>1, <2>7 DEF StopMark, StopForget, StopRewind, StopFirst, Then, Stage
      <3>4. Stage' /\ Ahead'
        BY <1>2, <2>2, <3>1, <3>2 DEF Stage, Ahead
      <3>5. ~dsp'
        BY <2>1, <2>2, <2>7, <3>1 DEF StopMark, StopForget, StopRewind, StopFirst, Then, Stage, Quiet
      <3>6. Quiet'
        BY <1>2, <2>2, <3>1, <3>3, <3>5 DEF Quiet
      <3> QED BY <2>3, <3>4, <3>6 DEF Fine
    <2> QED BY <2>4, <2>5, <2>6, <2>7 DEF Tail
  <1> QED BY <1>4, <1>5 DEF SoundInv

\* Ctrl-C outside play_music and sb16_handler leaves a silent driver.
LEMMA CtrlCKeeps ==
    ASSUME SoundInv, CtrlC
    PROVE  SoundInv'
  <1>1. SoundTypes'
    <2>1. raced' \in BOOLEAN /\ is_playing' \in BOOLEAN /\ dsp' \in BOOLEAN
      BY Zenon DEF CtrlC, stop
    <2> QED BY <2>1, FileAssumption DEF CtrlC, stop, SoundInv, SoundTypes
  <1>2. ASSUME ~raced' PROVE Fine'
    <2>1. (\A p \in Proc : at[p] = "user") /\ ~irq /\ tail = "none"
      BY <1>2, Zenon DEF CtrlC
    <2>2. /\ UNCHANGED <<at, irq, tail>>
          /\ ~dsp' /\ ~is_playing' /\ current_offset' = 0 /\ cur_block' = 1
      BY DEF CtrlC, stop
    <2> QED BY <2>1, <2>2 DEF Fine, Alone, Quiet, Stage, Prepared, Ahead
  <1> QED BY <1>1, <1>2 DEF SoundInv

\* A program that is killed outside of them was not using the driver.
LEMMA KilledKeeps ==
    ASSUME SoundInv, NEW p \in Proc, Killed(p)
    PROVE  SoundInv'
  <1>1. /\ at' = [at EXCEPT ![p] = "user"]
        /\ bytes_read' = [bytes_read EXCEPT ![p] = 0]
        /\ tail' \in {tail, "none"}
        /\ UNCHANGED <<is_playing, audio_file, current_offset, cur_block, half, dsp, position,
                       irq, heard>>
        /\ SoundTypes
        /\ at \in [Proc -> Points] /\ bytes_read \in [Proc -> Nat]
    BY DEF Killed, state, SoundInv, SoundTypes
  <1>2. SoundTypes'
    <2>1. raced' \in BOOLEAN
      BY Zenon DEF Killed
    <2>2. tail' \in Stages
      BY <1>1 DEF SoundTypes, Stages
    <2> QED BY <1>1, <2>1, <2>2 DEF SoundTypes, Points
  <1>3. ASSUME ~raced' PROVE Fine'
    <2>1. ~raced /\ at[p] = "user" /\ tail' = tail
      BY <1>3, Zenon DEF Killed
    <2>2. at' = at
      BY <1>1, <2>1
    <2>3. \A q \in Proc : at[q] # "user" => bytes_read'[q] = bytes_read[q]
      BY <1>1, <2>1
    <2>4. Alone /\ Quiet /\ Stage /\ Prepared /\ Ahead
      BY <2>1 DEF SoundInv, Fine
    <2>5. Alone' /\ Quiet' /\ Stage'
      BY <1>1, <2>1, <2>2, <2>4 DEF Alone, Quiet, Stage
    <2>6. Prepared'
      BY <1>1, <2>2, <2>3, <2>4 DEF Prepared, Loaded
    <2>7. Ahead'
      BY <1>1, <2>1, <2>2, <2>4 DEF Ahead, Playing, Asking, Refilled, Ending
    <2> QED BY <2>5, <2>6, <2>7 DEF Fine
  <1> QED BY <1>2, <1>3 DEF SoundInv

LEMMA SoundNextKeeps == SoundInv /\ [SoundNext]_sound_vars => SoundInv'
  <1>1. SoundInv /\ UNCHANGED sound_vars => SoundInv'
    BY DEF sound_vars, state, card, calls, SoundInv, SoundTypes, Fine, Alone, Quiet, Stage,
           Prepared, Loaded, Ahead, Playing, Asking, Refilled, Ending
  <1>2. ASSUME SoundInv, NEW p \in Proc, Steps(p) PROVE SoundInv'
    BY <1>2, PlayStepKeeps, PlayFillKeeps, PlayBeginsKeeps, PlayCountKeeps DEF Steps
  <1> QED BY <1>1, <1>2, PlayCallKeeps, KilledKeeps, HalfOverKeeps, SoundHandlerKeeps,
             TailKeeps, CtrlCKeeps DEF SoundNext

\* Without a race, every half that the card has played is the part of the file
\* that comes next, for any file that can be read and any size of the halves
\* (play_music, sb16_handler).
THEOREM MusicInOrder == SoundSpec => PlaysInOrder
  <1>1. SoundInv /\ [SoundNext]_sound_vars =>
            [HalfOver /\ Orderly => half[position].start = heard]_sound_vars
    <2>1. ASSUME SoundInv, HalfOver, Orderly PROVE half[position].start = heard
      BY <2>1, CardPlays DEF Orderly, Playing
    <2> QED BY <2>1
  <1>2. SoundInit => SoundInv
    BY SoundInitHolds
  <1> QED BY <1>1, <1>2, SoundNextKeeps, PTL DEF SoundSpec, PlaysInOrder

\* Without a race, sb16_handler never writes into the half that the card plays
\* (cur_block against the half that the card is in).
THEOREM FillsTheOtherHalf == SoundSpec => FillsBehind
  <1>1. SoundInv /\ [SoundNext]_sound_vars =>
            [sb16_handler /\ Orderly /\ current_offset' # current_offset
               => cur_block # position]_sound_vars
    <2>1. ASSUME SoundInv, sb16_handler, Orderly, current_offset' # current_offset
          PROVE  cur_block # position
      <3>1. /\ Asking /\ audio_file \in Readable /\ audio_file \in File
            /\ Size[audio_file] \in Nat /\ Size[audio_file] < Word
            /\ current_offset \in Nat /\ position \in 1 .. 2 /\ BLOCK_SIZE \in Nat /\ Word \in Nat
        BY <2>1, HandlerPlays, BlockAssumption, FileAssumption
           DEF SoundInv, SoundTypes, Orderly
      <3>2. CASE current_offset < Size[audio_file]
        <4>1. cur_block = Other(position)
          BY <3>1, <3>2 DEF Asking, Ending
        <4> QED BY <3>1, <4>1, OtherBlock
      <3>3. CASE ~(current_offset < Size[audio_file])
        <4>1. Bytes(audio_file, current_offset, BLOCK_SIZE) = 0
          BY <3>1, <3>3, BytesBounds
        <4>2. current_offset = Size[audio_file]
          BY <3>1, <3>3 DEF Asking, Ending
        <4>3. current_offset' = (current_offset + 0) % Word
          BY <2>1, <4>1 DEF sb16_handler
        <4> QED BY <2>1, <3>1, <4>2, <4>3
      <3> QED BY <3>2, <3>3
    <2> QED BY <2>1
  <1>2. SoundInit => SoundInv
    BY SoundInitHolds
  <1> QED BY <1>1, <1>2, SoundNextKeeps, PTL DEF SoundSpec, FillsBehind

\* Without a race, music that sb16_handler stops has been played up to its last
\* block.
THEOREM MusicToTheEnd == SoundSpec => StopsAtEnd
  <1>1. SoundInv /\ [SoundNext]_sound_vars =>
            [Tail /\ Orderly /\ is_playing /\ ~is_playing'
               => heard + BLOCK_SIZE >= Size[audio_file]]_sound_vars
    <2>1. ASSUME SoundInv, Tail, Orderly, is_playing, ~is_playing'
          PROVE  heard + BLOCK_SIZE >= Size[audio_file]
      <3>1. tail = "mark"
        BY <2>1 DEF Tail, BlockToggled, BlockRestarted, StopPause, StopMark, StopForget,
                    StopRewind, StopFirst, Then
      <3>2. Alone /\ Ahead
        BY <2>1 DEF SoundInv, Fine, Orderly
      <3>3. \A p \in Proc : at[p] = "user"
        BY <3>1, <3>2 DEF Alone
      <3> QED BY <2>1, <3>1, <3>2, <3>3 DEF Ahead, Ending, Orderly
    <2> QED BY <2>1
  <1>2. SoundInit => SoundInv
    BY SoundInitHolds
  <1> QED BY <1>1, <1>2, SoundNextKeeps, PTL DEF SoundSpec, StopsAtEnd
=============================================================================
