-------------------------------- MODULE Rtc --------------------------------
(***************************************************************************)
(* The real-time clock driver (rtc.c): one hardware clock of Base          *)
(* interrupts a second drives a virtual clock for every terminal.          *)
(*                                                                         *)
(* One program per terminal uses the device; it runs while pit_handler has *)
(* running_terminal at its terminal.  rtc_set_freq and rtc_handler run     *)
(* with IF = 0 and are one step each.  rtc_read runs with IF = 1: its test *)
(* of the flag and the store that clears it are two steps.                 *)
(***************************************************************************)
EXTENDS Integers, Terminals

CONSTANTS
    Base,       \* 1024, the rate of the hardware clock
    Freqs       \* the frequencies that programs write

ASSUME BaseAssumption == Base \in Nat /\ Base >= 2
ASSUME FreqsAssumption == Freqs \subseteq Int

VARIABLES
    itr_occur_table,    \* a tick of the virtual clock that no read has taken
    counter_table,      \* hardware ticks since the last virtual one
    constant_arr,       \* hardware ticks to a virtual one
    pc,                 \* where each terminal's program is in rtc_read
    hung,               \* the CPU spins in print_exception with IF = 0
    hist                \* history: what the reads of each terminal have seen

tables == <<itr_occur_table, counter_table, constant_arr>>
rtc_vars == <<running_terminal, tables, pc, hung, hist>>

AtMost(n, max) == IF n > max THEN max ELSE n

\* virtual: virtual ticks since the last read returned; last, before: hardware
\* ticks since the last read returned and since the one before it; reads: reads
\* since the rate was set, up to 2.
History == [virtual : 0 .. 1, last : 0 .. Base, before : 0 .. Base, reads : 0 .. 2]

RtcInit ==
    /\ running_terminal = 0
    /\ itr_occur_table = [t \in Terminal |-> 0]
    /\ counter_table = [t \in Terminal |-> 0]
    /\ constant_arr = [t \in Terminal |-> Base]
    /\ pc = [t \in Terminal |-> "user"]
    /\ hung = FALSE
    /\ hist = [t \in Terminal |->
           [virtual |-> 0, last |-> 0, before |-> 0, reads |-> 0]]

-----------------------------------------------------------------------------
\* The loop of rtc_set_freq: freq is halved to 1 and is even until then.
Halves[n \in 0 .. Base] == n <= 1 \/ (n % 2 = 0 /\ Halves[n \div 2])

\* What rtc_set_freq takes for a valid frequency.
Valid(freq) == freq >= 0 /\ freq <= Base /\ freq % 2 = 0 /\ Halves[freq]

\* Fault: the rate is stored for the first terminal.
Slot_First == 0

\* The entry of constant_arr that rtc_set_freq stores to.
Slot == running_terminal

\* rtc_set_freq; the division by 0 raises an exception that never returns.
rtc_set_freq(freq) ==
    /\ hung' = (Valid(freq) /\ freq = 0)
    /\ constant_arr' = IF Valid(freq) /\ freq # 0
                       THEN [constant_arr EXCEPT ![Slot] = Base \div freq]
                       ELSE constant_arr
    /\ hist' = IF Valid(freq)
               THEN [hist EXCEPT ![running_terminal].reads = 0, ![running_terminal].last = 0,
                                 ![running_terminal].before = 0]
               ELSE hist
    /\ UNCHANGED <<running_terminal, itr_occur_table, counter_table, pc>>

\* The program of terminal t is between two system calls and has the CPU.
InUser(t) == ~hung /\ running_terminal = t /\ pc[t] = "user"

rtc_open(t) == InUser(t) /\ rtc_set_freq(2)

rtc_write(t, freq) == InUser(t) /\ rtc_set_freq(freq)

\* Fault: the counter is compared for equality.
Elapsed_Equal(count, constant) == count = constant

\* The counter has reached the rate.
Elapsed(count, constant) == count >= constant

\* rtc_handler.  The counter is bounded by Base, which no rate exceeds.
rtc_handler ==
    LET count(t)  == counter_table[t] + 1
        raised(t) == Elapsed(count(t), constant_arr[t])
    IN  /\ ~hung
        /\ counter_table' = [t \in Terminal |->
               IF raised(t) THEN 0 ELSE AtMost(count(t), Base)]
        /\ itr_occur_table' = [t \in Terminal |-> IF raised(t) THEN 1 ELSE itr_occur_table[t]]
        /\ hist' = [t \in Terminal |->
               [virtual |-> IF raised(t) THEN 1 ELSE hist[t].virtual,
                last    |-> IF hist[t].reads = 0 THEN 0
                            ELSE AtMost(hist[t].last + 1, constant_arr[t]),
                before  |-> IF hist[t].reads < 2 THEN 0
                            ELSE AtMost(hist[t].before + 1, constant_arr[t]),
                reads   |-> hist[t].reads]]
        /\ UNCHANGED <<running_terminal, constant_arr, pc, hung>>

\* rtc_read is called.
ReadCall(t) ==
    /\ InUser(t)
    /\ pc' = [pc EXCEPT ![t] = "wait"]
    /\ UNCHANGED <<running_terminal, tables, hung, hist>>

\* Its loop finds the flag set.
ReadSees(t) ==
    /\ ~hung
    /\ running_terminal = t
    /\ pc[t] = "wait"
    /\ itr_occur_table[t] # 0
    /\ pc' = [pc EXCEPT ![t] = "clear"]
    /\ UNCHANGED <<running_terminal, tables, hung, hist>>

\* Fault: the flag stays set.
Cleared_Not(t) == itr_occur_table

\* The table without the flag of terminal t.
Cleared(t) == [itr_occur_table EXCEPT ![t] = 0]

\* It clears the flag and returns.
ReadReturns(t) ==
    /\ ~hung
    /\ running_terminal = t
    /\ pc[t] = "clear"
    /\ itr_occur_table' = Cleared(t)
    /\ pc' = [pc EXCEPT ![t] = "user"]
    /\ hist' = [hist EXCEPT ![t].virtual = 0, ![t].last = 0,
                            ![t].before = IF hist[t].reads = 0 THEN 0 ELSE hist[t].last,
                            ![t].reads = AtMost(@ + 1, 2)]
    /\ UNCHANGED <<running_terminal, counter_table, constant_arr, hung>>

\* pit_handler gives the CPU to the next terminal.
Schedule ==
    /\ ~hung
    /\ running_terminal' = (running_terminal + 1) % N
    /\ UNCHANGED <<tables, pc, hung, hist>>

RtcNext ==
    \/ rtc_handler
    \/ Schedule
    \/ \E t \in Terminal : rtc_open(t) \/ ReadCall(t) \/ ReadSees(t) \/ ReadReturns(t)
    \/ \E t \in Terminal, f \in Freqs : rtc_write(t, f)

RtcSpec == RtcInit /\ [][RtcNext]_rtc_vars

\* The clock and the timer interrupt for ever; a program that gets the CPU
\* again and again runs on.
RtcFairSpec ==
    /\ RtcSpec
    /\ WF_rtc_vars(rtc_handler)
    /\ WF_rtc_vars(Schedule)
    /\ \A t \in Terminal : SF_rtc_vars(ReadSees(t)) /\ SF_rtc_vars(ReadReturns(t))

-----------------------------------------------------------------------------
\* Types; a rate that a program set is one that the clock can give.
RtcTypeOK ==
    /\ running_terminal \in Terminal
    /\ itr_occur_table \in [Terminal -> {0, 1}]
    /\ counter_table \in [Terminal -> 0 .. Base]
    /\ constant_arr \in [Terminal -> 1 .. Base]
    /\ pc \in [Terminal -> {"user", "wait", "clear"}]
    /\ hung \in BOOLEAN
    /\ hist \in [Terminal -> History]

\* A read of terminal t never returns without a virtual tick of that terminal
\* since the read before it.
OneTickPerRead == [][\A t \in Terminal : ReadReturns(t) => hist[t].virtual > 0]_rtc_vars

\* Reads keep the rate: while a program leaves the frequency alone, the third of
\* three reads in a row returns at least one period after the first, whatever
\* the other terminals set and however late the program gets the CPU.
ReadsKeepRate ==
    [][\A t \in Terminal :
          ReadReturns(t) /\ hist[t].reads = 2 => hist[t].before >= constant_arr[t]]_rtc_vars

\* A program blocked in rtc_read is woken, also when the rate was raised after
\* the counter had passed the new one, unless some program wrote the frequency 0.
ReadWakes == \A t \in Terminal : pc[t] = "wait" ~> (pc[t] = "user" \/ hung)
=============================================================================
