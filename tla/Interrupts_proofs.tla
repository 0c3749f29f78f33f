------------------------- MODULE Interrupts_proofs -------------------------
(***************************************************************************)
(* The controllers and the handlers, for any number of terminals, any      *)
(* nesting of handlers and anything a user types.                          *)
(***************************************************************************)
EXTENDS Interrupts, SequenceTheorems, TLAPS

\* A handler that has not sent its EOI is the code that runs.
NewOnTop ==
    \A t \in Terminal : \A i \in DOMAIN stack[t] :
        stack[t][i].at = "new" => t = cpu /\ i = Len(stack[t])

\* A context that has lost the CPU goes on in a handler, so that the scheduler
\* finds something to go on with; so does boot, as terminal 0.
OthersWait == \A t \in started \cup {0} : t # cpu => stack[t] # <<>>

\* The steps of boot are taken in order.
BootOrder ==
    /\ boot \in Nat
    /\ boot = 0 => ready = {}
    /\ boot <= Len(BootSteps) => \A i \in 1 .. boot : BootSteps[i] \in ready

\* Nothing is interrupted before all the set-up is done.
Setup == {"idt", "page", "pic", "keyboard", "rtc", "filesystem", "pit", "sb16", "terminal"}

EnabledReady == intr_on \/ (\E t \in Terminal : stack[t] # <<>>) => Setup \subseteq ready

Core == InServiceRuns /\ NewOnTop /\ OthersWait /\ BootOrder /\ EnabledReady

IInv == TypeOK /\ Core

At == {"new", "tail", "alt", "start", "sw", "late", "cli", "hung"}

LEMMA BootIsTen == BootSteps \in Seq(Setup \cup {"shell"}) /\ Len(BootSteps) = 10
  BY DEF BootSteps, Setup

\* A stack without its top frame.
LEMMA FrontOf ==
    ASSUME NEW S, NEW s \in Seq(S), s # <<>>
    PROVE  /\ Front(s) \in Seq(S) /\ Len(Front(s)) = Len(s) - 1
           /\ \A i \in 1 .. (Len(s) - 1) : Front(s)[i] = s[i]
  <1> DEFINE k == Len(s) - 1
             r == SubSeq(s, 1, k)
  <1>1. Len(s) \in Nat \ {0} /\ k \in Nat /\ \A i \in 1 .. k : s[i] \in S
    OBVIOUS
  <1> HIDE DEF k
  <1>2. /\ r \in Seq(S) /\ Len(r) = IF 1 <= k THEN k - 1 + 1 ELSE 0
        /\ \A i \in 1 .. k - 1 + 1 : r[i] = s[1 + i - 1]
    BY <1>1, SubSeqProperties
  <1> HIDE DEF r
  <1>3. Len(r) = k /\ \A i \in 1 .. k : r[i] = s[i]
    BY <1>1, <1>2
  <1>4. Front(s) = r
    BY DEF Front, r, k
  <1> QED BY <1>2, <1>3, <1>4 DEF k

\* A stack with another top frame.
LEMMA Replaced ==
    ASSUME NEW S, NEW s \in Seq(S), s # <<>>, NEW f \in S
    PROVE  /\ Append(Front(s), f) \in Seq(S)
           /\ Len(Append(Front(s), f)) = Len(s)
           /\ Append(Front(s), f) # <<>>
           /\ Append(Front(s), f)[Len(s)] = f
           /\ \A i \in 1 .. (Len(s) - 1) : Append(Front(s), f)[i] = s[i]
  <1> DEFINE r == Front(s)
             n == Append(r, f)
  <1>1. Len(s) \in Nat \ {0}
    OBVIOUS
  <1>2. /\ r \in Seq(S) /\ Len(r) = Len(s) - 1
        /\ \A i \in 1 .. (Len(s) - 1) : r[i] = s[i]
    BY FrontOf
  <1> HIDE DEF r
  <1>3. n \in Seq(S) /\ Len(n) = Len(s) /\ n[Len(s)] = f
    BY <1>1, <1>2
  <1>4. \A i \in 1 .. (Len(s) - 1) : n[i] = s[i]
    BY <1>1, <1>2
  <1>5. n # <<>>
    BY <1>1, <1>3
  <1> QED BY <1>3, <1>4, <1>5 DEF r

\* The stacks after the top frame of the running context has moved on.
LEMMA MovedStack ==
    ASSUME TypeOK, stack[cpu] # <<>>, NEW at \in At, NEW to \in Terminal
    PROVE  /\ Moved(at, to) \in [Terminal -> Seq(Frame)]
           /\ \A t \in Terminal \ {cpu} : Moved(at, to)[t] = stack[t]
           /\ Len(Moved(at, to)[cpu]) = Len(stack[cpu]) /\ Moved(at, to)[cpu] # <<>>
           /\ Moved(at, to)[cpu][Len(stack[cpu])].at = at
           /\ \A i \in 1 .. (Len(stack[cpu]) - 1) : Moved(at, to)[cpu][i] = stack[cpu][i]
  <1> DEFINE s == stack[cpu]
             f == [irq |-> Top.irq, at |-> at, to |-> to]
  <1>1. s \in Seq(Frame) /\ s # <<>> /\ cpu \in Terminal /\ Len(s) \in Nat \ {0}
    BY DEF TypeOK
  <1>2. Top \in Frame
    BY <1>1 DEF Top, Last
  <1>3. f \in Frame
    BY <1>2 DEF Frame, At
  <1> DEFINE n == Append(Front(s), f)
  <1>5. /\ n \in Seq(Frame) /\ Len(n) = Len(s) /\ n # <<>>
        /\ n[Len(s)] = f /\ \A i \in 1 .. (Len(s) - 1) : n[i] = s[i]
    <2>1. s \in Seq(Frame) /\ s # <<>> /\ f \in Frame
      BY <1>1, <1>3
    <2> HIDE DEF s, f
    <2> QED BY <2>1, Replaced
  <1>6. Moved(at, to) = [stack EXCEPT ![cpu] = n]
    BY DEF Moved
  <1>7. f.at = at
    OBVIOUS
  <1> HIDE DEF n, f
  <1> QED BY <1>1, <1>5, <1>6, <1>7 DEF TypeOK

\* The stacks after the top frame of the running context is gone.
LEMMA PoppedStack ==
    ASSUME TypeOK, stack[cpu] # <<>>
    PROVE  /\ Popped \in [Terminal -> Seq(Frame)]
           /\ \A t \in Terminal \ {cpu} : Popped[t] = stack[t]
           /\ Len(Popped[cpu]) = Len(stack[cpu]) - 1
           /\ \A i \in 1 .. (Len(stack[cpu]) - 1) : Popped[cpu][i] = stack[cpu][i]
  <1> DEFINE s == stack[cpu]
  <1>1. s \in Seq(Frame) /\ s # <<>> /\ cpu \in Terminal /\ Len(s) \in Nat \ {0}
    BY DEF TypeOK
  <1>2. /\ Front(s) \in Seq(Frame) /\ Len(Front(s)) = Len(s) - 1
        /\ \A i \in 1 .. (Len(s) - 1) : Front(s)[i] = s[i]
    BY <1>1, FrontOf
  <1>3. Popped = [stack EXCEPT ![cpu] = Front(s)]
    BY DEF Popped
  <1> HIDE DEF s
  <1> QED BY <1>1, <1>2, <1>3 DEF TypeOK, s

\* When no frame that has not sent its EOI is left, nothing is in service.
LEMMA QuietHolds ==
    ASSUME TypeOK', isr' = {},
           \A t \in Terminal : \A i \in DOMAIN stack'[t] : stack'[t][i].at # "new"
    PROVE  InServiceRuns' /\ NewOnTop'
  <1>1. stack'[cpu'] = <<>> \/ Top'.at # "new"
    BY DEF TypeOK, Top, Last
  <1> QED BY <1>1 DEF InServiceRuns, NewOnTop

\* The frames under the top one, and those of the other contexts, have sent it.
LEMMA OthersSent ==
    ASSUME TypeOK, NewOnTop
    PROVE  /\ \A t \in Terminal \ {cpu} : \A i \in DOMAIN stack[t] : stack[t][i].at # "new"
           /\ \A i \in 1 .. (Len(stack[cpu]) - 1) : stack[cpu][i].at # "new"
  <1>1. stack[cpu] \in Seq(Frame) /\ cpu \in Terminal
    BY DEF TypeOK
  <1> QED BY <1>1 DEF NewOnTop

\* A step of the code on top of the running stack that ends with the frame at
\* another place.
LEMMA MovedKeeps ==
    ASSUME IInv, TypeOK', stack[cpu] # <<>>, NEW at \in At \ {"new"}, NEW to \in Terminal,
           stack' = Moved(at, to), isr' = {}, UNCHANGED <<boot, ready, started, cpu>>
    PROVE  Core'
  <1>1. /\ \A t \in Terminal \ {cpu} : stack'[t] = stack[t]
        /\ Len(stack'[cpu]) = Len(stack[cpu]) /\ stack'[cpu] # <<>>
        /\ stack'[cpu][Len(stack[cpu])].at = at
        /\ \A i \in 1 .. (Len(stack[cpu]) - 1) : stack'[cpu][i] = stack[cpu][i]
    BY MovedStack DEF IInv
  <1>2. cpu \in Terminal /\ stack[cpu] \in Seq(Frame) /\ stack'[cpu] \in Seq(Frame)
    BY DEF IInv, TypeOK
  <1>3. \A t \in Terminal : \A i \in DOMAIN stack'[t] : stack'[t][i].at # "new"
    <2>1. \A i \in DOMAIN stack'[cpu] : stack'[cpu][i].at # "new"
      BY <1>1, <1>2, OthersSent DEF IInv, Core
    <2>2. \A t \in Terminal \ {cpu} : \A i \in DOMAIN stack'[t] : stack'[t][i].at # "new"
      BY <1>1, OthersSent DEF IInv, Core
    <2> QED BY <2>1, <2>2
  <1>4. InServiceRuns' /\ NewOnTop'
    BY <1>3, QuietHolds
  <1>5. OthersWait'
    BY <1>1, TerminalAssumption DEF IInv, TypeOK, Core, OthersWait
  <1>6. Setup \subseteq ready
    BY <1>2 DEF IInv, Core, EnabledReady
  <1> QED BY <1>4, <1>5, <1>6 DEF IInv, Core, BootOrder, EnabledReady

\* One that ends with the return from the handler.
LEMMA PoppedKeeps ==
    ASSUME IInv, TypeOK', stack[cpu] # <<>>, stack' = Popped, isr' = {},
           UNCHANGED <<boot, ready, started, cpu>>
    PROVE  Core'
  <1>1. /\ \A t \in Terminal \ {cpu} : stack'[t] = stack[t]
        /\ Len(stack'[cpu]) = Len(stack[cpu]) - 1
        /\ \A i \in 1 .. (Len(stack[cpu]) - 1) : stack'[cpu][i] = stack[cpu][i]
    BY PoppedStack DEF IInv
  <1>2. cpu \in Terminal /\ stack[cpu] \in Seq(Frame) /\ stack'[cpu] \in Seq(Frame)
    BY DEF IInv, TypeOK
  <1>3. \A t \in Terminal : \A i \in DOMAIN stack'[t] : stack'[t][i].at # "new"
    <2>1. \A i \in DOMAIN stack'[cpu] : stack'[cpu][i].at # "new"
      BY <1>1, <1>2, OthersSent DEF IInv, Core
    <2>2. \A t \in Terminal \ {cpu} : \A i \in DOMAIN stack'[t] : stack'[t][i].at # "new"
      BY <1>1, OthersSent DEF IInv, Core
    <2> QED BY <2>1, <2>2
  <1>4. InServiceRuns' /\ NewOnTop'
    BY <1>3, QuietHolds
  <1>5. OthersWait'
    BY <1>1, TerminalAssumption DEF IInv, TypeOK, Core, OthersWait
  <1>6. Setup \subseteq ready
    BY <1>2 DEF IInv, Core, EnabledReady
  <1> QED BY <1>4, <1>5, <1>6 DEF IInv, Core, BootOrder, EnabledReady

\* What is in service by where the top frame is, and after the EOI.
LEMMA InService ==
    ASSUME IInv, stack[cpu] # <<>>
    PROVE  /\ Top.at # "new" => isr = {}
           /\ Top.at = "new" /\ Top.irq # "RTC" => isr = {Top.irq}
           /\ Top.at = "new" /\ Top.irq = "RTC" => isr = {"RTC", "SLAVE"}
           /\ AfterEoi(Top.irq) = {}
           /\ Top.at # "new" => AfterEoi("KEYBOARD") = {}
  <1>1. /\ Top.at # "new" => isr = {}
        /\ Top.at = "new" /\ Top.irq # "RTC" => isr = {Top.irq}
        /\ Top.at = "new" /\ Top.irq = "RTC" => isr = {"RTC", "SLAVE"}
    BY DEF IInv, Core, InServiceRuns
  <1> QED BY <1>1 DEF AfterEoi

\* The initial state.
LEMMA InitHolds == ASSUME Init PROVE IInv
  <1>1. TypeOK
    BY TerminalAssumption DEF Init, TypeOK, Stopped, Line, Irq
  <1>2. InServiceRuns /\ NewOnTop
    BY TerminalAssumption DEF Init, InServiceRuns, NewOnTop
  <1>3. OthersWait /\ BootOrder /\ EnabledReady
    BY BootIsTen DEF Init, OthersWait, BootOrder, EnabledReady
  <1> QED BY <1>1, <1>2, <1>3 DEF IInv, Core

\* Steps that leave the contexts alone, and what is in service.
LEMMA OutsideKeeps ==
    ASSUME IInv, TypeOK', UNCHANGED <<boot, ready, intr_on, isr, cpu, stack, started>>
    PROVE  IInv'
  BY DEF IInv, Core, InServiceRuns, Top, NewOnTop, OthersWait, BootOrder, EnabledReady

LEMMA BootKeeps == ASSUME IInv, BootStep \/ BootFails PROVE IInv'
  <1>1. CASE BootFails
    <2>1. TypeOK'
      BY <1>1, BootIsTen DEF BootFails, IInv, TypeOK, contexts, terminals, Stopped
    <2>2. BootOrder'
      BY <1>1, BootIsTen DEF BootFails, IInv, Core, BootOrder, Stopped
    <2> QED BY <1>1, <2>1, <2>2 DEF BootFails, contexts, IInv, Core, InServiceRuns, Top,
               NewOnTop, OthersWait, EnabledReady
  <1>2. CASE BootStep
    <2> DEFINE step == BootSteps[boot + 1]
    <2>1. /\ boot \in Nat /\ boot < 10 /\ boot' = boot + 1 /\ stack[0] = <<>>
          /\ ready' = ready \cup {step} /\ intr_on' = (intr_on \/ step = "terminal")
          /\ started' = (IF step = "shell" THEN started \cup {0} ELSE started)
          /\ imr' = (IF step = "pic" THEN Line ELSE imr) \ Unmasks(step)
          /\ UNCHANGED <<irr, isr, recent, current_terminal, terminal_running, lost, cpu, stack>>
      BY <1>2, BootIsTen DEF BootStep, EnablesAfter, terminals, IInv, TypeOK, Stopped
    <2>2. step \in Range(BootSteps)
      BY <2>1, BootIsTen DEF Range
    <2>3. TypeOK'
      BY <2>1, <2>2, TerminalAssumption, BootIsTen DEF IInv, TypeOK, Stopped
    <2>4. BootOrder'
      <3>1. \A i \in 1 .. (boot + 1) : BootSteps[i] \in ready'
        BY <2>1, BootIsTen DEF IInv, Core, BootOrder
      <3> QED BY <2>1, <3>1 DEF BootOrder
    <2>5. cpu = 0
      BY <2>1 DEF IInv, Core, OthersWait
    <2>6. OthersWait'
      BY <2>1, <2>5 DEF IInv, Core, OthersWait
    <2>7. step = "terminal" => isr = {}
      BY <2>1, <2>5 DEF IInv, Core, InServiceRuns
    <2>8. InServiceRuns' /\ NewOnTop'
      BY <2>1, <2>5, <2>7 DEF IInv, Core, InServiceRuns, NewOnTop, Top
    <2>9. step = "terminal" => Setup \subseteq ready'
      <3>1. \A i \in 1 .. 10 : BootSteps[i] = "terminal" => i = 9
        BY DEF BootSteps
      <3>2. ASSUME step = "terminal" PROVE \A i \in 1 .. 9 : BootSteps[i] \in ready'
        <4>1. boot + 1 = 9
          BY <2>1, <3>1, <3>2
        <4> QED BY <2>1, <2>4, <4>1, BootIsTen DEF BootOrder
      <3>3. /\ BootSteps[1] = "idt" /\ BootSteps[2] = "page" /\ BootSteps[3] = "pic"
            /\ BootSteps[4] = "keyboard" /\ BootSteps[5] = "rtc"
            /\ BootSteps[6] = "filesystem" /\ BootSteps[7] = "pit"
            /\ BootSteps[8] = "sb16" /\ BootSteps[9] = "terminal"
        BY DEF BootSteps
      <3>4. 1 \in 1 .. 9 /\ 2 \in 1 .. 9 /\ 3 \in 1 .. 9 /\ 4 \in 1 .. 9 /\ 5 \in 1 .. 9
            /\ 6 \in 1 .. 9 /\ 7 \in 1 .. 9 /\ 8 \in 1 .. 9 /\ 9 \in 1 .. 9
        OBVIOUS
      <3> HIDE DEF step
      <3> QED BY <3>2, <3>3, <3>4 DEF Setup
    <2>10. EnabledReady'
      BY <2>1, <2>9 DEF IInv, Core, EnabledReady
    <2> QED BY <2>3, <2>4, <2>6, <2>8, <2>10 DEF IInv, Core
  <1> QED BY <1>1, <1>2

\* An interrupt is taken when nothing is in service.
LEMMA TakeKeeps == ASSUME IInv, NEW irq \in Irq, Take(irq) PROVE IInv'
  <1> DEFINE f == [irq |-> irq, at |-> "new", to |-> cpu]
             s == stack[cpu]
             n == Append(s, f)
  <1>1. f \in Frame /\ s \in Seq(Frame) /\ cpu \in Terminal
    BY TerminalAssumption DEF Frame, IInv, TypeOK
  <1>2. /\ n \in Seq(Frame) /\ Len(n) = Len(s) + 1 /\ n # <<>> /\ n[Len(n)] = f
        /\ \A i \in 1 .. Len(s) : n[i] = s[i]
    <2> HIDE DEF f, s
    <2> QED BY <1>1
  <1>3. stack' = [stack EXCEPT ![cpu] = n]
    BY DEF Take
  <1>4. /\ intr_on /\ intr_on' = FALSE /\ UNCHANGED <<boot, ready, imr, started, cpu>>
        /\ UNCHANGED <<current_terminal, terminal_running, lost>>
        /\ irr' \subseteq irr /\ recent' \subseteq recent
        /\ isr' = isr \cup (IF irq = "RTC" THEN {"RTC", "SLAVE"} ELSE {irq})
    BY DEF Take, terminals
  <1>5. isr = {} /\ (s = <<>> \/ Top.at # "new")
    BY <1>1, <1>4 DEF IInv, Core, InServiceRuns
  <1> HIDE DEF n
  <1>6. /\ stack'[cpu] = n /\ \A t \in Terminal \ {cpu} : stack'[t] = stack[t]
        /\ stack' \in [Terminal -> Seq(Frame)]
    BY <1>1, <1>2, <1>3 DEF IInv, TypeOK
  <1>7. TypeOK'
    <2>1. isr' \subseteq Line
      BY <1>4, <1>5 DEF Line, Irq
    <2> QED BY <1>4, <1>6, <2>1 DEF IInv, TypeOK
  <1>8. InServiceRuns'
    <2>1. Top' = f
      BY <1>2, <1>4, <1>6 DEF Top, Last
    <2> QED BY <1>2, <1>4, <1>5, <1>6, <2>1 DEF InServiceRuns
  <1>9. NewOnTop'
    <2>1. \A i \in 1 .. Len(s) : s[i].at # "new"
      <3>1. \A i \in 1 .. (Len(s) - 1) : s[i].at # "new"
        BY OthersSent DEF IInv, Core
      <3>2. s # <<>> => s[Len(s)].at # "new"
        BY <1>5 DEF Top, Last
      <3> HIDE DEF s
      <3> QED BY <1>1, <3>1, <3>2
    <2>2. \A i \in DOMAIN n : n[i].at = "new" => i = Len(n)
      BY <1>1, <1>2, <2>1
    <2>3. \A t \in Terminal \ {cpu} : \A i \in DOMAIN stack[t] : stack[t][i].at # "new"
      BY OthersSent DEF IInv, Core
    <2> QED BY <1>4, <1>6, <2>2, <2>3 DEF NewOnTop
  <1>10. OthersWait' /\ BootOrder' /\ EnabledReady'
    BY <1>4, <1>6, TerminalAssumption DEF IInv, TypeOK, Core, OthersWait, BootOrder,
       EnabledReady
  <1> QED BY <1>7, <1>8, <1>9, <1>10 DEF IInv, Core

\* The ends of handlers, and of stretches with interrupts off.
LEMMA EndsKeep ==
    ASSUME IInv,
           Return \/ Sti \/ KeyRuns \/ SwitchRefuses \/ SwitchFails \/ LateEoi
    PROVE  IInv'
  <1>1. /\ stack[cpu] # <<>> /\ stack' = Popped /\ intr_on' = TRUE
        /\ UNCHANGED <<boot, ready, imr, started, cpu, current_terminal, terminal_running>>
        /\ recent' = recent /\ irr' \subseteq irr \cup {"KEYBOARD"}
    BY DEF Return, Sti, KeyRuns, ReadsCode, SwitchRefuses, SwitchFails, LateEoi, AtTop, terminals
  <1>2. isr' = {}
    <2>1. CASE Return \/ Sti
      BY <1>1, <2>1, InService DEF Return, Sti, AtTop
    <2>2. CASE KeyRuns
      BY <1>1, <2>2, InService DEF KeyRuns, ReadsCode, AtTop
    <2>3. CASE SwitchRefuses \/ SwitchFails \/ LateEoi
      BY <1>1, <2>3, InService DEF SwitchRefuses, SwitchFails, LateEoi, AtTop
    <2> QED BY <2>1, <2>2, <2>3
  <1>3. stack' \in [Terminal -> Seq(Frame)]
    BY <1>1, PoppedStack DEF IInv
  <1>4. lost' \subseteq Terminal
    <2>1. Top \in Frame
      BY <1>1 DEF IInv, TypeOK, Top, Last
    <2>2. Top.to \in Terminal /\ lost \subseteq Terminal
      BY <2>1 DEF Frame, IInv, TypeOK
    <2>3. lost' = lost \/ lost' = lost \cup {Top.to}
      BY DEF Return, Sti, KeyRuns, ReadsCode, SwitchRefuses, SwitchFails, LateEoi, terminals
    <2> QED BY <2>2, <2>3
  <1>5. TypeOK'
    BY <1>1, <1>2, <1>3, <1>4 DEF IInv, TypeOK, Irq
  <1> QED BY <1>1, <1>2, <1>5, PoppedKeeps DEF IInv

\* The steps of handlers that go on.
LEMMA MovesKeep ==
    ASSUME IInv,
           \/ \E irq \in {"RTC", "SB16"} : DeviceRuns(irq)
           \/ CtrlCRuns \/ AltRuns \/ SwitchShows \/ SwitchStarts
    PROVE  IInv'
  <1>1. /\ stack[cpu] # <<>> /\ intr_on' = TRUE
        /\ UNCHANGED <<boot, ready, imr, started, cpu>>
        /\ recent' = recent /\ irr' \subseteq irr \cup {"KEYBOARD"} /\ lost' = lost
    BY DEF DeviceRuns, CtrlCRuns, AltRuns, ReadsCode, SwitchShows, SwitchStarts, AtTop, terminals
  <1>2. Top \in Frame /\ cpu \in Terminal /\ stack[cpu] \in Seq(Frame)
    BY <1>1 DEF IInv, TypeOK, Top, Last
  <1>3. PICK at \in At \ {"new"}, to \in Terminal : stack' = Moved(at, to)
    <2>1. cpu \in Terminal /\ Top.to \in Terminal
      BY <1>2 DEF Frame
    <2>2. AltRuns => TerminalOf[Code.key] \in Terminal
      BY DEF AltRuns, IsSwitch
    <2>3. CASE \E irq \in {"RTC", "SB16"} : DeviceRuns(irq)
      BY <2>1, <2>3 DEF DeviceRuns, At
    <2>4. CASE CtrlCRuns
      BY <2>1, <2>4 DEF CtrlCRuns, At
    <2>5. CASE AltRuns
      BY <2>2, <2>5 DEF AltRuns, At
    <2>6. CASE SwitchShows
      BY <2>1, <2>6 DEF SwitchShows, At
    <2>7. CASE SwitchStarts
      BY <2>1, <2>7 DEF SwitchStarts, At
    <2> QED BY <2>3, <2>4, <2>5, <2>6, <2>7
  <1>4. isr' = {}
    <2>1. CASE \E irq \in {"RTC", "SB16"} : DeviceRuns(irq)
      BY <1>1, <2>1, InService DEF DeviceRuns, AtTop
    <2>2. CASE CtrlCRuns \/ AltRuns
      BY <1>1, <2>2, InService DEF CtrlCRuns, AltRuns, ReadsCode, AtTop
    <2>3. CASE SwitchShows \/ SwitchStarts
      BY <1>1, <2>3, InService DEF SwitchShows, SwitchStarts, AtTop
    <2> QED BY <2>1, <2>2, <2>3
  <1>5. current_terminal' \in Terminal /\ terminal_running' \subseteq Terminal
    <2>1. current_terminal \in Terminal /\ terminal_running \subseteq Terminal
          /\ Top.to \in Terminal
      BY <1>2 DEF IInv, TypeOK, Frame
    <2>2. CASE \E irq \in {"RTC", "SB16"} : DeviceRuns(irq)
      BY <2>1, <2>2 DEF DeviceRuns, terminals
    <2>3. CASE CtrlCRuns \/ AltRuns
      BY <2>1, <2>3 DEF CtrlCRuns, AltRuns, ReadsCode, terminals
    <2>4. CASE SwitchShows
      BY <2>1, <2>4 DEF SwitchShows
    <2>5. CASE SwitchStarts
      BY <2>1, <2>5 DEF SwitchStarts
    <2> QED BY <2>2, <2>3, <2>4, <2>5
  <1>6. stack' \in [Terminal -> Seq(Frame)]
    BY <1>1, <1>3, MovedStack DEF IInv
  <1>7. TypeOK'
    BY <1>1, <1>4, <1>5, <1>6 DEF IInv, TypeOK, Irq
  <1> QED BY <1>1, <1>3, <1>4, <1>7, MovedKeeps DEF IInv

\* A system call turns interrupts off.
LEMMA CliKeeps == ASSUME IInv, Cli PROVE IInv'
  <1> DEFINE f == [irq |-> "none", at |-> "cli", to |-> cpu]
  <1>1. f \in Frame /\ cpu \in Terminal /\ f.at = "cli"
    BY TerminalAssumption DEF Frame, IInv, TypeOK
  <1>2. /\ stack[cpu] = <<>> /\ stack' = [stack EXCEPT ![cpu] = <<f>>]
        /\ intr_on' = FALSE /\ boot = 10
        /\ UNCHANGED <<boot, ready, imr, irr, isr, recent, started, cpu>>
        /\ UNCHANGED <<current_terminal, terminal_running, lost>>
    BY BootIsTen DEF Cli, terminals
  <1> HIDE DEF f
  <1>3. /\ stack'[cpu] = <<f>> /\ \A t \in Terminal \ {cpu} : stack'[t] = stack[t]
        /\ stack' \in [Terminal -> Seq(Frame)]
    BY <1>1, <1>2 DEF IInv, TypeOK
  <1>4. TypeOK'
    BY <1>2, <1>3 DEF IInv, TypeOK
  <1>5. isr' = {}
    BY <1>2 DEF IInv, Core, InServiceRuns
  <1>6. \A t \in Terminal : \A i \in DOMAIN stack'[t] : stack'[t][i].at # "new"
    BY <1>1, <1>3, OthersSent DEF IInv, Core
  <1>7. InServiceRuns' /\ NewOnTop'
    BY <1>4, <1>5, <1>6, QuietHolds
  <1>8. OthersWait' /\ BootOrder'
    BY <1>2, <1>3, TerminalAssumption DEF IInv, TypeOK, Core, OthersWait, BootOrder
  <1>9. EnabledReady'
    <2>1. \A i \in 1 .. 10 : BootSteps[i] \in ready
      BY <1>2, BootIsTen DEF IInv, Core, BootOrder
    <2>2. /\ BootSteps[1] = "idt" /\ BootSteps[2] = "page" /\ BootSteps[3] = "pic"
          /\ BootSteps[4] = "keyboard" /\ BootSteps[5] = "rtc"
          /\ BootSteps[6] = "filesystem" /\ BootSteps[7] = "pit"
          /\ BootSteps[8] = "sb16" /\ BootSteps[9] = "terminal"
      BY DEF BootSteps
    <2>3. 1 \in 1 .. 10 /\ 2 \in 1 .. 10 /\ 3 \in 1 .. 10 /\ 4 \in 1 .. 10 /\ 5 \in 1 .. 10
          /\ 6 \in 1 .. 10 /\ 7 \in 1 .. 10 /\ 8 \in 1 .. 10 /\ 9 \in 1 .. 10
      OBVIOUS
    <2> QED BY <1>2, <2>1, <2>2, <2>3 DEF Setup, EnabledReady
  <1> QED BY <1>4, <1>7, <1>8, <1>9 DEF IInv, Core

\* A context that the scheduler goes on with.
LEMMA ResumedStack ==
    ASSUME NEW s \in Seq(Frame), s # <<>>,
           \A i \in DOMAIN s : s[i].at # "new"
    PROVE  /\ Resumed(s) \in Seq(Frame) /\ Resumed(s) # <<>>
           /\ \A i \in DOMAIN Resumed(s) : Resumed(s)[i].at # "new"
  <1>1. CASE Last(s).at # "sw"
    BY <1>1 DEF Resumed
  <1>2. CASE Last(s).at = "sw"
    <2> DEFINE f == [irq |-> "KEYBOARD", at |-> "late", to |-> Last(s).to]
               n == Append(Front(s), f)
    <2>1. Len(s) \in Nat \ {0} /\ Last(s) \in Frame
      BY DEF Last
    <2>2. f \in Frame /\ f.at = "late"
      BY <2>1 DEF Frame, Irq
    <2> HIDE DEF f
    <2>3. /\ n \in Seq(Frame) /\ Len(n) = Len(s) /\ n # <<>>
          /\ n[Len(s)] = f /\ \A i \in 1 .. (Len(s) - 1) : n[i] = s[i]
      BY <2>2, Replaced
    <2>4. Resumed(s) = n
      BY <1>2 DEF Resumed, f
    <2> HIDE DEF n
    <2>5. \A i \in 1 .. Len(s) : n[i].at # "new"
      BY <2>1, <2>2, <2>3
    <2> QED BY <2>1, <2>3, <2>4, <2>5
  <1> QED BY <1>1, <1>2

\* A call that hangs keeps its frame.
LEMMA HangsKeeps == ASSUME IInv, Hangs PROVE IInv'
  <1>1. /\ stack[cpu] # <<>> /\ Top.at = "cli" /\ cpu \in Terminal
        /\ stack' = Moved("hung", cpu) /\ "hung" \in At \ {"new"}
        /\ UNCHANGED <<boot, ready, intr_on, imr, irr, isr, recent, started, cpu>>
        /\ UNCHANGED <<current_terminal, terminal_running, lost>>
    BY DEF Hangs, AtTop, At, terminals, IInv, TypeOK
  <1>2. isr' = {}
    BY <1>1, InService
  <1>3. stack' \in [Terminal -> Seq(Frame)]
    BY <1>1, MovedStack DEF IInv
  <1>4. TypeOK'
    BY <1>1, <1>3 DEF IInv, TypeOK
  <1> QED BY <1>1, <1>2, <1>4, MovedKeeps DEF IInv

\* The timer: the CPU goes to another context, or a signal halts its process.
LEMMA PitKeeps == ASSUME IInv, PitRuns PROVE IInv'
  <1>1. PICK next \in Terminal, halts \in BOOLEAN :
           /\ next = cpu \/ next \in started
           /\ isr' = AfterEoi("PIT")
           /\ cpu' = next
           /\ stack' = [Moved("tail", cpu) EXCEPT ![next] = IF halts THEN <<>> ELSE Resumed(@)]
           /\ lost' = lost \cup (IF halts THEN Opening(stack[next]) ELSE {})
    BY DEF PitRuns, PitEoi, IInv, TypeOK
  <1>2. /\ stack[cpu] # <<>> /\ Top.irq = "PIT" /\ intr_on' = TRUE
        /\ UNCHANGED <<boot, ready, imr, irr, recent, started>>
        /\ UNCHANGED <<current_terminal, terminal_running>>
    BY DEF PitRuns, AtTop, terminals
  <1>3. cpu \in Terminal /\ stack[cpu] \in Seq(Frame)
    BY TerminalAssumption DEF IInv, TypeOK
  <1>4. isr' = {}
    BY <1>1, <1>2, InService
  <1> DEFINE saved == Moved("tail", cpu)
  <1>5. /\ saved \in [Terminal -> Seq(Frame)]
        /\ \A t \in Terminal \ {cpu} : saved[t] = stack[t]
        /\ Len(saved[cpu]) = Len(stack[cpu]) /\ saved[cpu] # <<>>
        /\ saved[cpu][Len(stack[cpu])].at = "tail"
        /\ \A i \in 1 .. (Len(stack[cpu]) - 1) : saved[cpu][i] = stack[cpu][i]
    BY <1>2, <1>3, MovedStack DEF IInv, At
  <1>6. stack' = [saved EXCEPT ![next] = IF halts THEN <<>> ELSE Resumed(saved[next])]
    BY <1>1, <1>5
  <1> HIDE DEF saved
  <1>7. \A t \in Terminal : \A i \in DOMAIN saved[t] : saved[t][i].at # "new"
    <2>1. \A i \in DOMAIN saved[cpu] : saved[cpu][i].at # "new"
      <3>1. saved[cpu] \in Seq(Frame) /\ Len(stack[cpu]) \in Nat
        BY <1>3, <1>5
      <3>2. DOMAIN saved[cpu] = 1 .. Len(stack[cpu])
        BY <1>5, <3>1
      <3>3. \A i \in 1 .. (Len(stack[cpu]) - 1) : stack[cpu][i].at # "new"
        BY <1>2, <1>3, OthersSent DEF IInv, Core
      <3> QED BY <1>5, <3>1, <3>2, <3>3
    <2>2. \A t \in Terminal \ {cpu} : \A i \in DOMAIN saved[t] : saved[t][i].at # "new"
      BY <1>5, OthersSent DEF IInv, Core
    <2> QED BY <2>1, <2>2
  <1>8. saved[next] # <<>> /\ saved[next] \in Seq(Frame)
    BY <1>1, <1>5 DEF IInv, Core, OthersWait
  <1> DEFINE n == IF halts THEN <<>> ELSE Resumed(saved[next])
  <1>9. n \in Seq(Frame) /\ \A i \in DOMAIN n : n[i].at # "new"
    BY <1>7, <1>8, ResumedStack
  <1>10. stack' = [saved EXCEPT ![next] = n]
    BY <1>6
  <1> HIDE DEF n
  <1>11. /\ stack' \in [Terminal -> Seq(Frame)] /\ stack'[next] = n
         /\ \A t \in Terminal \ {next} : stack'[t] = saved[t]
    BY <1>5, <1>9, <1>10
  <1>12. TypeOK'
    <2>1. Opening(stack[next]) \subseteq Terminal
      <3>1. stack[next] \in Seq(Frame)
        BY <1>1 DEF IInv, TypeOK
      <3>2. \A i \in DOMAIN stack[next] : stack[next][i] \in Frame
        BY <3>1
      <3>3. \A f \in Frame : f.to \in Terminal
        BY DEF Frame
      <3> QED BY <3>2, <3>3 DEF Opening
    <2>2. lost' \subseteq Terminal
      BY <1>1, <2>1 DEF IInv, TypeOK
    <2> QED BY <1>1, <1>2, <1>4, <1>11, <2>2 DEF IInv, TypeOK
  <1>13. \A t \in Terminal : \A i \in DOMAIN stack'[t] : stack'[t][i].at # "new"
    BY <1>7, <1>9, <1>11
  <1>14. InServiceRuns' /\ NewOnTop'
    BY <1>4, <1>12, <1>13, QuietHolds
  <1>15. OthersWait'
    BY <1>1, <1>2, <1>5, <1>11, TerminalAssumption DEF IInv, TypeOK, Core, OthersWait
  <1>16. Setup \subseteq ready
    BY <1>2, <1>3 DEF IInv, Core, EnabledReady
  <1> QED BY <1>2, <1>12, <1>14, <1>15, <1>16 DEF IInv, Core, BootOrder, EnabledReady

\* A new shell gets the CPU from inside the key handler.
LEMMA SwitchExecutesKeeps == ASSUME IInv, SwitchExecutes PROVE IInv'
  <1>1. /\ stack[cpu] # <<>> /\ Top.at = "start" /\ intr_on' = TRUE
        /\ cpu' = Top.to /\ started' = started \cup {Top.to} /\ stack' = Moved("sw", Top.to)
        /\ UNCHANGED <<boot, ready, imr, irr, isr, recent, current_terminal, terminal_running,
                       lost>>
    BY DEF SwitchExecutes, AtTop, terminals
  <1>2. cpu \in Terminal /\ stack[cpu] \in Seq(Frame) /\ Top.to \in Terminal
    <2>1. cpu \in Terminal /\ stack[cpu] \in Seq(Frame)
      BY DEF IInv, TypeOK
    <2>2. Top \in Frame
      BY <1>1, <2>1 DEF Top, Last
    <2> QED BY <2>1, <2>2 DEF Frame
  <1>3. isr' = {}
    BY <1>1, InService
  <1>4. /\ stack' \in [Terminal -> Seq(Frame)]
        /\ \A t \in Terminal \ {cpu} : stack'[t] = stack[t]
        /\ Len(stack'[cpu]) = Len(stack[cpu]) /\ stack'[cpu] # <<>>
        /\ stack'[cpu][Len(stack[cpu])].at = "sw"
        /\ \A i \in 1 .. (Len(stack[cpu]) - 1) : stack'[cpu][i] = stack[cpu][i]
    <2>1. "sw" \in At
      BY DEF At
    <2> QED BY <1>1, <1>2, <2>1, MovedStack DEF IInv
  <1>5. TypeOK'
    BY <1>1, <1>2, <1>3, <1>4 DEF IInv, TypeOK
  <1>6. \A t \in Terminal : \A i \in DOMAIN stack'[t] : stack'[t][i].at # "new"
    <2>1. \A i \in DOMAIN stack'[cpu] : stack'[cpu][i].at # "new"
      BY <1>2, <1>4, OthersSent DEF IInv, Core
    <2>2. \A t \in Terminal \ {cpu} : \A i \in DOMAIN stack'[t] : stack'[t][i].at # "new"
      BY <1>4, OthersSent DEF IInv, Core
    <2> QED BY <2>1, <2>2
  <1>7. InServiceRuns' /\ NewOnTop'
    BY <1>3, <1>5, <1>6, QuietHolds
  <1>8. OthersWait'
    BY <1>1, <1>4, TerminalAssumption DEF IInv, TypeOK, Core, OthersWait
  <1>9. Setup \subseteq ready
    BY <1>1, <1>2 DEF IInv, Core, EnabledReady
  <1> QED BY <1>1, <1>5, <1>7, <1>8, <1>9 DEF IInv, Core, BootOrder, EnabledReady

\* Every step keeps the invariant.
LEMMA NextKeeps == ASSUME IInv, [Next]_vars PROVE IInv'
  <1>1. CASE UNCHANGED vars
    BY <1>1, OutsideKeeps DEF vars, contexts, terminals, IInv, TypeOK
  <1>2. CASE BootStep \/ BootFails
    BY <1>2, BootKeeps
  <1>3. CASE Return \/ Sti \/ KeyRuns \/ SwitchRefuses \/ SwitchFails \/ LateEoi
    BY <1>3, EndsKeep
  <1>4. CASE DeviceRuns("RTC") \/ DeviceRuns("SB16") \/ CtrlCRuns \/ AltRuns \/ SwitchShows
             \/ SwitchStarts
    BY <1>4, MovesKeep
  <1>5. CASE PitRuns
    BY <1>5, PitKeeps
  <1>6. CASE SwitchExecutes
    BY <1>6, SwitchExecutesKeeps
  <1>7. CASE Cli \/ Hangs
    BY <1>7, CliKeeps, HangsKeeps
  <1>8. ASSUME NEW irq \in Irq, Request(irq) PROVE IInv'
    <2>1. TypeOK'
      BY <1>8 DEF Request, IInv, TypeOK, contexts, terminals
    <2> QED BY <1>8, <2>1, OutsideKeeps DEF Request, contexts
  <1>9. ASSUME NEW irq \in Irq, Take(irq) PROVE IInv'
    BY <1>9, TakeKeeps
  <1>10. CASE Hit
    <2>1. TypeOK'
      BY <1>10 DEF Hit, IInv, TypeOK, contexts, terminals, Irq
    <2> QED BY <1>10, <2>1, OutsideKeeps DEF Hit, contexts
  <1> QED BY <1>1, <1>2, <1>3, <1>4, <1>5, <1>6, <1>7, <1>8, <1>9, <1>10 DEF Next, Running

LEMMA Invariant == Spec => []IInv
  <1>1. Init => IInv
    BY InitHolds
  <1>2. IInv /\ [Next]_vars => IInv'
    BY NextKeeps
  <1> QED BY <1>1, <1>2, PTL DEF Spec

\* Boot, the controllers and the contexts keep their types.
THEOREM InterruptTypes == Spec => []TypeOK
  BY Invariant, PTL DEF IInv

\* A line is in service exactly while its handler runs and has not sent its EOI.
THEOREM NoLineStaysInService == Spec => []InServiceRuns
  BY Invariant, PTL DEF IInv, Core

\* No handler runs before what it uses has been set up.
THEOREM HandlersAreReady == Spec => []HandlersReady
  <1>1. ASSUME IInv PROVE HandlersReady
    <2>1. SUFFICES ASSUME NEW t \in Terminal, NEW i \in DOMAIN stack[t],
                          stack[t][i].irq # "none"
                   PROVE  Needs[stack[t][i].irq] \subseteq ready
      BY DEF HandlersReady
    <2>2. stack[t] \in Seq(Frame) /\ stack[t] # <<>> /\ stack[t][i] \in Frame
      BY <1>1 DEF IInv, TypeOK
    <2>3. stack[t][i].irq \in Irq
      BY <2>1, <2>2 DEF Frame
    <2>4. Setup \subseteq ready
      BY <1>1, <2>2 DEF IInv, Core, EnabledReady
    <2>5. \A irq \in Irq : Needs[irq] \subseteq Setup
      BY DEF Irq, Needs, Setup
    <2> QED BY <2>3, <2>4, <2>5
  <1> QED BY <1>1, Invariant, PTL

-----------------------------------------------------------------------------
(***************************************************************************)
(* Keys.  Between the user and the handler lie the scancodes that the      *)
(* keyboard still holds.  The inductive invariant names, for every one of  *)
(* them, caps lock and shift as they will be when the handler has read it: *)
(* they start with what the handler keeps now and end with what the user   *)
(* sees now.                                                               *)
(***************************************************************************)
Scancode == [key : STRING, down : BOOLEAN, sure : BOOLEAN,
             meant : [key : STRING, upper : BOOLEAN]]

KeyTypes ==
    /\ typing \in Seq(STRING) /\ caps \in BOOLEAN /\ mixed \in BOOLEAN
    /\ fifo \in Seq(Scancode)
    /\ kbd \in [caps_lock_enabled : BOOLEAN, shift_state : BOOLEAN,
                ctrl_state : BOOLEAN, alt_state : BOOLEAN]

\* The keyboard requests, or is in service, only while it holds a scancode,
\* and it never does both.
KeyWaits ==
    /\ "KEYBOARD" \in irr \cup isr => fifo # <<>>
    /\ ~("KEYBOARD" \in irr /\ "KEYBOARD" \in isr)

\* What a scancode makes of caps lock and of shift.
CapsAfter(c, code) == c # (code.key = "caps" /\ code.down)
ShiftAfter(s, code) == IF code.key \in Shift THEN code.down ELSE s

\* What a key is with these modifiers.
Upper(c, s, k) == IF k \in Letter THEN s # c ELSE s
Right(c, s, code) == code.sure => code.meant = [key |-> code.key, upper |-> Upper(c, s, code.key)]

\* Caps lock and shift before and after every scancode of q.
Chain(q, c, s) ==
    /\ c \in [0 .. Len(q) -> BOOLEAN] /\ s \in [0 .. Len(q) -> BOOLEAN]
    /\ \A i \in 1 .. Len(q) :
          /\ c[i] = CapsAfter(c[i - 1], q[i])
          /\ s[i] = ShiftAfter(s[i - 1], q[i])
          /\ Right(c[i - 1], s[i - 1], q[i])

Shifted == held \cap Shift # {}

Ends(c, s) ==
    /\ c[0] = kbd.caps_lock_enabled /\ s[0] = kbd.shift_state
    /\ c[Len(fifo)] = caps
    /\ ~mixed => s[Len(fifo)] = Shifted

Follows == \E c, s : Chain(fifo, c, s) /\ Ends(c, s)

KeyInv == KeyTypes /\ KeyWaits /\ (mixed => Shifted) /\ Follows

\* The chain of what is left when the first scancode has been read.
LEMMA ChainTail ==
    ASSUME NEW q \in Seq(Scancode), q # <<>>, NEW c, NEW s, Chain(q, c, s)
    PROVE  \E c2, s2 :
              /\ Chain(Tail(q), c2, s2)
              /\ c2[0] = CapsAfter(c[0], q[1]) /\ s2[0] = ShiftAfter(s[0], q[1])
              /\ c2[Len(Tail(q))] = c[Len(q)] /\ s2[Len(Tail(q))] = s[Len(q)]
  <1> DEFINE n == Len(q)
             r == Tail(q)
             c2 == [i \in 0 .. Len(r) |-> c[i + 1]]
             s2 == [i \in 0 .. Len(r) |-> s[i + 1]]
  <1>1. /\ n \in Nat \ {0} /\ r \in Seq(Scancode) /\ Len(r) = n - 1
        /\ \A i \in 1 .. (n - 1) : r[i] = q[i + 1]
    OBVIOUS
  <1>2. /\ c \in [0 .. n -> BOOLEAN] /\ s \in [0 .. n -> BOOLEAN]
        /\ \A i \in 1 .. n : /\ c[i] = CapsAfter(c[i - 1], q[i])
                            /\ s[i] = ShiftAfter(s[i - 1], q[i])
                            /\ Right(c[i - 1], s[i - 1], q[i])
    BY DEF Chain
  <1> HIDE DEF n, r
  <1>3. c2 \in [0 .. Len(r) -> BOOLEAN] /\ s2 \in [0 .. Len(r) -> BOOLEAN]
    BY <1>1, <1>2
  <1>4. \A i \in 0 .. (n - 1) : c2[i] = c[i + 1] /\ s2[i] = s[i + 1]
    BY <1>1
  <1> HIDE DEF c2, s2
  <1>5. ASSUME NEW i \in 1 .. Len(r)
        PROVE  /\ c2[i] = CapsAfter(c2[i - 1], r[i])
               /\ s2[i] = ShiftAfter(s2[i - 1], r[i])
               /\ Right(c2[i - 1], s2[i - 1], r[i])
    <2>1. i \in 0 .. (n - 1) /\ i - 1 \in 0 .. (n - 1) /\ i + 1 \in 1 .. n
          /\ (i - 1) + 1 = i /\ (i + 1) - 1 = i /\ i \in 1 .. (n - 1)
      BY <1>1
    <2>2. /\ c2[i] = c[i + 1] /\ s2[i] = s[i + 1] /\ r[i] = q[i + 1]
          /\ c2[i - 1] = c[i] /\ s2[i - 1] = s[i]
      <3>1. c2[i - 1] = c[(i - 1) + 1] /\ s2[i - 1] = s[(i - 1) + 1]
        BY <1>4, <2>1
      <3> QED BY <1>1, <1>4, <2>1, <3>1
    <2>3. /\ c[i + 1] = CapsAfter(c[(i + 1) - 1], q[i + 1])
          /\ s[i + 1] = ShiftAfter(s[(i + 1) - 1], q[i + 1])
          /\ Right(c[(i + 1) - 1], s[(i + 1) - 1], q[i + 1])
      BY <1>2, <2>1
    <2> QED BY <2>1, <2>2, <2>3
  <1>6. Chain(r, c2, s2)
    BY <1>3, <1>5 DEF Chain
  <1>7. c2[0] = CapsAfter(c[0], q[1]) /\ s2[0] = ShiftAfter(s[0], q[1])
    <2>1. 0 \in 0 .. (n - 1) /\ 1 \in 1 .. n /\ 0 + 1 = 1 /\ 1 - 1 = 0
      BY <1>1
    <2>2. c2[0] = c[1] /\ s2[0] = s[1]
      BY <1>4, <2>1
    <2>3. c[1] = CapsAfter(c[1 - 1], q[1]) /\ s[1] = ShiftAfter(s[1 - 1], q[1])
      BY <1>2, <2>1
    <2> QED BY <2>1, <2>2, <2>3
  <1>8. c2[Len(r)] = c[n] /\ s2[Len(r)] = s[n]
    <2>1. n - 1 \in 0 .. (n - 1) /\ (n - 1) + 1 = n
      BY <1>1
    <2>2. c2[n - 1] = c[(n - 1) + 1] /\ s2[n - 1] = s[(n - 1) + 1]
      BY <1>4, <2>1
    <2> QED BY <1>1, <2>1, <2>2
  <1> QED BY <1>6, <1>7, <1>8 DEF r, n

\* The chain with one more scancode at the end.
LEMMA ChainAppend ==
    ASSUME NEW q \in Seq(Scancode), NEW c, NEW s, Chain(q, c, s), NEW code \in Scancode,
           Right(c[Len(q)], s[Len(q)], code)
    PROVE  \E c2, s2 :
              /\ Chain(Append(q, code), c2, s2)
              /\ c2[0] = c[0] /\ s2[0] = s[0]
              /\ c2[Len(Append(q, code))] = CapsAfter(c[Len(q)], code)
              /\ s2[Len(Append(q, code))] = ShiftAfter(s[Len(q)], code)
  <1> DEFINE n == Len(q)
             r == Append(q, code)
             cn == CapsAfter(c[n], code)
             sn == ShiftAfter(s[n], code)
             c2 == [i \in 0 .. Len(r) |-> IF i = n + 1 THEN cn ELSE c[i]]
             s2 == [i \in 0 .. Len(r) |-> IF i = n + 1 THEN sn ELSE s[i]]
  <1>1. /\ n \in Nat /\ r \in Seq(Scancode) /\ Len(r) = n + 1
        /\ \A i \in 1 .. n : r[i] = q[i]
        /\ r[n + 1] = code
    OBVIOUS
  <1>2. /\ c \in [0 .. n -> BOOLEAN] /\ s \in [0 .. n -> BOOLEAN]
        /\ \A i \in 1 .. n : /\ c[i] = CapsAfter(c[i - 1], q[i])
                            /\ s[i] = ShiftAfter(s[i - 1], q[i])
                            /\ Right(c[i - 1], s[i - 1], q[i])
    BY DEF Chain
  <1>3. cn \in BOOLEAN /\ sn \in BOOLEAN
    <2>1. s[n] \in BOOLEAN /\ code.down \in BOOLEAN
      BY <1>1, <1>2 DEF Scancode
    <2> QED BY <2>1 DEF CapsAfter, ShiftAfter
  <1> HIDE DEF n, r, cn, sn
  <1>4. c2 \in [0 .. Len(r) -> BOOLEAN] /\ s2 \in [0 .. Len(r) -> BOOLEAN]
    BY <1>1, <1>2, <1>3
  <1>5. /\ \A i \in 0 .. n : c2[i] = c[i] /\ s2[i] = s[i]
        /\ c2[n + 1] = cn /\ s2[n + 1] = sn
    BY <1>1
  <1> HIDE DEF c2, s2
  <1>6. ASSUME NEW i \in 1 .. Len(r)
        PROVE  /\ c2[i] = CapsAfter(c2[i - 1], r[i])
               /\ s2[i] = ShiftAfter(s2[i - 1], r[i])
               /\ Right(c2[i - 1], s2[i - 1], r[i])
    <2>1. CASE i \in 1 .. n
      <3>1. i \in 0 .. n /\ i - 1 \in 0 .. n
        BY <1>1, <2>1
      <3>2. /\ c2[i] = c[i] /\ s2[i] = s[i] /\ r[i] = q[i]
            /\ c2[i - 1] = c[i - 1] /\ s2[i - 1] = s[i - 1]
        BY <1>1, <1>5, <2>1, <3>1
      <3>3. /\ c[i] = CapsAfter(c[i - 1], q[i])
            /\ s[i] = ShiftAfter(s[i - 1], q[i])
            /\ Right(c[i - 1], s[i - 1], q[i])
        BY <1>2, <2>1
      <3> QED BY <3>2, <3>3
    <2>2. CASE i = n + 1
      <3>1. i - 1 = n /\ n \in 0 .. n
        BY <1>1, <2>2
      <3>2. /\ c2[i] = cn /\ s2[i] = sn /\ r[i] = code
            /\ c2[i - 1] = c[n] /\ s2[i - 1] = s[n]
        BY <1>1, <1>5, <2>2, <3>1
      <3> QED BY <3>2 DEF cn, sn, n
    <2> QED BY <1>1, <2>1, <2>2
  <1>7. Chain(r, c2, s2)
    BY <1>4, <1>6 DEF Chain
  <1>8. c2[0] = c[0] /\ s2[0] = s[0]
    BY <1>1, <1>5
  <1>9. c2[Len(r)] = cn /\ s2[Len(r)] = sn
    BY <1>1, <1>5
  <1> QED BY <1>7, <1>8, <1>9 DEF r, n, cn, sn

\* The keyboard's handler has not sent its EOI: a scancode waits for it.
LEMMA CodeWaits ==
    ASSUME IInv, KeyInv, AtTop("KEYBOARD", "new")
    PROVE  fifo # <<>> /\ "KEYBOARD" \notin irr /\ Code \in Scancode /\ Code = fifo[1]
  <1>1. "KEYBOARD" \in isr
    BY DEF IInv, Core, InServiceRuns, AtTop
  <1>2. fifo # <<>> /\ "KEYBOARD" \notin irr
    BY <1>1 DEF KeyInv, KeyWaits
  <1> QED BY <1>2 DEF Code, KeyInv, KeyTypes

\* Nothing is typed yet.
LEMMA KeyInitHolds == ASSUME Init PROVE KeyInv
  <1>1. KeyTypes
    <2>1. typing \in Seq(STRING)
      BY TypingAssumption DEF Init
    <2>2. fifo \in Seq(Scancode)
      BY DEF Init
    <2>3. kbd \in [caps_lock_enabled : BOOLEAN, shift_state : BOOLEAN,
                  ctrl_state : BOOLEAN, alt_state : BOOLEAN]
      BY DEF Init
    <2> QED BY <2>1, <2>2, <2>3 DEF Init, KeyTypes
  <1>2. KeyWaits /\ (mixed => Shifted)
    BY DEF Init, KeyWaits
  <1>3. Follows
    <2> DEFINE f == [i \in 0 .. 0 |-> FALSE]
    <2>1. Len(fifo) = 0
      BY DEF Init
    <2>2. f \in [0 .. Len(fifo) -> BOOLEAN] /\ f[0] = FALSE
      BY <2>1
    <2> HIDE DEF f
    <2>3. Chain(fifo, f, f)
      BY <2>1, <2>2 DEF Chain
    <2>4. ~Shifted
      BY DEF Init, Shifted
    <2>5. Ends(f, f)
      BY <2>1, <2>2, <2>4 DEF Ends, Init
    <2> QED BY <2>3, <2>5 DEF Follows
  <1> QED BY <1>1, <1>2, <1>3 DEF KeyInv

\* A step that leaves the keyboard alone and lets it neither request nor be
\* taken.
LEMMA QuietKeys ==
    ASSUME KeyInv, UNCHANGED keyboard,
           "KEYBOARD" \in irr' => "KEYBOARD" \in irr,
           "KEYBOARD" \in isr' => "KEYBOARD" \in isr
    PROVE  KeyInv'
  <1>1. KeyTypes'
    BY DEF KeyInv, KeyTypes, keyboard
  <1>2. KeyWaits'
    BY DEF KeyInv, KeyWaits, keyboard
  <1>3. Shifted' = Shifted /\ mixed' = mixed
    BY DEF Shifted, keyboard
  <1>4. Follows'
    <2>1. PICK c, s : Chain(fifo, c, s) /\ Ends(c, s)
      BY DEF KeyInv, Follows
    <2>2. Chain(fifo', c, s)
      BY <2>1 DEF keyboard
    <2>3. Ends(c, s)'
      BY <1>3, <2>1 DEF Ends, keyboard
    <2> QED BY <2>2, <2>3 DEF Follows
  <1> QED BY <1>1, <1>2, <1>3, <1>4 DEF KeyInv

\* The interrupt of the keyboard is taken: it no longer waits.
LEMMA TakeKeys ==
    ASSUME KeyInv, NEW irq \in Irq, Take(irq)
    PROVE  KeyInv'
  <1>1. CASE irq = "KEYBOARD"
    <2>1. /\ "KEYBOARD" \in irr /\ "KEYBOARD" \notin irr'
          /\ UNCHANGED keyboard
      BY <1>1 DEF Take, Waiting
    <2>2. KeyWaits'
      BY <2>1 DEF KeyInv, KeyWaits, keyboard
    <2>3. Follows' /\ KeyTypes' /\ (mixed' => Shifted')
      <3>1. PICK c, s : Chain(fifo, c, s) /\ Ends(c, s)
        BY DEF KeyInv, Follows
      <3>2. Chain(fifo', c, s) /\ Shifted' = Shifted
        BY <2>1, <3>1 DEF keyboard, Shifted
      <3>3. Ends(c, s)'
        BY <2>1, <3>1, <3>2 DEF Ends, keyboard
      <3> QED BY <2>1, <3>2, <3>3 DEF Follows, KeyInv, KeyTypes, keyboard
    <2> QED BY <2>2, <2>3 DEF KeyInv
  <1>2. CASE irq # "KEYBOARD"
    BY <1>2, QuietKeys DEF Take
  <1> QED BY <1>1, <1>2

\* A scancode is read: the handler's modifiers take one step along the chain.
LEMMA ReadKeys ==
    ASSUME IInv, KeyInv, ReadsCode, isr' = AfterEoi("KEYBOARD")
    PROVE  KeyInv'
  <1>1. /\ fifo # <<>> /\ "KEYBOARD" \notin irr /\ Code \in Scancode /\ Code = fifo[1]
        /\ fifo' = Tail(fifo) /\ kbd' = Modifiers
        /\ UNCHANGED <<typing, held, caps, mixed>>
    BY CodeWaits DEF ReadsCode
  <1>2. KeyTypes'
    <2>1. fifo' \in Seq(Scancode)
      BY <1>1 DEF KeyInv, KeyTypes
    <2>2. /\ kbd.shift_state \in BOOLEAN /\ kbd.ctrl_state \in BOOLEAN
          /\ kbd.alt_state \in BOOLEAN /\ Code.down \in BOOLEAN
      BY <1>1 DEF KeyInv, KeyTypes, Scancode
    <2>3. Modifiers \in [caps_lock_enabled : BOOLEAN, shift_state : BOOLEAN,
                         ctrl_state : BOOLEAN, alt_state : BOOLEAN]
      BY <2>2 DEF Modifiers
    <2> QED BY <1>1, <2>1, <2>3 DEF KeyInv, KeyTypes
  <1>3. KeyWaits'
    <2>1. "KEYBOARD" \notin isr'
      BY DEF AfterEoi
    <2>2. "KEYBOARD" \in irr' => fifo' # <<>>
      BY <1>1 DEF ReadsCode
    <2> QED BY <2>1, <2>2 DEF KeyWaits
  <1>4. Shifted' = Shifted /\ mixed' = mixed
    BY <1>1 DEF Shifted
  <1>5. Follows'
    <2>1. PICK c, s : Chain(fifo, c, s) /\ Ends(c, s)
      BY DEF KeyInv, Follows
    <2>2. PICK c2, s2 :
              /\ Chain(Tail(fifo), c2, s2)
              /\ c2[0] = CapsAfter(c[0], fifo[1]) /\ s2[0] = ShiftAfter(s[0], fifo[1])
              /\ c2[Len(Tail(fifo))] = c[Len(fifo)] /\ s2[Len(Tail(fifo))] = s[Len(fifo)]
      BY <1>1, <2>1, ChainTail DEF KeyInv, KeyTypes
    <2>3. /\ kbd'.caps_lock_enabled = CapsAfter(kbd.caps_lock_enabled, Code)
          /\ kbd'.shift_state = ShiftAfter(kbd.shift_state, Code)
      BY <1>1 DEF Modifiers, CapsAfter, ShiftAfter
    <2>4. Ends(c2, s2)'
      BY <1>1, <1>4, <2>1, <2>2, <2>3 DEF Ends
    <2> QED BY <1>1, <2>2, <2>4 DEF Follows
  <1> QED BY <1>2, <1>3, <1>4, <1>5 DEF KeyInv

\* A key is hit or released: the chain grows by what the user sees.
LEMMA HitKeys ==
    ASSUME KeyInv, Hit
    PROVE  KeyInv'
  <1> DEFINE k == Head(typing)
             down == k \notin held
             now == IF down THEN held \cup {k} ELSE held \ {k}
             code == [key |-> k, down |-> down, sure |-> ~mixed, meant |-> Meaning(k)]
  <1>1. /\ typing # <<>> /\ typing' = Tail(typing) /\ held' = now
        /\ caps' = (caps # (k = "caps" /\ down))
        /\ mixed' = (now \cap Shift # {} /\ (mixed \/ (k \in Shift /\ ~down)))
        /\ fifo' = Append(fifo, code)
        /\ irr' = (IF fifo = <<>> THEN irr \cup {"KEYBOARD"} ELSE irr)
        /\ isr' = isr /\ kbd' = kbd
    BY DEF Hit
  <1>2. k \in STRING /\ typing' \in Seq(STRING) /\ fifo \in Seq(Scancode)
    BY <1>1 DEF KeyInv, KeyTypes
  <1>3. Meaning(k) = [key |-> k, upper |-> Upper(caps, Shifted, k)]
    BY DEF Meaning, Upper, Shifted
  <1>4. Upper(caps, Shifted, k) \in BOOLEAN
    BY DEF Upper, Shifted
  <1>5. code \in Scancode
    BY <1>2, <1>3, <1>4 DEF Scancode
  <1>6. code.key = k /\ code.down = down /\ code.sure = ~mixed /\ code.meant = Meaning(k)
    OBVIOUS
  <1> HIDE DEF code
  <1>7. Shifted' = (now \cap Shift # {})
    BY <1>1 DEF Shifted
  <1>8. KeyTypes'
    BY <1>1, <1>2, <1>5 DEF KeyInv, KeyTypes
  <1>9. KeyWaits'
    <2>1. fifo' # <<>>
      BY <1>1, <1>2
    <2> QED BY <1>1, <2>1 DEF KeyInv, KeyWaits
  <1>10. mixed' => Shifted'
    BY <1>1, <1>7
  <1>11. Follows'
    <2>1. PICK c, s : Chain(fifo, c, s) /\ Ends(c, s)
      BY DEF KeyInv, Follows
    <2>2. Right(c[Len(fifo)], s[Len(fifo)], code)
      BY <1>3, <1>6, <2>1 DEF Right, Ends
    <2>3. PICK c2, s2 :
              /\ Chain(Append(fifo, code), c2, s2)
              /\ c2[0] = c[0] /\ s2[0] = s[0]
              /\ c2[Len(Append(fifo, code))] = CapsAfter(c[Len(fifo)], code)
              /\ s2[Len(Append(fifo, code))] = ShiftAfter(s[Len(fifo)], code)
      BY <1>2, <1>5, <2>1, <2>2, ChainAppend
    <2>4. caps' = CapsAfter(caps, code)
      BY <1>1, <1>6 DEF CapsAfter
    <2>5. ASSUME ~mixed'
          PROVE  ShiftAfter(s[Len(fifo)], code) = Shifted'
      <3>1. mixed => Shifted
        BY DEF KeyInv
      <3>2. ~mixed => s[Len(fifo)] = Shifted
        BY <2>1 DEF Ends
      <3>3. CASE k \in Shift /\ ~down
        BY <1>1, <1>6, <1>7, <2>5, <3>3 DEF ShiftAfter
      <3>4. CASE k \in Shift /\ down
        BY <1>1, <1>6, <1>7, <2>5, <3>4 DEF ShiftAfter
      <3>5. CASE k \notin Shift
        <4>1. now \cap Shift = held \cap Shift
          BY <3>5
        <4>2. Shifted' = Shifted
          BY <1>7, <4>1 DEF Shifted
        <4>3. ~mixed
          BY <1>1, <1>7, <2>5, <3>1, <4>2
        <4> QED BY <1>6, <3>2, <3>5, <4>2, <4>3 DEF ShiftAfter
      <3> QED BY <3>3, <3>4, <3>5
    <2>6. Ends(c2, s2)'
      BY <1>1, <2>1, <2>3, <2>4, <2>5 DEF Ends
    <2> QED BY <1>1, <2>3, <2>6 DEF Follows
  <1> QED BY <1>8, <1>9, <1>10, <1>11 DEF KeyInv

\* Every step keeps the invariant of the keys.
LEMMA NextKeys == ASSUME IInv, KeyInv, [Next]_vars PROVE KeyInv'
  <1>1. CASE UNCHANGED vars
    BY <1>1, QuietKeys DEF vars
  <1>2. CASE BootStep \/ BootFails \/ Return \/ Sti \/ Cli \/ Hangs \/ SwitchShows
             \/ SwitchStarts \/ SwitchExecutes
    BY <1>2, QuietKeys DEF BootStep, BootFails, Return, Sti, Cli, Hangs, SwitchShows,
       SwitchStarts, SwitchExecutes
  <1>3. CASE PitRuns \/ DeviceRuns("RTC") \/ DeviceRuns("SB16") \/ SwitchRefuses
             \/ SwitchFails \/ LateEoi
    <2>1. UNCHANGED keyboard /\ irr' = irr
      BY <1>3 DEF PitRuns, DeviceRuns, SwitchRefuses, SwitchFails, LateEoi
    <2>2. isr' \subseteq isr
      BY <1>3 DEF PitRuns, DeviceRuns, SwitchRefuses, SwitchFails, LateEoi, PitEoi, AfterEoi
    <2> QED BY <2>1, <2>2, QuietKeys
  <1>4. CASE KeyRuns \/ CtrlCRuns \/ AltRuns
    BY <1>4, ReadKeys DEF KeyRuns, CtrlCRuns, AltRuns
  <1>5. ASSUME NEW irq \in Irq \ {"KEYBOARD"}, Request(irq) PROVE KeyInv'
    BY <1>5, QuietKeys DEF Request
  <1>6. ASSUME NEW irq \in Irq, Take(irq) PROVE KeyInv'
    BY <1>6, TakeKeys
  <1>7. CASE Hit
    BY <1>7, HitKeys
  <1> QED BY <1>1, <1>2, <1>3, <1>4, <1>5, <1>6, <1>7 DEF Next, Running

\* The four tables, by caps lock and shift.
LEMMA TablesRight ==
    ASSUME kbd.shift_state \in BOOLEAN, kbd.caps_lock_enabled \in BOOLEAN, NEW k
    PROVE  key_scancode(current_state, k) =
              [key |-> k, upper |-> Upper(kbd.caps_lock_enabled, kbd.shift_state, k)]
  <1> DEFINE c == kbd.caps_lock_enabled
             s == kbd.shift_state
             table == IF k \in Letter THEN {"SHIFT_PRESS", "CAPS_PRESS"}
                      ELSE {"SHIFT_PRESS", "CAP_SHI_PRESS"}
  <1>1. (current_state \in table) = Upper(c, s, k)
    <2>1. CASE s = TRUE /\ c = TRUE
      BY <2>1 DEF current_state, Upper
    <2>2. CASE s = TRUE /\ c = FALSE
      BY <2>2 DEF current_state, Upper
    <2>3. CASE s = FALSE /\ c = TRUE
      BY <2>3 DEF current_state, Upper
    <2>4. CASE s = FALSE /\ c = FALSE
      BY <2>4 DEF current_state, Upper
    <2> QED BY <2>1, <2>2, <2>3, <2>4
  <1> QED BY <1>1 DEF key_scancode

\* The character that is pushed is the one that was meant when the key went
\* down, however late its interrupt is taken and whatever is typed in between
\* (keyboard_handler's modifiers and input_handler's tables).
THEOREM KeysAsMeant == Spec => TypedAsMeant
  <1>1. Init => IInv /\ KeyInv
    BY InitHolds, KeyInitHolds
  <1>2. IInv /\ KeyInv /\ [Next]_vars => (IInv /\ KeyInv)'
    BY NextKeeps, NextKeys
  <1>3. ASSUME IInv, KeyInv, KeyRuns, Code.sure
        PROVE  Pushed = Code.meant
    <2>1. Code = fifo[1] /\ fifo # <<>> /\ fifo \in Seq(Scancode)
      BY <1>3, CodeWaits DEF KeyRuns, ReadsCode, KeyInv, KeyTypes
    <2>2. PICK c, s : Chain(fifo, c, s) /\ Ends(c, s)
      BY <1>3 DEF KeyInv, Follows
    <2>3. Right(c[0], s[0], fifo[1])
      <3>1. 1 \in 1 .. Len(fifo) /\ 1 - 1 = 0
        BY <2>1
      <3>2. Right(c[1 - 1], s[1 - 1], fifo[1])
        BY <2>2, <3>1 DEF Chain
      <3> QED BY <3>1, <3>2
    <2>4. Code.meant = [key |-> Code.key,
                        upper |-> Upper(kbd.caps_lock_enabled, kbd.shift_state, Code.key)]
      BY <1>3, <2>1, <2>2, <2>3 DEF Right, Ends
    <2>5. kbd.shift_state \in BOOLEAN /\ kbd.caps_lock_enabled \in BOOLEAN
      BY <1>3 DEF KeyInv, KeyTypes
    <2> QED BY <2>4, <2>5, TablesRight DEF Pushed
  <1>4. IInv /\ KeyInv /\ [Next]_vars =>
            [(KeyRuns /\ Pushes /\ Code.key # "f1" /\ Code.sure) => Pushed = Code.meant]_vars
    BY <1>3
  <1> QED BY <1>1, <1>2, <1>4, PTL DEF Spec, TypedAsMeant
=============================================================================
