---------------------------- MODULE Kernel_proofs ----------------------------
(***************************************************************************)
(* For every number of pids, of terminals and every nesting depth: the     *)
(* tables that execute and halt keep agree, no row of process_terminal     *)
(* overflows, a live saved context lies inside its stack, and the tables   *)
(* implement the abstract stacks of TerminalStacks.                        *)
(***************************************************************************)
EXTENDS Kernel, FiniteSetTheorems, SequenceTheorems, TLAPS

\* The inductive invariant: the tables alone are inductive once the types are,
\* and the types of the stacks need to know where the saved contexts point.
IInv == TypeOK /\ ContextsInside /\ TablesAgree

\* What the tables need of TypeOK.
TablesType ==
    /\ process \in [Pid -> BOOLEAN]
    /\ process_terminal \in [Terminal -> [Slot -> Pid]]
    /\ process_terminal_cnt \in [Terminal -> 0 .. MaxTask]

-----------------------------------------------------------------------------
\* execute never writes past a row of process_terminal: while a pid is free,
\* every row has a free slot (the pids in a row are distinct and in use).
LEMMA RowHasRoom ==
    ASSUME TablesType, TablesAgree, NEW new \in Pid, ~process[new],
           NEW t \in Terminal
    PROVE  process_terminal_cnt[t] < MaxTask
<1>0. process_terminal_cnt[t] \in Nat /\ process_terminal_cnt[t] <= MaxTask
  BY TaskAssumption DEF TablesType
<1> SUFFICES ASSUME process_terminal_cnt[t] = MaxTask PROVE FALSE
  BY <1>0, TaskAssumption
<1> DEFINE f == [i \in Slot |-> process_terminal[t][i]]
<1>1. f \in [Slot -> Pid \ {new}]
  BY TaskAssumption DEF TablesType, TablesAgree, ListedInUse, Live, Slot
<1>2. IsFiniteSet(Slot) /\ Cardinality(Slot) = MaxTask
  BY FS_Interval, TaskAssumption DEF Slot
<1>3. IsFiniteSet(Pid \ {new}) /\ Cardinality(Pid \ {new}) = MaxTask - 1
  <2>1. IsFiniteSet(Pid) /\ Cardinality(Pid) = MaxTask
    BY <1>2 DEF Pid, Slot
  <2> QED BY <2>1, FS_RemoveElement
<1>4. PICK x, y \in Slot : x # y /\ f[x] = f[y]
  <2> HIDE DEF f
  <2> QED BY <1>1, <1>2, <1>3, FS_PigeonHole, TaskAssumption
<1> QED
  BY <1>4, TaskAssumption DEF TablesAgree, ListedOnce, Live, Slot

\* Pushing a free pid on a terminal keeps the tables in agreement.
LEMMA PushAgrees ==
    ASSUME TablesType, TablesAgree, NEW new \in Pid, ~process[new],
           NEW t \in Terminal,
           process' = [process EXCEPT ![new] = TRUE],
           process_terminal' =
             [process_terminal EXCEPT ![t][process_terminal_cnt[t]] = new],
           process_terminal_cnt' =
             [process_terminal_cnt EXCEPT ![t] = process_terminal_cnt[t] + 1]
    PROVE  TablesType' /\ TablesAgree'
<1> DEFINE c == process_terminal_cnt[t]
<1>1. c \in Slot /\ c < MaxTask
  BY RowHasRoom, TaskAssumption DEF TablesType, Slot
<1>2. TablesType'
  BY <1>1, TaskAssumption DEF TablesType, Slot
<1>3. /\ \A u \in Terminal : \A i \in Slot :
           Live(u, i)' <=> Live(u, i) \/ (u = t /\ i = c)
      /\ \A u \in Terminal : \A i \in Slot :
           process_terminal'[u][i] = IF u = t /\ i = c THEN new
                                     ELSE process_terminal[u][i]
      /\ ~Live(t, c)
      /\ \A p \in Pid : process'[p] <=> process[p] \/ p = new
  BY <1>1, TaskAssumption DEF TablesType, Slot, Live
<1>4. \A u \in Terminal : \A i \in Slot :
         Live(u, i) => process_terminal[u][i] # new
  BY DEF TablesAgree, ListedInUse
<1>5. ListedOnce'
  <2> SUFFICES ASSUME NEW u \in Terminal, NEW v \in Terminal,
                      NEW i \in Slot, NEW j \in Slot,
                      Live(u, i)', Live(v, j)',
                      process_terminal'[u][i] = process_terminal'[v][j]
               PROVE  u = v /\ i = j
    BY DEF ListedOnce
  <2>1. CASE Live(u, i) /\ Live(v, j)
    BY <2>1, <1>3 DEF TablesAgree, ListedOnce
  <2>2. CASE ~Live(u, i) \/ ~Live(v, j)
    BY <2>2, <1>3, <1>4
  <2> QED BY <2>1, <2>2
<1>6. ListedInUse'
  BY <1>2, <1>3 DEF TablesAgree, ListedInUse, TablesType
<1>7. InUseListed'
  <2> SUFFICES ASSUME NEW p \in Pid, process'[p]
               PROVE  \E u \in Terminal, i \in Slot :
                        Live(u, i)' /\ process_terminal'[u][i] = p
    BY DEF InUseListed
  <2>1. CASE p = new
    BY <1>1, <1>3, <2>1
  <2>2. CASE p # new
    <3>1. PICK u \in Terminal, i \in Slot :
             Live(u, i) /\ process_terminal[u][i] = p
      BY <1>3, <2>2 DEF TablesAgree, InUseListed
    <3> QED BY <3>1, <1>3
  <2> QED BY <2>1, <2>2
<1> QED BY <1>2, <1>5, <1>6, <1>7 DEF TablesAgree

\* Popping a terminal keeps the tables in agreement.
LEMMA PopAgrees ==
    ASSUME TablesType, TablesAgree, NEW t \in Terminal, NEW victim \in Pid,
           process_terminal_cnt[t] # 0,
           victim = process_terminal[t][process_terminal_cnt[t] - 1],
           process' = [process EXCEPT ![victim] = FALSE],
           process_terminal' =
             [process_terminal EXCEPT ![t][process_terminal_cnt[t] - 1] = 0],
           process_terminal_cnt' =
             [process_terminal_cnt EXCEPT ![t] = process_terminal_cnt[t] - 1]
    PROVE  TablesType' /\ TablesAgree'
<1> DEFINE c == process_terminal_cnt[t] - 1
<1>1. c \in Slot
  BY TaskAssumption DEF TablesType, Slot
<1>2. 0 \in Pid
  BY TaskAssumption DEF Pid
<1>3. TablesType'
  BY <1>1, <1>2, TaskAssumption DEF TablesType, Slot
<1>4. /\ \A u \in Terminal : \A i \in Slot :
           Live(u, i)' <=> Live(u, i) /\ ~(u = t /\ i = c)
      /\ \A u \in Terminal : \A i \in Slot :
           process_terminal'[u][i] = IF u = t /\ i = c THEN 0
                                     ELSE process_terminal[u][i]
      /\ Live(t, c)
      /\ \A p \in Pid : process'[p] <=> process[p] /\ p # victim
  BY <1>1, TaskAssumption DEF TablesType, Slot, Live
<1>5. ListedOnce'
  BY <1>4 DEF TablesAgree, ListedOnce
<1>6. ListedInUse'
  <2> SUFFICES ASSUME NEW u \in Terminal, NEW i \in Slot, Live(u, i)'
               PROVE  process'[process_terminal'[u][i]]
    BY DEF ListedInUse
  <2>1. /\ Live(u, i)
        /\ ~(u = t /\ i = c)
        /\ process_terminal'[u][i] = process_terminal[u][i]
    BY <1>4
  <2>2. process_terminal[u][i] # victim
    BY <2>1, <1>1, <1>4 DEF TablesAgree, ListedOnce
  <2>3. process_terminal[u][i] \in Pid /\ process[process_terminal[u][i]]
    BY <2>1 DEF TablesAgree, ListedInUse, TablesType
  <2> QED BY <2>1, <2>2, <2>3, <1>4
<1>7. InUseListed'
  <2> SUFFICES ASSUME NEW p \in Pid, process'[p]
               PROVE  \E u \in Terminal, i \in Slot :
                        Live(u, i)' /\ process_terminal'[u][i] = p
    BY DEF InUseListed
  <2>1. PICK u \in Terminal, i \in Slot :
           Live(u, i) /\ process_terminal[u][i] = p
    BY <1>4 DEF TablesAgree, InUseListed
  <2>2. ~(u = t /\ i = c)
    BY <2>1, <1>4
  <2> QED BY <2>1, <2>2, <1>4
<1> QED BY <1>3, <1>5, <1>6, <1>7 DEF TablesAgree

-----------------------------------------------------------------------------
\* The head of a stack is a stack.
LEMMA HeadOfStack ==
    ASSUME NEW s \in Seq(Frame), NEW n \in Nat, n <= Len(s)
    PROVE  SubSeq(s, 1, n) \in Seq(Frame) /\ Len(SubSeq(s, 1, n)) = n
<1>1. \A i \in 1 .. n : s[i] \in Frame
  BY ElementOfSeq
<1> QED BY <1>1, SubSeqProperties

\* Below takes one frame off.
LEMMA BelowStack ==
    ASSUME NEW s \in Seq(Frame), s # <<>>
    PROVE  Below(s) \in Seq(Frame) /\ Len(Below(s)) \in Nat /\ Len(Below(s)) <= Len(s)
<1>1. Len(s) \in Nat /\ Len(s) # 0
  BY EmptySeq
<1>2. Len(s) - 1 \in Nat /\ Len(s) - 1 <= Len(s)
  BY <1>1
<1> QED BY <1>1, <1>2, HeadOfStack DEF Below

\* Cut only ever kills contexts, and all those of stack q above n.
LEMMA CutLinks ==
    ASSUME NEW links \in [Pid -> Link], NEW q \in Pid, NEW n \in Nat
    PROVE  /\ Cut(links, q, n) \in [Pid -> Link]
           /\ \A c \in Pid : /\ Cut(links, q, n)[c].pid = links[c].pid
                             /\ Cut(links, q, n)[c].depth <= links[c].depth
                             /\ links[c].pid = q => Cut(links, q, n)[c].depth <= n
  BY DEF Cut, Link

\* A stack that is popped keeps its types and the place of the saved contexts.
LEMMA PopInside ==
    ASSUME TypeOK, ContextsInside, NEW stack \in Seq(Frame), Pop(stack)
    PROVE  /\ frames' \in [Pid -> Seq(Frame)]
           /\ schedule_esp' \in [Pid -> Nat]
           /\ parent_esp' \in [Pid -> Link]
           /\ ContextsInside'
<1>1. Len(stack) \in Nat
  BY LenProperties
<1>2. /\ frames' \in [Pid -> Seq(Frame)]
      /\ schedule_esp' \in [Pid -> Nat]
  BY <1>1 DEF TypeOK, Pop
<1>3. parent_esp' \in [Pid -> Link]
  BY <1>1, CutLinks DEF TypeOK, Pop
<1>4. \A p \in Pid : schedule_esp'[p] <= Len(frames'[p])
  BY <1>1 DEF TypeOK, Pop, ContextsInside
<1>5. ASSUME NEW p \in Pid
      PROVE  parent_esp'[p].depth <= Len(frames'[parent_esp'[p].pid])
  <2>1. /\ parent_esp'[p].pid = parent_esp[p].pid
        /\ parent_esp'[p].depth <= parent_esp[p].depth
        /\ parent_esp[p].pid = cpu => parent_esp'[p].depth <= Len(stack)
    <3>1. /\ parent_esp' = Cut(parent_esp, cpu, Len(stack))
          /\ parent_esp \in [Pid -> Link]
          /\ cpu \in Pid
      BY DEF TypeOK, Pop
    <3>2. \A x \in Pid : /\ Cut(parent_esp, cpu, Len(stack))[x].pid = parent_esp[x].pid
                         /\ Cut(parent_esp, cpu, Len(stack))[x].depth <= parent_esp[x].depth
                         /\ parent_esp[x].pid = cpu
                               => Cut(parent_esp, cpu, Len(stack))[x].depth <= Len(stack)
      BY <1>1, <3>1, CutLinks
    <3> QED BY <3>1, <3>2, Zenon
  <2>2. parent_esp[p].pid \in Pid /\ parent_esp[p].depth \in Nat
    BY DEF TypeOK, Link
  <2>3. parent_esp'[p].depth \in Nat
    BY <1>3 DEF Link
  <2>4. parent_esp[p].depth <= Len(frames[parent_esp[p].pid])
    BY DEF ContextsInside
  <2>5. CASE parent_esp[p].pid = cpu
    BY <2>1, <2>5 DEF Pop, TypeOK
  <2>6. CASE parent_esp[p].pid # cpu
    <3>1. frames'[parent_esp[p].pid] = frames[parent_esp[p].pid]
      BY <2>2, <2>6 DEF Pop, TypeOK
    <3>2. Len(frames[parent_esp[p].pid]) \in Nat
      BY <2>2, LenProperties DEF TypeOK
    <3> QED BY <2>1, <2>2, <2>3, <2>4, <3>1, <3>2
  <2> QED BY <2>5, <2>6
<1> QED BY <1>2, <1>3, <1>4, <1>5 DEF ContextsInside

-----------------------------------------------------------------------------
\* Appending a frame to a stack.
LEMMA PushStack ==
    ASSUME NEW s \in Seq(Frame), NEW f \in Frame
    PROVE  Append(s, f) \in Seq(Frame) /\ Len(Append(s, f)) = Len(s) + 1 /\ Len(s) \in Nat
  BY AppendProperties, LenProperties

\* Contexts stay inside when every stack either keeps its length or more, or
\* has lost all contexts above its new length.
LEMMA InsideStays ==
    ASSUME TypeOK, ContextsInside,
           frames' \in [Pid -> Seq(Frame)], schedule_esp' \in [Pid -> Nat],
           parent_esp' \in [Pid -> Link],
           \A p \in Pid : \/ schedule_esp'[p] <= Len(frames'[p])
                          \/ /\ schedule_esp'[p] <= schedule_esp[p]
                             /\ Len(frames[p]) <= Len(frames'[p]),
           \A p \in Pid : \/ parent_esp'[p].depth <= Len(frames'[parent_esp'[p].pid])
                          \/ /\ parent_esp'[p].pid = parent_esp[p].pid
                             /\ parent_esp'[p].depth <= parent_esp[p].depth
                             /\ Len(frames[parent_esp[p].pid]) <= Len(frames'[parent_esp[p].pid])
    PROVE  ContextsInside'
<1>1. ASSUME NEW p \in Pid PROVE Len(frames[p]) \in Nat /\ Len(frames'[p]) \in Nat
  BY LenProperties DEF TypeOK
<1>2. ASSUME NEW p \in Pid PROVE schedule_esp'[p] <= Len(frames'[p])
  <2>1. schedule_esp[p] \in Nat /\ schedule_esp'[p] \in Nat
    BY DEF TypeOK
  <2> QED BY <1>1, <2>1 DEF ContextsInside
<1>3. ASSUME NEW p \in Pid
      PROVE  parent_esp'[p].depth <= Len(frames'[parent_esp'[p].pid])
  <2>1. /\ parent_esp[p].pid \in Pid /\ parent_esp[p].depth \in Nat
        /\ parent_esp'[p].pid \in Pid /\ parent_esp'[p].depth \in Nat
    BY DEF TypeOK, Link
  <2>2. parent_esp[p].depth <= Len(frames[parent_esp[p].pid])
    BY DEF ContextsInside
  <2>3. /\ Len(frames[parent_esp[p].pid]) \in Nat
        /\ Len(frames'[parent_esp[p].pid]) \in Nat
    BY <1>1, <2>1
  <2>4. CASE parent_esp'[p].depth <= Len(frames'[parent_esp'[p].pid])
    BY <2>4
  <2>5. CASE /\ parent_esp'[p].pid = parent_esp[p].pid
             /\ parent_esp'[p].depth <= parent_esp[p].depth
             /\ Len(frames[parent_esp[p].pid]) <= Len(frames'[parent_esp[p].pid])
    <3>1. parent_esp'[p].depth <= Len(frames'[parent_esp[p].pid])
      BY <2>1, <2>2, <2>3, <2>5
    <3> QED BY <3>1, <2>5
  <2> QED BY <2>4, <2>5
<1> QED BY <1>2, <1>3 DEF ContextsInside

\* execute keeps the invariant, whoever calls it.
LEMMA SpawnKeeps ==
    ASSUME IInv, NEW new \in Pid, NEW waits \in BOOLEAN, Spawn(new, waits)
    PROVE  IInv'
<1> USE DEF IInv
<1>0. 0 \in Pid
  BY TaskAssumption DEF Pid
<1>1. TablesType /\ cpu \in Pid /\ current_terminal \in Terminal /\ 0 \in Pid
  BY <1>0 DEF TypeOK, TablesType
<1>2. TablesType' /\ TablesAgree'
  BY <1>1, PushAgrees DEF Spawn, LowestFree
<1>3. parent_pid' \in [Pid -> Pid]
  <2>1. ParentOf(new) \in Pid
    BY <1>1, TaskAssumption DEF ParentOf, TablesType, Slot
  <2> QED BY <2>1 DEF Spawn, TypeOK
<1>4. /\ pending_signal' \in [Pid -> BOOLEAN] /\ sighandler' \in [Pid -> BOOLEAN]
      /\ cpu' \in Pid /\ mapped' \in Pid /\ esp0' \in Pid
      /\ race' \subseteq {"misfiled", "window"}
      /\ schedule_esp' \in [Pid -> Nat]
  BY DEF Spawn, TypeOK
<1> DEFINE base == IF waits THEN parent_esp ELSE Cut(parent_esp, cpu, 0)
           cut  == Cut(base, new, 0)
           link == [pid |-> cpu,
                    depth |-> IF waits /\ new # cpu THEN Len(frames[cpu]) + 1 ELSE 0]
           stack == IF waits THEN Append(frames[cpu], "exec") ELSE <<>>
<1>5. /\ stack \in Seq(Frame)
      /\ Len(frames[cpu]) \in Nat
      /\ waits => Len(stack) = Len(frames[cpu]) + 1
  <2>1. "exec" \in Frame
    BY DEF Frame
  <2>2. frames[cpu] \in Seq(Frame)
    BY <1>1 DEF TypeOK
  <2> QED BY <2>1, <2>2, PushStack, EmptySeq
<1>6. frames' = [frames EXCEPT ![cpu] = stack, ![new] = <<>>]
  BY <1>1 DEF Spawn, TypeOK
<1>7. frames' \in [Pid -> Seq(Frame)]
  BY <1>1, <1>5, <1>6, EmptySeq DEF TypeOK
<1>8. /\ base \in [Pid -> Link]
      /\ \A c \in Pid : /\ base[c].pid = parent_esp[c].pid
                        /\ base[c].depth <= parent_esp[c].depth
                        /\ ~waits /\ parent_esp[c].pid = cpu => base[c].depth <= 0
  <2>1. parent_esp \in [Pid -> Link] /\ \A c \in Pid : parent_esp[c].depth \in Nat
    BY DEF TypeOK, Link
  <2>2. CASE waits
    BY <2>1, <2>2
  <2>3. CASE ~waits
    BY <1>1, <2>1, <2>3, CutLinks
  <2> QED BY <2>2, <2>3
<1>9. /\ cut \in [Pid -> Link]
      /\ \A c \in Pid : /\ cut[c].pid = base[c].pid
                        /\ cut[c].depth <= base[c].depth
                        /\ base[c].pid = new => cut[c].depth <= 0
  <2> HIDE DEF base
  <2> QED BY <1>8, CutLinks
<1>10. parent_esp' = [cut EXCEPT ![new] = link] /\ link \in Link
  BY <1>1, <1>5 DEF Spawn, Link
<1>11. parent_esp' \in [Pid -> Link]
  BY <1>9, <1>10
<1>12. ASSUME NEW p \in Pid
       PROVE  \/ schedule_esp'[p] <= Len(frames'[p])
              \/ /\ schedule_esp'[p] <= schedule_esp[p]
                 /\ Len(frames[p]) <= Len(frames'[p])
  <2>1. Len(frames[p]) \in Nat /\ schedule_esp[p] \in Nat
    BY LenProperties DEF TypeOK
  <2>2. CASE p = new
    BY <2>2, <1>4, <1>6, <1>7, EmptySeq DEF Spawn, TypeOK
  <2>3. CASE p # new /\ p = cpu /\ waits
    <3>1. frames'[p] = stack
      BY <2>3, <1>6 DEF TypeOK
    <3>2. schedule_esp'[p] = schedule_esp[p]
      BY <2>3 DEF Spawn, TypeOK
    <3>3. Len(stack) = Len(frames[p]) + 1
      BY <2>3, <1>5
    <3> HIDE DEF stack
    <3> QED BY <3>1, <3>2, <3>3, <2>1
  <2>4. CASE p # new /\ p = cpu /\ ~waits
    <3>1. frames'[p] = <<>> /\ Len(<<>>) = 0
      BY <2>4, <1>6 DEF TypeOK
    <3>2. schedule_esp'[p] = 0
      BY <2>4 DEF Spawn, TypeOK
    <3> QED BY <3>1, <3>2
  <2>5. CASE p # new /\ p # cpu
    <3>1. frames'[p] = frames[p]
      BY <2>5, <1>6 DEF TypeOK
    <3>2. schedule_esp'[p] = schedule_esp[p]
      BY <2>5 DEF Spawn, TypeOK
    <3> QED BY <3>1, <3>2, <2>1
  <2> QED BY <2>2, <2>3, <2>4, <2>5
<1>13. ASSUME NEW p \in Pid
       PROVE  \/ parent_esp'[p].depth <= Len(frames'[parent_esp'[p].pid])
              \/ /\ parent_esp'[p].pid = parent_esp[p].pid
                 /\ parent_esp'[p].depth <= parent_esp[p].depth
                 /\ Len(frames[parent_esp[p].pid]) <= Len(frames'[parent_esp[p].pid])
  <2>0. /\ parent_esp[p].pid \in Pid /\ parent_esp[p].depth \in Nat
        /\ parent_esp'[p].pid \in Pid /\ parent_esp'[p].depth \in Nat
        /\ base[p].pid \in Pid /\ base[p].depth \in Nat
        /\ cut[p].pid \in Pid /\ cut[p].depth \in Nat
    <3> HIDE DEF base, cut
    <3> QED BY <1>8, <1>9, <1>11 DEF TypeOK, Link
  <2>a. \A q \in Pid : Len(frames[q]) \in Nat /\ Len(frames'[q]) \in Nat
    BY <1>7, LenProperties DEF TypeOK
  <2>1. CASE p = new /\ waits /\ new # cpu
    <3>1. parent_esp'[p] = link
      BY <2>1, <1>9, <1>10
    <3>2. frames'[cpu] = stack
      BY <2>1, <1>1, <1>6 DEF TypeOK
    <3> QED BY <3>1, <3>2, <2>1, <1>5
  <2>2. CASE p = new /\ ~(waits /\ new # cpu)
    <3>1. parent_esp'[p] = link /\ link.depth = 0
      BY <2>2, <1>9, <1>10
    <3> QED BY <3>1, <2>0, <2>a
  <2>3. CASE p # new
    <3> DEFINE q == parent_esp[p].pid
    <3>1. parent_esp'[p] = cut[p]
      BY <2>3, <1>9, <1>10
    <3>2. parent_esp'[p].pid = q /\ parent_esp'[p].depth <= parent_esp[p].depth
      <4> HIDE DEF base, cut
      <4> QED BY <3>1, <1>8, <1>9, <2>0
    <3>3. CASE q = new \/ (q = cpu /\ ~waits)
      <4>1. parent_esp'[p].depth = 0
        <5> HIDE DEF base, cut
        <5> QED BY <3>1, <3>3, <1>8, <1>9, <2>0
      <4> QED BY <4>1, <2>0, <2>a
    <3>4. CASE q # new /\ (q # cpu \/ waits)
      <4>1. Len(frames[q]) <= Len(frames'[q])
        <5>1. CASE q = cpu
          <6>1. frames'[q] = stack
            BY <5>1, <3>4, <1>1, <1>6 DEF TypeOK
          <6> QED BY <6>1, <5>1, <3>4, <1>5
        <5>2. CASE q # cpu
          <6>1. frames'[q] = frames[q]
            BY <5>2, <3>4, <2>0, <1>6 DEF TypeOK
          <6> QED BY <6>1, <2>0, <2>a
        <5> QED BY <5>1, <5>2
      <4> QED BY <3>2, <4>1
    <3> QED BY <3>3, <3>4
  <2> QED BY <2>1, <2>2, <2>3
<1>14. ContextsInside'
  <2> HIDE DEF base, cut, link, stack
  <2> QED BY <1>4, <1>7, <1>11, <1>12, <1>13, InsideStays
<1>15. TypeOK'
  BY <1>2, <1>3, <1>4, <1>7, <1>11 DEF TypeOK, TablesType, Spawn
<1> QED BY <1>2, <1>14, <1>15

-----------------------------------------------------------------------------
\* A frame pushed on the CPU's stack, with or without saving the context there.
LEMMA PushInside ==
    ASSUME TypeOK, ContextsInside, NEW f \in Frame,
           frames' = [frames EXCEPT ![cpu] = Append(@, f)],
           \/ schedule_esp' = schedule_esp
           \/ schedule_esp' = [schedule_esp EXCEPT ![cpu] = Len(frames[cpu]) + 1],
           parent_esp' = parent_esp
    PROVE  /\ frames' \in [Pid -> Seq(Frame)]
           /\ schedule_esp' \in [Pid -> Nat]
           /\ parent_esp' \in [Pid -> Link]
           /\ ContextsInside'
<1>1. cpu \in Pid /\ frames[cpu] \in Seq(Frame)
  BY DEF TypeOK
<1>2. /\ Append(frames[cpu], f) \in Seq(Frame)
      /\ Len(Append(frames[cpu], f)) = Len(frames[cpu]) + 1
      /\ Len(frames[cpu]) \in Nat
  BY <1>1, PushStack
<1>3. /\ frames' \in [Pid -> Seq(Frame)]
      /\ schedule_esp' \in [Pid -> Nat]
      /\ parent_esp' \in [Pid -> Link]
  <2>1. frames' \in [Pid -> Seq(Frame)]
    BY <1>1, <1>2 DEF TypeOK
  <2>2. schedule_esp' \in [Pid -> Nat]
    BY <1>1, <1>2 DEF TypeOK
  <2>3. parent_esp' \in [Pid -> Link]
    BY DEF TypeOK
  <2> QED BY <2>1, <2>2, <2>3
<1>4. \A p \in Pid : Len(frames[p]) \in Nat /\ Len(frames[p]) <= Len(frames'[p])
  <2> SUFFICES ASSUME NEW p \in Pid
               PROVE  Len(frames[p]) \in Nat /\ Len(frames[p]) <= Len(frames'[p])
    OBVIOUS
  <2>1. Len(frames[p]) \in Nat
    BY LenProperties DEF TypeOK
  <2>2. CASE p = cpu
    BY <1>2, <2>2 DEF TypeOK
  <2>3. CASE p # cpu
    BY <2>1, <2>3 DEF TypeOK
  <2> QED BY <2>1, <2>2, <2>3
<1>5. ASSUME NEW p \in Pid
      PROVE  \/ schedule_esp'[p] <= Len(frames'[p])
             \/ /\ schedule_esp'[p] <= schedule_esp[p]
                /\ Len(frames[p]) <= Len(frames'[p])
  <2>1. schedule_esp[p] \in Nat
    BY DEF TypeOK
  <2>2. CASE schedule_esp'[p] = schedule_esp[p]
    BY <2>1, <2>2, <1>4
  <2>3. CASE schedule_esp'[p] # schedule_esp[p]
    <3>1. p = cpu /\ schedule_esp'[p] = Len(frames[cpu]) + 1
      BY <2>3 DEF TypeOK
    <3>2. frames'[cpu] = Append(frames[cpu], f)
      BY <1>1 DEF TypeOK
    <3> QED BY <3>1, <3>2, <1>2
  <2> QED BY <2>2, <2>3
<1>6. ASSUME NEW p \in Pid
      PROVE  /\ parent_esp'[p].pid = parent_esp[p].pid
             /\ parent_esp'[p].depth <= parent_esp[p].depth
             /\ Len(frames[parent_esp[p].pid]) <= Len(frames'[parent_esp[p].pid])
  <2>1. parent_esp[p].pid \in Pid /\ parent_esp[p].depth \in Nat
    BY DEF TypeOK, Link
  <2> QED BY <2>1, <1>4
<1>7. ContextsInside'
  BY <1>3, <1>5, <1>6, InsideStays
<1> QED BY <1>3, <1>7

\* The table half of halt.
LEMMA ReleaseKeeps ==
    ASSUME IInv, NEW victim \in Pid, Release(victim)
    PROVE  /\ TablesType' /\ TablesAgree'
           /\ mapped' \in Pid /\ esp0' \in Pid
<1>1. TablesType /\ TablesAgree /\ running_terminal \in Terminal
  BY DEF IInv, TypeOK, TablesType
<1>2. TablesType' /\ TablesAgree'
  BY <1>1, PopAgrees DEF Release
<1>3. mapped' \in Pid /\ esp0' \in Pid
  BY DEF IInv, TypeOK, Release
<1> QED BY <1>2, <1>3

\* halt up to execute("shell").
LEMMA HaltRestartsKeeps ==
    ASSUME IInv, HaltRestarts
    PROVE  IInv'
<1> USE DEF IInv
<1>1. PICK victim \in Pid : Release(victim)
  BY DEF HaltRestarts
<1>2. /\ TablesType' /\ TablesAgree'
      /\ mapped' \in Pid /\ esp0' \in Pid
  BY <1>1, ReleaseKeeps
<1>3. cpu \in Pid /\ <<"halt">> \in Seq(Frame) /\ Len(<<"halt">>) = 1
  BY DEF TypeOK, Frame
<1>4. /\ frames' \in [Pid -> Seq(Frame)]
      /\ schedule_esp' \in [Pid -> Nat]
  BY <1>3 DEF HaltRestarts, TypeOK
<1>5. /\ parent_esp' \in [Pid -> Link]
      /\ \A c \in Pid : /\ parent_esp'[c].pid = parent_esp[c].pid
                        /\ parent_esp'[c].depth <= parent_esp[c].depth
                        /\ parent_esp[c].pid = cpu => parent_esp'[c].depth <= 0
  <2>1. parent_esp \in [Pid -> Link] /\ parent_esp' = Cut(parent_esp, cpu, 0) /\ 0 \in Nat
    BY DEF HaltRestarts, TypeOK
  <2> QED BY <1>3, <2>1, CutLinks
<1>6. \A p \in Pid : Len(frames[p]) \in Nat /\ (p # cpu => frames'[p] = frames[p])
  BY LenProperties DEF HaltRestarts, TypeOK
<1>7. ASSUME NEW p \in Pid
      PROVE  \/ schedule_esp'[p] <= Len(frames'[p])
             \/ /\ schedule_esp'[p] <= schedule_esp[p]
                /\ Len(frames[p]) <= Len(frames'[p])
  <2>1. CASE p = cpu
    <3>1. schedule_esp'[p] = 0 /\ frames'[p] = <<"halt">>
      BY <2>1 DEF HaltRestarts, TypeOK
    <3> QED BY <3>1, <1>3
  <2>2. CASE p # cpu
    <3>1. schedule_esp'[p] = schedule_esp[p] /\ schedule_esp[p] \in Nat
      BY <2>2 DEF HaltRestarts, TypeOK
    <3> QED BY <3>1, <2>2, <1>6
  <2> QED BY <2>1, <2>2
<1>8. ASSUME NEW p \in Pid
      PROVE  \/ parent_esp'[p].depth <= Len(frames'[parent_esp'[p].pid])
             \/ /\ parent_esp'[p].pid = parent_esp[p].pid
                /\ parent_esp'[p].depth <= parent_esp[p].depth
                /\ Len(frames[parent_esp[p].pid]) <= Len(frames'[parent_esp[p].pid])
  <2>1. parent_esp[p].pid \in Pid /\ parent_esp'[p].depth \in Nat
    BY <1>5 DEF TypeOK, Link
  <2>2. CASE parent_esp[p].pid = cpu
    <3>1. frames'[cpu] = <<"halt">>
      BY <1>3 DEF HaltRestarts, TypeOK
    <3> QED BY <3>1, <2>1, <2>2, <1>3, <1>5
  <2>3. CASE parent_esp[p].pid # cpu
    BY <2>1, <2>3, <1>5, <1>6
  <2> QED BY <2>2, <2>3
<1>9. ContextsInside'
  BY <1>4, <1>5, <1>7, <1>8, InsideStays
<1>10. TypeOK'
  BY <1>2, <1>4, <1>5 DEF TypeOK, TablesType, HaltRestarts, history
<1> QED BY <1>2, <1>9, <1>10

\* halt that returns to the parent.
LEMMA HaltReturnsKeeps ==
    ASSUME IInv, NEW status \in Nat, HaltReturns(status)
    PROVE  IInv'
<1> USE DEF IInv
<1>0. PICK victim \in Pid :
        LET q == parent_esp[victim].pid
            n == parent_esp[victim].depth
        IN  /\ Release(victim)
            /\ n # 0
            /\ cpu' = q
            /\ frames' = [[frames EXCEPT ![cpu] = <<>>] EXCEPT
                             ![q] = Append(SubSeq(frames[q], 1, n - 1), "ret")]
            /\ schedule_esp' = [[schedule_esp EXCEPT ![cpu] = 0] EXCEPT
                             ![q] = IF schedule_esp[q] >= n THEN 0 ELSE schedule_esp[q]]
            /\ parent_esp' = Cut(IF q = cpu THEN parent_esp ELSE Cut(parent_esp, cpu, 0),
                                 q, n - 1)
            /\ due' = [due EXCEPT ![q] = status]
  BY DEF HaltReturns
<1>1. /\ retval' = status
      /\ UNCHANGED <<current_terminal, running_terminal, terminal_running,
                     parent_pid, pending_signal, sighandler, wild, eax, race>>
  BY DEF HaltReturns
<1> DEFINE q == parent_esp[victim].pid
           n == parent_esp[victim].depth
           base == IF q = cpu THEN parent_esp ELSE Cut(parent_esp, cpu, 0)
           stack == Append(SubSeq(frames[q], 1, n - 1), "ret")
<1>2. /\ TablesType' /\ TablesAgree'
      /\ mapped' \in Pid /\ esp0' \in Pid
  BY <1>0, ReleaseKeeps
<1>3. /\ q \in Pid /\ n \in Nat /\ n # 0 /\ cpu \in Pid /\ n - 1 \in Nat
      /\ n <= Len(frames[q]) /\ Len(frames[q]) \in Nat
  <2>1. q \in Pid /\ n \in Nat /\ cpu \in Pid
    BY DEF TypeOK, Link
  <2>2. n # 0
    BY <1>0
  <2>3. n <= Len(frames[q])
    BY DEF ContextsInside
  <2>4. Len(frames[q]) \in Nat
    BY <2>1, LenProperties DEF TypeOK
  <2> HIDE DEF q, n
  <2> QED BY <2>1, <2>2, <2>3, <2>4
<1>4. stack \in Seq(Frame) /\ Len(stack) = n
  <2>1. frames[q] \in Seq(Frame) /\ n - 1 <= Len(frames[q]) /\ "ret" \in Frame
    <3> HIDE DEF q, n
    <3> QED BY <1>3 DEF TypeOK, Frame
  <2>2. /\ SubSeq(frames[q], 1, n - 1) \in Seq(Frame)
        /\ Len(SubSeq(frames[q], 1, n - 1)) = n - 1
    <3> HIDE DEF q, n
    <3> QED BY <1>3, <2>1, HeadOfStack
  <2> HIDE DEF q, n
  <2> QED BY <1>3, <2>1, <2>2, PushStack
<1>5. /\ frames' = [[frames EXCEPT ![cpu] = <<>>] EXCEPT ![q] = stack]
      /\ schedule_esp' = [[schedule_esp EXCEPT ![cpu] = 0] EXCEPT
                             ![q] = IF schedule_esp[q] >= n THEN 0 ELSE schedule_esp[q]]
      /\ parent_esp' = Cut(base, q, n - 1)
      /\ cpu' = q
      /\ due' = [due EXCEPT ![q] = status]
  BY <1>0
<1> HIDE DEF stack
<1>6. frames' \in [Pid -> Seq(Frame)]
  <2> HIDE DEF q, n
  <2> QED BY <1>3, <1>4, <1>5, EmptySeq DEF TypeOK
<1>7. /\ schedule_esp' \in [Pid -> Nat] /\ cpu' \in Pid /\ due' \in [Pid -> Nat]
  <2> HIDE DEF q, n
  <2> QED BY <1>3, <1>5 DEF TypeOK
<1>8. /\ base \in [Pid -> Link]
      /\ \A c \in Pid : /\ base[c].pid = parent_esp[c].pid
                        /\ base[c].depth <= parent_esp[c].depth
                        /\ parent_esp[c].pid = cpu /\ q # cpu => base[c].depth <= 0
  <2>1. parent_esp \in [Pid -> Link] /\ \A c \in Pid : parent_esp[c].depth \in Nat
    BY DEF TypeOK, Link
  <2>2. CASE q = cpu
    BY <2>1, <2>2
  <2>3. CASE q # cpu
    <3>1. base = Cut(parent_esp, cpu, 0) /\ 0 \in Nat
      BY <2>3
    <3> HIDE DEF base, q
    <3> QED BY <3>1, <1>3, <2>1, CutLinks
  <2> QED BY <2>2, <2>3
<1> HIDE DEF base
<1>9. /\ parent_esp' \in [Pid -> Link]
      /\ \A c \in Pid : /\ parent_esp'[c].pid = base[c].pid
                        /\ parent_esp'[c].depth <= base[c].depth
                        /\ base[c].pid = q => parent_esp'[c].depth <= n - 1
  <2> HIDE DEF q, n
  <2> QED BY <1>3, <1>5, <1>8, CutLinks
<1>10. \A p \in Pid : /\ Len(frames[p]) \in Nat /\ Len(frames'[p]) \in Nat
                      /\ p # cpu /\ p # q => frames'[p] = frames[p]
  <2>1. \A p \in Pid : Len(frames[p]) \in Nat /\ Len(frames'[p]) \in Nat
    BY <1>6, LenProperties DEF TypeOK
  <2> HIDE DEF q, n
  <2> QED BY <2>1, <1>5 DEF TypeOK
<1>11. frames'[q] = stack
  <2> HIDE DEF q, n
  <2> QED BY <1>3, <1>5 DEF TypeOK
<1>12. ASSUME NEW p \in Pid
       PROVE  \/ schedule_esp'[p] <= Len(frames'[p])
              \/ /\ schedule_esp'[p] <= schedule_esp[p]
                 /\ Len(frames[p]) <= Len(frames'[p])
  <2>0. schedule_esp[p] \in Nat /\ schedule_esp'[p] \in Nat
    BY <1>7 DEF TypeOK
  <2>1. CASE p = q
    <3>1. schedule_esp'[p] = IF schedule_esp[q] >= n THEN 0 ELSE schedule_esp[q]
      <4> HIDE DEF q, n
      <4> QED BY <2>1, <1>5 DEF TypeOK
    <3>2. schedule_esp[q] \in Nat
      BY <1>3 DEF TypeOK
    <3>3. Len(frames'[p]) = n
      BY <2>1, <1>4, <1>11
    <3> HIDE DEF q, n
    <3> QED BY <3>1, <3>2, <3>3, <1>3
  <2>2. CASE p # q /\ p = cpu
    <3>1. schedule_esp'[p] = 0
      <4> HIDE DEF q, n
      <4> QED BY <2>2, <1>5 DEF TypeOK
    <3> QED BY <3>1, <1>10
  <2>3. CASE p # q /\ p # cpu
    <3>1. schedule_esp'[p] = schedule_esp[p]
      <4> HIDE DEF q, n
      <4> QED BY <2>3, <1>5 DEF TypeOK
    <3> QED BY <3>1, <2>0, <2>3, <1>10
  <2> QED BY <2>1, <2>2, <2>3
<1>13. ASSUME NEW p \in Pid
       PROVE  \/ parent_esp'[p].depth <= Len(frames'[parent_esp'[p].pid])
              \/ /\ parent_esp'[p].pid = parent_esp[p].pid
                 /\ parent_esp'[p].depth <= parent_esp[p].depth
                 /\ Len(frames[parent_esp[p].pid]) <= Len(frames'[parent_esp[p].pid])
  <2> DEFINE r == parent_esp[p].pid
  <2>0. /\ r \in Pid /\ parent_esp[p].depth \in Nat /\ parent_esp'[p].depth \in Nat
        /\ base[p].depth \in Nat
    BY <1>8, <1>9 DEF TypeOK, Link
  <2>1. /\ parent_esp'[p].pid = r
        /\ parent_esp'[p].depth <= parent_esp[p].depth
    BY <1>8, <1>9, <2>0
  <2>2. CASE r = q
    <3>1. parent_esp'[p].depth <= n - 1
      BY <1>8, <1>9, <2>2
    <3>2. Len(frames'[r]) = n
      BY <2>2, <1>4, <1>11
    <3> HIDE DEF n, q, r
    <3> QED BY <3>1, <3>2, <2>0, <2>1, <1>3
  <2>3. CASE r # q /\ r = cpu
    <3>1. parent_esp'[p].depth = 0
      BY <1>8, <1>9, <2>0, <2>3
    <3> HIDE DEF r
    <3> QED BY <3>1, <2>0, <2>1, <1>10
  <2>4. CASE r # q /\ r # cpu
    <3>1. frames'[r] = frames[r] /\ Len(frames[r]) \in Nat
      BY <1>10, <2>0, <2>4
    <3> QED BY <3>1, <2>1
  <2> QED BY <2>2, <2>3, <2>4
<1>14. ContextsInside'
  BY <1>6, <1>7, <1>9, <1>12, <1>13, InsideStays
<1>15. TypeOK'
  <2> HIDE DEF q, n
  <2> QED BY <1>1, <1>2, <1>6, <1>7, <1>9 DEF TypeOK, TablesType
<1> QED BY <1>2, <1>14, <1>15

\* halt keeps the invariant.
LEMMA HaltKeeps ==
    ASSUME IInv, NEW status \in Nat, halt(status)
    PROVE  IInv'
<1> USE DEF IInv
<1>1. CASE HaltRestarts
  BY <1>1, HaltRestartsKeeps
<1>2. CASE HaltReturns(status)
  BY <1>2, HaltReturnsKeeps
<1>3. CASE HaltLost(status)
  <2>1. CASE process_terminal_cnt[running_terminal] = 0 /\ UNCHANGED tables
    <3>1. UNCHANGED <<process, process_terminal, process_terminal_cnt>>
      BY <2>1 DEF tables
    <3>2. /\ UNCHANGED <<current_terminal, running_terminal, terminal_running,
                         parent_pid, parent_esp, schedule_esp, pending_signal,
                         sighandler, cpu, frames, due, eax, race>>
          /\ wild' = TRUE
      BY <1>3 DEF HaltLost, pcbs, machine, history
    <3>3. UNCHANGED <<mapped, esp0>> /\ retval' \in Nat
      BY <1>3, <2>1 DEF HaltLost, Release, TypeOK, machine
    <3>4. TypeOK'
      BY <3>1, <3>2, <3>3 DEF TypeOK
    <3>5. ContextsInside'
      BY <3>2 DEF ContextsInside
    <3>6. TablesAgree'
      BY <3>1 DEF TablesAgree, ListedOnce, ListedInUse, InUseListed, Live
    <3> QED BY <3>4, <3>5, <3>6
  <2>2. CASE \E victim \in Pid : Release(victim)
    <3>1. /\ TablesType' /\ TablesAgree'
          /\ mapped' \in Pid /\ esp0' \in Pid
      BY <2>2, ReleaseKeeps
    <3>2. /\ UNCHANGED <<current_terminal, running_terminal, terminal_running,
                         parent_pid, parent_esp, schedule_esp, pending_signal,
                         sighandler, cpu, frames, due, eax, race>>
          /\ wild' = TRUE
          /\ retval' \in Nat
      BY <1>3 DEF HaltLost, pcbs, machine, history, TypeOK
    <3>3. TypeOK'
      BY <3>1, <3>2 DEF TypeOK, TablesType
    <3>4. ContextsInside'
      BY <3>2 DEF ContextsInside
    <3> QED BY <3>1, <3>3, <3>4
  <2> QED BY <1>3, <2>1, <2>2 DEF HaltLost
<1> QED BY <1>1, <1>2, <1>3 DEF halt

-----------------------------------------------------------------------------
\* A tick that switches contexts.
LEMMA TickSwitchKeeps ==
    ASSUME IInv, TickSwitch
    PROVE  IInv'
<1> USE DEF IInv
<1> DEFINE saved  == [schedule_esp EXCEPT ![cpu] = Len(frames[cpu]) + 1]
           stacks == [frames EXCEPT ![cpu] = Append(@, "tick")]
<1>1. /\ cpu \in Pid /\ frames[cpu] \in Seq(Frame) /\ "tick" \in Frame
      /\ NumTerminals \in Nat \ {0}
  BY TerminalAssumption DEF TypeOK, Frame
<1>2. running_terminal' \in Terminal
  <2>1. PICK d \in 1 .. NumTerminals :
           running_terminal' = (running_terminal + d) % NumTerminals
    BY DEF TickSwitch
  <2>2. running_terminal \in Nat /\ d \in Nat
    BY <1>1 DEF TypeOK, Terminal
  <2> QED BY <1>1, <2>1, <2>2 DEF Terminal
<1>3. PICK next \in Pid :
         /\ Resume(next, saved, stacks) \/ ResumeLost(next, saved, stacks)
         /\ mapped' = next
         /\ esp0' = next
  BY DEF TickSwitch
<1>4. /\ race' \subseteq {"misfiled", "window"}
      /\ UNCHANGED <<process, process_terminal, process_terminal_cnt,
                     current_terminal, terminal_running, parent_pid,
                     pending_signal, sighandler, retval, due, eax>>
  BY DEF TickSwitch, WindowRace, TypeOK, tables
<1>5. TablesAgree'
  BY <1>4 DEF TablesAgree, ListedOnce, ListedInUse, InUseListed, Live
<1>6. /\ Append(frames[cpu], "tick") \in Seq(Frame)
      /\ Len(Append(frames[cpu], "tick")) = Len(frames[cpu]) + 1
      /\ Len(frames[cpu]) \in Nat
  BY <1>1, PushStack
<1>7. stacks \in [Pid -> Seq(Frame)] /\ saved \in [Pid -> Nat]
  BY <1>1, <1>6 DEF TypeOK
<1>8. \A p \in Pid : /\ Len(frames[p]) \in Nat /\ Len(stacks[p]) \in Nat
                     /\ Len(frames[p]) <= Len(stacks[p])
                     /\ saved[p] <= Len(stacks[p])
  <2> SUFFICES ASSUME NEW p \in Pid
               PROVE  /\ Len(frames[p]) \in Nat /\ Len(stacks[p]) \in Nat
                      /\ Len(frames[p]) <= Len(stacks[p])
                      /\ saved[p] <= Len(stacks[p])
    OBVIOUS
  <2>1. CASE p = cpu
    <3>1. stacks[p] = Append(frames[cpu], "tick") /\ saved[p] = Len(frames[cpu]) + 1
      BY <2>1 DEF TypeOK
    <3> HIDE DEF stacks, saved
    <3> QED BY <3>1, <2>1, <1>6
  <2>2. CASE p # cpu
    <3>1. stacks[p] = frames[p] /\ saved[p] = schedule_esp[p]
      BY <2>2 DEF TypeOK
    <3>2. Len(frames[p]) \in Nat
      BY LenProperties DEF TypeOK
    <3> HIDE DEF stacks, saved
    <3> QED BY <3>1, <3>2 DEF ContextsInside
  <2> QED BY <2>1, <2>2
<1> HIDE DEF saved, stacks
<1>9. CASE ResumeLost(next, saved, stacks)
  <2>1. frames' = stacks /\ schedule_esp' = saved /\ wild' = TRUE
        /\ parent_esp' = parent_esp /\ cpu' = cpu
    BY <1>9 DEF ResumeLost
  <2>2. ASSUME NEW p \in Pid
        PROVE  /\ parent_esp'[p].pid = parent_esp[p].pid
               /\ parent_esp'[p].depth <= parent_esp[p].depth
               /\ Len(frames[parent_esp[p].pid]) <= Len(frames'[parent_esp[p].pid])
    <3>1. parent_esp[p].pid \in Pid /\ parent_esp[p].depth \in Nat
      BY DEF TypeOK, Link
    <3> QED BY <3>1, <2>1, <1>8
  <2>3. parent_esp' \in [Pid -> Link]
    BY <2>1 DEF TypeOK
  <2>4. ContextsInside'
    BY <1>7, <1>8, <2>1, <2>2, <2>3, InsideStays
  <2>5. TypeOK'
    BY <1>2, <1>3, <1>4, <1>7, <2>1 DEF TypeOK
  <2> QED BY <1>5, <2>4, <2>5
<1>10. CASE Resume(next, saved, stacks)
  <2> DEFINE n     == saved[next]
             below == SubSeq(stacks[next], 1, n - 1)
             top   == IF pending_signal[next] THEN Append(below, "sig") ELSE below
  <2>1. /\ n \in Nat /\ n # 0 /\ n - 1 \in Nat /\ n - 1 <= Len(stacks[next])
        /\ stacks[next] \in Seq(Frame)
    BY <1>7, <1>8, <1>10 DEF Resume
  <2>2. below \in Seq(Frame) /\ Len(below) = n - 1
    <3> HIDE DEF n
    <3> QED BY <2>1, HeadOfStack
  <2>3. top \in Seq(Frame) /\ Len(top) \in Nat /\ n - 1 <= Len(top)
    <3>1. "sig" \in Frame
      BY DEF Frame
    <3> HIDE DEF n, below
    <3> QED BY <3>1, <2>1, <2>2, PushStack
  <2>4. /\ cpu' = next
        /\ frames' = [stacks EXCEPT ![next] = top]
        /\ schedule_esp' = [saved EXCEPT ![next] = 0]
        /\ parent_esp' = Cut(parent_esp, next, n - 1)
        /\ wild' = wild
    BY <1>10 DEF Resume
  <2>5. /\ parent_esp' \in [Pid -> Link]
        /\ \A c \in Pid : /\ parent_esp'[c].pid = parent_esp[c].pid
                          /\ parent_esp'[c].depth <= parent_esp[c].depth
                          /\ parent_esp[c].pid = next => parent_esp'[c].depth <= n - 1
    <3>1. parent_esp \in [Pid -> Link]
      BY DEF TypeOK
    <3> HIDE DEF n
    <3> QED BY <3>1, <2>1, <2>4, CutLinks
  <2> HIDE DEF top
  <2>6. frames' \in [Pid -> Seq(Frame)] /\ schedule_esp' \in [Pid -> Nat]
    BY <1>7, <2>3, <2>4
  <2>7. ASSUME NEW p \in Pid
        PROVE  schedule_esp'[p] <= Len(frames'[p])
    <3>1. CASE p = next
      BY <3>1, <1>7, <2>3, <2>4
    <3>2. CASE p # next
      BY <3>2, <1>7, <1>8, <2>4
    <3> QED BY <3>1, <3>2
  <2>8. ASSUME NEW p \in Pid
        PROVE  \/ parent_esp'[p].depth <= Len(frames'[parent_esp'[p].pid])
               \/ /\ parent_esp'[p].pid = parent_esp[p].pid
                  /\ parent_esp'[p].depth <= parent_esp[p].depth
                  /\ Len(frames[parent_esp[p].pid]) <= Len(frames'[parent_esp[p].pid])
    <3> DEFINE r == parent_esp[p].pid
    <3>1. r \in Pid /\ parent_esp[p].depth \in Nat /\ parent_esp'[p].depth \in Nat
      BY <2>5 DEF TypeOK, Link
    <3>2. CASE r = next
      <4>1. parent_esp'[p].pid = next /\ parent_esp'[p].depth <= n - 1
        BY <3>2, <2>5
      <4>2. frames'[next] = top
        BY <1>7, <2>4
      <4> HIDE DEF n
      <4> QED BY <4>1, <4>2, <3>1, <2>1, <2>3
    <3>3. CASE r # next
      <4>1. frames'[r] = stacks[r]
        BY <3>1, <3>3, <1>7, <2>4
      <4> HIDE DEF n
      <4> QED BY <4>1, <3>1, <1>8, <2>5
    <3> QED BY <3>2, <3>3
  <2>9. ContextsInside'
    BY <2>5, <2>6, <2>7, <2>8, InsideStays
  <2>10. TypeOK'
    BY <1>2, <1>3, <1>4, <2>4, <2>5, <2>6 DEF TypeOK
  <2> QED BY <1>5, <2>9, <2>10
<1> QED BY <1>3, <1>9, <1>10

-----------------------------------------------------------------------------
\* The boot state satisfies the invariant.
LEMMA InitHolds == Init => IInv
<1> SUFFICES ASSUME Init PROVE IInv
  OBVIOUS
<1>1. 0 \in Pid /\ 0 \in Terminal
  BY TaskAssumption, TerminalAssumption DEF Pid, Terminal
<1>2. /\ <<"sw">> \in Seq(Frame) /\ <<>> \in Seq(Frame)
      /\ Len(<<"sw">>) = 1 /\ Len(<<>>) = 0
  BY DEF Frame
<1>3. process_terminal \in [Terminal -> [Slot -> Pid]]
  BY <1>1 DEF Init
<1>4. process_terminal_cnt \in [Terminal -> 0 .. MaxTask]
  BY TaskAssumption DEF Init
<1>5. parent_esp \in [Pid -> Link]
  BY <1>1 DEF Init, Link
<1>6. frames \in [Pid -> Seq(Frame)]
  BY <1>2 DEF Init
<1>7. TypeOK
  BY <1>1, <1>3, <1>4, <1>5, <1>6 DEF Init, TypeOK
<1>8. ContextsInside
  BY <1>1, <1>2 DEF Init, ContextsInside
<1>9. TablesAgree
  BY DEF Init, TablesAgree, ListedOnce, ListedInUse, InUseListed, Live, Slot
<1> QED BY <1>7, <1>8, <1>9 DEF IInv

\* A step that leaves the tables alone leaves them in agreement.
LEMMA SameTables ==
    ASSUME TablesAgree, UNCHANGED tables
    PROVE  TablesAgree'
  BY DEF TablesAgree, ListedOnce, ListedInUse, InUseListed, Live, tables

\* Every step keeps the invariant.
LEMMA NextKeeps == IInv /\ [Next]_vars => IInv'
<1> SUFFICES ASSUME IInv, [Next]_vars PROVE IInv'
  OBVIOUS
<1> USE DEF IInv
<1>0. cpu \in Pid /\ frames[cpu] \in Seq(Frame)
  BY DEF TypeOK
<1>1. CASE Execute
  BY <1>1, SpawnKeeps DEF Execute
<1>2. CASE SwitchExecute
  BY <1>2, SpawnKeeps DEF SwitchExecute
<1>3. CASE SwitchExecuteFails
  <2>1. frames[cpu] # <<>>
    BY <1>3 DEF SwitchExecuteFails, Top
  <2>2. Below(frames[cpu]) \in Seq(Frame) /\ Pop(Below(frames[cpu]))
    BY <1>0, <1>3, <2>1, BelowStack DEF SwitchExecuteFails
  <2>3. /\ frames' \in [Pid -> Seq(Frame)] /\ schedule_esp' \in [Pid -> Nat]
        /\ parent_esp' \in [Pid -> Link] /\ ContextsInside'
    BY <2>2, PopInside
  <2>4. TypeOK'
    BY <1>3, <2>3 DEF TypeOK, SwitchExecuteFails, tables, history
  <2> QED BY <1>3, <2>3, <2>4, SameTables DEF SwitchExecuteFails
<1>4. CASE HaltExecute
  BY <1>4, SpawnKeeps DEF HaltExecute
<1>5. CASE ExecuteReturns
  <2> DEFINE below == Below(frames[cpu])
             rest  == IF Top(below) = "sw" THEN Below(below) ELSE below
  <2>1. frames[cpu] # <<>>
    BY <1>5 DEF ExecuteReturns, Top
  <2>2. below \in Seq(Frame)
    BY <1>0, <2>1, BelowStack
  <2>3. rest \in Seq(Frame)
    <3>1. CASE Top(below) = "sw"
      <4>1. below # <<>>
        BY <3>1 DEF Top
      <4> HIDE DEF below
      <4> QED BY <3>1, <4>1, <2>2, BelowStack
    <3>2. CASE Top(below) # "sw"
      BY <3>2, <2>2
    <3> QED BY <3>1, <3>2
  <2>4. Pop(rest)
    BY <1>5 DEF ExecuteReturns
  <2>5. /\ frames' \in [Pid -> Seq(Frame)] /\ schedule_esp' \in [Pid -> Nat]
        /\ parent_esp' \in [Pid -> Link] /\ ContextsInside'
    <3> HIDE DEF rest
    <3> QED BY <2>3, <2>4, PopInside
  <2>6. TypeOK'
    BY <1>5, <2>5 DEF TypeOK, ExecuteReturns, tables, EXCEPTION_RET
  <2> QED BY <1>5, <2>5, <2>6, SameTables DEF ExecuteReturns
<1>6. CASE \E st \in Status : Halt(st)
  <2>1. PICK st \in Status : halt(st)
    BY <1>6 DEF Halt
  <2>2. st \in Nat
    BY StatusAssumption
  <2> QED BY <2>1, <2>2, HaltKeeps
<1>7. CASE Exception
  <2>1. "exc" \in Frame
    BY DEF Frame
  <2>2. /\ frames' = [frames EXCEPT ![cpu] = Append(@, "exc")]
        /\ schedule_esp' = schedule_esp /\ parent_esp' = parent_esp
    BY <1>7 DEF Exception, pcbs
  <2>3. frames' \in [Pid -> Seq(Frame)] /\ ContextsInside'
    BY <2>1, <2>2, PushInside
  <2>4. TypeOK'
    BY <1>7, <2>3 DEF TypeOK, Exception, tables, pcbs, history
  <2> QED BY <1>7, <2>3, <2>4, SameTables DEF Exception
<1>8. CASE SetHandler
  <2>1. TypeOK'
    BY <1>8 DEF TypeOK, SetHandler, tables, machine, history
  <2>2. ContextsInside'
    BY <1>8 DEF ContextsInside, SetHandler, machine
  <2> QED BY <1>8, <2>1, <2>2, SameTables DEF SetHandler
<1>9. CASE TickSwitch
  BY <1>9, TickSwitchKeeps
<1>10. CASE TickSignal
  <2>1. "sig" \in Frame
    BY DEF Frame
  <2>2. /\ frames' = [frames EXCEPT ![cpu] = Append(@, "sig")]
        /\ schedule_esp' = schedule_esp /\ parent_esp' = parent_esp
    BY <1>10 DEF TickSignal, pcbs
  <2>3. frames' \in [Pid -> Seq(Frame)] /\ ContextsInside'
    BY <2>1, <2>2, PushInside
  <2>4. TypeOK'
    BY <1>10, <2>3 DEF TypeOK, TickSignal, WindowRace, tables, pcbs
  <2> QED BY <1>10, <2>3, <2>4, SameTables DEF TickSignal
<1>11. CASE SignalHalts
  BY <1>11, HaltKeeps DEF SignalHalts
<1>12. CASE SignalHandled
  <2>1. frames[cpu] # <<>>
    BY <1>12 DEF SignalHandled, Top
  <2>2. Below(frames[cpu]) \in Seq(Frame) /\ Pop(Below(frames[cpu]))
    BY <1>0, <1>12, <2>1, BelowStack DEF SignalHandled
  <2>3. /\ frames' \in [Pid -> Seq(Frame)] /\ schedule_esp' \in [Pid -> Nat]
        /\ parent_esp' \in [Pid -> Link] /\ ContextsInside'
    BY <2>2, PopInside
  <2>4. pending_signal' \in [Pid -> BOOLEAN]
    BY <1>0, <1>12 DEF TypeOK, SignalHandled
  <2>5. TypeOK'
    BY <1>12, <2>3, <2>4 DEF TypeOK, SignalHandled, tables, history
  <2> QED BY <1>12, <2>3, <2>5, SameTables DEF SignalHandled
<1>13. CASE CtrlC
  <2>1. pending_signal' \in [Pid -> BOOLEAN] /\ wild' \in BOOLEAN
    BY <1>13 DEF TypeOK, CtrlC
  <2>2. TypeOK'
    BY <1>13, <2>1 DEF TypeOK, CtrlC, WindowRace, tables, machine
  <2>3. ContextsInside'
    BY <1>13 DEF ContextsInside, CtrlC, machine
  <2> QED BY <1>13, <2>2, <2>3, SameTables DEF CtrlC
<1>14. CASE \E t \in Terminal : SwitchToRunning(t)
  <2>1. TypeOK'
    BY <1>14 DEF TypeOK, SwitchToRunning, tables, pcbs, machine, history
  <2>2. ContextsInside'
    BY <1>14 DEF ContextsInside, SwitchToRunning, pcbs, machine
  <2> QED BY <1>14, <2>1, <2>2, SameTables DEF SwitchToRunning
<1>15. CASE \E t \in Terminal : SwitchToNew(t)
  <2>1. "sw" \in Frame
    BY DEF Frame
  <2>2. /\ frames' = [frames EXCEPT ![cpu] = Append(@, "sw")]
        /\ schedule_esp' = [schedule_esp EXCEPT ![cpu] = Len(frames[cpu]) + 1]
        /\ parent_esp' = parent_esp
    BY <1>15 DEF SwitchToNew
  <2>3. /\ frames' \in [Pid -> Seq(Frame)] /\ schedule_esp' \in [Pid -> Nat]
        /\ ContextsInside'
    BY <2>1, <2>2, PushInside
  <2>4. TypeOK'
    BY <1>15, <2>3 DEF TypeOK, SwitchToNew, WindowRace, tables
  <2> QED BY <1>15, <2>3, <2>4, SameTables DEF SwitchToNew
<1>16. CASE UNCHANGED vars
  <2>1. TypeOK'
    BY <1>16 DEF TypeOK, vars, tables, pcbs, machine, history
  <2>2. ContextsInside'
    BY <1>16 DEF ContextsInside, vars, pcbs, machine
  <2> QED BY <1>16, <2>1, <2>2, SameTables DEF vars
<1> QED
  BY <1>1, <1>2, <1>3, <1>4, <1>5, <1>6, <1>7, <1>8, <1>9, <1>10, <1>11, <1>12,
     <1>13, <1>14, <1>15, <1>16 DEF Next

\* The variables keep their types: in particular process_terminal_cnt never
\* exceeds MAX_TASK, so execute never writes past a row of process_terminal,
\* however many races misfile processes.
THEOREM TypeCorrect == Spec => []TypeOK
<1>1. IInv => TypeOK
  BY DEF IInv
<1> QED BY <1>1, InitHolds, NextKeeps, PTL DEF Spec

\* process[] and process_terminal always agree: the pids in use are exactly the
\* pids in live slots, each in one slot; no pid leaks and none is used twice.
THEOREM TablesAlwaysAgree == Spec => []TablesAgree
<1>1. IInv => TablesAgree
  BY DEF IInv
<1> QED BY <1>1, InitHolds, NextKeeps, PTL DEF Spec

\* No live saved context points outside the stack it names.
THEOREM ContextsAlwaysInside == Spec => []ContextsInside
<1>1. IInv => ContextsInside
  BY DEF IInv
<1> QED BY <1>1, InitHolds, NextKeeps, PTL DEF Spec

-----------------------------------------------------------------------------
\* A row of process_terminal as a sequence.
Row(row, n) == [i \in 1 .. n |-> row[i - 1]]

LEMMA RowIsSeq ==
    ASSUME NEW row \in [Slot -> Pid], NEW n \in 0 .. MaxTask
    PROVE  /\ Row(row, n) \in Seq(Pid) /\ Len(Row(row, n)) = n
           /\ \A i \in 1 .. n : Row(row, n)[i] = row[i - 1]
<1>1. n \in Nat /\ MaxTask \in Nat
  BY TaskAssumption
<1>2. \A i \in 1 .. n : i - 1 \in Slot
  BY <1>1 DEF Slot
<1>3. Row(row, n) \in [1 .. n -> Pid]
  BY <1>2 DEF Row
<1>4. Row(row, n) \in Seq(Pid)
  BY <1>1, <1>3
<1>5. Len(Row(row, n)) = n
  BY <1>1, <1>3, <1>4, LenProperties
<1> QED BY <1>4, <1>5 DEF Row

\* A pid is on a stack exactly when it is in use.
LEMMA OnStackInUse ==
    ASSUME IInv, NEW p \in Pid PROVE Stacks!OnStack(p) <=> process[p]
<1>1. \A t \in Terminal : /\ process_terminal[t] \in [Slot -> Pid]
                          /\ process_terminal_cnt[t] \in 0 .. MaxTask
  BY DEF IInv, TypeOK
<1>2. Stacks!OnStack(p) <=> \E t \in Terminal : \E i \in 1 .. Len(Row(process_terminal[t], process_terminal_cnt[t])) :
                              Row(process_terminal[t], process_terminal_cnt[t])[i] = p
  BY DEF Stacks!OnStack, Row
<1>3. Stacks!OnStack(p) <=> \E t \in Terminal : \E i \in 1 .. process_terminal_cnt[t] :
                              process_terminal[t][i - 1] = p
  <2>1. ASSUME NEW t \in Terminal
        PROVE  /\ Len(Row(process_terminal[t], process_terminal_cnt[t])) = process_terminal_cnt[t]
               /\ \A i \in 1 .. process_terminal_cnt[t] :
                     Row(process_terminal[t], process_terminal_cnt[t])[i] = process_terminal[t][i - 1]
    BY <1>1, RowIsSeq
  <2> QED BY <1>2, <2>1
<1>4. ASSUME process[p] PROVE Stacks!OnStack(p)
  <2>1. PICK t \in Terminal, i \in Slot : Live(t, i) /\ process_terminal[t][i] = p
    BY <1>4 DEF IInv, TablesAgree, InUseListed
  <2>2. i + 1 \in 1 .. process_terminal_cnt[t] /\ (i + 1) - 1 = i
    BY <1>1, <2>1, TaskAssumption DEF Live, Slot
  <2>3. process_terminal[t][(i + 1) - 1] = p
    BY <2>1, <2>2
  <2> QED BY <1>3, <2>2, <2>3
<1>5. ASSUME NEW t \in Terminal, NEW i \in 1 .. process_terminal_cnt[t],
             process_terminal[t][i - 1] = p
      PROVE  process[p]
  <2>1. i - 1 \in Slot /\ Live(t, i - 1)
    BY <1>1, TaskAssumption DEF Live, Slot
  <2> QED BY <1>5, <2>1 DEF IInv, TablesAgree, ListedInUse
<1> QED BY <1>3, <1>4, <1>5

\* execute pushes the lowest free pid on the stack of current_terminal.
LEMMA SpawnStarts ==
    ASSUME IInv, NEW new \in Pid, NEW waits \in BOOLEAN, Spawn(new, waits)
    PROVE  \E t \in Terminal : Stacks!Start(t)
<1> DEFINE t == current_terminal
           c == process_terminal_cnt[current_terminal]
           R(u) == Row(process_terminal[u], process_terminal_cnt[u])
           S(u) == Row(process_terminal'[u], process_terminal_cnt'[u])
<1>1. /\ process_terminal \in [Terminal -> [Slot -> Pid]] /\ t \in Terminal
      /\ process_terminal_cnt \in [Terminal -> 0 .. MaxTask] /\ TablesType /\ TablesAgree
  BY DEF IInv, TypeOK, TablesType
<1>2. /\ ~process[new] /\ \A q \in Pid : q < new => process[q]
      /\ process_terminal' = [process_terminal EXCEPT ![t][c] = new]
      /\ process_terminal_cnt' = [process_terminal_cnt EXCEPT ![t] = c + 1]
  BY DEF Spawn, LowestFree
<1>3. c < MaxTask /\ c \in Slot /\ c \in Nat /\ c + 1 \in 0 .. MaxTask
  <2>1. c < MaxTask
    BY <1>1, <1>2, RowHasRoom
  <2> QED BY <1>1, <2>1, TaskAssumption DEF Slot
<1>4. /\ process_terminal'[t] = [process_terminal[t] EXCEPT ![c] = new]
      /\ process_terminal_cnt'[t] = c + 1
      /\ \A u \in Terminal : u # t => /\ process_terminal'[u] = process_terminal[u]
                                      /\ process_terminal_cnt'[u] = process_terminal_cnt[u]
  BY <1>1, <1>2
<1>5. S(t) = Append(R(t), new)
  <2>1. /\ R(t) \in Seq(Pid) /\ Len(R(t)) = c
        /\ \A i \in 1 .. c : R(t)[i] = process_terminal[t][i - 1]
    BY <1>1, RowIsSeq
  <2>2. /\ S(t) \in Seq(Pid) /\ Len(S(t)) = c + 1
        /\ \A i \in 1 .. (c + 1) : S(t)[i] = process_terminal'[t][i - 1]
    <3>1. process_terminal'[t] \in [Slot -> Pid]
      BY <1>1, <1>3, <1>4
    <3>2. /\ Row(process_terminal'[t], c + 1) \in Seq(Pid) /\ Len(Row(process_terminal'[t], c + 1)) = c + 1
          /\ \A i \in 1 .. (c + 1) : Row(process_terminal'[t], c + 1)[i] = process_terminal'[t][i - 1]
      BY <1>3, <3>1, RowIsSeq
    <3> QED BY <1>4, <3>2
  <2> HIDE DEF R, S
  <2>3. /\ Append(R(t), new) \in Seq(Pid) /\ Len(Append(R(t), new)) = c + 1
        /\ \A i \in 1 .. c : Append(R(t), new)[i] = R(t)[i]
        /\ Append(R(t), new)[c + 1] = new
    BY <2>1, AppendProperties
  <2>4. ASSUME NEW i \in 1 .. (c + 1) PROVE S(t)[i] = Append(R(t), new)[i]
    <3>1. CASE i = c + 1
      <4>1. i - 1 = c
        BY <1>3, <3>1
      <4>2. process_terminal'[t][c] = new
        BY <1>1, <1>3, <1>4
      <4> QED BY <2>2, <2>3, <3>1, <4>1, <4>2
    <3>2. CASE i # c + 1
      <4>1. i \in 1 .. c /\ i - 1 # c
        BY <1>3, <3>2
      <4>2. process_terminal'[t][i - 1] = process_terminal[t][i - 1]
        BY <1>1, <1>3, <1>4, <4>1
      <4> QED BY <2>1, <2>2, <2>3, <4>1, <4>2
    <3> QED BY <3>1, <3>2
  <2> QED BY <2>2, <2>3, <2>4, SeqEqual
<1>6. [u \in Terminal |-> S(u)] = [[u \in Terminal |-> R(u)] EXCEPT ![t] = Append(@, new)]
  <2>1. \A u \in Terminal : u # t => S(u) = R(u)
    BY <1>4
  <2> HIDE DEF R, S
  <2> QED BY <1>1, <1>5, <2>1
<1>7. ~Stacks!OnStack(new) /\ \A q \in Pid : q < new => Stacks!OnStack(q)
  BY <1>2, OnStackInUse
<1> QED BY <1>1, <1>6, <1>7 DEF Stacks!Start, Row

\* halt pops the stack of running_terminal.
LEMMA ReleaseEnds ==
    ASSUME IInv, NEW victim \in Pid, Release(victim)
    PROVE  \E t \in Terminal : Stacks!End(t)
<1> DEFINE t == running_terminal
           c == process_terminal_cnt[running_terminal]
           R(u) == Row(process_terminal[u], process_terminal_cnt[u])
           S(u) == Row(process_terminal'[u], process_terminal_cnt'[u])
<1>1. /\ process_terminal \in [Terminal -> [Slot -> Pid]] /\ t \in Terminal /\ 0 \in Pid
      /\ process_terminal_cnt \in [Terminal -> 0 .. MaxTask]
  <2>1. 0 \in Pid
    BY TaskAssumption DEF Pid
  <2> QED BY <2>1 DEF IInv, TypeOK
<1>2. /\ c # 0
      /\ process_terminal' = [process_terminal EXCEPT ![t][c - 1] = 0]
      /\ process_terminal_cnt' = [process_terminal_cnt EXCEPT ![t] = c - 1]
  BY DEF Release
<1>3. c \in Nat /\ c - 1 \in Slot /\ c - 1 \in Nat /\ c - 1 \in 0 .. MaxTask
  BY <1>1, <1>2, TaskAssumption DEF Slot
<1>4. /\ process_terminal'[t] = [process_terminal[t] EXCEPT ![c - 1] = 0]
      /\ process_terminal_cnt'[t] = c - 1
      /\ \A u \in Terminal : u # t => /\ process_terminal'[u] = process_terminal[u]
                                      /\ process_terminal_cnt'[u] = process_terminal_cnt[u]
  BY <1>1, <1>2
<1>5. /\ R(t) \in Seq(Pid) /\ Len(R(t)) = c
      /\ \A i \in 1 .. c : R(t)[i] = process_terminal[t][i - 1]
  BY <1>1, RowIsSeq
<1>6. S(t) = SubSeq(R(t), 1, Len(R(t)) - 1) /\ R(t) # <<>>
  <2>2. /\ S(t) \in Seq(Pid) /\ Len(S(t)) = c - 1
        /\ \A i \in 1 .. (c - 1) : S(t)[i] = process_terminal'[t][i - 1]
    <3>1. process_terminal'[t] \in [Slot -> Pid]
      BY <1>1, <1>3, <1>4
    <3>2. /\ Row(process_terminal'[t], c - 1) \in Seq(Pid) /\ Len(Row(process_terminal'[t], c - 1)) = c - 1
          /\ \A i \in 1 .. (c - 1) : Row(process_terminal'[t], c - 1)[i] = process_terminal'[t][i - 1]
      BY <1>3, <3>1, RowIsSeq
    <3> QED BY <1>4, <3>2
  <2> HIDE DEF R, S
  <2>3. \A i \in 1 .. (c - 1) : R(t)[i] \in Pid
    BY <1>3, <1>5, ElementOfSeq
  <2>4. /\ SubSeq(R(t), 1, c - 1) \in Seq(Pid)
        /\ Len(SubSeq(R(t), 1, c - 1)) = c - 1
        /\ \A i \in 1 .. (c - 1) : SubSeq(R(t), 1, c - 1)[i] = R(t)[i]
    BY <1>3, <2>3, SubSeqProperties
  <2>5. ASSUME NEW i \in 1 .. (c - 1) PROVE S(t)[i] = SubSeq(R(t), 1, c - 1)[i]
    <3>1. i \in 1 .. c /\ i - 1 # c - 1
      BY <1>3
    <3>2. process_terminal'[t][i - 1] = process_terminal[t][i - 1]
      BY <1>1, <1>3, <1>4, <3>1
    <3> QED BY <1>5, <2>2, <2>4, <3>1, <3>2
  <2>6. S(t) = SubSeq(R(t), 1, c - 1)
    BY <2>2, <2>4, <2>5, SeqEqual
  <2> QED BY <1>2, <1>5, <2>6, EmptySeq
<1>7. [u \in Terminal |-> S(u)] =
         [[u \in Terminal |-> R(u)] EXCEPT ![t] = SubSeq(@, 1, Len(@) - 1)]
  <2>1. \A u \in Terminal : u # t => S(u) = R(u)
    BY <1>4
  <2> HIDE DEF R, S
  <2> QED BY <1>1, <1>6, <2>1
<1> QED BY <1>1, <1>6, <1>7 DEF Stacks!End, Row

LEMMA InitStacks == Init => Stacks!Init
<1> SUFFICES ASSUME Init PROVE Stacks!Init
  OBVIOUS
<1>1. \A t \in Terminal : Row(process_terminal[t], process_terminal_cnt[t]) = <<>>
  <2> SUFFICES ASSUME NEW t \in Terminal
               PROVE  Row(process_terminal[t], process_terminal_cnt[t]) = <<>>
    OBVIOUS
  <2>1. process_terminal[t] \in [Slot -> Pid] /\ process_terminal_cnt[t] = 0 /\ 0 \in 0 .. MaxTask
    BY TaskAssumption DEF Init, Slot, Pid
  <2>2. Row(process_terminal[t], 0) \in Seq(Pid) /\ Len(Row(process_terminal[t], 0)) = 0
    BY <2>1, RowIsSeq
  <2> QED BY <2>1, <2>2, EmptySeq
<1> QED BY <1>1 DEF Stacks!Init, Row

LEMMA NextStacks ==
    ASSUME IInv, [Next]_vars
    PROVE  \/ Stacks!Next
           \/ UNCHANGED tables
<1>1. CASE Execute \/ SwitchExecute \/ HaltExecute
  BY <1>1, SpawnStarts DEF Execute, SwitchExecute, HaltExecute, Stacks!Next
<1>2. \A st : halt(st) => Stacks!Next \/ UNCHANGED tables
  BY ReleaseEnds DEF halt, HaltRestarts, HaltReturns, HaltLost, Stacks!Next
<1>3. CASE SignalHalts \/ \E s \in Status : Halt(s)
  BY <1>2, <1>3 DEF SignalHalts, Halt
<1>4. CASE \/ SwitchExecuteFails \/ ExecuteReturns \/ Exception \/ SetHandler \/ SignalHandled
           \/ TickSwitch \/ TickSignal \/ CtrlC \/ UNCHANGED vars
           \/ \E t \in Terminal : SwitchToRunning(t) \/ SwitchToNew(t)
  BY <1>4 DEF SwitchExecuteFails, ExecuteReturns, Exception, SetHandler, SignalHandled,
              SwitchToRunning, SwitchToNew, TickSwitch, TickSignal, CtrlC, vars
<1> QED BY <1>1, <1>3, <1>4 DEF Next

\* The kernel implements one stack of processes per terminal: execute pushes the
\* lowest free pid on the terminal on the screen, halt pops the terminal that
\* runs, and no tick, key or signal moves a process.
THEOREM StacksImplemented == Spec => ImplementsStacks
<1>1. Init => Stacks!Init
  BY InitStacks
<1>2. IInv /\ [Next]_vars => [Stacks!Next]_[t \in Terminal |->
                 [i \in 1 .. process_terminal_cnt[t] |-> process_terminal[t][i - 1]]]
  <2> SUFFICES ASSUME IInv, [Next]_vars, UNCHANGED tables
               PROVE  UNCHANGED [t \in Terminal |->
                 [i \in 1 .. process_terminal_cnt[t] |-> process_terminal[t][i - 1]]]
    BY NextStacks
  <2> QED BY DEF tables
<1> QED BY <1>1, <1>2, InitHolds, NextKeeps, PTL DEF Spec, ImplementsStacks, Stacks!Spec

-----------------------------------------------------------------------------
(***************************************************************************)
(* What a kernel without races guarantees, for every number of pids and    *)
(* terminals: the CPU runs the process on top of the running terminal in   *)
(* its own page and on its own stack, every other started terminal can be  *)
(* resumed, every parent waits where halt jumps to, and control is never   *)
(* lost.  These hold together or not at all: a tick resumes the right      *)
(* context because it was saved by the process that Isolation names, and   *)
(* halt finds the parent because no step touched the stack it waits on.    *)
(***************************************************************************)

\* The stacks of a process that runs: in user mode, back in execute or in
\* print_exception, and a signal may have come on top.
Plain == {<<>>, <<"ret">>, <<"exc">>}
Signalled == {<<"sig">>, <<"ret", "sig">>, <<"exc", "sig">>}
Switching == {<<"sw">>, <<"ret", "sw">>, <<"exc", "sw">>}

\* n names the frame above a plain stack.
Above(s, n) == n = 1 \/ (n = 2 /\ s[1] \in {"ret", "exc"})

\* Every process but the top one of its terminal waits in execute for the one
\* above it.
Waiting ==
    \A t \in Terminal : \A i \in Slot \ {0} :
        Live(t, i) =>
            /\ parent_pid[process_terminal[t][i]] = process_terminal[t][i - 1]
            /\ parent_esp[process_terminal[t][i]] =
                   [pid |-> process_terminal[t][i - 1], depth |-> 1]
            /\ frames[process_terminal[t][i - 1]] = <<"exec">>

\* A started terminal that does not run has a process with a saved context.
Saved ==
    \A t \in Terminal : t # running_terminal /\ terminal_running[t] =>
        /\ process_terminal_cnt[t] # 0
        /\ Above(frames[TopOf(t)], schedule_esp[TopOf(t)])

Started ==
    /\ terminal_running[running_terminal]
    /\ terminal_running[current_terminal]
    /\ \A t \in Terminal : process_terminal_cnt[t] # 0 => terminal_running[t]

\* Where the CPU is: in the top process of the running terminal, ...
Runs ==
    /\ process_terminal_cnt[running_terminal] # 0
    /\ cpu = TopOf(running_terminal) /\ mapped = cpu /\ esp0 = cpu
    /\ frames[cpu] \in Plain \cup Signalled

\* ... in halt, about to start a shell, ...
Halts ==
    /\ frames[cpu] = <<"halt">>
    /\ process_terminal_cnt[running_terminal] = 0
    /\ ~process[cpu]

\* ... in init_terminal, ...
Boots ==
    /\ frames[cpu] = <<"sw">>
    /\ process_terminal_cnt[running_terminal] = 0
    /\ cpu = 0 /\ \A p \in Pid : ~process[p]

\* ... or in switch_to_terminal, on the stack of the terminal that ran.
Opens ==
    /\ frames[cpu] \in Switching
    /\ process_terminal_cnt[running_terminal] = 0
    /\ \E p \in Pid : ~process[p]
    /\ \E t \in Terminal : /\ t # running_terminal
                           /\ process_terminal_cnt[t] # 0 /\ cpu = TopOf(t)

\* pid 0 is only ever the first process of a terminal, and is free only while
\* its own halt, or boot, is about to take it again.
First ==
    /\ \A t \in Terminal : \A i \in Slot \ {0} : Live(t, i) => process_terminal[t][i] # 0
    /\ ~process[0] => cpu = 0 /\ (Halts \/ Boots)

Quiet == /\ ~wild /\ Waiting /\ Saved /\ Started
         /\ Runs \/ Halts \/ Boots \/ Opens
         /\ First

JInv == IInv /\ (race = {} => Quiet)

-----------------------------------------------------------------------------
(***************************************************************************)
(* Facts about the tables.                                                 *)
(***************************************************************************)
LEMMA TopLives ==
    ASSUME IInv, NEW t \in Terminal, process_terminal_cnt[t] # 0
    PROVE  /\ TopOf(t) \in Pid /\ process[TopOf(t)]
           /\ process_terminal_cnt[t] - 1 \in Slot /\ Live(t, process_terminal_cnt[t] - 1)
           /\ TopOf(t) = process_terminal[t][process_terminal_cnt[t] - 1]
  <1>1. process_terminal_cnt[t] \in 0 .. MaxTask /\ process_terminal[t] \in [Slot -> Pid]
    BY DEF IInv, TypeOK
  <1>2. process_terminal_cnt[t] - 1 \in Slot /\ Live(t, process_terminal_cnt[t] - 1)
    BY <1>1, TaskAssumption DEF Slot, Live
  <1> QED BY <1>1, <1>2 DEF TopOf, IInv, TablesAgree, ListedInUse

LEMMA TopsDiffer ==
    ASSUME IInv, NEW t \in Terminal, NEW u \in Terminal, t # u,
           process_terminal_cnt[t] # 0, process_terminal_cnt[u] # 0
    PROVE  TopOf(t) # TopOf(u)
  BY TopLives DEF IInv, TablesAgree, ListedOnce

\* A process that is not on top.
LEMMA BelowTop ==
    ASSUME IInv, NEW t \in Terminal, NEW i \in Slot \ {0}, Live(t, i)
    PROVE  /\ i - 1 \in Slot /\ Live(t, i - 1) /\ process_terminal_cnt[t] # 0
           /\ process_terminal[t][i] \in Pid /\ process_terminal[t][i - 1] \in Pid
           /\ process[process_terminal[t][i]] /\ process[process_terminal[t][i - 1]]
           /\ \A u \in Terminal : process_terminal_cnt[u] # 0 =>
                 process_terminal[t][i - 1] # TopOf(u)
  <1>1. process_terminal_cnt[t] \in 0 .. MaxTask /\ process_terminal[t] \in [Slot -> Pid]
        /\ i \in Nat /\ i # 0 /\ i < process_terminal_cnt[t]
    BY TaskAssumption DEF IInv, TypeOK, Slot, Live
  <1>2. i - 1 \in Slot /\ Live(t, i - 1) /\ process_terminal_cnt[t] # 0
    BY <1>1, TaskAssumption DEF Slot, Live
  <1>3. /\ process_terminal[t][i] \in Pid /\ process_terminal[t][i - 1] \in Pid
        /\ process[process_terminal[t][i]] /\ process[process_terminal[t][i - 1]]
    BY <1>1, <1>2 DEF IInv, TablesAgree, ListedInUse
  <1>4. ASSUME NEW u \in Terminal, process_terminal_cnt[u] # 0,
               process_terminal[t][i - 1] = TopOf(u)
        PROVE  FALSE
    <2>1. t = u /\ i - 1 = process_terminal_cnt[u] - 1
      BY <1>2, <1>4, TopLives DEF IInv, TablesAgree, ListedOnce
    <2> QED BY <1>1, <2>1
  <1> QED BY <1>2, <1>3, <1>4

\* The process that runs is in use, so pid 0 is.
LEMMA RunsInUse ==
    ASSUME IInv, Quiet, Runs \/ Opens
    PROVE  cpu \in Pid /\ process[cpu] /\ process[0]
  <1>1. cpu \in Pid /\ process[cpu] /\ running_terminal \in Terminal
    BY TopLives DEF Runs, Opens, IInv, TypeOK
  <1>2. ~Halts /\ ~Boots
    BY <1>1 DEF Halts, Boots
  <1> QED BY <1>1, <1>2 DEF Quiet, First
-----------------------------------------------------------------------------
(***************************************************************************)
(* Facts about the stacks.                                                 *)
(***************************************************************************)
LEMMA TopFrames ==
    /\ \A s \in Plain : Top(s) \in {"user", "ret", "exc"}
    /\ \A s \in Signalled : Top(s) = "sig"
    /\ \A s \in Switching : Top(s) = "sw"
    /\ Top(<<"halt">>) = "halt"
    /\ \A s \in Plain : Top(s) = "ret" => s = <<"ret">>
  BY DEF Plain, Signalled, Switching, Top

LEMMA OneFrame ==
    ASSUME NEW s \in Seq(Frame), Len(s) = 1 PROVE s = <<s[1]>>
  OBVIOUS

LEMMA TwoFrames ==
    ASSUME NEW s \in Seq(Frame), Len(s) = 2 PROVE s = <<s[1], s[2]>>
  OBVIOUS

LEMMA PlainStacks ==
    ASSUME NEW s \in Plain
    PROVE  /\ s \in Seq(Frame) /\ Len(s) \in {0, 1}
           /\ s = <<>> \/ (Len(s) = 1 /\ s[1] \in {"ret", "exc"})
  <1>1. /\ <<>> \in Seq(Frame) /\ <<"ret">> \in Seq(Frame) /\ <<"exc">> \in Seq(Frame)
        /\ Len(<<>>) = 0 /\ Len(<<"ret">>) = 1 /\ Len(<<"exc">>) = 1
    BY DEF Frame
  <1>2. CASE s = <<>>
    BY <1>1, <1>2
  <1>3. CASE s = <<"ret">>
    BY <1>1, <1>3
  <1>4. CASE s = <<"exc">>
    BY <1>1, <1>4
  <1> QED BY <1>2, <1>3, <1>4 DEF Plain

LEMMA PushPlain ==
    ASSUME NEW s \in Plain, NEW f \in Frame
    PROVE  /\ Above(Append(s, f), Len(s) + 1)
           /\ f = "sig" => Append(s, f) \in Signalled
           /\ f = "sw" => Append(s, f) \in Switching
           /\ s = <<>> => Append(s, f) = <<f>>
  <1>1. /\ s \in Seq(Frame) /\ Len(s) \in {0, 1}
        /\ s = <<>> \/ (Len(s) = 1 /\ s[1] \in {"ret", "exc"})
    BY PlainStacks
  <1>2. /\ Append(s, f) \in Seq(Frame) /\ Len(Append(s, f)) = Len(s) + 1
        /\ Append(s, f)[Len(s) + 1] = f
        /\ \A i \in 1 .. Len(s) : Append(s, f)[i] = s[i]
    BY <1>1, AppendProperties
  <1>3. CASE s = <<>>
    <2>1. Len(Append(s, f)) = 1 /\ Append(s, f)[1] = f
      BY <1>2, <1>3
    <2>2. Append(s, f) = <<f>>
      BY <1>2, <2>1, OneFrame
    <2> QED BY <1>3, <2>2 DEF Above, Signalled, Switching
  <1>4. CASE Len(s) = 1 /\ s[1] \in {"ret", "exc"}
    <2>1. Len(Append(s, f)) = 2 /\ Append(s, f)[2] = f /\ Append(s, f)[1] = s[1]
      BY <1>2, <1>4
    <2>2. Append(s, f) = <<s[1], f>>
      BY <1>2, <2>1, TwoFrames
    <2> QED BY <1>4, <2>1, <2>2 DEF Above, Signalled, Switching
  <1> QED BY <1>1, <1>3, <1>4

\* A frame on top hides nothing of what is saved.
LEMMA PushAbove ==
    ASSUME NEW s \in Seq(Frame), NEW f \in Frame, NEW n \in Nat, n <= Len(s), Above(s, n)
    PROVE  Above(Append(s, f), n)
  BY AppendProperties DEF Above

\* What a tick comes back to.
LEMMA Back ==
    ASSUME NEW s \in Seq(Frame), NEW n \in Nat, n <= Len(s), Above(s, n)
    PROVE  n # 0 /\ SubSeq(s, 1, n - 1) \in Plain
  <1>1. CASE n = 1
    <2>1. SubSeq(s, 1, n - 1) \in Seq(Frame) /\ Len(SubSeq(s, 1, n - 1)) = 0
      BY <1>1, HeadOfStack
    <2>2. SubSeq(s, 1, n - 1) = <<>>
      BY <2>1, EmptySeq
    <2> QED BY <1>1, <2>2 DEF Plain
  <1>2. CASE n = 2 /\ s[1] \in {"ret", "exc"}
    <2> DEFINE r == SubSeq(s, 1, 1)
    <2>1. Len(s) \in Nat /\ 1 <= Len(s) /\ \A i \in 1 .. 1 : s[i] \in Frame
      BY <1>2, ElementOfSeq
    <2>2. r \in Seq(Frame) /\ Len(r) = 1 /\ \A i \in 1 .. 1 - 1 + 1 : r[i] = s[1 + i - 1]
      BY <2>1, SubSeqProperties
    <2> HIDE DEF r
    <2>3. r[1] = s[1] /\ r = <<r[1]>>
      BY <2>2, OneFrame
    <2>4. r \in Plain
      BY <1>2, <2>3 DEF Plain
    <2> QED BY <1>2, <2>4 DEF r
  <1> QED BY <1>1, <1>2 DEF Above

\* The end of a signal and of execute.
LEMMA PopFrame ==
    /\ \A s \in Signalled : Below(s) \in Plain
    /\ Below(<<"ret">>) = <<>>
  <1>1. /\ Len(<<"sig">>) = 1 /\ Len(<<"ret">>) = 1
        /\ Len(<<"ret", "sig">>) = 2 /\ Len(<<"exc", "sig">>) = 2
    OBVIOUS
  <1>2. /\ <<"sig">> \in Seq(Frame) /\ <<"ret">> \in Seq(Frame)
        /\ <<"ret", "sig">> \in Seq(Frame) /\ <<"exc", "sig">> \in Seq(Frame)
    BY DEF Frame
  <1>3. Above(<<"sig">>, 1) /\ Above(<<"ret", "sig">>, 2) /\ Above(<<"exc", "sig">>, 2)
    BY DEF Above
  <1>4. SubSeq(<<"sig">>, 1, 0) \in Plain
    <2>1. 1 \in Nat /\ 1 <= Len(<<"sig">>) /\ 1 - 1 = 0
      BY <1>1
    <2>2. SubSeq(<<"sig">>, 1, 1 - 1) \in Plain
      BY <1>2, <1>3, <2>1, Back
    <2> QED BY <2>1, <2>2
  <1>5. SubSeq(<<"ret", "sig">>, 1, 1) \in Plain
    <2>1. 2 \in Nat /\ 2 <= Len(<<"ret", "sig">>) /\ 2 - 1 = 1
      BY <1>1
    <2>2. SubSeq(<<"ret", "sig">>, 1, 2 - 1) \in Plain
      BY <1>2, <1>3, <2>1, Back
    <2> QED BY <2>1, <2>2
  <1>6. SubSeq(<<"exc", "sig">>, 1, 1) \in Plain
    <2>1. 2 \in Nat /\ 2 <= Len(<<"exc", "sig">>) /\ 2 - 1 = 1
      BY <1>1
    <2>2. SubSeq(<<"exc", "sig">>, 1, 2 - 1) \in Plain
      BY <1>2, <1>3, <2>1, Back
    <2> QED BY <2>1, <2>2
  <1>7. Below(<<"ret">>) = <<>>
    <2>1. Below(<<"ret">>) = SubSeq(<<"ret">>, 1, 0)
      BY <1>1 DEF Below
    <2> QED BY <2>1, SubSeqEmpty
  <1> QED BY <1>1, <1>4, <1>5, <1>6, <1>7 DEF Signalled, Below

-----------------------------------------------------------------------------
(***************************************************************************)
(* Steps that leave the tables alone.                                      *)
(***************************************************************************)
\* Steps of the running process that only change the top of its stack.
LEMMA RunsMoves ==
    ASSUME IInv, Quiet, Runs, UNCHANGED tables,
           UNCHANGED <<current_terminal, running_terminal, terminal_running, parent_pid,
                       cpu, mapped, esp0, wild>>,
           NEW s \in Plain \cup Signalled, frames' = [frames EXCEPT ![cpu] = s],
           \A p \in Pid : p # cpu => schedule_esp'[p] = schedule_esp[p],
           \A p \in Pid : parent_esp[p].pid # cpu => parent_esp'[p] = parent_esp[p]
    PROVE  Quiet'
  <1>1. cpu \in Pid /\ process[cpu] /\ process[0] /\ running_terminal \in Terminal
        /\ frames \in [Pid -> Seq(Frame)]
    BY RunsInUse DEF IInv, TypeOK
  <1>2. UNCHANGED <<process, process_terminal, process_terminal_cnt>>
    BY DEF tables
  <1>3. \A t \in Terminal : TopOf(t)' = TopOf(t)
    BY <1>2 DEF TopOf
  <1>4. Runs'
    BY <1>1, <1>2, <1>3 DEF Runs
  <1>5. Waiting'
    <2> SUFFICES ASSUME NEW t \in Terminal, NEW i \in Slot \ {0}, Live(t, i)
                 PROVE  /\ parent_pid'[process_terminal[t][i]] = process_terminal[t][i - 1]
                        /\ parent_esp'[process_terminal[t][i]] =
                               [pid |-> process_terminal[t][i - 1], depth |-> 1]
                        /\ frames'[process_terminal[t][i - 1]] = <<"exec">>
      BY <1>2 DEF Waiting, Live
    <2>1. /\ process_terminal[t][i] \in Pid /\ process_terminal[t][i - 1] \in Pid
          /\ process_terminal[t][i - 1] # cpu
      BY <1>1, BelowTop DEF Runs
    <2>2. /\ parent_pid[process_terminal[t][i]] = process_terminal[t][i - 1]
          /\ parent_esp[process_terminal[t][i]] =
                 [pid |-> process_terminal[t][i - 1], depth |-> 1]
          /\ frames[process_terminal[t][i - 1]] = <<"exec">>
      BY DEF Quiet, Waiting
    <2> QED BY <1>1, <2>1, <2>2
  <1>6. Saved'
    <2> SUFFICES ASSUME NEW t \in Terminal, t # running_terminal, terminal_running[t]
                 PROVE  /\ process_terminal_cnt[t] # 0
                        /\ Above(frames'[TopOf(t)], schedule_esp'[TopOf(t)])
      BY <1>2, <1>3 DEF Saved
    <2>1. /\ process_terminal_cnt[t] # 0
          /\ Above(frames[TopOf(t)], schedule_esp[TopOf(t)])
      BY DEF Quiet, Saved
    <2>2. TopOf(t) \in Pid /\ TopOf(t) # cpu
      BY <1>1, <2>1, TopLives, TopsDiffer DEF Runs
    <2> QED BY <1>1, <2>1, <2>2
  <1>7. Started'
    BY <1>2 DEF Quiet, Started
  <1>8. First'
    BY <1>1, <1>2 DEF Quiet, First, Live
  <1> QED BY <1>4, <1>5, <1>6, <1>7, <1>8 DEF Quiet

\* What Pop of cpu's stack leaves alone.
LEMMA PopOwn ==
    ASSUME IInv, NEW s \in Seq(Frame), Pop(s)
    PROVE  /\ frames' = [frames EXCEPT ![cpu] = s]
           /\ \A p \in Pid : p # cpu => schedule_esp'[p] = schedule_esp[p]
           /\ \A p \in Pid : parent_esp[p].pid # cpu => parent_esp'[p] = parent_esp[p]
  BY DEF Pop, Cut, IInv, TypeOK

\* The code on the CPU tells where it is.
LEMMA WhereRuns ==
    ASSUME IInv, Quiet
    PROVE  /\ frames[cpu] \in Plain \cup Signalled \/ Top(frames[cpu]) \in {"user", "ret", "exc", "sig"} => Runs
           /\ Top(frames[cpu]) = "halt" => Halts
           /\ Top(frames[cpu]) = "sw" => Boots \/ Opens
           /\ Top(frames[cpu]) = "sig" => frames[cpu] \in Signalled
           /\ Top(frames[cpu]) = "ret" => frames[cpu] = <<"ret">>
           /\ Top(frames[cpu]) \in {"user", "ret", "exc"} => frames[cpu] \in Plain
  <1>1. /\ Runs => frames[cpu] \in Plain \cup Signalled
        /\ Halts => frames[cpu] = <<"halt">>
        /\ Boots => frames[cpu] = <<"sw">>
        /\ Opens => frames[cpu] \in Switching
        /\ <<"sw">> \in Switching
    BY DEF Runs, Halts, Boots, Opens, Switching
  <1>2. Runs \/ Halts \/ Boots \/ Opens
    BY DEF Quiet
  <1>3. "sig" \notin {"user", "ret", "exc"}
    OBVIOUS
  <1> QED BY <1>1, <1>2, <1>3, TopFrames

LEMMA ExecuteReturnsQuiet ==
    ASSUME IInv, Quiet, ExecuteReturns PROVE Quiet'
  <1>1. Runs /\ frames[cpu] = <<"ret">>
    BY WhereRuns DEF ExecuteReturns
  <1>2. Below(frames[cpu]) = <<>> /\ Top(<<>>) = "user" /\ <<>> \in Seq(Frame) /\ <<>> \in Plain
    BY <1>1, PopFrame DEF Top, Plain
  <1>3. Pop(<<>>)
    BY <1>2 DEF ExecuteReturns
  <1>4. /\ UNCHANGED tables
        /\ UNCHANGED <<current_terminal, running_terminal, terminal_running, parent_pid,
                       cpu, mapped, esp0, wild>>
    BY DEF ExecuteReturns
  <1>5. /\ frames' = [frames EXCEPT ![cpu] = <<>>]
        /\ \A p \in Pid : p # cpu => schedule_esp'[p] = schedule_esp[p]
        /\ \A p \in Pid : parent_esp[p].pid # cpu => parent_esp'[p] = parent_esp[p]
    BY <1>2, <1>3, PopOwn
  <1> QED BY <1>1, <1>2, <1>4, <1>5, RunsMoves

LEMMA SignalHandledQuiet ==
    ASSUME IInv, Quiet, SignalHandled PROVE Quiet'
  <1>1. Runs /\ frames[cpu] \in Signalled
    BY WhereRuns DEF SignalHandled
  <1>2. Below(frames[cpu]) \in Plain /\ Below(frames[cpu]) \in Seq(Frame)
    BY <1>1, PopFrame, PlainStacks
  <1>3. /\ UNCHANGED tables
        /\ UNCHANGED <<current_terminal, running_terminal, terminal_running, parent_pid,
                       cpu, mapped, esp0, wild>>
        /\ Pop(Below(frames[cpu]))
    BY DEF SignalHandled
  <1>4. /\ frames' = [frames EXCEPT ![cpu] = Below(frames[cpu])]
        /\ \A p \in Pid : p # cpu => schedule_esp'[p] = schedule_esp[p]
        /\ \A p \in Pid : parent_esp[p].pid # cpu => parent_esp'[p] = parent_esp[p]
    BY <1>2, <1>3, PopOwn
  <1> QED BY <1>1, <1>2, <1>3, <1>4, RunsMoves

LEMMA ExceptionQuiet ==
    ASSUME IInv, Quiet, Exception PROVE Quiet'
  <1>1. frames[cpu] = <<>> /\ <<>> \in Plain /\ "exc" \in Frame
    BY DEF Exception, UserMode, Plain, Frame
  <1>2. Runs
    BY <1>1, WhereRuns
  <1>3. Append(frames[cpu], "exc") = <<"exc">> /\ <<"exc">> \in Plain
    BY <1>1, PushPlain DEF Plain
  <1>4. cpu \in Pid /\ frames \in [Pid -> Seq(Frame)]
    BY DEF IInv, TypeOK
  <1>5. frames' = [frames EXCEPT ![cpu] = <<"exc">>]
    BY <1>3, <1>4 DEF Exception
  <1>6. /\ UNCHANGED tables
        /\ UNCHANGED <<current_terminal, running_terminal, terminal_running, parent_pid,
                       cpu, mapped, esp0, wild, schedule_esp, parent_esp>>
    BY DEF Exception, pcbs
  <1> QED BY <1>2, <1>3, <1>5, <1>6, RunsMoves

LEMMA TickSignalQuiet ==
    ASSUME IInv, Quiet, TickSignal, race' = {} PROVE Quiet'
  <1>1. Top(frames[cpu]) # "sw" /\ Top(frames[cpu]) \in {"user", "ret", "exc"}
    BY DEF TickSignal, WindowRace, Interruptible
  <1>2. Runs /\ frames[cpu] \in Plain /\ "sig" \in Frame
    BY <1>1, WhereRuns DEF Frame
  <1>3. Append(frames[cpu], "sig") \in Signalled
    BY <1>2, PushPlain
  <1>4. cpu \in Pid /\ frames \in [Pid -> Seq(Frame)]
    BY DEF IInv, TypeOK
  <1>5. frames' = [frames EXCEPT ![cpu] = Append(frames[cpu], "sig")]
    BY <1>4 DEF TickSignal
  <1>6. /\ UNCHANGED tables
        /\ UNCHANGED <<current_terminal, running_terminal, terminal_running, parent_pid,
                       cpu, mapped, esp0, wild, schedule_esp, parent_esp>>
    BY DEF TickSignal, pcbs
  <1> QED BY <1>2, <1>3, <1>5, <1>6, RunsMoves

\* Steps that change nothing Quiet looks at but the terminal on the screen.
LEMMA SameQuiet ==
    ASSUME Quiet, UNCHANGED tables, UNCHANGED machine,
           UNCHANGED <<running_terminal, terminal_running, parent_pid, parent_esp,
                       schedule_esp, wild>>,
           terminal_running[current_terminal']
    PROVE  Quiet'
  <1>1. UNCHANGED <<process, process_terminal, process_terminal_cnt, cpu, frames, mapped, esp0>>
    BY DEF tables, machine
  <1>2. /\ Waiting' /\ Saved' /\ Started'
    BY <1>1 DEF Quiet, Waiting, Saved, Started, Live, TopOf
  <1>3. (Runs' <=> Runs) /\ (Halts' <=> Halts) /\ (Boots' <=> Boots) /\ (Opens' <=> Opens)
    BY <1>1 DEF Runs, Halts, Boots, Opens, TopOf
  <1>4. First'
    BY <1>1, <1>3 DEF Quiet, First, Live
  <1> QED BY <1>2, <1>3, <1>4 DEF Quiet

LEMMA SetHandlerQuiet ==
    ASSUME IInv, Quiet, SetHandler PROVE Quiet'
  BY SameQuiet DEF SetHandler, Quiet, Started

LEMMA SwitchToRunningQuiet ==
    ASSUME IInv, Quiet, NEW t \in Terminal, SwitchToRunning(t) PROVE Quiet'
  BY SameQuiet DEF SwitchToRunning, pcbs

\* Outside the window of switch_to_terminal the terminal on the screen has a
\* process, so Ctrl-C finds one.
LEMMA CtrlCQuiet ==
    ASSUME IInv, Quiet, CtrlC, race' = {} PROVE Quiet'
  <1>1. Top(frames[cpu]) # "sw" /\ Top(frames[cpu]) \in {"user", "ret", "exc"}
    BY DEF CtrlC, WindowRace, Interruptible
  <1>2. Runs
    BY <1>1, WhereRuns
  <1>3. current_terminal \in Terminal /\ terminal_running[current_terminal]
    BY DEF IInv, TypeOK, Quiet, Started
  <1>4. process_terminal_cnt[current_terminal] # 0
    BY <1>2, <1>3 DEF Runs, Quiet, Saved
  <1>5. TopReads(current_terminal) = {TopOf(current_terminal)}
    BY <1>4 DEF TopReads, TopOf
  <1>6. TopOf(current_terminal) \in Pid /\ Garbage \notin Pid
    BY <1>3, <1>4, TopLives, TaskAssumption DEF Garbage, Pid
  <1>7. wild' = wild
    BY <1>5, <1>6 DEF CtrlC
  <1> QED BY <1>3, <1>7, SameQuiet DEF CtrlC

-----------------------------------------------------------------------------
(***************************************************************************)
(* execute.                                                                *)
(***************************************************************************)
\* What execute does to the tables, on the terminal that runs.
LEMMA SpawnTables ==
    ASSUME IInv, NEW new \in Pid, NEW waits \in BOOLEAN, Spawn(new, waits), race' = {}
    PROVE  /\ current_terminal = running_terminal /\ running_terminal \in Terminal
           /\ ~process[new] /\ (new # 0 => process[0])
           /\ process_terminal_cnt[running_terminal] \in Slot
           /\ \A p \in Pid : process'[p] <=> process[p] \/ p = new
           /\ \A t \in Terminal : process_terminal_cnt'[t] =
                 IF t = running_terminal THEN process_terminal_cnt[t] + 1
                 ELSE process_terminal_cnt[t]
           /\ \A t \in Terminal, i \in Slot : process_terminal'[t][i] =
                 IF t = running_terminal /\ i = process_terminal_cnt[t] THEN new
                 ELSE process_terminal[t][i]
           /\ TopOf(running_terminal)' = new
           /\ \A t \in Terminal : t # running_terminal => TopOf(t)' = TopOf(t)
  <1>1. current_terminal = running_terminal /\ running_terminal \in Terminal
    BY DEF Spawn, IInv, TypeOK
  <1>2. ~process[new] /\ (new # 0 => process[0])
    <2>1. 0 \in Pid /\ (new # 0 => 0 < new)
      BY TaskAssumption DEF Pid
    <2> QED BY <2>1 DEF Spawn, LowestFree
  <1>3. process_terminal_cnt[running_terminal] \in Slot
    <2>1. TablesType /\ TablesAgree
      BY DEF IInv, TypeOK, TablesType
    <2>2. process_terminal_cnt[running_terminal] < MaxTask
      BY <1>1, <1>2, <2>1, RowHasRoom
    <2>3. process_terminal_cnt[running_terminal] \in 0 .. MaxTask
      BY <1>1, <2>1 DEF TablesType
    <2> QED BY <2>2, <2>3, TaskAssumption DEF Slot
  <1>4. /\ process' = [process EXCEPT ![new] = TRUE]
        /\ process_terminal' = [process_terminal EXCEPT
             ![running_terminal][process_terminal_cnt[running_terminal]] = new]
        /\ process_terminal_cnt' = [process_terminal_cnt EXCEPT
             ![running_terminal] = process_terminal_cnt[running_terminal] + 1]
        /\ running_terminal' = running_terminal
    BY <1>1 DEF Spawn
  <1>5. /\ process \in [Pid -> BOOLEAN] /\ process_terminal \in [Terminal -> [Slot -> Pid]]
        /\ process_terminal_cnt \in [Terminal -> 0 .. MaxTask]
    BY DEF IInv, TypeOK
  <1>6. /\ \A p \in Pid : process'[p] <=> process[p] \/ p = new
        /\ \A t \in Terminal : process_terminal_cnt'[t] =
              IF t = running_terminal THEN process_terminal_cnt[t] + 1
              ELSE process_terminal_cnt[t]
    BY <1>1, <1>4, <1>5
  <1>7. \A t \in Terminal, i \in Slot : process_terminal'[t][i] =
              IF t = running_terminal /\ i = process_terminal_cnt[t] THEN new
              ELSE process_terminal[t][i]
    BY <1>1, <1>3, <1>4, <1>5
  <1>8. \A t \in Terminal : t # running_terminal =>
           process_terminal'[t] = process_terminal[t] /\ process_terminal_cnt'[t] = process_terminal_cnt[t]
    BY <1>1, <1>4, <1>5
  <1>9. TopOf(running_terminal)' = new
    <2>1. process_terminal_cnt'[running_terminal] - 1 = process_terminal_cnt[running_terminal]
      BY <1>1, <1>3, <1>6, TaskAssumption DEF Slot
    <2> QED BY <1>1, <1>3, <1>4, <1>7, <2>1 DEF TopOf
  <1> QED BY <1>1, <1>2, <1>3, <1>6, <1>7, <1>8, <1>9 DEF TopOf

\* What execute does to the stacks and the contexts on them.
LEMMA SpawnStacks ==
    ASSUME IInv, NEW new \in Pid, NEW waits \in BOOLEAN, Spawn(new, waits)
    PROVE  /\ cpu' = new /\ mapped' = new /\ esp0' = new
           /\ frames'[new] = <<>>
           /\ \A p \in Pid : p # new /\ p # cpu =>
                 frames'[p] = frames[p] /\ schedule_esp'[p] = schedule_esp[p]
           /\ waits /\ cpu # new => /\ frames'[cpu] = Append(frames[cpu], "exec")
                                    /\ schedule_esp'[cpu] = schedule_esp[cpu]
                                    /\ parent_esp'[new] = [pid |-> cpu, depth |-> Len(frames[cpu]) + 1]
           /\ \A p \in Pid : p # new => parent_pid'[p] = parent_pid[p]
           /\ parent_pid'[new] = ParentOf(new)
           /\ \A p \in Pid : p # new /\ parent_esp[p].pid # new /\ parent_esp[p].pid # cpu =>
                 parent_esp'[p] = parent_esp[p]
           /\ UNCHANGED <<terminal_running, wild, running_terminal, current_terminal>>
  <1>1. /\ cpu \in Pid /\ frames \in [Pid -> Seq(Frame)] /\ schedule_esp \in [Pid -> Nat]
        /\ parent_pid \in [Pid -> Pid] /\ parent_esp \in [Pid -> Link]
    BY DEF IInv, TypeOK
  <1>2. /\ cpu' = new /\ mapped' = new /\ esp0' = new
        /\ UNCHANGED <<terminal_running, wild, running_terminal, current_terminal>>
    BY DEF Spawn
  <1>3. /\ frames'[new] = <<>>
        /\ \A p \in Pid : p # new /\ p # cpu => frames'[p] = frames[p]
        /\ waits /\ cpu # new => frames'[cpu] = Append(frames[cpu], "exec")
    BY <1>1 DEF Spawn
  <1>4. /\ \A p \in Pid : p # new /\ p # cpu => schedule_esp'[p] = schedule_esp[p]
        /\ waits /\ cpu # new => schedule_esp'[cpu] = schedule_esp[cpu]
    BY <1>1 DEF Spawn
  <1>5. /\ \A p \in Pid : p # new => parent_pid'[p] = parent_pid[p]
        /\ parent_pid'[new] = ParentOf(new)
    BY <1>1 DEF Spawn
  <1>6. \A links, q : Cut(links, q, 0) = [c \in Pid |->
             IF links[c].pid = q /\ links[c].depth > 0
             THEN [links[c] EXCEPT !.depth = 0] ELSE links[c]]
    BY DEF Cut
  <1> DEFINE base == IF waits THEN parent_esp ELSE Cut(parent_esp, cpu, 0)
             cut  == Cut(base, new, 0)
  <1>7. parent_esp' = [cut EXCEPT ![new] =
             [pid |-> cpu, depth |-> IF waits /\ new # cpu THEN Len(frames[cpu]) + 1 ELSE 0]]
    BY DEF Spawn
  <1>8. \A p \in Pid : parent_esp[p].pid # cpu => base[p] = parent_esp[p]
    BY <1>6
  <1> HIDE DEF base
  <1>9. DOMAIN cut = Pid /\ \A p \in Pid : base[p].pid # new => cut[p] = base[p]
    BY <1>6
  <1> HIDE DEF cut
  <1>10. /\ \A p \in Pid : p # new => parent_esp'[p] = cut[p]
         /\ waits /\ cpu # new => parent_esp'[new] = [pid |-> cpu, depth |-> Len(frames[cpu]) + 1]
    BY <1>7, <1>9
  <1>11. \A p \in Pid : p # new /\ parent_esp[p].pid # new /\ parent_esp[p].pid # cpu =>
            parent_esp'[p] = parent_esp[p]
    BY <1>8, <1>9, <1>10
  <1> QED BY <1>2, <1>3, <1>4, <1>5, <1>10, <1>11

\* execute keeps Quiet when nobody waits on the caller's stack, the terminals
\* saved on it stay saved, and the terminal was empty or the caller its top.
LEMMA SpawnQuiet ==
    ASSUME IInv, Quiet, NEW new \in Pid, NEW waits \in BOOLEAN, Spawn(new, waits), race' = {},
           \A t \in Terminal : \A i \in Slot \ {0} : Live(t, i) => process_terminal[t][i - 1] # cpu,
           \A t \in Terminal : t # running_terminal /\ terminal_running[t] => waits \/ TopOf(t) # cpu,
           \/ process_terminal_cnt[running_terminal] = 0
           \/ /\ process_terminal_cnt[running_terminal] # 0
              /\ waits /\ frames[cpu] = <<>> /\ cpu = TopOf(running_terminal)
    PROVE  Quiet'
  <1> DEFINE r == running_terminal
             c == process_terminal_cnt[running_terminal]
  <1>1. /\ current_terminal = r /\ r \in Terminal
        /\ ~process[new] /\ (new # 0 => process[0])
        /\ c \in Slot
        /\ \A p \in Pid : process'[p] <=> process[p] \/ p = new
        /\ \A t \in Terminal : process_terminal_cnt'[t] =
              IF t = r THEN process_terminal_cnt[t] + 1 ELSE process_terminal_cnt[t]
        /\ \A t \in Terminal, i \in Slot : process_terminal'[t][i] =
              IF t = r /\ i = process_terminal_cnt[t] THEN new ELSE process_terminal[t][i]
        /\ TopOf(r)' = new
        /\ \A t \in Terminal : t # r => TopOf(t)' = TopOf(t)
    BY SpawnTables
  <1>2. /\ cpu' = new /\ mapped' = new /\ esp0' = new
        /\ frames'[new] = <<>>
        /\ \A p \in Pid : p # new /\ p # cpu =>
              frames'[p] = frames[p] /\ schedule_esp'[p] = schedule_esp[p]
        /\ waits /\ cpu # new => /\ frames'[cpu] = Append(frames[cpu], "exec")
                                 /\ schedule_esp'[cpu] = schedule_esp[cpu]
                                 /\ parent_esp'[new] = [pid |-> cpu, depth |-> Len(frames[cpu]) + 1]
        /\ \A p \in Pid : p # new => parent_pid'[p] = parent_pid[p]
        /\ parent_pid'[new] = ParentOf(new)
        /\ \A p \in Pid : p # new /\ parent_esp[p].pid # new /\ parent_esp[p].pid # cpu =>
              parent_esp'[p] = parent_esp[p]
        /\ UNCHANGED <<terminal_running, wild, running_terminal, current_terminal>>
    BY SpawnStacks
  <1>3. /\ cpu \in Pid /\ c \in Nat /\ 0 \in Pid /\ process_terminal_cnt \in [Terminal -> 0 .. MaxTask]
        /\ frames \in [Pid -> Seq(Frame)] /\ schedule_esp \in [Pid -> Nat]
    <2>1. c \in Nat /\ 0 \in Pid
      BY <1>1, TaskAssumption DEF Slot, Pid
    <2> QED BY <2>1 DEF IInv, TypeOK
  <1>4. \A t \in Terminal : \A i \in Slot : Live(t, i)' <=> Live(t, i) \/ (t = r /\ i = c)
    BY <1>1, <1>3, TaskAssumption DEF Live, Slot
  <1>5. c # 0 => /\ new # 0 /\ cpu # new /\ parent_pid'[new] = cpu
                 /\ process_terminal[r][c - 1] = cpu
                 /\ frames'[cpu] = <<"exec">>
                 /\ parent_esp'[new] = [pid |-> cpu, depth |-> 1]
    <2> SUFFICES ASSUME c # 0
                 PROVE  /\ new # 0 /\ cpu # new /\ parent_pid'[new] = cpu
                        /\ process_terminal[r][c - 1] = cpu
                        /\ frames'[cpu] = <<"exec">>
                        /\ parent_esp'[new] = [pid |-> cpu, depth |-> 1]
      OBVIOUS
    <2>1. waits /\ frames[cpu] = <<>> /\ cpu = TopOf(r) /\ process[cpu]
      BY <1>1, TopLives
    <2>2. Runs \/ Opens
      <3>1. <<>> \in Plain
        BY DEF Plain
      <3> QED BY <2>1, <3>1, WhereRuns
    <2>3. cpu # new /\ new # 0
      BY <1>1, <2>1, <2>2, RunsInUse
    <2>4. Append(<<>>, "exec") = <<"exec">> /\ Len(<<>>) = 0
      <3>1. <<>> \in Plain /\ "exec" \in Frame
        BY DEF Plain, Frame
      <3> QED BY <3>1, PushPlain
    <2>5. ParentOf(new) = cpu /\ process_terminal[r][c - 1] = cpu
      BY <1>1, <2>1, <2>3 DEF ParentOf, TopOf
    <2> QED BY <1>2, <2>1, <2>3, <2>4, <2>5
  <1>6. Runs'
    <2>1. process_terminal_cnt'[r] # 0
      BY <1>1, <1>3
    <2> QED BY <1>1, <1>2, <2>1 DEF Runs, Plain
  <1>7. Waiting'
    <2> SUFFICES ASSUME NEW t \in Terminal, NEW i \in Slot \ {0}, Live(t, i)'
                 PROVE  /\ parent_pid'[process_terminal'[t][i]] = process_terminal'[t][i - 1]
                        /\ parent_esp'[process_terminal'[t][i]] =
                               [pid |-> process_terminal'[t][i - 1], depth |-> 1]
                        /\ frames'[process_terminal'[t][i - 1]] = <<"exec">>
      BY DEF Waiting
    <2>1. i - 1 \in Slot
      BY TaskAssumption DEF Slot
    <2>2. CASE Live(t, i)
      <3>1. /\ process_terminal[t][i] \in Pid /\ process_terminal[t][i - 1] \in Pid
            /\ process[process_terminal[t][i]] /\ process[process_terminal[t][i - 1]]
            /\ process_terminal[t][i - 1] # cpu /\ Live(t, i - 1)
        BY <2>2, BelowTop
      <3>2. /\ process_terminal'[t][i] = process_terminal[t][i]
            /\ process_terminal'[t][i - 1] = process_terminal[t][i - 1]
        <4>1. i < process_terminal_cnt[t] /\ i - 1 < process_terminal_cnt[t]
          BY <2>2, <3>1 DEF Live
        <4>2. i \in Nat /\ i - 1 \in Nat /\ process_terminal_cnt[t] \in Nat
          BY <1>3, <2>1, TaskAssumption DEF Slot
        <4>3. i # process_terminal_cnt[t] /\ i - 1 # process_terminal_cnt[t]
          BY <4>1, <4>2
        <4> QED BY <1>1, <2>1, <4>3
      <3>3. /\ parent_pid[process_terminal[t][i]] = process_terminal[t][i - 1]
            /\ parent_esp[process_terminal[t][i]] =
                   [pid |-> process_terminal[t][i - 1], depth |-> 1]
            /\ frames[process_terminal[t][i - 1]] = <<"exec">>
        BY <2>2 DEF Quiet, Waiting
      <3>4. process_terminal[t][i] # new /\ process_terminal[t][i - 1] # new
        BY <1>1, <3>1
      <3>5. parent_esp[process_terminal[t][i]].pid = process_terminal[t][i - 1]
        BY <3>3
      <3> QED BY <1>2, <3>1, <3>2, <3>3, <3>4, <3>5
    <2>3. CASE t = r /\ i = c
      <3>1. process_terminal'[t][i] = new /\ process_terminal'[t][i - 1] = process_terminal[r][c - 1]
        <4>1. c - 1 # c /\ c - 1 \in Slot
          BY <1>3, <2>1, <2>3
        <4> QED BY <1>1, <2>3, <4>1
      <3> QED BY <1>5, <2>3, <3>1
    <2> QED BY <1>4, <2>2, <2>3
  <1>8. Saved'
    <2> SUFFICES ASSUME NEW t \in Terminal, t # r, terminal_running[t]
                 PROVE  /\ process_terminal_cnt'[t] # 0
                        /\ Above(frames'[TopOf(t)], schedule_esp'[TopOf(t)])
      BY <1>1, <1>2 DEF Saved
    <2>1. /\ process_terminal_cnt[t] # 0
          /\ Above(frames[TopOf(t)], schedule_esp[TopOf(t)])
      BY DEF Quiet, Saved
    <2>2. TopOf(t) \in Pid /\ TopOf(t) # new
      BY <1>1, <2>1, TopLives
    <2>3. CASE TopOf(t) # cpu
      BY <1>1, <1>2, <2>1, <2>2, <2>3
    <2>4. CASE TopOf(t) = cpu
      <3>1. waits /\ cpu # new
        BY <2>2, <2>4
      <3>2. schedule_esp[cpu] \in Nat /\ schedule_esp[cpu] <= Len(frames[cpu])
            /\ frames[cpu] \in Seq(Frame) /\ "exec" \in Frame
        BY <1>3 DEF IInv, ContextsInside, Frame
      <3>3. Above(Append(frames[cpu], "exec"), schedule_esp[cpu])
        BY <2>1, <2>4, <3>2, PushAbove
      <3> QED BY <1>1, <1>2, <2>1, <2>4, <3>1, <3>3
    <2> QED BY <2>3, <2>4
  <1>9. Started'
    BY <1>1, <1>2 DEF Quiet, Started
  <1>10. First'
    <2>1. process'[0]
      BY <1>1, <1>3
    <2>2. ASSUME NEW t \in Terminal, NEW i \in Slot \ {0}, Live(t, i)'
          PROVE  process_terminal'[t][i] # 0
      <3>1. CASE Live(t, i)
        <4>1. process_terminal'[t][i] = process_terminal[t][i]
          BY <1>1, <1>3, <3>1 DEF Live
        <4> QED BY <3>1, <4>1 DEF Quiet, First
      <3>2. CASE t = r /\ i = c
        BY <1>1, <1>5, <3>2
      <3> QED BY <1>4, <2>2, <3>1, <3>2
    <2> QED BY <2>1, <2>2 DEF First
  <1> QED BY <1>2, <1>6, <1>7, <1>8, <1>9, <1>10 DEF Quiet

LEMMA ExecuteQuiet ==
    ASSUME IInv, Quiet, Execute, race' = {} PROVE Quiet'
  <1>1. frames[cpu] = <<>> /\ <<>> \in Plain
    BY DEF Execute, UserMode, Plain
  <1>2. Runs /\ running_terminal \in Terminal
    BY <1>1, WhereRuns DEF IInv, TypeOK
  <1>3. PICK new \in Pid : Spawn(new, TRUE)
    BY DEF Execute
  <1>4. \A t \in Terminal : \A i \in Slot \ {0} : Live(t, i) => process_terminal[t][i - 1] # cpu
    BY <1>2, BelowTop DEF Runs
  <1> QED BY <1>1, <1>2, <1>3, <1>4, SpawnQuiet DEF Runs

LEMMA SwitchExecuteQuiet ==
    ASSUME IInv, Quiet, SwitchExecute, race' = {} PROVE Quiet'
  <1>1. Boots \/ Opens
    BY WhereRuns DEF SwitchExecute
  <1>2. process_terminal_cnt[running_terminal] = 0
    BY <1>1 DEF Boots, Opens
  <1>3. PICK new \in Pid : Spawn(new, TRUE)
    BY DEF SwitchExecute
  <1>4. ASSUME NEW t \in Terminal, NEW i \in Slot \ {0}, Live(t, i)
        PROVE  process_terminal[t][i - 1] # cpu
    <2>1. CASE Boots
      BY <1>4, <2>1, BelowTop DEF Boots
    <2>2. CASE Opens
      BY <1>4, <2>2, BelowTop DEF Opens
    <2> QED BY <1>1, <2>1, <2>2
  <1> QED BY <1>2, <1>3, <1>4, SpawnQuiet

LEMMA HaltExecuteQuiet ==
    ASSUME IInv, Quiet, HaltExecute, race' = {} PROVE Quiet'
  <1>1. Halts
    BY WhereRuns DEF HaltExecute
  <1>2. process_terminal_cnt[running_terminal] = 0 /\ ~process[cpu]
    BY <1>1 DEF Halts
  <1>3. PICK new \in Pid : Spawn(new, FALSE)
    BY DEF HaltExecute
  <1>4. \A t \in Terminal : \A i \in Slot \ {0} : Live(t, i) => process_terminal[t][i - 1] # cpu
    BY <1>2, BelowTop
  <1>5. \A t \in Terminal : t # running_terminal /\ terminal_running[t] => TopOf(t) # cpu
    BY <1>2, TopLives DEF Quiet, Saved
  <1> QED BY <1>2, <1>3, <1>4, <1>5, SpawnQuiet

\* Without a race execute("shell") of a new terminal always finds a pid: the
\* one that switch_to_terminal saw is still free.
LEMMA SwitchExecuteFailsNot ==
    ASSUME IInv, Quiet PROVE ~SwitchExecuteFails
  <1> SUFFICES ASSUME SwitchExecuteFails PROVE FALSE
    OBVIOUS
  <1>1. Boots \/ Opens
    BY WhereRuns DEF SwitchExecuteFails
  <1>2. 0 \in Pid
    BY TaskAssumption DEF Pid
  <1> QED BY <1>1, <1>2 DEF Boots, Opens, SwitchExecuteFails

-----------------------------------------------------------------------------
(***************************************************************************)
(* halt.                                                                   *)
(***************************************************************************)
\* What halt does to the tables when it is the running process that halts.
LEMMA ReleaseTables ==
    ASSUME IInv, Quiet, Runs, NEW victim \in Pid, Release(victim),
           UNCHANGED <<running_terminal>>
    PROVE  /\ victim = cpu /\ running_terminal \in Terminal
           /\ \A p \in Pid : process'[p] <=> process[p] /\ p # cpu
           /\ \A t \in Terminal : process_terminal_cnt'[t] =
                 IF t = running_terminal THEN process_terminal_cnt[t] - 1
                 ELSE process_terminal_cnt[t]
           /\ \A t \in Terminal, i \in Slot : Live(t, i)' =>
                 Live(t, i) /\ process_terminal'[t][i] = process_terminal[t][i]
                            /\ process_terminal[t][i] # cpu
           /\ \A t \in Terminal : t # running_terminal => TopOf(t)' = TopOf(t)
  <1>1. victim = cpu /\ running_terminal \in Terminal /\ cpu \in Pid
    BY DEF Release, Runs, TopOf, IInv, TypeOK
  <1>2. /\ process \in [Pid -> BOOLEAN] /\ process_terminal \in [Terminal -> [Slot -> Pid]]
        /\ process_terminal_cnt \in [Terminal -> 0 .. MaxTask]
    BY DEF IInv, TypeOK
  <1>3. /\ process' = [process EXCEPT ![cpu] = FALSE]
        /\ process_terminal' = [process_terminal EXCEPT
             ![running_terminal][process_terminal_cnt[running_terminal] - 1] = 0]
        /\ process_terminal_cnt' = [process_terminal_cnt EXCEPT
             ![running_terminal] = process_terminal_cnt[running_terminal] - 1]
    BY <1>1 DEF Release
  <1>4. /\ process_terminal_cnt[running_terminal] - 1 \in Slot
        /\ Live(running_terminal, process_terminal_cnt[running_terminal] - 1)
        /\ process_terminal[running_terminal][process_terminal_cnt[running_terminal] - 1] = cpu
    BY <1>1, TopLives DEF Runs
  <1>5. /\ \A p \in Pid : process'[p] <=> process[p] /\ p # cpu
        /\ \A t \in Terminal : process_terminal_cnt'[t] =
              IF t = running_terminal THEN process_terminal_cnt[t] - 1
              ELSE process_terminal_cnt[t]
    BY <1>1, <1>2, <1>3
  <1>6. ASSUME NEW t \in Terminal, NEW i \in Slot, Live(t, i)'
        PROVE  Live(t, i) /\ process_terminal'[t][i] = process_terminal[t][i]
                          /\ process_terminal[t][i] # cpu
    <2>1. i \in Nat /\ process_terminal_cnt[t] \in Nat /\ process_terminal_cnt'[t] \in Int
          /\ i < process_terminal_cnt'[t]
      BY <1>2, <1>5, <1>6, TaskAssumption DEF Slot, Live
    <2>2. Live(t, i) /\ ~(t = running_terminal /\ i = process_terminal_cnt[t] - 1)
      BY <1>5, <2>1 DEF Live
    <2>3. process_terminal'[t][i] = process_terminal[t][i]
      BY <1>1, <1>2, <1>3, <1>4, <2>2
    <2>4. process_terminal[t][i] # cpu
      BY <1>1, <1>4, <2>2 DEF IInv, TablesAgree, ListedOnce
    <2> QED BY <2>2, <2>3, <2>4
  <1>7. \A t \in Terminal : t # running_terminal =>
           process_terminal'[t] = process_terminal[t] /\ process_terminal_cnt'[t] = process_terminal_cnt[t]
    BY <1>1, <1>2, <1>3
  <1> QED BY <1>1, <1>5, <1>6, <1>7 DEF TopOf

\* halt touches two stacks, its own and q: everyone else waits on as before.
LEMMA HaltLeaves ==
    ASSUME IInv, Quiet, Runs, NEW victim \in Pid, Release(victim), NEW q \in Pid,
           UNCHANGED <<current_terminal, running_terminal, terminal_running, parent_pid>>,
           \A p \in Pid : p # cpu /\ p # q =>
               frames'[p] = frames[p] /\ schedule_esp'[p] = schedule_esp[p],
           \A p \in Pid : parent_esp[p].pid # cpu /\ parent_esp[p].pid # q =>
               parent_esp'[p] = parent_esp[p],
           \A t \in Terminal : \A i \in Slot \ {0} :
               Live(t, i)' => process_terminal[t][i - 1] # q,
           \A t \in Terminal : t # running_terminal /\ process_terminal_cnt[t] # 0 => TopOf(t) # q
    PROVE  Waiting' /\ Saved' /\ Started'
  <1>1. /\ victim = cpu /\ running_terminal \in Terminal
        /\ \A t \in Terminal : process_terminal_cnt'[t] =
              IF t = running_terminal THEN process_terminal_cnt[t] - 1 ELSE process_terminal_cnt[t]
        /\ \A t \in Terminal, i \in Slot : Live(t, i)' =>
              Live(t, i) /\ process_terminal'[t][i] = process_terminal[t][i]
                         /\ process_terminal[t][i] # cpu
        /\ \A t \in Terminal : t # running_terminal => TopOf(t)' = TopOf(t)
    BY ReleaseTables
  <1>2. process_terminal_cnt[running_terminal] # 0 /\ cpu = TopOf(running_terminal)
    BY DEF Runs
  <1>3. Waiting'
    <2> SUFFICES ASSUME NEW t \in Terminal, NEW i \in Slot \ {0}, Live(t, i)'
                 PROVE  /\ parent_pid'[process_terminal'[t][i]] = process_terminal'[t][i - 1]
                        /\ parent_esp'[process_terminal'[t][i]] =
                               [pid |-> process_terminal'[t][i - 1], depth |-> 1]
                        /\ frames'[process_terminal'[t][i - 1]] = <<"exec">>
      BY DEF Waiting
    <2>1. Live(t, i) /\ process_terminal'[t][i] = process_terminal[t][i]
      BY <1>1
    <2>2. /\ process_terminal[t][i] \in Pid /\ process_terminal[t][i - 1] \in Pid
          /\ process_terminal[t][i - 1] # cpu /\ i - 1 \in Slot
      BY <1>1, <1>2, <2>1, BelowTop
    <2>3. process_terminal'[t][i - 1] = process_terminal[t][i - 1]
      <3>1. Live(t, i - 1)'
        <4>1. i \in Nat /\ process_terminal_cnt'[t] \in Int /\ i < process_terminal_cnt'[t]
          <5>1. i \in Nat
            BY TaskAssumption DEF Slot
          <5>2. process_terminal_cnt[t] \in 0 .. MaxTask /\ MaxTask \in Nat
            BY TaskAssumption DEF IInv, TypeOK
          <5>3. process_terminal_cnt'[t] \in Int
            BY <1>1, <5>2
          <5> QED BY <5>1, <5>3 DEF Live
        <4> QED BY <4>1 DEF Live
      <3> QED BY <1>1, <2>2, <3>1
    <2>4. /\ parent_pid[process_terminal[t][i]] = process_terminal[t][i - 1]
          /\ parent_esp[process_terminal[t][i]] =
                 [pid |-> process_terminal[t][i - 1], depth |-> 1]
          /\ frames[process_terminal[t][i - 1]] = <<"exec">>
      BY <2>1 DEF Quiet, Waiting
    <2>5. process_terminal[t][i - 1] # q
      OBVIOUS
    <2>6. parent_esp[process_terminal[t][i]].pid = process_terminal[t][i - 1]
      BY <2>4
    <2> QED BY <2>1, <2>2, <2>3, <2>4, <2>5, <2>6
  <1>4. Saved'
    <2> SUFFICES ASSUME NEW t \in Terminal, t # running_terminal, terminal_running[t]
                 PROVE  /\ process_terminal_cnt'[t] # 0
                        /\ Above(frames'[TopOf(t)], schedule_esp'[TopOf(t)])
      BY <1>1 DEF Saved
    <2>1. /\ process_terminal_cnt[t] # 0
          /\ Above(frames[TopOf(t)], schedule_esp[TopOf(t)])
      BY DEF Quiet, Saved
    <2>2. TopOf(t) \in Pid /\ TopOf(t) # cpu /\ TopOf(t) # q
      BY <1>1, <1>2, <2>1, TopLives, TopsDiffer
    <2> QED BY <1>1, <2>1, <2>2
  <1>5. Started'
    BY <1>1, <1>2 DEF Quiet, Started
  <1> QED BY <1>3, <1>4, <1>5

\* The running process is the last of its terminal when halt starts a shell.
LEMMA HaltRestartsQuiet ==
    ASSUME IInv, Quiet, Runs, HaltRestarts PROVE Quiet'
  <1>1. PICK victim \in Pid : Release(victim) /\ Restarts(victim)
    BY DEF HaltRestarts
  <1>2. /\ UNCHANGED <<current_terminal, running_terminal, terminal_running, parent_pid, cpu, wild>>
        /\ frames' = [frames EXCEPT ![cpu] = <<"halt">>]
        /\ schedule_esp' = [schedule_esp EXCEPT ![cpu] = 0]
        /\ parent_esp' = Cut(parent_esp, cpu, 0)
    BY DEF HaltRestarts
  <1>3. /\ victim = cpu /\ running_terminal \in Terminal
        /\ \A p \in Pid : process'[p] <=> process[p] /\ p # cpu
        /\ \A t \in Terminal : process_terminal_cnt'[t] =
              IF t = running_terminal THEN process_terminal_cnt[t] - 1 ELSE process_terminal_cnt[t]
        /\ \A t \in Terminal, i \in Slot : Live(t, i)' =>
              Live(t, i) /\ process_terminal'[t][i] = process_terminal[t][i]
                         /\ process_terminal[t][i] # cpu
    BY <1>1, <1>2, ReleaseTables
  <1>4. /\ cpu \in Pid /\ process[cpu] /\ process[0] /\ 0 \in Pid
        /\ process_terminal_cnt[running_terminal] # 0 /\ cpu = TopOf(running_terminal)
        /\ process_terminal_cnt[running_terminal] - 1 \in Slot
        /\ process_terminal_cnt[running_terminal] \in Nat
        /\ Live(running_terminal, process_terminal_cnt[running_terminal] - 1)
    <2>1. 0 \in Pid
      BY TaskAssumption DEF Pid
    <2>2. process_terminal_cnt[running_terminal] \in 0 .. MaxTask
      BY <1>3 DEF IInv, TypeOK
    <2> QED BY <1>3, <2>1, <2>2, RunsInUse, TopLives, TaskAssumption DEF Runs
  <1>5. process_terminal_cnt[running_terminal] = 1
    <2>1. CASE victim = 0 /\ process_terminal_cnt[running_terminal] # 1
      <3>1. process_terminal_cnt[running_terminal] - 1 \in Slot \ {0}
        BY <1>4, <2>1
      <3>2. process_terminal[running_terminal][process_terminal_cnt[running_terminal] - 1] # 0
        BY <1>3, <1>4, <3>1 DEF Quiet, First
      <3> QED BY <1>3, <1>4, <2>1, <3>2 DEF TopOf
    <2> QED BY <1>1, <2>1 DEF Restarts
  <1>6. /\ frames'[cpu] = <<"halt">>
        /\ \A p \in Pid : p # cpu => frames'[p] = frames[p] /\ schedule_esp'[p] = schedule_esp[p]
        /\ \A p \in Pid : parent_esp[p].pid # cpu => parent_esp'[p] = parent_esp[p]
    BY <1>2, <1>4 DEF IInv, TypeOK, Cut
  <1>7. ASSUME NEW t \in Terminal, NEW i \in Slot \ {0}, Live(t, i)'
        PROVE  process_terminal[t][i - 1] # cpu
    BY <1>3, <1>4, <1>7, BelowTop
  <1>8. \A t \in Terminal : t # running_terminal /\ process_terminal_cnt[t] # 0 => TopOf(t) # cpu
    BY <1>3, <1>4, TopsDiffer
  <1>9. Waiting' /\ Saved' /\ Started'
    BY <1>1, <1>2, <1>4, <1>6, <1>7, <1>8, HaltLeaves
  <1>10. Halts'
    BY <1>2, <1>3, <1>4, <1>5, <1>6 DEF Halts
  <1>11. First'
    BY <1>2, <1>3, <1>4, <1>10 DEF Quiet, First
  <1> QED BY <1>2, <1>9, <1>10, <1>11 DEF Quiet

\* The process below the one that halts waits in execute, on the frame that
\* the saved parent_esp names.
LEMMA ParentWaits ==
    ASSUME IInv, Quiet, Runs, NEW victim \in Pid, Release(victim), ~Restarts(victim),
           UNCHANGED <<running_terminal>>
    PROVE  /\ process_terminal_cnt[running_terminal] - 2 \in Slot
           /\ process_terminal_cnt[running_terminal] \in Nat
           /\ Live(running_terminal, process_terminal_cnt[running_terminal] - 2)
           /\ LET q == process_terminal[running_terminal][process_terminal_cnt[running_terminal] - 2]
              IN  /\ q \in Pid /\ q # cpu /\ parent_pid[victim] = q
                  /\ parent_esp[victim] = [pid |-> q, depth |-> 1]
                  /\ frames[q] = <<"exec">>
  <1>1. victim = cpu /\ running_terminal \in Terminal
    BY ReleaseTables
  <1>2. /\ cpu \in Pid
        /\ process_terminal_cnt[running_terminal] # 0 /\ cpu = TopOf(running_terminal)
        /\ process_terminal_cnt[running_terminal] - 1 \in Slot
        /\ process_terminal_cnt[running_terminal] \in Nat
        /\ process_terminal_cnt[running_terminal] # 1
        /\ Live(running_terminal, process_terminal_cnt[running_terminal] - 1)
    <2>1. process_terminal_cnt[running_terminal] \in 0 .. MaxTask
      BY <1>1 DEF IInv, TypeOK
    <2> QED BY <1>1, <2>1, TopLives, TaskAssumption DEF Runs, Restarts
  <1> DEFINE i == process_terminal_cnt[running_terminal] - 1
  <1>3. i \in Slot \ {0} /\ i - 1 = process_terminal_cnt[running_terminal] - 2
        /\ process_terminal[running_terminal][i] = cpu
    BY <1>2 DEF TopOf
  <1> HIDE DEF i
  <1>4. /\ i - 1 \in Slot /\ Live(running_terminal, i - 1)
        /\ process_terminal[running_terminal][i - 1] \in Pid
        /\ process_terminal[running_terminal][i - 1] # cpu
    BY <1>1, <1>2, <1>3, BelowTop DEF i
  <1>5. /\ parent_pid[cpu] = process_terminal[running_terminal][i - 1]
        /\ parent_esp[cpu] = [pid |-> process_terminal[running_terminal][i - 1], depth |-> 1]
        /\ frames[process_terminal[running_terminal][i - 1]] = <<"exec">>
    BY <1>1, <1>2, <1>3 DEF Quiet, Waiting, i
  <1> QED BY <1>1, <1>2, <1>3, <1>4, <1>5

LEMMA HaltReturnsQuiet ==
    ASSUME IInv, Quiet, Runs, NEW status, HaltReturns(status) PROVE Quiet'
  <1>1. PICK victim \in Pid :
           /\ Release(victim) /\ ~Restarts(victim)
           /\ cpu' = parent_esp[victim].pid
           /\ frames' = [[frames EXCEPT ![cpu] = <<>>] EXCEPT ![parent_esp[victim].pid] =
                 Append(SubSeq(frames[parent_esp[victim].pid], 1, parent_esp[victim].depth - 1), "ret")]
           /\ schedule_esp' = [[schedule_esp EXCEPT ![cpu] = 0] EXCEPT ![parent_esp[victim].pid] =
                 IF schedule_esp[parent_esp[victim].pid] >= parent_esp[victim].depth
                 THEN 0 ELSE schedule_esp[parent_esp[victim].pid]]
           /\ parent_esp' = Cut(IF parent_esp[victim].pid = cpu THEN parent_esp
                                ELSE Cut(parent_esp, cpu, 0),
                                parent_esp[victim].pid, parent_esp[victim].depth - 1)
           /\ UNCHANGED <<current_terminal, running_terminal, terminal_running, parent_pid, wild>>
    BY DEF HaltReturns
  <1> DEFINE r == running_terminal
             c == process_terminal_cnt[running_terminal]
             q == process_terminal[running_terminal][process_terminal_cnt[running_terminal] - 2]
  <1>2. /\ victim = cpu /\ r \in Terminal
        /\ \A p \in Pid : process'[p] <=> process[p] /\ p # cpu
        /\ \A t \in Terminal : process_terminal_cnt'[t] =
              IF t = r THEN process_terminal_cnt[t] - 1 ELSE process_terminal_cnt[t]
        /\ \A t \in Terminal, i \in Slot : Live(t, i)' =>
              Live(t, i) /\ process_terminal'[t][i] = process_terminal[t][i]
                         /\ process_terminal[t][i] # cpu
    BY <1>1, ReleaseTables
  <1>3. /\ c - 2 \in Slot /\ c \in Nat /\ Live(r, c - 2)
        /\ q \in Pid /\ q # cpu /\ parent_pid[victim] = q
        /\ parent_esp[victim] = [pid |-> q, depth |-> 1]
        /\ frames[q] = <<"exec">>
    BY <1>1, ParentWaits
  <1> HIDE DEF q
  <1>4. parent_esp[victim].pid = q /\ parent_esp[victim].depth = 1 /\ 1 - 1 = 0
    BY <1>3
  <1>5. Append(SubSeq(frames[q], 1, 0), "ret") = <<"ret">>
    <2>1. <<"exec">> \in Seq(Frame) /\ Len(<<"exec">>) = 1 /\ 1 \in Nat /\ 1 <= 1 /\ "ret" \in Frame
      BY DEF Frame
    <2>2. SubSeq(<<"exec">>, 1, 0) = <<>>
      BY <2>1, SubSeqEmpty
    <2>3. <<>> \in Plain
      BY DEF Plain
    <2> QED BY <1>3, <2>1, <2>2, <2>3, PushPlain
  <1>6. /\ cpu \in Pid /\ process[cpu] /\ process[0] /\ 0 \in Pid /\ cpu # 0
        /\ c # 0 /\ cpu = TopOf(r)
    <2>1. 0 \in Pid
      BY TaskAssumption DEF Pid
    <2> QED BY <1>1, <1>2, <2>1, RunsInUse DEF Runs, Restarts
  <1>7. /\ frames \in [Pid -> Seq(Frame)] /\ schedule_esp \in [Pid -> Nat]
    BY DEF IInv, TypeOK
  <1>8. /\ cpu' = q /\ frames'[q] = <<"ret">> /\ mapped' = q /\ esp0' = q
        /\ \A p \in Pid : p # cpu /\ p # q =>
              frames'[p] = frames[p] /\ schedule_esp'[p] = schedule_esp[p]
    <2>1. frames' = [[frames EXCEPT ![cpu] = <<>>] EXCEPT ![q] = <<"ret">>]
      BY <1>1, <1>4, <1>5
    <2>2. mapped' = q /\ esp0' = q
      BY <1>1, <1>3 DEF Release
    <2> QED BY <1>1, <1>3, <1>4, <1>6, <1>7, <2>1, <2>2
  <1>9. \A p \in Pid : parent_esp[p].pid # cpu /\ parent_esp[p].pid # q => parent_esp'[p] = parent_esp[p]
    BY <1>1, <1>4 DEF Cut
  <1>10. ASSUME NEW t \in Terminal, NEW i \in Slot \ {0}, Live(t, i)'
         PROVE  process_terminal[t][i - 1] # q
    <2> SUFFICES ASSUME process_terminal[t][i - 1] = q PROVE FALSE
      OBVIOUS
    <2>1. Live(t, i - 1) /\ i - 1 \in Slot
      BY <1>2, <1>10, BelowTop
    <2>2. t = r /\ i - 1 = c - 2
      BY <1>2, <1>3, <2>1 DEF IInv, TablesAgree, ListedOnce, q
    <2>3. i \in Int /\ c - 1 \in Int /\ i < c - 1
      BY <1>2, <1>3, <1>10, <2>2, TaskAssumption DEF Live, Slot
    <2> QED BY <1>3, <2>2, <2>3
  <1>11. ASSUME NEW t \in Terminal, t # r, process_terminal_cnt[t] # 0
         PROVE  TopOf(t) # q
    BY <1>2, <1>3, <1>11, TopLives DEF IInv, TablesAgree, ListedOnce, q
  <1>12. Waiting' /\ Saved' /\ Started'
    BY <1>1, <1>3, <1>8, <1>9, <1>10, <1>11, HaltLeaves
  <1>13. process_terminal_cnt'[r] # 0 /\ TopOf(r)' = q /\ r' = r
    <2>1. process_terminal_cnt'[r] = c - 1 /\ (c - 1) - 1 = c - 2 /\ c - 2 \in Nat /\ c - 1 # 0 /\ r' = r
      BY <1>1, <1>2, <1>3, TaskAssumption DEF Slot
    <2>2. PICK k \in Slot : k = c - 2
      BY <1>3
    <2>3. PICK t \in Terminal : t = r
      BY <1>2
    <2>4. process_terminal_cnt'[t] = c - 1
      BY <2>1, <2>3
    <2>5. Live(t, k)'
      BY <1>3, <2>1, <2>2, <2>4 DEF Live
    <2>6. process_terminal'[t][k] = process_terminal[t][k]
      BY <1>2, <2>5
    <2>7. process_terminal'[t][process_terminal_cnt'[t] - 1] = q
      BY <2>1, <2>2, <2>3, <2>4, <2>6 DEF q
    <2> QED BY <2>1, <2>3, <2>4, <2>7 DEF TopOf
  <1>14. Runs'
    BY <1>8, <1>13 DEF Runs, Plain
  <1>15. First'
    <2>1. process'[0]
      BY <1>2, <1>6
    <2>2. \A t \in Terminal : \A i \in Slot \ {0} : Live(t, i)' => process_terminal'[t][i] # 0
      BY <1>2 DEF Quiet, First
    <2> QED BY <2>1, <2>2 DEF First
  <1> QED BY <1>1, <1>12, <1>14, <1>15 DEF Quiet

LEMMA HaltQuiet ==
    ASSUME IInv, Quiet, Runs, NEW status, halt(status) PROVE Quiet'
  <1>1. ~HaltLost(status)
    <2> SUFFICES ASSUME HaltLost(status) PROVE FALSE
      OBVIOUS
    <2>1. process_terminal_cnt[running_terminal] # 0
      BY DEF Runs
    <2>2. PICK victim \in Pid : /\ Release(victim) /\ ~Restarts(victim)
                                /\ parent_esp[victim].depth = 0 /\ UNCHANGED <<running_terminal>>
      BY <2>1 DEF HaltLost
    <2>3. parent_esp[victim].depth = 1
      BY <2>2, ParentWaits
    <2> QED BY <2>2, <2>3
  <1> QED BY <1>1, HaltRestartsQuiet, HaltReturnsQuiet DEF halt

-----------------------------------------------------------------------------
(***************************************************************************)
(* Ticks and Alt-Fx.                                                       *)
(***************************************************************************)
LEMMA SwitchToNewQuiet ==
    ASSUME IInv, Quiet, NEW n \in Terminal, SwitchToNew(n), race' = {} PROVE Quiet'
  <1>1. Top(frames[cpu]) # "sw" /\ Top(frames[cpu]) \in {"user", "ret", "exc"}
    BY DEF SwitchToNew, WindowRace, Interruptible
  <1>2. Runs /\ frames[cpu] \in Plain
    BY <1>1, WhereRuns
  <1>3. /\ cpu \in Pid /\ process[0] /\ running_terminal \in Terminal
        /\ frames \in [Pid -> Seq(Frame)] /\ schedule_esp \in [Pid -> Nat]
        /\ terminal_running \in [Terminal -> BOOLEAN]
    BY <1>2, RunsInUse DEF IInv, TypeOK
  <1>4. /\ frames' = [frames EXCEPT ![cpu] = Append(frames[cpu], "sw")]
        /\ schedule_esp' = [schedule_esp EXCEPT ![cpu] = Len(frames[cpu]) + 1]
        /\ terminal_running' = [terminal_running EXCEPT ![n] = TRUE]
        /\ current_terminal' = n /\ running_terminal' = n
        /\ ~terminal_running[n] /\ \E p \in Pid : ~process[p]
        /\ UNCHANGED <<process, process_terminal, process_terminal_cnt, parent_pid, parent_esp,
                       cpu, wild>>
    BY <1>3 DEF SwitchToNew, tables
  <1>5. process_terminal_cnt[n] = 0 /\ n # running_terminal
    BY <1>4 DEF Quiet, Started
  <1>6. /\ Append(frames[cpu], "sw") \in Switching
        /\ Above(Append(frames[cpu], "sw"), Len(frames[cpu]) + 1)
    <2>1. "sw" \in Frame
      BY DEF Frame
    <2> QED BY <1>2, <2>1, PushPlain
  <1>7. /\ frames'[cpu] = Append(frames[cpu], "sw") /\ schedule_esp'[cpu] = Len(frames[cpu]) + 1
        /\ \A p \in Pid : p # cpu => frames'[p] = frames[p] /\ schedule_esp'[p] = schedule_esp[p]
        /\ \A t \in Terminal : TopOf(t)' = TopOf(t)
    BY <1>3, <1>4 DEF TopOf
  <1>8. Opens'
    <2>1. PICK o \in Terminal : o = running_terminal
      BY <1>3
    <2>2. \E t \in Terminal : /\ t # running_terminal'
                              /\ process_terminal_cnt'[t] # 0 /\ cpu' = TopOf(t)'
      <3>1. o # running_terminal' /\ process_terminal_cnt'[o] # 0
        BY <1>2, <1>4, <1>5, <2>1 DEF Runs
      <3>2. cpu' = TopOf(o)'
        BY <1>2, <1>4, <1>7, <2>1 DEF Runs
      <3> QED BY <3>1, <3>2
    <2> QED BY <1>4, <1>5, <1>6, <1>7, <2>2 DEF Opens
  <1>9. Waiting'
    <2> SUFFICES ASSUME NEW t \in Terminal, NEW i \in Slot \ {0}, Live(t, i)
                 PROVE  /\ parent_pid[process_terminal[t][i]] = process_terminal[t][i - 1]
                        /\ parent_esp[process_terminal[t][i]] =
                               [pid |-> process_terminal[t][i - 1], depth |-> 1]
                        /\ frames'[process_terminal[t][i - 1]] = <<"exec">>
      BY <1>4 DEF Waiting, Live
    <2>1. process_terminal[t][i - 1] \in Pid /\ process_terminal[t][i - 1] # cpu
      BY <1>2, <1>3, BelowTop DEF Runs
    <2> QED BY <1>7, <2>1 DEF Quiet, Waiting
  <1>10. Saved'
    <2> SUFFICES ASSUME NEW t \in Terminal, t # n, terminal_running'[t]
                 PROVE  /\ process_terminal_cnt[t] # 0
                        /\ Above(frames'[TopOf(t)], schedule_esp'[TopOf(t)])
      BY <1>4, <1>7 DEF Saved
    <2>1. CASE t = running_terminal
      BY <1>2, <1>6, <1>7, <2>1 DEF Runs
    <2>2. CASE t # running_terminal
      <3>1. terminal_running[t]
        BY <1>3, <1>4
      <3>2. process_terminal_cnt[t] # 0 /\ Above(frames[TopOf(t)], schedule_esp[TopOf(t)])
        BY <2>2, <3>1 DEF Quiet, Saved
      <3>3. TopOf(t) \in Pid /\ TopOf(t) # cpu
        BY <1>2, <1>3, <2>2, <3>2, TopLives, TopsDiffer DEF Runs
      <3> QED BY <1>7, <3>2, <3>3
    <2> QED BY <2>1, <2>2
  <1>11. Started'
    BY <1>3, <1>4 DEF Quiet, Started
  <1>12. First'
    BY <1>3, <1>4 DEF Quiet, First, Live
  <1> QED BY <1>4, <1>8, <1>9, <1>10, <1>11, <1>12 DEF Quiet

\* A full turn of the search loop comes back to the running terminal.
LEMMA FullTurn ==
    ASSUME NEW r \in Terminal PROVE (r + NumTerminals) % NumTerminals = r
  <1>1. NumTerminals \in Nat \ {0} /\ r \in Nat /\ r < NumTerminals
    BY TerminalAssumption DEF Terminal
  <1>2. (r + NumTerminals) % NumTerminals \in 0 .. (NumTerminals - 1)
    BY <1>1
  <1> QED BY <1>1, <1>2

\* The tick resumes the top process of the next running terminal, on the frame
\* that was on its stack when it lost the CPU.
LEMMA TickSwitchQuiet ==
    ASSUME IInv, Quiet, TickSwitch, race' = {} PROVE Quiet'
  <1> DEFINE saved  == [schedule_esp EXCEPT ![cpu] = Len(frames[cpu]) + 1]
             stacks == [frames EXCEPT ![cpu] = Append(@, "tick")]
  <1>1. Top(frames[cpu]) # "sw" /\ Top(frames[cpu]) \in {"user", "ret", "exc"}
    BY DEF TickSwitch, WindowRace, Interruptible
  <1>2. Runs /\ frames[cpu] \in Plain
    BY <1>1, WhereRuns
  <1>3. /\ cpu \in Pid /\ process[0] /\ running_terminal \in Terminal
        /\ frames \in [Pid -> Seq(Frame)] /\ schedule_esp \in [Pid -> Nat]
        /\ process_terminal_cnt[running_terminal] # 0 /\ cpu = TopOf(running_terminal)
        /\ terminal_running[running_terminal]
    BY <1>2, RunsInUse DEF IInv, TypeOK, Runs, Quiet, Started
  <1>4. PICK d \in 1 .. NumTerminals :
           /\ Searched(d)
           /\ running_terminal' = (running_terminal + d) % NumTerminals
           /\ \E next \in Pid \cap TopReads((running_terminal + d) % NumTerminals) :
                /\ Resume(next, saved, stacks) \/ ResumeLost(next, saved, stacks)
                /\ mapped' = next
                /\ esp0' = next
    BY DEF TickSwitch
  <1> DEFINE n == (running_terminal + d) % NumTerminals
  <1>5. n \in Terminal /\ terminal_running[n]
    <2>1. running_terminal \in Nat /\ d \in Nat /\ NumTerminals \in Nat \ {0}
      BY <1>3, TerminalAssumption DEF Terminal
    <2>2. n \in Terminal
      BY <2>1 DEF Terminal
    <2>3. d = NumTerminals => n = running_terminal
      BY <1>3, FullTurn
    <2> HIDE DEF n
    <2>4. terminal_running[n] \/ d = NumTerminals
      BY <1>4 DEF Searched, n
    <2> QED BY <1>3, <2>2, <2>3, <2>4
  <1> HIDE DEF n
  <1>6. running_terminal' = n
    BY <1>4 DEF n
  <1>7. process_terminal_cnt[n] # 0
    BY <1>3, <1>5 DEF Quiet, Saved
  <1>8. TopReads(n) = {TopOf(n)} /\ TopOf(n) \in Pid
    BY <1>5, <1>7, TopLives DEF TopReads, TopOf
  <1> DEFINE next == TopOf(n)
  <1>9. /\ Resume(next, saved, stacks) \/ ResumeLost(next, saved, stacks)
        /\ mapped' = next /\ esp0' = next
    BY <1>4, <1>8 DEF n
  <1>10. /\ UNCHANGED <<process, process_terminal, process_terminal_cnt, current_terminal,
                        terminal_running, parent_pid>>
         /\ \A t \in Terminal : TopOf(t)' = TopOf(t)
    BY DEF TickSwitch, tables, TopOf
  <1>11. /\ saved[cpu] = Len(frames[cpu]) + 1 /\ stacks[cpu] = Append(frames[cpu], "tick")
         /\ \A p \in Pid : p # cpu => saved[p] = schedule_esp[p] /\ stacks[p] = frames[p]
         /\ Above(stacks[cpu], saved[cpu]) /\ saved[cpu] \in Nat /\ saved[cpu] <= Len(stacks[cpu])
         /\ stacks[cpu] \in Seq(Frame) /\ DOMAIN stacks = Pid /\ DOMAIN saved = Pid
    <2>1. "tick" \in Frame /\ frames[cpu] \in Seq(Frame)
      BY <1>3 DEF Frame
    <2>2. /\ Append(frames[cpu], "tick") \in Seq(Frame) /\ Len(frames[cpu]) \in Nat
          /\ Len(Append(frames[cpu], "tick")) = Len(frames[cpu]) + 1
      BY <2>1, PushStack
    <2>3. Above(Append(frames[cpu], "tick"), Len(frames[cpu]) + 1)
      BY <1>2, <2>1, PushPlain
    <2>4. /\ saved[cpu] = Len(frames[cpu]) + 1 /\ stacks[cpu] = Append(frames[cpu], "tick")
          /\ \A p \in Pid : p # cpu => saved[p] = schedule_esp[p] /\ stacks[p] = frames[p]
          /\ DOMAIN stacks = Pid /\ DOMAIN saved = Pid
      BY <1>3
    <2> HIDE DEF saved, stacks
    <2> QED BY <2>2, <2>3, <2>4
  <1> HIDE DEF saved, stacks
  <1>12. next # cpu => /\ n # running_terminal
                       /\ Above(frames[next], schedule_esp[next])
                       /\ schedule_esp[next] \in Nat /\ schedule_esp[next] <= Len(frames[next])
                       /\ frames[next] \in Seq(Frame)
    BY <1>3, <1>5, <1>8 DEF Quiet, Saved, IInv, ContextsInside
  <1>13. /\ Above(stacks[next], saved[next]) /\ saved[next] \in Nat
         /\ saved[next] <= Len(stacks[next]) /\ stacks[next] \in Seq(Frame)
    BY <1>8, <1>11, <1>12
  <1>14. saved[next] # 0 /\ SubSeq(stacks[next], 1, saved[next] - 1) \in Plain
    BY <1>13, Back
  <1> DEFINE below == SubSeq(stacks[next], 1, saved[next] - 1)
             top   == IF pending_signal[next] THEN Append(below, "sig") ELSE below
  <1>15. /\ cpu' = next /\ wild' = wild
         /\ frames' = [stacks EXCEPT ![next] = top]
         /\ schedule_esp' = [saved EXCEPT ![next] = 0]
         /\ parent_esp' = Cut(parent_esp, next, saved[next] - 1)
    BY <1>9, <1>14 DEF Resume, ResumeLost
  <1>16. top \in Plain \cup Signalled
    <2>1. "sig" \in Frame /\ below \in Plain
      BY <1>14 DEF Frame
    <2> HIDE DEF below
    <2> QED BY <2>1, PushPlain
  <1> HIDE DEF top
  <1>17. /\ frames'[next] = top
         /\ \A p \in Pid : p # next => frames'[p] = stacks[p] /\ schedule_esp'[p] = saved[p]
         /\ \A p \in Pid : parent_esp[p].pid # next => parent_esp'[p] = parent_esp[p]
    <2>1. /\ frames'[next] = top
          /\ \A p \in Pid : p # next => frames'[p] = stacks[p] /\ schedule_esp'[p] = saved[p]
      BY <1>8, <1>11, <1>15
    <2> QED BY <1>15, <2>1 DEF Cut
  <1>18. Runs'
    BY <1>5, <1>6, <1>7, <1>9, <1>10, <1>15, <1>16, <1>17 DEF Runs
  <1>19. Waiting'
    <2> SUFFICES ASSUME NEW t \in Terminal, NEW i \in Slot \ {0}, Live(t, i)
                 PROVE  /\ parent_pid[process_terminal[t][i]] = process_terminal[t][i - 1]
                        /\ parent_esp'[process_terminal[t][i]] =
                               [pid |-> process_terminal[t][i - 1], depth |-> 1]
                        /\ frames'[process_terminal[t][i - 1]] = <<"exec">>
      BY <1>10 DEF Waiting, Live
    <2>1. /\ process_terminal[t][i] \in Pid /\ process_terminal[t][i - 1] \in Pid
          /\ process_terminal[t][i - 1] # cpu /\ process_terminal[t][i - 1] # next
      BY <1>3, <1>5, <1>7, BelowTop
    <2>2. /\ parent_pid[process_terminal[t][i]] = process_terminal[t][i - 1]
          /\ parent_esp[process_terminal[t][i]] =
                 [pid |-> process_terminal[t][i - 1], depth |-> 1]
          /\ frames[process_terminal[t][i - 1]] = <<"exec">>
      BY DEF Quiet, Waiting
    <2>3. parent_esp[process_terminal[t][i]].pid = process_terminal[t][i - 1]
      BY <2>2
    <2> QED BY <1>11, <1>17, <2>1, <2>2, <2>3
  <1>20. Saved'
    <2> SUFFICES ASSUME NEW t \in Terminal, t # n, terminal_running[t]
                 PROVE  /\ process_terminal_cnt[t] # 0
                        /\ Above(frames'[TopOf(t)], schedule_esp'[TopOf(t)])
      BY <1>6, <1>10 DEF Saved
    <2>1. CASE t = running_terminal
      <3>1. cpu # next
        BY <1>3, <1>5, <1>7, <2>1, TopsDiffer
      <3> QED BY <1>3, <1>11, <1>17, <2>1, <3>1
    <2>2. CASE t # running_terminal
      <3>1. process_terminal_cnt[t] # 0 /\ Above(frames[TopOf(t)], schedule_esp[TopOf(t)])
        BY <2>2 DEF Quiet, Saved
      <3>2. TopOf(t) \in Pid /\ TopOf(t) # cpu /\ TopOf(t) # next
        BY <1>3, <1>5, <1>7, <2>2, <3>1, TopLives, TopsDiffer
      <3> QED BY <1>11, <1>17, <3>1, <3>2
    <2> QED BY <2>1, <2>2
  <1>21. Started'
    BY <1>5, <1>6, <1>10 DEF Quiet, Started
  <1>22. First'
    BY <1>3, <1>10 DEF Quiet, First, Live
  <1> QED BY <1>15, <1>18, <1>19, <1>20, <1>21, <1>22 DEF Quiet

-----------------------------------------------------------------------------
(***************************************************************************)
(* The invariant.                                                          *)
(***************************************************************************)
LEMMA InitQuiet == Init => JInv
  <1> SUFFICES ASSUME Init PROVE JInv
    OBVIOUS
  <1>1. 0 \in Pid /\ 0 \in Terminal
    BY TaskAssumption, TerminalAssumption DEF Pid, Terminal
  <1>2. \A t \in Terminal : process_terminal_cnt[t] = 0 /\ (terminal_running[t] <=> t = 0)
    BY DEF Init
  <1>3. running_terminal = 0 /\ current_terminal = 0 /\ ~wild /\ cpu = 0
        /\ \A p \in Pid : ~process[p]
    BY DEF Init
  <1>4. \A t \in Terminal : \A i \in Slot : ~Live(t, i)
    BY <1>2, TaskAssumption DEF Live, Slot
  <1>5. frames[cpu] = <<"sw">>
    BY <1>1, <1>3 DEF Init
  <1>6. Boots
    BY <1>1, <1>2, <1>3, <1>5 DEF Boots
  <1>7. Waiting /\ First
    BY <1>3, <1>4, <1>6 DEF Waiting, First
  <1>8. Saved /\ Started
    BY <1>1, <1>2, <1>3 DEF Saved, Started
  <1> QED BY <1>3, <1>6, <1>7, <1>8, InitHolds DEF JInv, Quiet

\* A race that happened is never forgotten.
LEMMA RaceStays == ASSUME [Next]_vars, race' = {} PROVE race = {}
  <1>1. \A new \in Pid, waits \in BOOLEAN : Spawn(new, waits) => race = {}
    BY DEF Spawn
  <1>2. \A st : halt(st) => race = {}
    BY DEF halt, HaltRestarts, HaltReturns, HaltLost, history
  <1>3. race' = WindowRace => race = {}
    BY DEF WindowRace
  <1>4. CASE Execute \/ SwitchExecute \/ HaltExecute
    BY <1>1, <1>4 DEF Execute, SwitchExecute, HaltExecute
  <1>5. CASE SignalHalts \/ \E s \in Status : Halt(s)
    BY <1>2, <1>5 DEF SignalHalts, Halt
  <1>6. CASE TickSwitch \/ TickSignal \/ CtrlC \/ \E t \in Terminal : SwitchToNew(t)
    BY <1>3, <1>6 DEF TickSwitch, TickSignal, CtrlC, SwitchToNew
  <1>7. CASE SwitchExecuteFails \/ ExecuteReturns \/ Exception \/ SetHandler \/ SignalHandled
             \/ \E t \in Terminal : SwitchToRunning(t)
    BY <1>7 DEF SwitchExecuteFails, ExecuteReturns, Exception, SetHandler, SignalHandled,
                SwitchToRunning, history
  <1>8. CASE UNCHANGED vars
    BY <1>8 DEF vars, history
  <1> QED BY <1>4, <1>5, <1>6, <1>7, <1>8 DEF Next

LEMMA StutterQuiet ==
    ASSUME Quiet, UNCHANGED vars PROVE Quiet'
  <1>1. /\ UNCHANGED tables /\ UNCHANGED machine
        /\ UNCHANGED <<running_terminal, terminal_running, parent_pid, parent_esp,
                       schedule_esp, wild, current_terminal>>
    BY DEF vars, pcbs
  <1> QED BY <1>1, SameQuiet DEF Quiet, Started

LEMMA NextQuiet == JInv /\ [Next]_vars => JInv'
  <1> SUFFICES ASSUME JInv, [Next]_vars PROVE JInv'
    OBVIOUS
  <1>0. IInv /\ IInv'
    BY NextKeeps DEF JInv
  <1> SUFFICES ASSUME race' = {} PROVE Quiet'
    BY <1>0 DEF JInv
  <1>1. Quiet
    BY RaceStays DEF JInv
  <1>2. CASE Execute
    BY <1>0, <1>1, <1>2, ExecuteQuiet
  <1>3. CASE SwitchExecute
    BY <1>0, <1>1, <1>3, SwitchExecuteQuiet
  <1>4. CASE SwitchExecuteFails
    BY <1>0, <1>1, <1>4, SwitchExecuteFailsNot
  <1>5. CASE HaltExecute
    BY <1>0, <1>1, <1>5, HaltExecuteQuiet
  <1>6. CASE ExecuteReturns
    BY <1>0, <1>1, <1>6, ExecuteReturnsQuiet
  <1>7. CASE \E s \in Status : Halt(s)
    <2>1. PICK s \in Status : UserMode /\ halt(s)
      BY <1>7 DEF Halt
    <2>2. frames[cpu] \in Plain
      BY <2>1 DEF UserMode, Plain
    <2> QED BY <1>0, <1>1, <2>1, <2>2, WhereRuns, HaltQuiet
  <1>8. CASE Exception
    BY <1>0, <1>1, <1>8, ExceptionQuiet
  <1>9. CASE SetHandler
    BY <1>0, <1>1, <1>9, SetHandlerQuiet
  <1>10. CASE TickSwitch
    BY <1>0, <1>1, <1>10, TickSwitchQuiet
  <1>11. CASE TickSignal
    BY <1>0, <1>1, <1>11, TickSignalQuiet
  <1>12. CASE SignalHalts
    <2>1. Top(frames[cpu]) = "sig" /\ halt(0)
      BY <1>12 DEF SignalHalts
    <2>2. Runs
      BY <1>0, <1>1, <2>1, WhereRuns
    <2> QED BY <1>0, <1>1, <2>1, <2>2, HaltQuiet
  <1>13. CASE SignalHandled
    BY <1>0, <1>1, <1>13, SignalHandledQuiet
  <1>14. CASE CtrlC
    BY <1>0, <1>1, <1>14, CtrlCQuiet
  <1>15. CASE \E t \in Terminal : SwitchToRunning(t)
    BY <1>0, <1>1, <1>15, SwitchToRunningQuiet
  <1>16. CASE \E t \in Terminal : SwitchToNew(t)
    BY <1>0, <1>1, <1>16, SwitchToNewQuiet
  <1>17. CASE UNCHANGED vars
    BY <1>1, <1>17, StutterQuiet
  <1> QED BY <1>2, <1>3, <1>4, <1>5, <1>6, <1>7, <1>8, <1>9, <1>10, <1>11, <1>12,
             <1>13, <1>14, <1>15, <1>16, <1>17 DEF Next

-----------------------------------------------------------------------------
\* Unless execute runs for a terminal that is not on the screen, or an interrupt
\* falls into the window of switch_to_terminal, the CPU is always in the process
\* on top of the running terminal, in its page and on its stack: halt releases
\* its caller (syscall.c 37-56) and a tick saves the context it interrupted in
\* the pcb of the process it belongs to (scheduling.c 80-84).
THEOREM AlwaysIsolated == Spec => []Isolation
  <1>1. JInv => Isolation
    <2> SUFFICES ASSUME JInv, race = {}, Settled
                 PROVE  /\ process_terminal_cnt[running_terminal] # 0
                        /\ cpu = TopOf(running_terminal)
                        /\ mapped = cpu
                        /\ esp0 = cpu
      BY DEF Isolation
    <2>1. Quiet /\ Top(frames[cpu]) \notin {"sw", "halt"}
      BY DEF JInv, Settled
    <2>2. ~Halts /\ ~Boots /\ ~Opens
      <3>1. <<"sw">> \in Switching
        BY DEF Switching
      <3> QED BY <2>1, <3>1, TopFrames DEF Halts, Boots, Opens
    <2> QED BY <2>1, <2>2 DEF Quiet, Runs
  <1> QED BY <1>1, InitQuiet, NextQuiet, PTL DEF Spec

\* Control is lost only after one of the two races: neither pit_handler nor halt
\* ever loads a dead context, and no key reads left of a row of process_terminal.
THEOREM ControlKept == Spec => []LostOnlyByRace
  <1>1. JInv => LostOnlyByRace
    BY DEF JInv, Quiet, LostOnlyByRace
  <1> QED BY <1>1, InitQuiet, NextQuiet, PTL DEF Spec

\* Without a race every started terminal that does not run has a process on top
\* whose saved context is live, so the round robin can always go on to it.
THEOREM AlwaysResumable == Spec => []Resumable
  <1>1. JInv => Resumable
    <2> SUFFICES ASSUME JInv, race = {},
                        NEW t \in Terminal, t # running_terminal, terminal_running[t]
                 PROVE  process_terminal_cnt[t] # 0 /\ schedule_esp[TopOf(t)] # 0
      BY DEF Resumable
    <2>1. process_terminal_cnt[t] # 0 /\ Above(frames[TopOf(t)], schedule_esp[TopOf(t)])
      BY DEF JInv, Quiet, Saved
    <2> QED BY <2>1 DEF Above
  <1> QED BY <1>1, InitQuiet, NextQuiet, PTL DEF Spec

\* Without a race every process above the bottom of its terminal has the one
\* below it as its parent, which waits in execute on the frame that halt jumps
\* to: halt always returns to the caller of execute (syscall.c 43-81).
THEOREM ParentsWait == Spec => []ParentBelow
  <1>1. JInv => ParentBelow
    BY DEF JInv, Quiet, Waiting, ParentBelow
  <1> QED BY <1>1, InitQuiet, NextQuiet, PTL DEF Spec

-----------------------------------------------------------------------------
\* halt leaves pid 0 in every slot it frees, and no slot was anything else
\* before it was first used.
FreedSlots == \A t \in Terminal : \A i \in Slot : Live(t, i) \/ process_terminal[t][i] = 0

LEMMA FreedTables ==
    ASSUME IInv, FreedSlots, [Next]_vars PROVE FreedSlots'
  <1>0. /\ process_terminal \in [Terminal -> [Slot -> Pid]]
        /\ process_terminal_cnt \in [Terminal -> 0 .. MaxTask]
        /\ current_terminal \in Terminal /\ running_terminal \in Terminal
        /\ TablesType /\ TablesAgree /\ MaxTask \in Nat
    BY TaskAssumption DEF IInv, TypeOK, TablesType
  <1>1. ASSUME NEW new \in Pid, NEW waits \in BOOLEAN, Spawn(new, waits) PROVE FreedSlots'
    <2>1. process_terminal_cnt[current_terminal] < MaxTask
      BY <1>0, <1>1, RowHasRoom DEF Spawn, LowestFree
    <2>2. process_terminal_cnt[current_terminal] \in Slot
      BY <1>0, <2>1 DEF Slot
    <2> SUFFICES ASSUME NEW t \in Terminal, NEW i \in Slot
                 PROVE  Live(t, i)' \/ process_terminal'[t][i] = 0
      BY DEF FreedSlots
    <2>3. i \in Nat /\ process_terminal_cnt[t] \in Nat /\ (Live(t, i) \/ process_terminal[t][i] = 0)
      BY <1>0 DEF Slot, FreedSlots
    <2>4. CASE t = current_terminal
      <3>1. process_terminal_cnt'[t] = process_terminal_cnt[t] + 1
            /\ process_terminal'[t][i] = IF i = process_terminal_cnt[t] THEN new ELSE process_terminal[t][i]
        BY <1>0, <1>1, <2>2, <2>4 DEF Spawn
      <3> QED BY <2>3, <3>1 DEF Live
    <2>5. CASE t # current_terminal
      BY <1>0, <1>1, <2>3, <2>5 DEF Spawn, Live
    <2> QED BY <2>4, <2>5
  <1>2. ASSUME NEW victim \in Pid, Release(victim) PROVE FreedSlots'
    <2>1. process_terminal_cnt[running_terminal] - 1 \in Slot
      BY <1>0, <1>2 DEF Release, Slot
    <2> SUFFICES ASSUME NEW t \in Terminal, NEW i \in Slot
                 PROVE  Live(t, i)' \/ process_terminal'[t][i] = 0
      BY DEF FreedSlots
    <2>2. i \in Nat /\ process_terminal_cnt[t] \in Nat /\ (Live(t, i) \/ process_terminal[t][i] = 0)
      BY <1>0 DEF Slot, FreedSlots
    <2>3. CASE t = running_terminal
      <3>1. process_terminal_cnt'[t] = process_terminal_cnt[t] - 1
            /\ process_terminal'[t][i] = IF i = process_terminal_cnt[t] - 1 THEN 0 ELSE process_terminal[t][i]
        BY <1>0, <1>2, <2>1, <2>3 DEF Release
      <3> QED BY <2>2, <3>1 DEF Live
    <2>4. CASE t # running_terminal
      BY <1>0, <1>2, <2>2, <2>4 DEF Release, Live
    <2> QED BY <2>3, <2>4
  <1>3. UNCHANGED tables => FreedSlots'
    BY DEF tables, FreedSlots, Live
  <1>4. CASE Execute \/ SwitchExecute \/ HaltExecute
    BY <1>1, <1>4 DEF Execute, SwitchExecute, HaltExecute
  <1>5. \A st : halt(st) => FreedSlots'
    BY <1>2, <1>3 DEF halt, HaltRestarts, HaltReturns, HaltLost
  <1>6. CASE SignalHalts \/ \E s \in Status : Halt(s)
    BY <1>5, <1>6 DEF SignalHalts, Halt
  <1>7. CASE \/ SwitchExecuteFails \/ ExecuteReturns \/ Exception \/ SetHandler \/ SignalHandled
             \/ TickSwitch \/ TickSignal \/ CtrlC \/ UNCHANGED vars
             \/ \E t \in Terminal : SwitchToRunning(t) \/ SwitchToNew(t)
    <2>1. UNCHANGED tables
      BY <1>7 DEF SwitchExecuteFails, ExecuteReturns, Exception, SetHandler, SignalHandled,
                  SwitchToRunning, SwitchToNew, TickSwitch, TickSignal, CtrlC, vars
    <2> QED BY <1>3, <2>1
  <1> QED BY <1>4, <1>6, <1>7 DEF Next

\* get_terminal_id finds the terminal of every process but pid 0, races or not:
\* it also looks at freed slots, which is why it can be wrong for pid 0.
THEOREM TerminalIds == Spec => []TerminalIdOfOthers
  <1>1. Init => FreedSlots
    BY DEF Init, FreedSlots
  <1>2. IInv /\ FreedSlots => TerminalIdOfOthers
    <2> SUFFICES ASSUME IInv, FreedSlots, NEW p \in Pid \ {0}
                 PROVE  get_terminal_id(p) = RunsOn(p)
      BY DEF TerminalIdOfOthers
    <2> DEFINE rows == {t \in Terminal : \E i \in Slot : process_terminal[t][i] = p}
               live == {t \in Terminal : \E i \in Slot : Live(t, i) /\ process_terminal[t][i] = p}
    <2>1. rows = live
      BY DEF FreedSlots
    <2>2. \A t, u \in rows : t = u
      BY <2>1 DEF IInv, TablesAgree, ListedOnce
    <2>3. \A t \in rows : t <= t
      BY TerminalAssumption DEF Terminal
    <2>4. /\ get_terminal_id(p) = IF rows = {} THEN NotRunning
                                  ELSE CHOOSE t \in rows : \A u \in rows : t <= u
          /\ RunsOn(p) = IF live = {} THEN NotRunning ELSE CHOOSE t \in live : TRUE
      BY DEF get_terminal_id, RunsOn
    <2> HIDE DEF rows, live
    <2>5. CASE rows = {}
      BY <2>1, <2>4, <2>5
    <2>6. CASE rows # {}
      <3>1. (CHOOSE t \in live : TRUE) \in rows
        BY <2>1, <2>6
      <3>2. (CHOOSE t \in rows : \A u \in rows : t <= u) \in rows
        BY <2>2, <2>3, <2>6
      <3> QED BY <2>1, <2>2, <2>4, <2>6, <3>1, <3>2
    <2> QED BY <2>5, <2>6
  <1>3. IInv /\ FreedSlots /\ [Next]_vars => FreedSlots'
    BY FreedTables
  <1> QED BY <1>1, <1>2, <1>3, InitHolds, NextKeeps, PTL DEF Spec

=============================================================================
