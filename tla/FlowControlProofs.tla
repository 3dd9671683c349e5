-------------------------- MODULE FlowControlProofs --------------------------
(***************************************************************************)
(* Proofs about FlowControl, for flows as FAIL* is used today: a flow that *)
(* another flow has added is removed by that flow and does not end by      *)
(* itself, and requests are made by experiments, one at a time.            *)
(***************************************************************************)
EXTENDS FlowControl, SequenceTheorems, TLAPS

\* What the theorems assume of the flows.
Disciplined == ~NestedEnd /\ ~OthersRequest

Depth == Len(m_togglerstack)

\* The stack holds entries of the simulator, left over or not, and above them a
\* chain of flows each of which has added the next one and waits for it; the
\* last of the chain has added the running flow, or the simulator toggled it.
StackInv ==
  /\ \A i \in 1..Depth : m_togglerstack[i] \in Flows =>
       /\ m_togglerstack[i] \in m_Flows /\ m_togglerstack[i] # current
       /\ waiting[m_togglerstack[i]] = "child"
       /\ restarget[m_togglerstack[i]] # current
       /\ i > 1 /\ toggledBy[m_togglerstack[i]] = m_togglerstack[i - 1]
  /\ \A i, j \in 1..Depth : m_togglerstack[i] \in Flows /\ i < j =>
       /\ m_togglerstack[j] \in Flows /\ m_togglerstack[j] # m_togglerstack[i]
       /\ restarget[m_togglerstack[i]] # m_togglerstack[j]
       /\ j = i + 1 => restarget[m_togglerstack[j]] = m_togglerstack[i]
  /\ current \in Flows =>
       /\ current \in m_Flows /\ Depth > 0
       /\ m_togglerstack[Depth] = toggledBy[current]
       /\ m_togglerstack[Depth] \in Flows => restarget[current] = m_togglerstack[Depth]
  /\ current = Sim => \A i \in 1..Depth : m_togglerstack[i] = Sim

\* Flows that do not exist have no listeners, and nobody is continued by the
\* end of a flow that does not exist.
FlowInv ==
  /\ \A f \in Flows : f \notin m_Flows => listeners[f] = 0 /\ m_FireList[f] = 0
  /\ \A f \in m_Flows : restarget[f] \in m_Flows \cup {Sim, Deleted}
  /\ \A f \in Experiments : restarget[f] = Sim
  /\ \A f \in Flows : restarget[f] # f

\* What a flow with listeners waits for is an event, unless it waits for a flow
\* that it has added.
WaitInv ==
  /\ current \in Flows => reason = waiting[current]
  /\ \A f \in Flows : waiting[f] = "child" => f = current \/ \E i \in 1..Depth : m_togglerstack[i] = f
  /\ \A f \in Flows : f # current /\ waiting[f] # "child" /\ (listeners[f] > 0 \/ m_FireList[f] > 0)
       => waiting[f] = "event"

\* At most one request is under way, and the flow that made it waits for it.
RequestInv ==
  requests # {} \/ restored =>
    /\ m_CurrFlow \in Experiments /\ m_CurrFlow \in m_Flows /\ m_CurrFlow # current
    /\ \/ ~restored /\ requests = {waiting[m_CurrFlow]}
       \/ restored /\ requests = {} /\ waiting[m_CurrFlow] = "restore"

Inv ==
  /\ TypeOK
  /\ m_Terminated => current \in Flows
  /\ ~m_Terminated => StackInv /\ FlowInv /\ WaitInv /\ RequestInv

-----------------------------------------------------------------------------
(***************************************************************************)
(* Pushing a coroutine on the stack of togglers.                           *)
(***************************************************************************)
LEMMA AppendFacts ==
  ASSUME NEW C, NEW s \in Seq(C), NEW x \in C
  PROVE  /\ Append(s, x) \in Seq(C) /\ Len(Append(s, x)) = Len(s) + 1 /\ Len(s) \in Nat
         /\ \A i \in 1..Len(s) : Append(s, x)[i] = s[i] /\ s[i] \in C
         /\ Append(s, x)[Len(s) + 1] = x
  OBVIOUS

(***************************************************************************)
(* Taking the top off the stack of togglers.                               *)
(***************************************************************************)
LEMMA FrontFacts ==
  ASSUME NEW C, NEW s \in Seq(C), Len(s) > 0
  PROVE  /\ Front(s) \in Seq(C) /\ Len(Front(s)) = Len(s) - 1 /\ Len(s) \in Nat
         /\ \A i \in 1..(Len(s) - 1) : Front(s)[i] = s[i]
         /\ Last(s) = s[Len(s)]
         /\ \A i \in 1..Len(s) : s[i] \in C
<1>1. Len(s) \in Nat /\ \A i \in 1..Len(s) : s[i] \in C
  OBVIOUS
<1>2. /\ SubSeq(s, 1, Len(s) - 1) \in Seq(C) /\ Len(SubSeq(s, 1, Len(s) - 1)) = Len(s) - 1
      /\ \A i \in 1..(Len(s) - 1) : SubSeq(s, 1, Len(s) - 1)[i] = s[i]
  <2> DEFINE m == Len(s) - 1
  <2>1. m \in Int /\ \A i \in 1..m : s[i] \in C
    BY <1>1
  <2>2. /\ SubSeq(s, 1, m) \in Seq(C) /\ Len(SubSeq(s, 1, m)) = IF 1 <= m THEN m - 1 + 1 ELSE 0
        /\ \A i \in 1..(m - 1 + 1) : SubSeq(s, 1, m)[i] = s[1 + i - 1]
    <3> HIDE DEF m
    <3> QED
      BY <2>1, SubSeqProperties
  <2>3. Len(SubSeq(s, 1, m)) = m
    <3>1. m \in Nat
      BY <1>1
    <3> HIDE DEF m
    <3> QED
      BY <2>2, <3>1
  <2>4. \A i \in 1..m : SubSeq(s, 1, m)[i] = s[i]
    <3>1. ASSUME NEW i \in 1..m PROVE i \in 1..(m - 1 + 1) /\ 1 + i - 1 = i
      BY <1>1
    <3> QED
      BY Zenon, <3>1, <2>2
  <2> QED
    BY Zenon, <2>2, <2>3, <2>4
<1> QED
  BY Zenon, <1>1, <1>2 DEF Front, Last

(***************************************************************************)
(* The invariant holds initially.                                          *)
(***************************************************************************)
LEMMA InitInv == Init => Inv
<1> SUFFICES ASSUME Init PROVE Inv
  BY Zenon
<1> USE FlowAssumption DEF Init
<1>1. TypeOK
  <2>1. m_Terminated \in BOOLEAN /\ restored \in BOOLEAN
    BY Zenon
  <2>2. m_togglerstack \in Seq(Coroutines)
    OBVIOUS
  <2>3. /\ restarget \in [Flows -> Coroutines \cup {Deleted}] /\ toggledBy \in [Flows -> Coroutines]
        /\ current \in Coroutines /\ m_CurrFlow \in Coroutines
    BY Zenon DEF Coroutines
  <2>4. listeners \in [Flows -> 0..MaxListeners] /\ m_FireList \in [Flows -> 0..MaxListeners]
    OBVIOUS
  <2> QED
    BY Zenon, <2>1, <2>2, <2>3, <2>4 DEF TypeOK
<1>2. StackInv
  BY DEF StackInv, Depth
<1>3. FlowInv
  BY Zenon DEF FlowInv
<1>4. WaitInv
  BY DEF WaitInv
<1>5. RequestInv
  BY Zenon DEF RequestInv
<1> QED
  BY Zenon, <1>1, <1>2, <1>3, <1>4, <1>5 DEF Inv

-----------------------------------------------------------------------------
(***************************************************************************)
(* The stack                                                               *)
(***************************************************************************)
\* The simulator toggles a flow.
LEMMA ToggleStack ==
  ASSUME TypeOK, StackInv, current = Sim, NEW f \in m_Flows, NEW why, Toggle(f, why),
         UNCHANGED <<m_Flows, restarget, waiting>>
  PROVE  /\ StackInv' /\ current' = f /\ reason' = why
         /\ m_togglerstack' \in Seq(Coroutines) /\ toggledBy' \in [Flows -> Coroutines]
         /\ \A i \in 1..Depth' : m_togglerstack'[i] = Sim
<1>1. f \in Flows /\ Sim \notin Flows /\ Sim \in Coroutines /\ m_togglerstack \in Seq(Coroutines)
  BY Zenon, FlowAssumption DEF TypeOK, Coroutines
<1>2. current' = f /\ reason' = why /\ m_togglerstack' = Append(m_togglerstack, Sim)
  BY Zenon DEF Toggle, Switch
<1>3. toggledBy' \in [Flows -> Coroutines] /\ toggledBy'[f] = Sim
  BY Zenon, <1>1 DEF Toggle, TypeOK
<1>4. Depth' = Depth + 1 /\ Depth \in Nat /\ m_togglerstack' \in Seq(Coroutines)
  BY Zenon, <1>1, <1>2, AppendFacts DEF Depth
<1>5. \A i \in 1..Depth : m_togglerstack'[i] = m_togglerstack[i]
  BY <1>1, <1>2, AppendFacts DEF Depth
<1>6. m_togglerstack'[Depth + 1] = Sim
  BY <1>1, <1>2, AppendFacts DEF Depth
<1>7. \A i \in 1..Depth' : m_togglerstack'[i] = Sim
  BY <1>4, <1>5, <1>6 DEF StackInv
<1>8. StackInv'
  <2>1. \A i \in 1..Depth' : m_togglerstack'[i] \notin Flows
    BY Zenon, <1>1, <1>7
  <2>2. current' \in m_Flows' /\ current' # Sim
    BY Zenon, <1>1, <1>2
  <2>3. Depth' > 0 /\ m_togglerstack'[Depth'] = Sim
    BY <1>4, <1>6
  <2> QED
    BY Zenon, <1>1, <1>2, <1>3, <2>1, <2>2, <2>3 DEF StackInv
<1> QED
  BY Zenon, <1>2, <1>3, <1>4, <1>7, <1>8

\* The running coroutine adds a flow.
LEMMA AddFlowStack ==
  ASSUME TypeOK, StackInv, FlowInv, NEW f \in Flows, AddFlow(f)
  PROVE  /\ StackInv' /\ current' = f /\ reason' = "start" /\ waiting'[f] = "start"
         /\ m_togglerstack' \in Seq(Coroutines) /\ toggledBy' \in [Flows -> Coroutines]
         /\ Depth' = Depth + 1 /\ m_togglerstack'[Depth + 1] = current
         /\ \A i \in 1..Depth : m_togglerstack'[i] = m_togglerstack[i]
<1>1. /\ Sim \notin Flows /\ Deleted \notin Flows /\ current \in Coroutines
      /\ m_togglerstack \in Seq(Coroutines) /\ Coroutines = Flows \cup {Sim}
      /\ f \notin m_Flows /\ m_Flows \subseteq Flows
  BY Zenon, FlowAssumption DEF TypeOK, Coroutines, AddFlow
<1>2. /\ current' = f /\ reason' = "start" /\ m_togglerstack' = Append(m_togglerstack, current)
      /\ m_Flows' = m_Flows \cup {f}
  BY Zenon DEF AddFlow, Toggle, Switch
<1>3. /\ toggledBy' \in [Flows -> Coroutines] /\ toggledBy'[f] = current
      /\ \A g \in Flows : g # f => toggledBy'[g] = toggledBy[g]
  BY Zenon, <1>1 DEF AddFlow, Toggle, TypeOK
<1>4. restarget'[f] = current /\ \A g \in Flows : g # f => restarget'[g] = restarget[g]
  BY Zenon DEF AddFlow, TypeOK
<1>5. /\ waiting'[f] = "start"
      /\ \A g \in Flows : g # f => waiting'[g] = IF g = current THEN "child" ELSE waiting[g]
  BY Zenon DEF AddFlow
<1>6. Depth' = Depth + 1 /\ Depth \in Nat /\ m_togglerstack' \in Seq(Coroutines)
  BY <1>1, <1>2, AppendFacts DEF Depth
<1>7. \A i \in 1..Depth : m_togglerstack'[i] = m_togglerstack[i]
  BY <1>1, <1>2, AppendFacts DEF Depth
<1>8. m_togglerstack'[Depth + 1] = current
  BY <1>1, <1>2, AppendFacts DEF Depth
<1>9. ASSUME NEW i \in 1..Depth', m_togglerstack'[i] \in Flows
      PROVE  /\ m_togglerstack'[i] \in m_Flows /\ m_togglerstack'[i] # f
             /\ waiting'[m_togglerstack'[i]] = "child"
             /\ restarget'[m_togglerstack'[i]] = restarget[m_togglerstack'[i]]
             /\ restarget'[m_togglerstack'[i]] # f
             /\ i > 1 /\ toggledBy'[m_togglerstack'[i]] = m_togglerstack'[i - 1]
  <2>1. CASE i \in 1..Depth
    <3>1. /\ m_togglerstack[i] \in m_Flows /\ m_togglerstack[i] # f
          /\ waiting[m_togglerstack[i]] = "child"
          /\ i > 1 /\ toggledBy[m_togglerstack[i]] = m_togglerstack[i - 1]
      BY <1>1, <1>7, <1>9, <2>1 DEF StackInv
    <3>2. restarget[m_togglerstack[i]] \in m_Flows \cup {Sim, Deleted}
      BY Zenon, <3>1 DEF FlowInv
    <3>3. m_togglerstack'[i - 1] = m_togglerstack[i - 1]
      BY <1>6, <1>7, <2>1, <3>1
    <3> QED
      BY <1>1, <1>3, <1>4, <1>5, <1>7, <1>9, <2>1, <3>1, <3>2, <3>3
  <2>2. CASE i = Depth + 1
    <3>1. m_togglerstack'[i] = current /\ current \in Flows
      BY Zenon, <1>8, <1>9, <2>2
    <3>2. /\ current \in m_Flows /\ Depth > 0 /\ m_togglerstack[Depth] = toggledBy[current]
      BY Zenon, <3>1 DEF StackInv
    <3>3. restarget[current] \in m_Flows \cup {Sim, Deleted}
      BY Zenon, <3>2 DEF FlowInv
    <3>4. m_togglerstack'[i - 1] = m_togglerstack[Depth]
      BY <1>6, <1>7, <2>2, <3>2
    <3> QED
      BY <1>1, <1>3, <1>4, <1>5, <1>6, <2>2, <3>1, <3>2, <3>3, <3>4
  <2> QED
    BY <1>6, <2>1, <2>2
<1>10. ASSUME NEW i \in 1..Depth', NEW j \in 1..Depth', m_togglerstack'[i] \in Flows, i < j
       PROVE  /\ m_togglerstack'[j] \in Flows /\ m_togglerstack'[j] # m_togglerstack'[i]
              /\ restarget'[m_togglerstack'[i]] # m_togglerstack'[j]
              /\ j = i + 1 => restarget'[m_togglerstack'[j]] = m_togglerstack'[i]
  <2>0. i \in 1..Depth
    BY <1>6, <1>10
  <2>1. m_togglerstack[i] \in Flows /\ m_togglerstack'[i] = m_togglerstack[i]
    BY Zenon, <1>7, <1>10, <2>0
  <2>2. restarget'[m_togglerstack'[i]] = restarget[m_togglerstack[i]]
    BY Zenon, <1>9, <1>10, <2>1
  <2>3. CASE j \in 1..Depth
    <3>1. /\ m_togglerstack[j] \in Flows /\ m_togglerstack[j] # m_togglerstack[i]
          /\ restarget[m_togglerstack[i]] # m_togglerstack[j]
          /\ j = i + 1 => restarget[m_togglerstack[j]] = m_togglerstack[i]
      BY Zenon, <1>10, <2>0, <2>1, <2>3 DEF StackInv
    <3>2. m_togglerstack'[j] = m_togglerstack[j]
      BY Zenon, <1>7, <2>3
    <3>3. restarget'[m_togglerstack'[j]] = restarget[m_togglerstack[j]]
      BY Zenon, <1>9, <3>1, <3>2
    <3> QED
      BY Zenon, <2>1, <2>2, <3>1, <3>2, <3>3
  <2>4. CASE j = Depth + 1
    <3>1. m_togglerstack'[j] = current
      BY Zenon, <1>8, <2>4
    <3>2. current # Sim
      BY Zenon, <1>1, <2>0, <2>1 DEF StackInv
    <3>3. current \in Flows
      BY Zenon, <1>1, <3>2
    <3>4. m_togglerstack[i] # current /\ restarget[m_togglerstack[i]] # current
      BY Zenon, <2>0, <2>1 DEF StackInv
    <3>5. j = i + 1 => restarget[current] = m_togglerstack[i]
      <4>1. SUFFICES ASSUME j = i + 1 PROVE restarget[current] = m_togglerstack[i]
        BY Zenon
      <4>2. i = Depth
        BY <1>6, <2>4, <4>1
      <4> QED
        BY Zenon, <2>1, <3>3, <4>2 DEF StackInv
    <3>6. restarget'[current] = restarget[current]
      BY Zenon, <1>9, <3>1, <3>3, <1>10
    <3> QED
      BY <2>1, <2>2, <3>1, <3>3, <3>4, <3>5, <3>6
  <2> QED
    BY <1>6, <2>3, <2>4
<1>11. StackInv'
  <2>1. current' \in Flows => /\ current' \in m_Flows' /\ Depth' > 0
                              /\ m_togglerstack'[Depth'] = toggledBy'[current']
                              /\ restarget'[current'] = m_togglerstack'[Depth']
    BY <1>2, <1>3, <1>4, <1>6, <1>8
  <2>2. current' # Sim
    BY Zenon, <1>1, <1>2
  <2>3. \A i \in 1..Depth' : m_togglerstack'[i] \in Flows =>
          /\ m_togglerstack'[i] \in m_Flows' /\ m_togglerstack'[i] # current'
          /\ waiting'[m_togglerstack'[i]] = "child" /\ restarget'[m_togglerstack'[i]] # current'
          /\ i > 1 /\ toggledBy'[m_togglerstack'[i]] = m_togglerstack'[i - 1]
    BY Zenon, <1>2, <1>9
  <2> QED
    BY <1>10, <2>1, <2>2, <2>3 DEF StackInv
<1> QED
  BY Zenon, <1>2, <1>3, <1>5, <1>6, <1>7, <1>8, <1>11

\* The running flow resumes the coroutine that toggled it.
LEMMA ResumeStack ==
  ASSUME TypeOK, StackInv, current \in Flows, NEW why, Resume(why), UNCHANGED <<m_Flows, restarget>>
  PROVE  /\ StackInv' /\ current' \in Coroutines /\ reason' = "child"
         /\ m_togglerstack' \in Seq(Coroutines) /\ toggledBy' = toggledBy
         /\ current' # current /\ (current' \in Flows => waiting'[current'] = "child")
         /\ \A g \in Flows : (\E i \in 1..Depth : m_togglerstack[i] = g) =>
              g = current' \/ \E i \in 1..Depth' : m_togglerstack'[i] = g
<1> DEFINE n == Depth
<1>1. /\ Sim \notin Flows /\ m_togglerstack \in Seq(Coroutines) /\ Coroutines = Flows \cup {Sim}
      /\ m_Flows \subseteq Flows
  BY Zenon, FlowAssumption DEF TypeOK, Coroutines
<1>2. n > 0 /\ m_togglerstack[n] = toggledBy[current]
  BY Zenon DEF StackInv
<1>3. /\ Front(m_togglerstack) \in Seq(Coroutines) /\ Len(Front(m_togglerstack)) = n - 1
      /\ n \in Nat /\ Last(m_togglerstack) = m_togglerstack[n]
      /\ \A i \in 1..(n - 1) : Front(m_togglerstack)[i] = m_togglerstack[i]
      /\ \A i \in 1..n : m_togglerstack[i] \in Coroutines
  BY Zenon, <1>1, <1>2, FrontFacts DEF Depth
<1>4. /\ current' = m_togglerstack[n] /\ reason' = "child" /\ toggledBy' = toggledBy
      /\ m_togglerstack' \in Seq(Coroutines) /\ Depth' = n - 1
      /\ \A i \in 1..(n - 1) : m_togglerstack'[i] = m_togglerstack[i]
  BY Zenon, <1>3 DEF Resume, Switch, Depth
<1>5. \A g \in Flows : g # current => waiting'[g] = waiting[g]
  BY Zenon DEF Resume, TypeOK
<1>6. current' \in Coroutines /\ n \in 1..n
  BY <1>2, <1>3, <1>4
<1>7. /\ current' \in Flows => /\ current' \in m_Flows /\ waiting[current'] = "child"
                               /\ n > 1 /\ toggledBy[current'] = m_togglerstack[n - 1]
      /\ current' # current
  BY <1>1, <1>4, <1>6 DEF StackInv
<1>8. ASSUME NEW i \in 1..Depth'
      PROVE  /\ i \in 1..n /\ i < n /\ m_togglerstack'[i] = m_togglerstack[i]
             /\ m_togglerstack[i] \in Flows =>
                  /\ m_togglerstack[i] \in m_Flows /\ m_togglerstack[i] # current
                  /\ waiting'[m_togglerstack[i]] = "child"
                  /\ m_togglerstack[i] # current' /\ restarget[m_togglerstack[i]] # current'
                  /\ i > 1 /\ toggledBy[m_togglerstack[i]] = m_togglerstack[i - 1]
  <2>1. i \in 1..n /\ i < n /\ i \in 1..(n - 1)
    BY <1>3, <1>4, <1>8
  <2>2. m_togglerstack'[i] = m_togglerstack[i]
    BY Zenon, <1>4, <2>1
  <2>3. ASSUME m_togglerstack[i] \in Flows
        PROVE  /\ m_togglerstack[i] \in m_Flows /\ m_togglerstack[i] # current
               /\ waiting[m_togglerstack[i]] = "child"
               /\ i > 1 /\ toggledBy[m_togglerstack[i]] = m_togglerstack[i - 1]
    BY Zenon, <2>1, <2>3 DEF StackInv
  <2>4. ASSUME m_togglerstack[i] \in Flows
        PROVE  m_togglerstack[i] # m_togglerstack[n] /\ restarget[m_togglerstack[i]] # m_togglerstack[n]
    BY <1>6, <2>1, <2>4 DEF StackInv
  <2> QED
    BY Zenon, <1>4, <1>5, <2>1, <2>2, <2>3, <2>4
<1>9. StackInv'
  <2>1. \A i \in 1..Depth' : m_togglerstack'[i] \in Flows =>
          /\ m_togglerstack'[i] \in m_Flows' /\ m_togglerstack'[i] # current'
          /\ waiting'[m_togglerstack'[i]] = "child"
          /\ restarget'[m_togglerstack'[i]] # current'
          /\ i > 1 /\ toggledBy'[m_togglerstack'[i]] = m_togglerstack'[i - 1]
    <3>1. \A i \in 1..Depth' : i > 1 => m_togglerstack'[i - 1] = m_togglerstack[i - 1]
      BY <1>3, <1>4
    <3> QED
      BY <1>4, <1>8, <3>1
  <2>2. \A i, j \in 1..Depth' : m_togglerstack'[i] \in Flows /\ i < j =>
          /\ m_togglerstack'[j] \in Flows /\ m_togglerstack'[j] # m_togglerstack'[i]
          /\ restarget'[m_togglerstack'[i]] # m_togglerstack'[j]
          /\ j = i + 1 => restarget'[m_togglerstack'[j]] = m_togglerstack'[i]
    BY <1>8 DEF StackInv
  <2>3. current' \in Flows =>
          /\ current' \in m_Flows' /\ Depth' > 0
          /\ m_togglerstack'[Depth'] = toggledBy'[current']
          /\ m_togglerstack'[Depth'] \in Flows => restarget'[current'] = m_togglerstack'[Depth']
    <3> SUFFICES ASSUME current' \in Flows
                 PROVE  /\ current' \in m_Flows' /\ Depth' > 0
                        /\ m_togglerstack'[Depth'] = toggledBy'[current']
                        /\ m_togglerstack'[Depth'] \in Flows => restarget'[current'] = m_togglerstack'[Depth']
      BY Zenon
    <3>1. n > 1 /\ n - 1 \in 1..n /\ n - 1 \in 1..Depth' /\ n = (n - 1) + 1 /\ n - 1 < n
      BY <1>3, <1>4, <1>7
    <3>2. m_togglerstack'[n - 1] = m_togglerstack[n - 1]
      BY Zenon, <1>4, <3>1
    <3>3. m_togglerstack[n - 1] \in Flows => restarget[m_togglerstack[n]] = m_togglerstack[n - 1]
      BY Zenon, <1>6, <3>1 DEF StackInv
    <3> QED
      BY <1>4, <1>7, <3>1, <3>2, <3>3
  <2>4. current' = Sim => \A i \in 1..Depth' : m_togglerstack'[i] = Sim
    <3> SUFFICES ASSUME current' = Sim, NEW i \in 1..Depth'
                 PROVE  m_togglerstack'[i] = Sim
      BY Zenon
    <3>1. m_togglerstack[i] \notin Flows
      BY <1>1, <1>4, <1>6, <1>8 DEF StackInv
    <3> QED
      BY Zenon, <1>1, <1>3, <1>8, <3>1
  <2> QED
    BY Zenon, <2>1, <2>2, <2>3, <2>4 DEF StackInv
<1>10. ASSUME NEW g \in Flows, NEW i \in 1..Depth, m_togglerstack[i] = g
       PROVE  g = current' \/ \E k \in 1..Depth' : m_togglerstack'[k] = g
  <2>1. CASE i = n
    BY Zenon, <1>4, <1>10, <2>1
  <2>2. CASE i # n
    <3>1. i \in 1..(n - 1)
      BY <1>3, <2>2
    <3> QED
      BY Zenon, <1>4, <1>10, <3>1
  <2> QED
    BY Zenon, <2>1, <2>2
<1>11. current' \in Flows => waiting'[current'] = "child"
  BY Zenon, <1>5, <1>7
<1> QED
  BY Zenon, <1>4, <1>6, <1>7, <1>9, <1>10, <1>11

\* Flows that are not on the stack are removed by the running one, itself or others.
LEMMA RemoveFlowsStack ==
  ASSUME TypeOK, StackInv, ~m_Terminated, current \in Flows, NEW S \in SUBSET m_Flows, RemoveFlows(S),
         \A i \in 1..Depth : m_togglerstack[i] \notin S,
         current \in S => restarget[current] = Sim
  PROVE  /\ StackInv' /\ m_togglerstack' = m_togglerstack /\ toggledBy' = toggledBy
         /\ current \in S => current' = Sim
         /\ current \notin S => current' = current /\ reason' = reason
<1>1. /\ Sim \notin Flows /\ Deleted \notin Flows /\ Deleted # Sim
      /\ m_togglerstack \in Seq(Coroutines) /\ Coroutines = Flows \cup {Sim}
      /\ m_Flows \subseteq Flows /\ m_Flows' = m_Flows \ S
      /\ m_togglerstack' = m_togglerstack /\ toggledBy' = toggledBy /\ Depth' = Depth
      /\ Depth \in Nat
  BY FlowAssumption DEF TypeOK, Coroutines, RemoveFlows, Depth
<1>2. /\ \A g \in Flows : restarget'[g] = IF restarget[g] \in S THEN Deleted ELSE restarget[g]
      /\ \A g \in Flows : g \notin S => waiting'[g] = waiting[g]
  BY Zenon DEF RemoveFlows
<1>3. CASE current \in S
  <2>1. current' = Sim
    BY Zenon, <1>3 DEF RemoveFlows, Exits, Switch
  <2>2. Depth > 0 /\ m_togglerstack[Depth] \notin Flows
    BY <1>1, <1>3 DEF StackInv
  <2>3. \A i \in 1..Depth : m_togglerstack[i] \in Coroutines
    BY <1>1 DEF Depth
  <2>4. \A i \in 1..Depth : m_togglerstack[i] \notin Flows
    <3> SUFFICES ASSUME NEW i \in 1..Depth, m_togglerstack[i] \in Flows PROVE FALSE
      BY Zenon
    <3>1. CASE i = Depth
      BY Zenon, <2>2, <3>1
    <3>2. CASE i < Depth
      BY <1>1, <2>2, <3>2 DEF StackInv
    <3> QED
      BY <1>1, <3>1, <3>2
  <2>5. \A i \in 1..Depth : m_togglerstack[i] = Sim
    BY Zenon, <1>1, <2>3, <2>4
  <2>6. StackInv'
    BY Zenon, <1>1, <2>1, <2>4, <2>5 DEF StackInv
  <2> QED
    BY Zenon, <1>1, <1>3, <2>1, <2>6
<1>4. CASE current \notin S
  <2>1. current' = current /\ reason' = reason
    BY Zenon, <1>4 DEF RemoveFlows, Exits
  <2>2. \A i \in 1..Depth : m_togglerstack[i] \in Flows =>
          /\ m_togglerstack[i] \in m_Flows' /\ m_togglerstack[i] # current
          /\ waiting'[m_togglerstack[i]] = "child" /\ restarget'[m_togglerstack[i]] # current
          /\ i > 1 /\ toggledBy[m_togglerstack[i]] = m_togglerstack[i - 1]
    BY <1>1, <1>2 DEF StackInv
  <2>3. \A i, j \in 1..Depth : m_togglerstack[i] \in Flows /\ i < j =>
          /\ m_togglerstack[j] \in Flows /\ m_togglerstack[j] # m_togglerstack[i]
          /\ restarget'[m_togglerstack[i]] # m_togglerstack[j]
          /\ j = i + 1 => restarget'[m_togglerstack[j]] = m_togglerstack[i]
    BY <1>1, <1>2 DEF StackInv
  <2>4. /\ current \in m_Flows' /\ Depth > 0
        /\ m_togglerstack[Depth] = toggledBy[current]
        /\ m_togglerstack[Depth] \in Flows => restarget'[current] = m_togglerstack[Depth]
    <3>1. Depth > 0 /\ Depth \in 1..Depth
      BY <1>1 DEF StackInv
    <3> QED
      BY Zenon, <1>1, <1>2, <1>4, <3>1 DEF StackInv
  <2>5. StackInv'
    BY <1>1, <2>1, <2>2, <2>3, <2>4 DEF StackInv
  <2> QED
    BY Zenon, <1>1, <1>4, <2>1, <2>5
<1> QED
  BY Zenon, <1>3, <1>4

-----------------------------------------------------------------------------
(***************************************************************************)
(* The steps of the simulator                                              *)
(***************************************************************************)
LEMMA SimRuns ==
  ASSUME Inv, current = Sim
  PROVE  /\ TypeOK /\ ~m_Terminated /\ StackInv /\ FlowInv /\ WaitInv /\ RequestInv
         /\ Sim \notin Flows
         /\ \A f \in Flows : waiting[f] # "child"
         /\ \A f \in Flows : listeners[f] > 0 \/ m_FireList[f] > 0 => f \in m_Flows /\ waiting[f] = "event"
<1>1. Sim \notin Flows
  BY Zenon, FlowAssumption
<1>2. TypeOK /\ ~m_Terminated /\ StackInv /\ FlowInv /\ WaitInv /\ RequestInv
  BY Zenon, <1>1 DEF Inv
<1>3. \A f \in Flows : waiting[f] # "child"
  BY <1>1, <1>2 DEF StackInv, WaitInv
<1>4. \A f \in Flows : listeners[f] > 0 \/ m_FireList[f] > 0 => f \in m_Flows
  BY <1>2 DEF FlowInv
<1>5. \A f \in Flows : listeners[f] > 0 \/ m_FireList[f] > 0 => waiting[f] = "event"
  BY Zenon, <1>1, <1>2, <1>3 DEF WaitInv
<1> QED
  BY Zenon, <1>1, <1>2, <1>3, <1>4, <1>5

\* A pending request is not one for an event.
LEMMA PendingKind ==
  ASSUME TypeOK, RequestInv, requests # {} \/ restored
  PROVE  waiting[m_CurrFlow] \in Kinds
<1>1. waiting[m_CurrFlow] \in requests \/ waiting[m_CurrFlow] = "restore"
  BY Zenon DEF RequestInv
<1> QED
  BY Zenon, <1>1 DEF TypeOK, Kinds

(***************************************************************************)
(* An event makes some of the active listeners fire; nothing else changes. *)
(***************************************************************************)
LEMMA EventInv == ASSUME Inv, Event PROVE Inv'
<1>1. /\ current = Sim
      /\ UNCHANGED <<m_Flows, current, m_togglerstack, m_Terminated, restarget, requests, restored,
                     m_CurrFlow, starting, waiting, toggledBy, reason>>
  BY Zenon DEF Event, Simulating, simvars
<1>2. PICK fires \in [Flows -> 0..MaxListeners] :
        /\ \A f \in Flows : fires[f] <= listeners[f]
        /\ m_FireList' = fires
        /\ listeners' = [f \in Flows |-> listeners[f] - fires[f]]
  BY Zenon DEF Event
<1>3. /\ TypeOK /\ ~m_Terminated /\ StackInv /\ FlowInv /\ WaitInv /\ RequestInv /\ Sim \notin Flows
      /\ \A f \in Flows : listeners[f] > 0 \/ m_FireList[f] > 0 => f \in m_Flows /\ waiting[f] = "event"
  BY Zenon, <1>1, SimRuns
<1>4. \A f \in Flows : /\ listeners[f] \in 0..MaxListeners /\ listeners'[f] \in 0..MaxListeners
                       /\ listeners'[f] <= listeners[f] /\ m_FireList'[f] <= listeners[f]
                       /\ m_FireList'[f] \in 0..MaxListeners
  BY <1>2, <1>3, FlowAssumption DEF TypeOK
<1>5. listeners' \in [Flows -> 0..MaxListeners] /\ m_FireList' \in [Flows -> 0..MaxListeners]
  BY Zenon, <1>2, <1>4
<1>6. TypeOK'
  BY Zenon, <1>1, <1>3, <1>5 DEF TypeOK
<1>7. StackInv' /\ RequestInv'
  BY <1>1, <1>3 DEF StackInv, RequestInv, Depth
<1>8. \A f \in Flows : listeners'[f] > 0 \/ m_FireList'[f] > 0 => f \in m_Flows /\ waiting[f] = "event"
  <2>1. \A f \in Flows : listeners'[f] > 0 \/ m_FireList'[f] > 0 => listeners[f] > 0
    BY <1>4
  <2> QED
    BY Zenon, <1>3, <2>1
<1>9. FlowInv'
  <2>1. \A f \in Flows : f \notin m_Flows => listeners'[f] = 0 /\ m_FireList'[f] = 0
    BY SMTT(30), <1>4, <1>8
  <2> QED
    BY Zenon, <1>1, <1>3, <2>1 DEF FlowInv
<1>10. WaitInv'
  BY Zenon, <1>1, <1>3, <1>8 DEF WaitInv, Depth
<1> QED
  BY Zenon, <1>1, <1>3, <1>6, <1>7, <1>9, <1>10 DEF Inv

(***************************************************************************)
(* triggerActiveListener toggles the flow of a listener that was added by  *)
(* a flow that still exists.                                               *)
(***************************************************************************)
LEMMA TriggerInv == ASSUME Inv, TriggerActiveListener PROVE Inv'
<1>1. /\ current = Sim
      /\ UNCHANGED <<m_Flows, m_Terminated, restarget, listeners, requests, restored, m_CurrFlow,
                     starting, waiting>>
  BY Zenon DEF TriggerActiveListener, simvars
<1>2. PICK f \in Flows : /\ m_FireList[f] > 0 /\ m_FireList' = [m_FireList EXCEPT ![f] = @ - 1]
                         /\ Toggle(f, "event")
  BY Zenon DEF TriggerActiveListener
<1>3. /\ TypeOK /\ ~m_Terminated /\ StackInv /\ FlowInv /\ WaitInv /\ RequestInv /\ Sim \notin Flows
      /\ \A g \in Flows : waiting[g] # "child"
      /\ \A g \in Flows : listeners[g] > 0 \/ m_FireList[g] > 0 => g \in m_Flows /\ waiting[g] = "event"
  BY Zenon, <1>1, SimRuns
<1>4. f \in m_Flows /\ waiting[f] = "event"
  BY Zenon, <1>2, <1>3
<1>5. /\ StackInv' /\ current' = f /\ reason' = "event"
      /\ m_togglerstack' \in Seq(Coroutines) /\ toggledBy' \in [Flows -> Coroutines]
  BY Zenon, <1>1, <1>2, <1>3, <1>4, ToggleStack
<1>6. \A g \in Flows : m_FireList[g] \in 0..MaxListeners /\ m_FireList'[g] \in 0..MaxListeners
                       /\ m_FireList'[g] <= m_FireList[g]
  BY <1>2, <1>3, FlowAssumption DEF TypeOK
<1>7. m_FireList' \in [Flows -> 0..MaxListeners]
  BY Zenon, <1>2, <1>3, <1>6 DEF TypeOK
<1>8. TypeOK'
  BY Zenon, <1>1, <1>3, <1>5, <1>7 DEF TypeOK, Coroutines
<1>9. \A g \in Flows : listeners[g] > 0 \/ m_FireList'[g] > 0 => g \in m_Flows /\ waiting[g] = "event"
  <2>1. \A g \in Flows : m_FireList'[g] > 0 => m_FireList[g] > 0
    BY <1>6
  <2> QED
    BY Zenon, <1>3, <2>1
<1>10. FlowInv'
  <2>1. \A g \in Flows : g \notin m_Flows => m_FireList'[g] = 0
    BY <1>6, <1>9
  <2> QED
    BY Zenon, <1>1, <1>3, <2>1 DEF FlowInv
<1>11. WaitInv'
  BY Zenon, <1>1, <1>3, <1>4, <1>5, <1>9 DEF WaitInv
<1>12. RequestInv'
  <2>1. requests # {} \/ restored => m_CurrFlow # f
    BY Zenon, <1>3, <1>4, PendingKind DEF Kinds
  <2> QED
    BY Zenon, <1>1, <1>3, <1>5, <2>1 DEF RequestInv
<1> QED
  BY Zenon, <1>1, <1>3, <1>5, <1>8, <1>10, <1>11, <1>12 DEF Inv

\* The flow of the pending request waits for it.
LEMMA PendingFlow ==
  ASSUME Inv, current = Sim
  PROVE  /\ \A kind \in requests : /\ m_CurrFlow \in m_Flows /\ waiting[m_CurrFlow] = kind
                                    /\ requests \ {kind} = {} /\ restored = FALSE
         /\ restored => m_CurrFlow \in m_Flows /\ waiting[m_CurrFlow] = "restore" /\ requests = {}
<1>1. RequestInv /\ restored \in BOOLEAN
  BY Zenon, SimRuns DEF TypeOK
<1> QED
  BY Zenon, <1>1 DEF RequestInv

\* The simulator answers the pending request.
LEMMA DoneInv ==
  ASSUME Inv, current = Sim, NEW kind \in Kinds, Done(kind),
         m_CurrFlow \in m_Flows, waiting[m_CurrFlow] = kind, requests \ {kind} = {}, restored' = FALSE
  PROVE  Inv'
<1>1. /\ requests' = requests \ {kind} /\ Toggle(m_CurrFlow, kind)
      /\ UNCHANGED <<m_Flows, m_Terminated, restarget, listeners, m_FireList, m_CurrFlow, starting, waiting>>
  BY Zenon DEF Done
<1>2. /\ TypeOK /\ ~m_Terminated /\ StackInv /\ FlowInv /\ WaitInv /\ RequestInv /\ Sim \notin Flows
      /\ \A g \in Flows : waiting[g] # "child"
      /\ \A g \in Flows : listeners[g] > 0 \/ m_FireList[g] > 0 => g \in m_Flows /\ waiting[g] = "event"
  BY Zenon, SimRuns
<1>3. /\ m_CurrFlow \in m_Flows /\ waiting[m_CurrFlow] = kind
      /\ requests' = {} /\ restored' = FALSE
  BY Zenon, <1>1
<1>4. /\ StackInv' /\ current' = m_CurrFlow /\ reason' = kind
      /\ m_togglerstack' \in Seq(Coroutines) /\ toggledBy' \in [Flows -> Coroutines]
  BY Zenon, <1>1, <1>2, <1>3, ToggleStack
<1>5. TypeOK'
  <2>1. restored' \in BOOLEAN
    BY Zenon, <1>3
  <2>2. reason' \in Kinds \cup {"none", "start", "event", "child"} /\ requests' \subseteq Kinds
    BY Zenon, <1>3, <1>4
  <2> QED
    BY Zenon, <1>1, <1>2, <1>3, <1>4, <2>1, <2>2 DEF TypeOK, Coroutines
<1>6. FlowInv'
  BY Zenon, <1>1, <1>2 DEF FlowInv
<1>7. WaitInv'
  BY Zenon, <1>1, <1>2, <1>3, <1>4 DEF WaitInv
<1>8. RequestInv'
  BY Zenon, <1>3 DEF RequestInv
<1> QED
  BY Zenon, <1>1, <1>2, <1>4, <1>5, <1>6, <1>7, <1>8 DEF Inv

(***************************************************************************)
(* A restored state is announced: the flow that asked for it is toggled.   *)
(***************************************************************************)
LEMMA RestoredInv == ASSUME Inv, Restored PROVE Inv'
<1>1. /\ current = Sim /\ "restore" \in requests /\ requests' = requests \ {"restore"} /\ restored' = TRUE
      /\ UNCHANGED <<m_Flows, current, m_togglerstack, m_Terminated, restarget, listeners, m_FireList,
                     m_CurrFlow, starting, waiting, toggledBy, reason>>
  BY Zenon DEF Restored, Simulating
<1>2. TypeOK /\ ~m_Terminated /\ StackInv /\ FlowInv /\ WaitInv /\ RequestInv
  BY Zenon, <1>1, SimRuns
<1>3. TypeOK'
  <2>1. restored' \in BOOLEAN /\ requests' \subseteq Kinds
    BY Zenon, <1>1, <1>2 DEF TypeOK
  <2> QED
    BY Zenon, <1>1, <1>2, <2>1 DEF TypeOK
<1>4. StackInv' /\ FlowInv' /\ WaitInv'
  BY <1>1, <1>2 DEF StackInv, FlowInv, WaitInv, Depth
<1>5. RequestInv'
  BY Zenon, <1>1, <1>2 DEF RequestInv
<1> QED
  BY Zenon, <1>1, <1>2, <1>3, <1>4, <1>5 DEF Inv

-----------------------------------------------------------------------------
(***************************************************************************)
(* A flow is added, by the simulator or by the running flow                *)
(***************************************************************************)
LEMMA AddFlowInv ==
  ASSUME Inv, ~m_Terminated, NEW f \in Flows, AddFlow(f), f \in Experiments => current = Sim,
         starting' \subseteq Experiments,
         UNCHANGED <<m_Terminated, listeners, m_FireList, requests, restored, m_CurrFlow>>
  PROVE  Inv'
<1>1. TypeOK /\ StackInv /\ FlowInv /\ WaitInv /\ RequestInv
  BY Zenon DEF Inv
<1>2. /\ Sim \notin Flows /\ Deleted \notin Flows /\ m_Flows \subseteq Flows /\ current \in Flows \cup {Sim}
      /\ f \notin m_Flows /\ m_Flows' = m_Flows \cup {f} /\ f # current
  BY <1>1, FlowAssumption DEF TypeOK, Coroutines, AddFlow, StackInv
<1>3. /\ restarget'[f] = current /\ \A g \in Flows : g # f => restarget'[g] = restarget[g]
      /\ restarget' \in [Flows -> Coroutines \cup {Deleted}]
  BY Zenon, <1>1 DEF AddFlow, TypeOK
<1>4. /\ \A g \in Flows : g # f => waiting'[g] = IF g = current THEN "child" ELSE waiting[g]
      /\ waiting' \in [Flows -> Kinds \cup {"none", "start", "event", "child"}]
  BY Zenon, <1>1 DEF AddFlow, TypeOK
<1>5. /\ StackInv' /\ current' = f /\ reason' = "start" /\ waiting'[f] = "start"
      /\ m_togglerstack' \in Seq(Coroutines) /\ toggledBy' \in [Flows -> Coroutines]
      /\ Depth' = Depth + 1 /\ m_togglerstack'[Depth + 1] = current
      /\ \A i \in 1..Depth : m_togglerstack'[i] = m_togglerstack[i]
  BY Zenon, <1>1, AddFlowStack
<1>6. TypeOK'
  <2>1. m_Flows' \subseteq Flows /\ current' \in Coroutines /\ reason' \in Kinds \cup {"none", "start", "event", "child"}
    BY Zenon, <1>2, <1>5 DEF Coroutines
  <2> QED
    BY Zenon, <1>1, <1>3, <1>4, <1>5, <2>1 DEF TypeOK
<1>7. FlowInv'
  <2>1. \A g \in m_Flows' : restarget'[g] \in m_Flows' \cup {Sim, Deleted}
    BY <1>1, <1>2, <1>3 DEF FlowInv, StackInv
  <2>2. \A g \in Experiments : restarget'[g] = Sim
    BY Zenon, <1>1, <1>3, FlowAssumption DEF FlowInv
  <2>3. \A g \in Flows : restarget'[g] # g
    BY Zenon, <1>1, <1>2, <1>3 DEF FlowInv
  <2> QED
    BY Zenon, <1>1, <1>2, <2>1, <2>2, <2>3 DEF FlowInv
<1>8. WaitInv'
  <2>1. \A g \in Flows : waiting'[g] = "child" => \E i \in 1..Depth' : m_togglerstack'[i] = g
    <3> SUFFICES ASSUME NEW g \in Flows, waiting'[g] = "child"
                 PROVE  \E i \in 1..Depth' : m_togglerstack'[i] = g
      BY Zenon
    <3>1. Depth \in Nat
      BY <1>1 DEF TypeOK, Depth
    <3>2. CASE g = current
      BY <1>5, <3>1, <3>2
    <3>3. CASE g # current
      <4>1. PICK i \in 1..Depth : m_togglerstack[i] = g
        BY Zenon, <1>1, <1>4, <1>5, <3>3 DEF WaitInv
      <4> QED
        BY <1>5, <3>1, <4>1
    <3> QED
      BY Zenon, <3>2, <3>3
  <2>2. \A g \in Flows : g # current' /\ waiting'[g] # "child" /\ (listeners'[g] > 0 \/ m_FireList'[g] > 0)
          => waiting'[g] = "event"
    BY SMTT(30), <1>1, <1>4, <1>5 DEF WaitInv
  <2> QED
    BY Zenon, <1>5, <2>1, <2>2 DEF WaitInv
<1>9. RequestInv'
  BY Zenon, <1>1, <1>2, <1>4, <1>5 DEF RequestInv
<1> QED
  BY Zenon, <1>5, <1>6, <1>7, <1>8, <1>9 DEF Inv

(***************************************************************************)
(* startup() adds the next experiment, which runs at once.                 *)
(***************************************************************************)
LEMMA StartupInv == ASSUME Inv, Startup PROVE Inv'
<1>1. PICK f \in starting : AddFlow(f) /\ starting' = starting \ {f}
  BY Zenon DEF Startup
<1>2. /\ current = Sim /\ ~m_Terminated /\ TypeOK
      /\ UNCHANGED <<m_Terminated, listeners, m_FireList, requests, restored, m_CurrFlow>>
  BY Zenon, SimRuns DEF Startup
<1>3. f \in Flows /\ starting' \subseteq Experiments
  BY Zenon, <1>1, <1>2, FlowAssumption DEF TypeOK
<1> QED
  BY Zenon, <1>1, <1>2, <1>3, AddFlowInv

(***************************************************************************)
(* A flow that adds a flow toggles it at once and becomes its toggler.     *)
(***************************************************************************)
LEMMA FlowAddsFlowInv == ASSUME Inv, NEW f \in Flows, FlowAddsFlow(f) PROVE Inv'
<1>1. PICK g \in Flows \ Experiments : AddFlow(g)
  BY Zenon DEF FlowAddsFlow
<1>2. /\ ~m_Terminated /\ UNCHANGED <<m_Terminated, listeners, m_FireList, requests, restored, m_CurrFlow, starting>>
  BY Zenon DEF FlowAddsFlow, Running, simvars
<1>3. starting' \subseteq Experiments
  BY Zenon, <1>2 DEF Inv, TypeOK
<1> QED
  BY Zenon, <1>1, <1>2, <1>3, AddFlowInv

-----------------------------------------------------------------------------
(***************************************************************************)
(* The steps of the running flow                                           *)
(***************************************************************************)
LEMMA FlowRuns ==
  ASSUME Inv, NEW f \in Flows, Running(f)
  PROVE  /\ TypeOK /\ ~m_Terminated /\ StackInv /\ FlowInv /\ WaitInv /\ RequestInv
         /\ current = f /\ f \in m_Flows /\ Sim \notin Flows
  BY Zenon, FlowAssumption DEF Inv, Running, StackInv

(***************************************************************************)
(* A flow adds a listener of its own.                                      *)
(***************************************************************************)
LEMMA AddListenerInv == ASSUME Inv, NEW f \in Flows, AddListener(f) PROVE Inv'
<1>1. /\ listeners[f] < MaxListeners /\ listeners' = [listeners EXCEPT ![f] = @ + 1]
      /\ UNCHANGED <<m_Flows, current, m_togglerstack, m_Terminated, restarget, m_FireList, requests,
                     restored, m_CurrFlow, starting, waiting, toggledBy, reason>>
  BY Zenon DEF AddListener, simvars
<1>2. /\ TypeOK /\ ~m_Terminated /\ StackInv /\ FlowInv /\ WaitInv /\ RequestInv
      /\ current = f /\ f \in m_Flows
  BY Zenon, FlowRuns DEF AddListener
<1>3. /\ listeners' \in [Flows -> 0..MaxListeners]
      /\ \A g \in Flows : g # f => listeners'[g] = listeners[g]
  <2>1. listeners[f] + 1 \in 0..MaxListeners
    BY <1>1, <1>2, FlowAssumption DEF TypeOK
  <2> QED
    BY Zenon, <1>1, <1>2, <2>1 DEF TypeOK
<1>4. TypeOK'
  BY Zenon, <1>1, <1>2, <1>3 DEF TypeOK
<1>5. StackInv' /\ RequestInv'
  BY <1>1, <1>2 DEF StackInv, RequestInv, Depth
<1>6. FlowInv'
  BY Zenon, <1>1, <1>2, <1>3 DEF FlowInv
<1>7. WaitInv'
  BY Zenon, <1>1, <1>2, <1>3 DEF WaitInv, Depth
<1> QED
  BY <1>1, <1>2, <1>4, <1>5, <1>6, <1>7 DEF Inv

\* What resume() leaves to be shown after the stack.
LEMMA ResumeInv ==
  ASSUME Inv, NEW f \in Flows, Running(f), NEW why \in Kinds \cup {"event"}, Resume(why),
         UNCHANGED <<m_Flows, m_Terminated, restarget, starting>>,
         \A g \in Flows : /\ listeners'[g] \in {0, listeners[g]} /\ m_FireList'[g] \in {0, m_FireList[g]}
                          /\ g = f /\ why # "event" => listeners'[g] = 0 /\ m_FireList'[g] = 0,
         listeners' \in [Flows -> 0..MaxListeners], m_FireList' \in [Flows -> 0..MaxListeners],
         \/ UNCHANGED <<requests, restored, m_CurrFlow>>
         \/ f \in Experiments /\ requests' = {why} /\ why \in Kinds /\ restored' = FALSE /\ m_CurrFlow' = f
  PROVE  Inv'
<1>1. /\ TypeOK /\ ~m_Terminated /\ StackInv /\ FlowInv /\ WaitInv /\ RequestInv
      /\ current = f /\ f \in m_Flows /\ Sim \notin Flows
  BY Zenon, FlowRuns
<1>2. /\ StackInv' /\ current' \in Coroutines /\ reason' = "child"
      /\ m_togglerstack' \in Seq(Coroutines) /\ toggledBy' = toggledBy
      /\ current' # current /\ (current' \in Flows => waiting'[current'] = "child")
      /\ \A g \in Flows : (\E i \in 1..Depth : m_togglerstack[i] = g) =>
           g = current' \/ \E i \in 1..Depth' : m_togglerstack'[i] = g
  BY Zenon, <1>1, ResumeStack
<1>3. /\ waiting'[f] = why /\ \A g \in Flows : g # f => waiting'[g] = waiting[g]
      /\ waiting' \in [Flows -> Kinds \cup {"none", "start", "event", "child"}]
      /\ why # "child"
  BY Zenon, <1>1 DEF Resume, TypeOK, Kinds
<1>4. TypeOK'
  <2>1. restored' \in BOOLEAN /\ requests' \subseteq Kinds /\ m_CurrFlow' \in Coroutines
    <3>1. CASE UNCHANGED <<requests, restored, m_CurrFlow>>
      BY Zenon, <1>1, <3>1 DEF TypeOK
    <3>2. CASE requests' = {why} /\ why \in Kinds /\ restored' = FALSE /\ m_CurrFlow' = f
      BY Zenon, <3>2 DEF Coroutines
    <3> QED
      BY Zenon, <3>1, <3>2
  <2>2. reason' \in Kinds \cup {"none", "start", "event", "child"}
    BY Zenon, <1>2
  <2>3. m_Terminated' \in BOOLEAN
    BY Zenon, <1>1 DEF TypeOK
  <2> QED
    BY SMTT(30), <1>1, <1>2, <1>3, <2>1, <2>2, <2>3 DEF TypeOK
<1>5. FlowInv'
  BY Zenon, <1>1 DEF FlowInv
<1>6. WaitInv'
  <2>1. \A g \in Flows : waiting'[g] = "child" => g = current' \/ \E i \in 1..Depth' : m_togglerstack'[i] = g
    BY Zenon, <1>1, <1>2, <1>3 DEF WaitInv
  <2>2. \A g \in Flows : g # current' /\ waiting'[g] # "child" /\ (listeners'[g] > 0 \/ m_FireList'[g] > 0)
          => waiting'[g] = "event"
    <3> SUFFICES ASSUME NEW g \in Flows, waiting'[g] # "child", listeners'[g] > 0 \/ m_FireList'[g] > 0
                 PROVE  waiting'[g] = "event"
      BY Zenon
    <3>1. CASE g = f
      BY <1>3, <3>1
    <3>2. CASE g # f
      <4>1. listeners[g] > 0 \/ m_FireList[g] > 0
        OBVIOUS
      <4> QED
        BY Zenon, <1>1, <1>3, <3>2, <4>1 DEF WaitInv
    <3> QED
      BY Zenon, <3>1, <3>2
  <2> QED
    BY Zenon, <1>2, <2>1, <2>2 DEF WaitInv
<1>7. RequestInv'
  <2>1. CASE UNCHANGED <<requests, restored, m_CurrFlow>>
    <3> SUFFICES ASSUME requests # {} \/ restored PROVE RequestInv'
      BY Zenon, <2>1 DEF RequestInv
    <3>1. /\ m_CurrFlow \in Experiments /\ m_CurrFlow \in m_Flows /\ m_CurrFlow # f /\ m_CurrFlow \in Flows
          /\ waiting[m_CurrFlow] # "child"
      BY Zenon, <1>1, FlowAssumption, PendingKind DEF RequestInv, Kinds
    <3>2. waiting'[m_CurrFlow] = waiting[m_CurrFlow] /\ m_CurrFlow # current'
      BY Zenon, <1>2, <1>3, <3>1
    <3> QED
      BY Zenon, <1>1, <2>1, <3>1, <3>2 DEF RequestInv
  <2>2. CASE f \in Experiments /\ requests' = {why} /\ restored' = FALSE /\ m_CurrFlow' = f
    BY Zenon, <1>1, <1>2, <1>3, <2>2 DEF RequestInv
  <2> QED
    BY Zenon, <2>1, <2>2
<1> QED
  BY <1>1, <1>2, <1>4, <1>5, <1>6, <1>7 DEF Inv

(***************************************************************************)
(* A flow gives control back to the top of the stack.                      *)
(***************************************************************************)
LEMMA FlowResumesInv == ASSUME Inv, NEW f \in Flows, FlowResumes(f) PROVE Inv'
<1>1. /\ Running(f) /\ Resume("event")
      /\ UNCHANGED <<m_Flows, m_Terminated, restarget, listeners, m_FireList, requests, restored,
                     m_CurrFlow, starting>>
  BY Zenon DEF FlowResumes, simvars
<1>2. listeners' \in [Flows -> 0..MaxListeners] /\ m_FireList' \in [Flows -> 0..MaxListeners]
  BY Zenon, <1>1 DEF Inv, TypeOK
<1> QED
  BY Zenon, <1>1, <1>2, ResumeInv

(***************************************************************************)
(* A flow asks the simulator for something and is resumed by its answer.   *)
(***************************************************************************)
LEMMA RequestsInv ==
  ASSUME Inv, Disciplined, NEW f \in Flows, NEW kind \in Kinds, Request(f, kind)
  PROVE  Inv'
<1>1. /\ Running(f) /\ Resume(kind) /\ UNCHANGED <<m_Flows, m_Terminated, restarget, starting>>
      /\ f \in Experiments /\ requests = {} /\ ~restored
      /\ kind \in {"save", "interrupt"} => listeners[f] = 0 /\ m_FireList[f] = 0
      /\ requests' = {kind} /\ m_CurrFlow' = f
  BY Zenon DEF Request, MayRequest, Disciplined
<1>2. restored' = FALSE
  BY Zenon, <1>1 DEF Request
<1>3. TypeOK
  BY Zenon DEF Inv
<1>4. CASE Clears(kind)
  <2>1. \A g \in Flows : listeners'[g] = 0 /\ m_FireList'[g] = 0
    BY Zenon, <1>4 DEF Request, ClearListeners
  <2>2. listeners' \in [Flows -> 0..MaxListeners] /\ m_FireList' \in [Flows -> 0..MaxListeners]
    BY <1>4, FlowAssumption DEF Request, ClearListeners
  <2>3. kind # "event"
    BY Zenon DEF Kinds
  <2> QED
    BY <1>1, <1>2, <2>1, <2>2, <2>3, ResumeInv
<1>5. CASE ~Clears(kind)
  <2>1. UNCHANGED <<listeners, m_FireList>>
    BY Zenon, <1>5 DEF Request
  <2>2. kind \in {"save", "interrupt"} /\ kind # "event"
    BY Zenon, <1>5 DEF Clears, Kinds
  <2>3. listeners' \in [Flows -> 0..MaxListeners] /\ m_FireList' \in [Flows -> 0..MaxListeners]
    BY Zenon, <1>3, <2>1 DEF TypeOK
  <2> QED
    BY Zenon, <1>1, <1>2, <2>1, <2>2, <2>3, ResumeInv
<1> QED
  BY Zenon, <1>4, <1>5

\* The types after flows were removed.
LEMMA RemoveFlowsType ==
  ASSUME TypeOK, NEW S \in SUBSET m_Flows, RemoveFlows(S), current' \in Coroutines,
         UNCHANGED <<m_Terminated, requests, restored, m_CurrFlow, starting>>
  PROVE  TypeOK'
<1>1. /\ listeners' = [f \in Flows |-> IF f \in S THEN 0 ELSE listeners[f]]
      /\ m_FireList' = [f \in Flows |-> IF f \in S THEN 0 ELSE m_FireList[f]]
      /\ m_Flows' = m_Flows \ S
      /\ waiting' = [f \in Flows |-> IF f \in S THEN "none" ELSE waiting[f]]
      /\ restarget' = [f \in Flows |-> IF restarget[f] \in S THEN Deleted ELSE restarget[f]]
      /\ UNCHANGED <<m_togglerstack, toggledBy>>
      /\ reason' \in {reason, "child"}
  BY Zenon DEF RemoveFlows, ClearListeners, Switch
<1>2. listeners' \in [Flows -> 0..MaxListeners] /\ m_FireList' \in [Flows -> 0..MaxListeners]
  BY <1>1, FlowAssumption DEF TypeOK
<1>3. waiting' \in [Flows -> Kinds \cup {"none", "start", "event", "child"}]
  BY Zenon, <1>1 DEF TypeOK
<1>4. restarget' \in [Flows -> Coroutines \cup {Deleted}]
  BY Zenon, <1>1 DEF TypeOK
<1>5. reason' \in Kinds \cup {"none", "start", "event", "child"}
  BY Zenon, <1>1 DEF TypeOK
<1>6. m_Terminated' \in BOOLEAN /\ restored' \in BOOLEAN
  BY Zenon DEF TypeOK
<1> QED
  BY Zenon, <1>1, <1>2, <1>3, <1>4, <1>5, <1>6 DEF TypeOK

(***************************************************************************)
(* What the removal of a flow, with its listeners, leaves behind.          *)
(***************************************************************************)
LEMMA RemoveFlowsInv ==
  ASSUME Inv, NEW f \in Flows, Running(f), NEW S \in SUBSET (Children(f) \cup {f}), RemoveFlows(S),
         f \in S => restarget[f] = Sim,
         UNCHANGED <<m_Terminated, requests, restored, m_CurrFlow, starting>>
  PROVE  Inv'
<1>1. /\ TypeOK /\ ~m_Terminated /\ StackInv /\ FlowInv /\ WaitInv /\ RequestInv
      /\ current = f /\ f \in m_Flows /\ Sim \notin Flows
  BY Zenon, FlowRuns
<1>2. /\ S \subseteq m_Flows /\ S \subseteq Flows
      /\ \A g \in S : g # f => restarget[g] = f
  BY Zenon, <1>1 DEF Children, TypeOK
<1>3. \A i \in 1..Depth : m_togglerstack[i] \notin S
  BY Zenon, <1>1, <1>2 DEF StackInv
<1>4. /\ StackInv' /\ m_togglerstack' = m_togglerstack /\ Depth' = Depth
      /\ f \in S => current' = Sim
      /\ f \notin S => current' = f /\ reason' = reason
  BY Zenon, <1>1, <1>2, <1>3, RemoveFlowsStack DEF Depth
<1>5. TypeOK'
  BY Zenon, <1>1, <1>2, <1>4, RemoveFlowsType DEF Coroutines
<1>6. /\ \A g \in Flows : /\ g \in S => listeners'[g] = 0 /\ m_FireList'[g] = 0 /\ waiting'[g] = "none"
                          /\ g \notin S => listeners'[g] = listeners[g] /\ m_FireList'[g] = m_FireList[g]
                                           /\ waiting'[g] = waiting[g]
                          /\ restarget'[g] = IF restarget[g] \in S THEN Deleted ELSE restarget[g]
      /\ m_Flows' = m_Flows \ S
  BY Zenon DEF RemoveFlows, ClearListeners
<1>7. FlowInv'
  <2>1. \A g \in Flows : g \notin m_Flows' => listeners'[g] = 0 /\ m_FireList'[g] = 0
    BY Zenon, <1>1, <1>6 DEF FlowInv
  <2>2. \A g \in m_Flows' : restarget'[g] \in m_Flows' \cup {Sim, Deleted}
    BY Zenon, <1>1, <1>6 DEF FlowInv, TypeOK
  <2>3. \A g \in Experiments : restarget'[g] = Sim
    BY <1>1, <1>2, <1>6, FlowAssumption DEF FlowInv
  <2>4. \A g \in Flows : restarget'[g] # g
    BY <1>1, <1>6, FlowAssumption DEF FlowInv
  <2> QED
    BY Zenon, <2>1, <2>2, <2>3, <2>4 DEF FlowInv
<1>8. WaitInv'
  <2>1. current' \in Flows => reason' = waiting'[current']
    BY Zenon, <1>1, <1>4, <1>6 DEF WaitInv
  <2>2. \A g \in Flows : waiting'[g] = "child" => g = current' \/ \E i \in 1..Depth' : m_togglerstack'[i] = g
    BY <1>1, <1>4, <1>6 DEF WaitInv
  <2>3. \A g \in Flows : g # current' /\ waiting'[g] # "child" /\ (listeners'[g] > 0 \/ m_FireList'[g] > 0)
          => waiting'[g] = "event"
    <3> SUFFICES ASSUME NEW g \in Flows, g # current', waiting'[g] # "child",
                        listeners'[g] > 0 \/ m_FireList'[g] > 0
                 PROVE  waiting'[g] = "event"
      BY Zenon
    <3>1. g \notin S
      BY <1>6
    <3>2. g # f
      BY Zenon, <1>4, <3>1
    <3> QED
      BY Zenon, <1>1, <1>6, <3>1, <3>2 DEF WaitInv
  <2> QED
    BY Zenon, <2>1, <2>2, <2>3 DEF WaitInv
<1>9. RequestInv'
  <2> SUFFICES ASSUME requests # {} \/ restored PROVE RequestInv'
    BY Zenon DEF RequestInv
  <2>1. m_CurrFlow \in Experiments /\ m_CurrFlow \in m_Flows /\ m_CurrFlow # f /\ m_CurrFlow \in Flows
    BY Zenon, <1>1, FlowAssumption DEF RequestInv
  <2>2. m_CurrFlow \notin S
    BY Zenon, <1>1, <1>2, <2>1 DEF FlowInv
  <2>3. m_CurrFlow # current' /\ m_CurrFlow \in m_Flows' /\ waiting'[m_CurrFlow] = waiting[m_CurrFlow]
    BY Zenon, <1>1, <1>4, <1>6, <2>1, <2>2
  <2> QED
    BY Zenon, <1>1, <2>1, <2>3 DEF RequestInv
<1> QED
  BY Zenon, <1>1, <1>4, <1>5, <1>7, <1>8, <1>9 DEF Inv

(***************************************************************************)
(* A flow removes another one, whose coroutine is deleted.                 *)
(***************************************************************************)
LEMMA FlowRemovesFlowInv == ASSUME Inv, NEW f \in Flows, FlowRemovesFlow(f) PROVE Inv'
<1>1. PICK g \in Children(f) : RemoveFlows({g})
  BY Zenon DEF FlowRemovesFlow
<1>2. Running(f) /\ UNCHANGED <<m_Terminated, requests, restored, m_CurrFlow, starting>>
  BY Zenon DEF FlowRemovesFlow, simvars
<1>3. f \in {g} => restarget[f] = Sim
  BY Zenon, <1>1, <1>2, FlowRuns DEF Children, FlowInv
<1> QED
  BY Zenon, <1>1, <1>2, <1>3, RemoveFlowsInv

(***************************************************************************)
(* A flow that the simulator's coroutine has added ends, with any of its   *)
(* plugins, and co_exit() continues the simulator.                         *)
(***************************************************************************)
LEMMA FlowEndsInv == ASSUME Inv, Disciplined, NEW f \in Flows, FlowEnds(f) PROVE Inv'
<1>1. PICK S \in SUBSET Children(f) : RemoveFlows(S \cup {f})
  BY Zenon DEF FlowEnds
<1>2. /\ Running(f) /\ restarget[f] = Sim
      /\ UNCHANGED <<m_Terminated, requests, restored, m_CurrFlow, starting>>
  BY Zenon DEF FlowEnds, simvars, Disciplined, Nested
<1>3. S \cup {f} \in SUBSET (Children(f) \cup {f})
  BY Zenon
<1> QED
  BY Zenon, <1>1, <1>2, <1>3, RemoveFlowsInv

(***************************************************************************)
(* terminate() ends the process from within a flow.                        *)
(***************************************************************************)
LEMMA TerminateInv == ASSUME Inv, NEW f \in Flows, Terminate(f) PROVE Inv'
<1>1. /\ m_Terminated' = TRUE /\ current = f
      /\ UNCHANGED <<m_Flows, current, m_togglerstack, restarget, listeners, m_FireList, requests,
                     restored, m_CurrFlow, starting, waiting, toggledBy, reason>>
  BY Zenon DEF Terminate, Running, simvars
<1>2. m_Terminated' \in BOOLEAN
  BY Zenon, <1>1
<1>3. TypeOK'
  BY Zenon, <1>1, <1>2 DEF Inv, TypeOK
<1> QED
  BY Zenon, <1>1, <1>3 DEF Inv

\* After terminate() the coroutine stays the same.
LEMMA DestroyFlowInv == ASSUME Inv, DestroyFlow PROVE Inv' /\ UNCHANGED <<current, m_Terminated>>
<1>1. PICK f \in m_Flows : RemoveFlows({f})
  BY Zenon DEF DestroyFlow
<1>2. m_Terminated /\ UNCHANGED <<m_Terminated, requests, restored, m_CurrFlow, starting>>
  BY Zenon DEF DestroyFlow, simvars
<1>3. UNCHANGED current
  BY Zenon, <1>1, <1>2 DEF RemoveFlows, Exits
<1>4. TypeOK'
  BY Zenon, <1>1, <1>2, <1>3, RemoveFlowsType DEF Inv, TypeOK
<1> QED
  BY Zenon, <1>2, <1>3, <1>4 DEF Inv

-----------------------------------------------------------------------------
(***************************************************************************)
(* Every step of the simulator's coroutine keeps the invariant.            *)
(***************************************************************************)
LEMMA SimStepInv == ASSUME Inv, SimStep PROVE Inv'
<1>1. CASE Startup
  BY Zenon, <1>1, StartupInv
<1>2. CASE Event
  BY Zenon, <1>2, EventInv
<1>3. CASE TriggerActiveListener
  BY Zenon, <1>3, TriggerInv
<1>4. CASE SaveDone
  <2>1. /\ current = Sim /\ "save" \in requests /\ Done("save") /\ restored' = restored
        /\ "save" \in Kinds
    BY Zenon, <1>4 DEF SaveDone, Simulating, Kinds
  <2> QED
    BY Zenon, <2>1, PendingFlow, DoneInv
<1>5. CASE RebootDone
  <2>1. /\ current = Sim /\ "reboot" \in requests /\ Done("reboot") /\ restored' = restored
        /\ "reboot" \in Kinds
    BY Zenon, <1>5 DEF RebootDone, Simulating, Kinds
  <2> QED
    BY Zenon, <2>1, PendingFlow, DoneInv
<1>6. CASE InterruptDone
  <2>1. /\ current = Sim /\ "interrupt" \in requests /\ Done("interrupt") /\ restored' = restored
        /\ "interrupt" \in Kinds
    BY Zenon, <1>6 DEF InterruptDone, Simulating, Kinds
  <2> QED
    BY Zenon, <2>1, PendingFlow, DoneInv
<1>7. CASE Restored
  BY Zenon, <1>7, RestoredInv
<1>8. CASE RestoreDone
  <2>1. /\ current = Sim /\ restored /\ Done("restore") /\ restored' = FALSE
        /\ "restore" \in Kinds
    BY Zenon, <1>8 DEF RestoreDone, Simulating, Kinds
  <2> QED
    BY Zenon, <2>1, PendingFlow, DoneInv
<1> QED
  BY <1>1, <1>2, <1>3, <1>4, <1>5, <1>6, <1>7, <1>8 DEF SimStep

(***************************************************************************)
(* Every step of a flow keeps the invariant.                               *)
(***************************************************************************)
LEMMA FlowStepInv == ASSUME Inv, Disciplined, NEW f \in Flows, FlowStep(f) PROVE Inv'
  BY Zenon, AddListenerInv, FlowResumesInv, FlowAddsFlowInv, FlowRemovesFlowInv, FlowEndsInv, RequestsInv,
     TerminateInv DEF FlowStep

(***************************************************************************)
(* Every step keeps the invariant, for plugins and experiments that are    *)
(* disciplined.                                                            *)
(***************************************************************************)
LEMMA NextInv == ASSUME Disciplined PROVE Inv /\ [Next]_vars => Inv'
<1> SUFFICES ASSUME Inv, [Next]_vars PROVE Inv'
  BY Zenon
<1>1. CASE UNCHANGED vars
  <2> USE <1>1 DEF vars, simvars
  <2>1. TypeOK' = TypeOK
    BY Zenon DEF TypeOK
  <2>2. StackInv' = StackInv
    BY DEF StackInv, Depth
  <2>3. FlowInv' = FlowInv /\ WaitInv' = WaitInv /\ RequestInv' = RequestInv
    BY Zenon DEF FlowInv, WaitInv, RequestInv, Depth
  <2> QED
    BY Zenon, <2>1, <2>2, <2>3 DEF Inv
<1>2. CASE Next
  BY Zenon, <1>2, SimStepInv, DestroyFlowInv, FlowStepInv DEF Next
<1> QED
  BY Zenon, <1>1, <1>2

\* After terminate() no step goes to another coroutine.
LEMMA TerminatedStays == Inv /\ [Next]_vars => [m_Terminated => current' = current]_vars
<1> SUFFICES ASSUME Inv, Next, m_Terminated PROVE current' = current
  BY Zenon
<1>1. current # Sim
  BY Zenon, FlowAssumption DEF Inv
<1>2. ~SimStep
  BY Zenon, <1>1 DEF SimStep, Startup, Event, TriggerActiveListener, SaveDone, RebootDone, InterruptDone,
              Restored, RestoreDone, Simulating
<1>3. \A f \in Flows : ~FlowStep(f)
  BY Zenon DEF FlowStep, AddListener, FlowResumes, FlowAddsFlow, FlowRemovesFlow, FlowEnds, Request,
         Terminate, Running
<1> QED
  BY Zenon, <1>2, <1>3, DestroyFlowInv DEF Next

-----------------------------------------------------------------------------
\* The inductive invariant holds in every state of FlowControl.
THEOREM FlowInvariant == Disciplined => (Spec => []Inv)
<1> SUFFICES ASSUME Disciplined PROVE Spec => []Inv
  BY Zenon
<1> QED
  BY InitInv, NextInv, PTL DEF Spec

\* Every variable keeps its type, for any flows and any number of listeners.
THEOREM FlowTypeCorrect == Disciplined => (Spec => []TypeOK)
<1> SUFFICES ASSUME Disciplined PROVE Spec => []TypeOK
  BY Zenon
<1>1. Inv => TypeOK
  BY Zenon DEF Inv
<1> QED
  BY <1>1, FlowInvariant, PTL

\* CoroutineManager::resume() goes back to the coroutine that toggled the
\* running flow, however flows are added, removed and ended.
THEOREM AlwaysResumesToggler == Disciplined => (Spec => []ResumeGoesToToggler)
<1> SUFFICES ASSUME Disciplined PROVE Spec => []ResumeGoesToToggler
  BY Zenon
<1>1. Inv => ResumeGoesToToggler
  <2> SUFFICES ASSUME Inv, NEW f \in Flows, Running(f)
               PROVE  m_togglerstack # <<>> /\ Last(m_togglerstack) = toggledBy[f]
    BY Zenon DEF ResumeGoesToToggler
  <2>1. Depth > 0 /\ m_togglerstack[Depth] = toggledBy[f] /\ m_togglerstack \in Seq(Coroutines)
    BY Zenon, FlowRuns DEF StackInv, TypeOK
  <2> QED
    BY <2>1 DEF Depth, Last
<1> QED
  BY <1>1, FlowInvariant, PTL

\* No deleted coroutine runs, is on the stack or is about to be toggled.
THEOREM CoroutinesAlwaysAlive == Disciplined => (Spec => []CoroutinesAlive)
<1> SUFFICES ASSUME Disciplined PROVE Spec => []CoroutinesAlive
  BY Zenon
<1>1. Inv => CoroutinesAlive
  <2> SUFFICES ASSUME Inv, ~m_Terminated
               PROVE  /\ Range(m_togglerstack) \cup {current} \subseteq m_Flows \cup {Sim}
                      /\ \A f \in Flows : m_FireList[f] > 0 => f \in m_Flows
                      /\ requests # {} \/ restored => m_CurrFlow \in m_Flows
    BY Zenon DEF CoroutinesAlive
  <2>1. TypeOK /\ StackInv /\ FlowInv /\ RequestInv
    BY Zenon DEF Inv
  <2>2. current \in m_Flows \cup {Sim}
    BY Zenon, <2>1 DEF StackInv, TypeOK, Coroutines
  <2>3. /\ DOMAIN m_togglerstack = 1..Depth
        /\ \A i \in 1..Depth : m_togglerstack[i] \in Flows \cup {Sim}
    BY <2>1 DEF TypeOK, Coroutines, Depth
  <2>4. Range(m_togglerstack) \subseteq m_Flows \cup {Sim}
    BY <2>1, <2>3 DEF StackInv, Range
  <2>5. \A f \in Flows : m_FireList[f] > 0 => f \in m_Flows
    BY <2>1 DEF FlowInv
  <2> QED
    BY Zenon, <2>1, <2>2, <2>4, <2>5 DEF RequestInv
<1> QED
  BY <1>1, FlowInvariant, PTL

\* terminate() is final: the destructors that exit() runs switch to nobody.
THEOREM TerminationAlwaysFinal == Disciplined => (Spec => TerminationFinal)
<1> SUFFICES ASSUME Disciplined PROVE Spec => TerminationFinal
  BY Zenon
<1> QED
  BY TerminatedStays, FlowInvariant, PTL DEF Spec, TerminationFinal

\* A flow that waits for the simulator, for an event or for a flow it has added
\* is continued by that and by nothing else.
THEOREM AlwaysAnsweredInKind == Disciplined => (Spec => AnsweredInKind)
<1> SUFFICES ASSUME Disciplined PROVE Spec => AnsweredInKind
  BY Zenon
<1> DEFINE InKind == \A f \in Flows : current # f /\ current' = f => reason' = waiting'[f]
<1>1. Inv /\ Inv' /\ [Next]_vars => [InKind]_vars
  <2> SUFFICES ASSUME Inv, Inv', Next, NEW f \in Flows, current # f, current' = f
               PROVE  reason' = waiting'[f]
    BY Zenon
  <2>1. ~m_Terminated
    BY Zenon, TerminatedStays DEF vars
  <2>2. ~m_Terminated'
    <3>1. CASE \E g \in Flows : Terminate(g)
      BY Zenon, <3>1 DEF Terminate
    <3>2. CASE ~\E g \in Flows : Terminate(g)
      BY Zenon, <2>1, <3>2 DEF Next, SimStep, Startup, Event, TriggerActiveListener, SaveDone, RebootDone, InterruptDone,
              Restored, RestoreDone, Done, DestroyFlow, FlowStep, AddListener, FlowResumes, FlowAddsFlow,
              FlowRemovesFlow, FlowEnds, Request
    <3> QED
      BY Zenon, <3>1, <3>2
  <2> QED
    BY Zenon, <2>2 DEF Inv, WaitInv
<1> QED
  BY <1>1, FlowInvariant, PTL DEF Spec, AnsweredInKind
=============================================================================
