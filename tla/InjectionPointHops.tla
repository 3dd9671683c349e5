------------------------- MODULE InjectionPointHops -------------------------
(***************************************************************************)
(* Hop chains: how an injection point is reached with few breakpoints and  *)
(* watchpoints (util/smarthops/SmartHops, with the settings of its only    *)
(* constructor: watchpoints and weights, no checkpoints), and the choice   *)
(* of the cheapest point of an equivalence class by the campaign           *)
(* (cpn/InjectionPointHops).                                               *)
(*                                                                         *)
(* The trace is a sequence of dynamic instructions, counted from 1 by      *)
(* TraceReader; an instruction is the sequence of its events: its own      *)
(* execution, then its memory accesses.  A second access of the same kind  *)
(* to a byte changes nothing in calculateFollowingHop and is left out.     *)
(***************************************************************************)
EXTENDS Integers, FiniteSetsExt, Functions, SequenceEnds

CONSTANTS
  Instructions,   \* instructions that occur in traces, as sequences of events
  MaxTrace        \* bound: length of the trace

Events == UNION {Range(i) : i \in Instructions}

ASSUME HopsAssumption ==
  /\ \A i \in Instructions : i \in Seq(Events) /\ i # <<>> /\ IsInjective(i)
  \* an execution and a memory access are events of different kinds
  /\ \A i, j \in Instructions : \A k \in DOMAIN j : j[k] = i[1] => k = 1
  /\ MaxTrace \in Nat

VARIABLES
  trace,                       \* the part of the trace file that was read
  m_last_positions,            \* 0: not known yet
  m_result, m_costs,           \* the chain to the last position
  m_results, m_curr_instr1, m_curr_instr2, m_ip,
  pc, instr1, instr2           \* the call of parseFromInjectionInstr under way

calcvars == <<trace, m_last_positions, m_result, m_costs>>
vars == <<calcvars, m_results, m_curr_instr1, m_curr_instr2, m_ip, pc, instr1, instr2>>

m_trace_pos == Len(trace)

NoPoint == [target |-> -1, costs |-> 0, hops |-> <<>>]

Init ==
  /\ trace = <<>>
  /\ m_last_positions = [e \in Events |-> 0]
  /\ m_result = <<>> /\ m_costs = 0
  /\ m_results = <<>> /\ m_curr_instr1 = -1 /\ m_curr_instr2 = -1
  /\ m_ip = NoPoint
  /\ pc = "idle" /\ instr1 = 0 /\ instr2 = 0

-----------------------------------------------------------------------------
(***************************************************************************)
(* SmartHops::calculateFollowingHop                                        *)
(***************************************************************************)
COST_CHANGE == 1
COST_NO_CHANGE == 2

HopCost(result, k) ==
  IF k > 1 /\ result[k - 1].event = result[k].event THEN COST_NO_CHANGE ELSE COST_CHANGE

\* the event that occurred last the longest ago, the first one on a tie
BestEvent(events) ==
  LET lp(k) == m_last_positions[events[k]]
  IN events[CHOOSE k \in DOMAIN events :
              \A j \in DOMAIN events : lp(k) < lp(j) \/ (lp(k) = lp(j) /\ k <= j)]

\* mutant: the successor goes too
MutKeptTooFew(last_pos) ==
  Max({k \in DOMAIN m_result : k = 1 \/ m_result[k].pos <= last_pos})

\* mutant: nothing is deleted
MutKeptAll(last_pos) == Len(m_result)

\* the number of hops that remain: up to the last one whose predecessor is
\* not behind last_pos
Kept(last_pos) ==
  Max({k \in DOMAIN m_result : k = 1 \/ m_result[k - 1].pos <= last_pos})

\* mutant: every deleted hop counts as a change
MutRefund(kept) == COST_CHANGE * (Len(m_result) - kept)

\* the sum of the costs of the hops in K, as a count of the two kinds of hops
CostsOf(result, K) ==
  LET kind(cost) == {k \in K : HopCost(result, k) = cost}
  IN COST_CHANGE * Cardinality(kind(COST_CHANGE)) + COST_NO_CHANGE * Cardinality(kind(COST_NO_CHANGE))

\* what the hops behind the kept ones cost
Refund(kept) == CostsOf(m_result, (kept + 1)..Len(m_result))

FollowingHop(events) ==
  LET pos == m_trace_pos + 1
      unknown == {k \in DOMAIN events : m_last_positions[events[k]] = 0}
      best == BestEvent(events)
      kept == Kept(m_last_positions[best])
      chain == Append(SubSeq(m_result, 1, kept), [event |-> best, pos |-> pos])
  IN /\ IF unknown # {}
          THEN /\ m_result' = <<[event |-> events[Min(unknown)], pos |-> pos]>>
               /\ m_costs' = COST_CHANGE
          ELSE /\ m_result' = chain
               /\ m_costs' = m_costs - Refund(kept) + HopCost(chain, kept + 1)
     /\ m_last_positions' = [e \in Events |-> IF e \in Range(events) THEN pos ELSE m_last_positions[e]]
     /\ trace' = Append(trace, events)

Message(result, costs) ==
  [target |-> IF result = <<>> THEN 0 ELSE Last(result).pos, costs |-> costs, hops |-> result]

(***************************************************************************)
(* InjectionPointHops::parseFromInjectionInstr                             *)
(***************************************************************************)
\* mutant: the first result of the class is taken for an old one
MutEraseOlder(i1) ==
  LET older == {k \in DOMAIN m_results : m_results[k].target <= i1}
  IN IF older = {} THEN m_results ELSE SubSeq(m_results, Max(older) + 1, Len(m_results))

\* the vector without the elements before the last one that is older than instr1
EraseOlder(i1) ==
  LET older == {k \in DOMAIN m_results : m_results[k].target < i1}
  IN IF older = {} THEN m_results ELSE SubSeq(m_results, Max(older), Len(m_results))

\* the campaign asks for equivalence classes in the order of instr1
ParseFromInjectionInstr ==
  /\ pc = "idle"
  /\ \E i1 \in instr1..MaxTrace : \E i2 \in i1..MaxTrace :
       /\ instr1' = i1 /\ instr2' = i2
       /\ m_results' = EraseOlder(i1)
       /\ m_curr_instr1' = IF \E k \in DOMAIN m_results : m_results[k].target < i1
                             THEN i1 ELSE m_curr_instr1
  /\ pc' = "calculate"
  /\ UNCHANGED <<calcvars, m_curr_instr2, m_ip>>

NextOffset == IF instr1 > m_curr_instr2 THEN instr1 ELSE m_curr_instr2 + 1

\* one turn of the loop in calculateFollowingHop
ReadTrace ==
  /\ pc = "calculate" /\ instr2 > m_curr_instr2
  /\ m_trace_pos < NextOffset
  /\ \E events \in Instructions : FollowingHop(events)
  /\ UNCHANGED <<m_results, m_curr_instr1, m_curr_instr2, m_ip, pc, instr1, instr2>>

\* calculateFollowingHop has arrived at its instruction (offset 0: it returns at once)
AddResult ==
  /\ pc = "calculate" /\ instr2 > m_curr_instr2
  /\ m_trace_pos = NextOffset
  /\ m_curr_instr1' = IF instr1 > m_curr_instr2 THEN instr1 ELSE m_curr_instr1
  /\ m_results' = Append(m_results, Message(m_result, m_costs))
  /\ m_curr_instr2' = NextOffset
  /\ UNCHANGED <<calcvars, m_ip, pc, instr1, instr2>>

ChooseMinimum ==
  /\ pc = "calculate" /\ instr2 <= m_curr_instr2
  /\ LET first == instr1 - m_curr_instr1 + 1
         last == IF instr1 = instr2 THEN first ELSE instr2 - m_curr_instr1
     IN m_ip' = m_results[CHOOSE k \in first..last :
                  \A j \in first..last : \/ m_results[k].costs < m_results[j].costs
                                         \/ m_results[k].costs = m_results[j].costs /\ k <= j]
  /\ pc' = "idle"
  /\ UNCHANGED <<calcvars, m_results, m_curr_instr1, m_curr_instr2, instr1, instr2>>

Next == ParseFromInjectionInstr \/ ReadTrace \/ AddResult \/ ChooseMinimum

Spec == Init /\ [][Next]_vars

-----------------------------------------------------------------------------
(***************************************************************************)
(* Properties                                                              *)
(***************************************************************************)
Hop == [event: Events, pos: 1..MaxTrace]
Point == [target: -1..MaxTrace, costs: Nat, hops: Seq(Hop)]

\* Every variable has its type.
TypeOK ==
  /\ trace \in Seq(Instructions) /\ Len(trace) <= MaxTrace
  /\ m_last_positions \in [Events -> 0..MaxTrace]
  /\ m_result \in Seq(Hop) /\ m_costs \in Nat
  /\ m_results \in Seq(Point) /\ m_ip \in Point
  /\ m_curr_instr1 \in -1..MaxTrace /\ m_curr_instr2 \in -1..MaxTrace
  /\ pc \in {"idle", "calculate"} /\ instr1 \in 0..MaxTrace /\ instr2 \in 0..MaxTrace

FirstStops(e) == {p \in DOMAIN trace : e \in Range(trace[p])}

\* where a target that stopped at a hop can stop when it waits for an event
NextStops(hop, e) ==
  {p \in FirstStops(e) :
     \/ p > hop.pos
     \/ p = hop.pos /\ \E i, j \in DOMAIN trace[p] : i < j /\ trace[p][i] = hop.event /\ trace[p][j] = e}

\* hop k is where the target stops next, or first
StopsNext(hops, k) ==
  LET stops == IF k = 1 THEN FirstStops(hops[k].event) ELSE NextStops(hops[k - 1], hops[k].event)
  IN hops[k].pos \in stops /\ \A p \in stops : hops[k].pos <= p

LeadsTo(hops, target) ==
  /\ target = IF hops = <<>> THEN 0 ELSE Last(hops).pos
  /\ \A k \in DOMAIN hops : StopsNext(hops, k)

\* A target that follows a hop chain, waiting for one event after the other,
\* stops at the recorded position each time and so ends at the target
\* position: no event of the chain occurs in between.  It holds for the chain
\* that calculateFollowingHop extends and prunes, for the results kept for
\* later equivalence classes and for the chosen point.
ChainsLeadToTarget ==
  /\ LeadsTo(m_result, m_trace_pos)
  /\ \A k \in DOMAIN m_results : LeadsTo(m_results[k].hops, m_results[k].target)
  /\ m_ip # NoPoint => LeadsTo(m_ip.hops, m_ip.target)

\* The costs that calculateFollowingHop carries along through extensions and
\* deletions are the costs of the chain.
CostsAgree == m_costs = CostsOf(m_result, DOMAIN m_result)

WithoutAccesses == \A p \in DOMAIN trace : Len(trace[p]) = 1

HopsAt(p) == {[event |-> e, pos |-> p] : e \in Range(trace[p])}

\* the sequences of hops before a position
HopsBefore(target) ==
  UNION {[1..n -> UNION {HopsAt(p) : p \in 1..(target - 1)}] : n \in 0..(target - 1)}

\* the chains to a position of a trace without memory accesses, where each hop
\* is behind the one before
ChainsTo(target) ==
  {hops \in {Append(front, hop) : front \in HopsBefore(target), hop \in HopsAt(target)} :
     LeadsTo(hops, target)}

\* On a trace without memory accesses no chain to the last position costs less
\* than the one of the greedy calculation, which only sees the next trace event.
OptimalWithoutAccesses ==
  trace # <<>> /\ WithoutAccesses =>
    \A hops \in ChainsTo(m_trace_pos) : m_costs <= CostsOf(hops, DOMAIN hops)

\* When the minimum is chosen, the results hold a chain for every instruction
\* of the equivalence class: clearing the old ones and skipping ahead lose none.
ResultsCoverClass ==
  pc = "calculate" /\ instr2 <= m_curr_instr2 =>
    \A p \in instr1..instr2 : \E k \in DOMAIN m_results : m_results[k].target = p

\* The chosen point lies in the equivalence class that was asked for.
ChosenInClass ==
  pc = "idle" /\ m_ip # NoPoint => m_ip.target \in instr1..instr2
=============================================================================
