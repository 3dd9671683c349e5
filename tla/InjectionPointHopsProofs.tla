---------------------- MODULE InjectionPointHopsProofs ----------------------
(***************************************************************************)
(* Proofs about InjectionPointHops: a target that follows a hop chain ends *)
(* at the target position, the costs carried along are those of the chain  *)
(* and the least there are without memory accesses, and no chain of the    *)
(* equivalence class is missing when the cheapest is chosen, for any set   *)
(* of instructions and traces of any length.                               *)
(***************************************************************************)
EXTENDS InjectionPointHops, FiniteSetTheorems, WellFoundedInduction, TLAPS

\* m_last_positions has the last occurrence of every event, 0 when there is none.
PositionsInv ==
  \A e \in Events :
    /\ m_last_positions[e] \in 0..m_trace_pos
    /\ m_last_positions[e] > 0 => e \in Range(trace[m_last_positions[e]])
    /\ \A p \in DOMAIN trace : e \in Range(trace[p]) => p <= m_last_positions[e]

\* the instruction that result k would belong to if the results were those of
\* consecutive instructions
Expected(k) == m_curr_instr2 - (Len(m_results) - k)

\* The results are those of consecutive instructions up to m_curr_instr2, but
\* for the first, which may be older when it lies before the class; the vector
\* reaches back to m_curr_instr1.
ResultsInv ==
  /\ pc = "calculate" => instr1 <= instr2
  /\ pc = "idle" /\ m_results # <<>> => instr1 <= m_curr_instr2
  /\ instr1 > m_curr_instr2 => Len(m_results) <= 1
  /\ m_curr_instr1 <= instr1
  /\ m_results = <<>> => m_curr_instr1 = -1 /\ m_curr_instr2 = -1
  /\ \A k \in 2..Len(m_results) : m_results[k].target = Expected(k)
  /\ m_results # <<>> =>
       /\ Expected(1) <= m_curr_instr1
       /\ m_results[1].target <= Expected(1)
       /\ m_results[1].target = Expected(1) \/ Expected(1) < instr1

Inv == TypeOK /\ PositionsInv /\ ChainsLeadToTarget /\ CostsAgree /\ ResultsInv
-----------------------------------------------------------------------------
(***************************************************************************)
(* Least and greatest elements                                             *)
(***************************************************************************)

\* A set of natural numbers that is not empty has a least element.
LEMMA NatMin ==
  ASSUME NEW T \in SUBSET Nat, T # {}
  PROVE  \E m \in T : \A k \in T : m <= k
<1>1. \E R : IsWellFoundedOn(R, Nat) /\ \A x, y \in Nat : x < y => <<x, y>> \in R
  <2>1. \A x, y \in Nat : x < y => <<x, y>> \in OpToRel(<, Nat)
    BY Zenon DEF OpToRel
  <2> QED
    BY <2>1, NatLessThanWellFounded, Zenon
<1>2. PICK R : IsWellFoundedOn(R, Nat) /\ \A x, y \in Nat : x < y => <<x, y>> \in R
  BY Zenon, <1>1
<1>3. T \subseteq Nat
  BY Zenon
<1>4. IsWellFoundedOn(R, Nat)
  BY Zenon, <1>2
<1>5. \E m \in T : \A y \in T : ~(<<y, m>> \in R)
  BY ZenonT(60), <1>4, WFMin
<1>6. PICK m \in T : \A y \in T : ~(<<y, m>> \in R)
  BY Zenon, <1>5
<1>7. \A k \in T : ~(k < m)
  BY <1>2, <1>3, <1>6, Zenon
<1> QED
  BY <1>3, <1>7

\* What Min and Max choose from a set of positions.
LEMMA MinMax ==
  ASSUME NEW n \in Nat, NEW S \in SUBSET (1..n), S # {}
  PROVE  /\ Min(S) \in S /\ \A y \in S : Min(S) <= y
         /\ Max(S) \in S /\ \A y \in S : y <= Max(S)
<1>1. S \in SUBSET Nat
  OBVIOUS
<1>2. \E m \in S : \A k \in S : m <= k
  BY Zenon, <1>1, NatMin
<1>3. Min(S) \in S /\ \A y \in S : Min(S) <= y
  BY Zenon, <1>2 DEF Min
<1> DEFINE T == {n - k : k \in S}
<1>4. T \in SUBSET Nat /\ T # {}
  <2>1. \A k \in S : n - k \in Nat
    OBVIOUS
  <2> QED
    BY Zenon, <2>1
<1>5. PICK t \in T : \A k \in T : t <= k
  BY Zenon, <1>4, NatMin
<1>6. \E m \in S : \A k \in S : m >= k
  <2>1. PICK m \in S : t = n - m
    BY Zenon, <1>5
  <2>2. ASSUME NEW k \in S PROVE m >= k
    <3>1. n - m <= n - k
      BY Zenon, <1>5, <2>1
    <3>2. m \in 1..n /\ k \in 1..n
      BY Zenon
    <3> QED
      BY <3>1, <3>2
  <2> QED
    BY Zenon, <2>2
<1>7. Max(S) \in S /\ \A y \in S : Max(S) >= y
  BY Zenon, <1>6 DEF Max
<1> QED
  BY <1>1, <1>3, <1>7

\* Among numbers at consecutive places one is the first of the least ones.
LEMMA FirstLeast ==
  ASSUME NEW a \in Int, NEW b \in Int, a >= 1, NEW D, D = a..b, D # {}, NEW f \in [D -> Nat]
  PROVE  \E k \in D : \A j \in D : f[k] < f[j] \/ (f[k] = f[j] /\ k <= j)
<1> DEFINE V == {f[k] : k \in D}
<1>1. V \in SUBSET Nat /\ V # {}
  BY Zenon
<1>2. PICK v \in V : \A w \in V : v <= w
  BY Zenon, <1>1, NatMin
<1> DEFINE W == {k \in D : f[k] = v}
<1>3. W \in SUBSET Nat /\ W # {}
  BY <1>2
<1>4. PICK k \in W : \A j \in W : k <= j
  BY Zenon, <1>3, NatMin
<1>5. k \in D /\ f[k] = v /\ v \in Nat
  BY Zenon, <1>1, <1>4
<1>6. \A j \in D : f[j] \in Nat /\ v <= f[j]
  BY Zenon, <1>1, <1>2
<1>7. \A j \in D : f[j] = v => k <= j
  BY Zenon, <1>4
<1>8. \A j \in D : f[k] < f[j] \/ (f[k] = f[j] /\ k <= j)
  BY <1>5, <1>6, <1>7
<1> QED
  BY Zenon, <1>5, <1>8

-----------------------------------------------------------------------------
(***************************************************************************)
(* The costs of a chain                                                    *)
(***************************************************************************)

\* Costs of disjoint sets of hops add up.
LEMMA CostsAddUp ==
  ASSUME NEW r, NEW K, NEW L, IsFiniteSet(K), IsFiniteSet(L), K \cap L = {}
  PROVE  /\ CostsOf(r, K) \in Nat /\ CostsOf(r, L) \in Nat
         /\ CostsOf(r, K \cup L) = CostsOf(r, K) + CostsOf(r, L)
<1> DEFINE kind(M, c) == {k \in M : HopCost(r, k) = c}
<1>1. \A c : /\ IsFiniteSet(kind(K, c)) /\ Cardinality(kind(K, c)) \in Nat
             /\ IsFiniteSet(kind(L, c)) /\ Cardinality(kind(L, c)) \in Nat
  <2> SUFFICES ASSUME NEW c
               PROVE  /\ IsFiniteSet(kind(K, c)) /\ Cardinality(kind(K, c)) \in Nat
                      /\ IsFiniteSet(kind(L, c)) /\ Cardinality(kind(L, c)) \in Nat
    BY Zenon
  <2>1. kind(K, c) \in SUBSET K /\ kind(L, c) \in SUBSET L
    BY Zenon
  <2>2. IsFiniteSet(kind(K, c)) /\ IsFiniteSet(kind(L, c))
    BY Zenon, <2>1, FS_Subset
  <2> QED
    BY Zenon, <2>2, FS_CardinalityType
<1>2. \A c : Cardinality(kind(K \cup L, c)) = Cardinality(kind(K, c)) + Cardinality(kind(L, c))
  <2> SUFFICES ASSUME NEW c
               PROVE  Cardinality(kind(K \cup L, c)) = Cardinality(kind(K, c)) + Cardinality(kind(L, c))
    BY Zenon
  <2> DEFINE A == kind(K, c)
             B == kind(L, c)
  <2>1. kind(K \cup L, c) = A \cup B /\ A \cap B = {}
    BY Zenon
  <2>2. /\ IsFiniteSet(A) /\ Cardinality(A) \in Nat /\ IsFiniteSet(B) /\ Cardinality(B) \in Nat
    BY Zenon, <1>1
  <2> HIDE DEF A, B
  <2>3. Cardinality(A \cup B) = Cardinality(A) + Cardinality(B) - Cardinality(A \cap B)
    BY Zenon, <2>2, FS_Union
  <2>4. Cardinality(A \cap B) = 0
    BY Zenon, <2>1, FS_EmptySet
  <2>5. Cardinality(A \cup B) = Cardinality(A) + Cardinality(B)
    BY <2>2, <2>3, <2>4
  <2> QED
    BY Zenon, <2>1, <2>5 DEF A, B
<1>3. \A M : CostsOf(r, M) = 1 * Cardinality(kind(M, 1)) + 2 * Cardinality(kind(M, 2))
  BY Zenon DEF CostsOf, COST_CHANGE, COST_NO_CHANGE
<1> HIDE DEF kind
<1>4. /\ Cardinality(kind(K, 1)) \in Nat /\ Cardinality(kind(K, 2)) \in Nat
      /\ Cardinality(kind(L, 1)) \in Nat /\ Cardinality(kind(L, 2)) \in Nat
      /\ Cardinality(kind(K \cup L, 1)) = Cardinality(kind(K, 1)) + Cardinality(kind(L, 1))
      /\ Cardinality(kind(K \cup L, 2)) = Cardinality(kind(K, 2)) + Cardinality(kind(L, 2))
  BY Zenon, <1>1, <1>2
<1>5. /\ CostsOf(r, K) = 1 * Cardinality(kind(K, 1)) + 2 * Cardinality(kind(K, 2))
      /\ CostsOf(r, L) = 1 * Cardinality(kind(L, 1)) + 2 * Cardinality(kind(L, 2))
      /\ CostsOf(r, K \cup L) = 1 * Cardinality(kind(K \cup L, 1)) + 2 * Cardinality(kind(K \cup L, 2))
  BY Zenon, <1>3
<1> QED
  BY <1>4, <1>5

\* A single hop costs what HopCost says.
LEMMA CostsOfOne ==
  ASSUME NEW r, NEW k
  PROVE  CostsOf(r, {k}) = HopCost(r, k) /\ HopCost(r, k) \in {1, 2}
<1> DEFINE kind(c) == {j \in {k} : HopCost(r, j) = c}
<1>1. HopCost(r, k) \in {1, 2}
  BY Zenon DEF HopCost, COST_CHANGE, COST_NO_CHANGE
<1>2. CostsOf(r, {k}) = 1 * Cardinality(kind(1)) + 2 * Cardinality(kind(2))
  BY Zenon DEF CostsOf, COST_CHANGE, COST_NO_CHANGE
<1>3. Cardinality({}) = 0 /\ Cardinality({k}) = 1
  BY Zenon, FS_EmptySet, FS_Singleton
<1>4. CASE HopCost(r, k) = 1
  <2>1. kind(1) = {k} /\ kind(2) = {}
    BY <1>4
  <2> QED
    BY <1>2, <1>3, <1>4, <2>1
<1>5. CASE HopCost(r, k) = 2
  <2>1. kind(1) = {} /\ kind(2) = {k}
    BY <1>5
  <2> QED
    BY <1>2, <1>3, <1>5, <2>1
<1> QED
  BY Zenon, <1>1, <1>4, <1>5

\* Two chains with the same hops up to n have the same costs up to n.
LEMMA SameCosts ==
  ASSUME NEW r, NEW s, NEW n \in Nat, \A k \in 1..n : r[k] = s[k]
  PROVE  CostsOf(r, 1..n) = CostsOf(s, 1..n)
<1>1. \A k \in 1..n : HopCost(r, k) = HopCost(s, k)
  BY DEF HopCost
<1> QED
  BY Zenon, <1>1 DEF CostsOf
-----------------------------------------------------------------------------
(***************************************************************************)
(* Chains and the growing trace                                            *)
(***************************************************************************)

\* TraceReader appends: what was read stays as it is.
LEMMA TraceGrows ==
  ASSUME trace \in Seq(Instructions), NEW events \in Instructions, trace' = Append(trace, events)
  PROVE  /\ m_trace_pos \in Nat /\ m_trace_pos' = m_trace_pos + 1
         /\ DOMAIN trace = 1..m_trace_pos /\ DOMAIN trace' = 1..(m_trace_pos + 1)
         /\ trace'[m_trace_pos + 1] = events
         /\ \A p \in 1..m_trace_pos : trace'[p] = trace[p]
BY DEF m_trace_pos

\* The places where a target can stop: a longer trace adds its last position only.
LEMMA StopsGrow ==
  ASSUME trace \in Seq(Instructions), NEW events \in Instructions, trace' = Append(trace, events),
         NEW hop, hop.pos \in Int, NEW e
  PROVE  /\ FirstStops(e) \subseteq FirstStops(e)' /\ FirstStops(e) \subseteq 1..m_trace_pos
         /\ NextStops(hop, e) \subseteq NextStops(hop, e)' /\ NextStops(hop, e) \subseteq 1..m_trace_pos
         /\ \A p \in FirstStops(e)' : p \in FirstStops(e) \/ p = m_trace_pos + 1
         /\ \A p \in NextStops(hop, e)' : p \in NextStops(hop, e) \/ p = m_trace_pos + 1
         /\ NextStops(hop, e)' \subseteq FirstStops(e)'
<1> DEFINE n == m_trace_pos
<1>1. /\ n \in Nat /\ DOMAIN trace = 1..n /\ DOMAIN trace' = 1..(n + 1)
      /\ \A p \in 1..n : trace'[p] = trace[p]
  BY Zenon, TraceGrows
<1> HIDE DEF n
<1>2. \A p : p \in 1..(n + 1) <=> p \in 1..n \/ p = n + 1
  BY <1>1
<1>3. /\ FirstStops(e) \subseteq FirstStops(e)' /\ FirstStops(e) \subseteq 1..n
      /\ \A p \in FirstStops(e)' : p \in FirstStops(e) \/ p = n + 1
  BY Zenon, <1>1, <1>2 DEF FirstStops
<1>4. /\ NextStops(hop, e) \subseteq NextStops(hop, e)'
      /\ \A p \in NextStops(hop, e)' : p \in NextStops(hop, e) \/ p = n + 1
  BY ZenonT(30), <1>1, <1>3 DEF NextStops
<1>5. NextStops(hop, e) \subseteq FirstStops(e) /\ NextStops(hop, e)' \subseteq FirstStops(e)'
  BY Zenon DEF NextStops
<1> QED
  BY Zenon, <1>3, <1>4, <1>5 DEF n

\* The parts of a hop.
LEMMA HopParts ==
  ASSUME NEW h \in Seq(Hop), NEW k \in DOMAIN h
  PROVE  h[k].pos \in Int /\ h[k].event \in Events
<1>1. h[k] \in Hop
  OBVIOUS
<1> QED
  BY <1>1, HopsAssumption DEF Hop

\* A hop at which a target stops next is within the trace, and it still stops
\* there when the trace is longer.
LEMMA StopsNextGrows ==
  ASSUME trace \in Seq(Instructions), NEW events \in Instructions, trace' = Append(trace, events),
         NEW h \in Seq(Hop), NEW k \in DOMAIN h, StopsNext(h, k)
  PROVE  StopsNext(h, k)' /\ h[k].pos \in 1..m_trace_pos
<1> DEFINE n == m_trace_pos
           first == FirstStops(h[k].event)
           next == NextStops(h[k - 1], h[k].event)
<1>1. n \in Nat
  BY Zenon, TraceGrows
<1>2. CASE k = 1
  <2>1. h[k].pos \in first /\ \A p \in first : h[k].pos <= p
    BY Zenon, <1>2 DEF StopsNext
  <2>2. h[k].pos \in first' /\ h[k].pos \in 1..n
    BY Zenon, <2>1, HopParts, StopsGrow
  <2>3. \A p \in first' : p \in first \/ p = n + 1
    BY Zenon, HopParts, StopsGrow
  <2>4. h[k].pos <= n + 1
    BY <1>1, <2>2
  <2> QED
    BY Zenon, <1>2, <2>1, <2>2, <2>3, <2>4 DEF StopsNext
<1>3. CASE k # 1
  <2>1. h[k].pos \in next /\ \A p \in next : h[k].pos <= p
    BY Zenon, <1>3 DEF StopsNext
  <2>2. k - 1 \in DOMAIN h
    BY <1>3
  <2>3. h[k].pos \in next' /\ h[k].pos \in 1..n
    BY Zenon, <2>1, <2>2, HopParts, StopsGrow
  <2>4. \A p \in next' : p \in next \/ p = n + 1
    BY Zenon, <2>2, HopParts, StopsGrow
  <2>5. h[k].pos <= n + 1
    BY <1>1, <2>3
  <2> QED
    BY Zenon, <1>3, <2>1, <2>3, <2>4, <2>5 DEF StopsNext
<1> QED
  BY Zenon, <1>2, <1>3

\* A chain that leads to a target does so in a longer trace.
LEMMA LeadsToGrows ==
  ASSUME trace \in Seq(Instructions), NEW events \in Instructions, trace' = Append(trace, events),
         NEW h \in Seq(Hop), NEW t, LeadsTo(h, t)
  PROVE  LeadsTo(h, t)'
BY Zenon, StopsNextGrows DEF LeadsTo

\* The best event is one of the instruction, none occurred last before it did,
\* and when all occurred last at the same position it is the first.
LEMMA BestEventIs ==
  ASSUME m_last_positions \in [Events -> 0..MaxTrace], NEW events \in Instructions
  PROVE  /\ BestEvent(events) \in Range(events)
         /\ \A e \in Range(events) : m_last_positions[BestEvent(events)] <= m_last_positions[e]
         /\ m_last_positions[BestEvent(events)] = m_last_positions[events[1]] => BestEvent(events) = events[1]
<1> DEFINE D == DOMAIN events
           f == [k \in D |-> m_last_positions[events[k]]]
           IsBest(k) == \A j \in D : f[k] < f[j] \/ (f[k] = f[j] /\ k <= j)
           best == CHOOSE k \in D : IsBest(k)
<1>1. D = 1..Len(events) /\ Len(events) \in Int /\ D # {} /\ 1 \in D /\ \A k \in D : events[k] \in Events
  <2>1. events \in Seq(Events) /\ events # <<>>
    BY Zenon, HopsAssumption
  <2> QED
    BY <2>1
<1>2. f \in [D -> Nat]
  BY <1>1, HopsAssumption
<1>3. \E k \in D : IsBest(k)
  <2> HIDE DEF f, D
  <2>1. 1 \in Int /\ 1 >= 1
    OBVIOUS
  <2>2. \E k \in D : \A j \in D : f[k] < f[j] \/ (f[k] = f[j] /\ k <= j)
    BY <1>1, <1>2, <2>1, FirstLeast
  <2> QED
    BY Zenon, <2>2
<1>4. best \in D /\ IsBest(best)
  BY Zenon, <1>3
<1>5. BestEvent(events) = events[best]
  BY Zenon DEF BestEvent
<1>6. \A j \in D : f[j] \in Nat /\ f[j] = m_last_positions[events[j]]
  BY Zenon, <1>2
<1> HIDE DEF best, f
<1>7. \A j \in D : f[best] <= f[j] /\ (f[best] = f[j] => best <= j)
  BY <1>1, <1>4, <1>6
<1>8. \A e \in Range(events) : m_last_positions[events[best]] <= m_last_positions[e]
  BY Zenon, <1>4, <1>6, <1>7 DEF Range
<1>9. f[best] = f[1] => best = 1
  BY <1>1, <1>4, <1>7
<1> QED
  BY Zenon, <1>1, <1>4, <1>5, <1>6, <1>8, <1>9 DEF Range

\* deleteHopsBackTo: a hop whose successor was deleted lies behind last_pos, and
\* the hop before the last one that is kept does not.
LEMMA KeptIs ==
  ASSUME m_result \in Seq(Hop), m_result # <<>>, NEW last_pos \in Int
  PROVE  /\ Kept(last_pos) \in 1..Len(m_result)
         /\ Kept(last_pos) = Len(m_result) \/ m_result[Kept(last_pos)].pos > last_pos
         /\ Kept(last_pos) > 1 => m_result[Kept(last_pos) - 1].pos <= last_pos
<1> DEFINE S == {k \in DOMAIN m_result : k = 1 \/ m_result[k - 1].pos <= last_pos}
           kept == Kept(last_pos)
<1>1. DOMAIN m_result = 1..Len(m_result) /\ Len(m_result) \in Nat /\ 1 \in 1..Len(m_result)
  OBVIOUS
<1>2. S \in SUBSET (1..Len(m_result)) /\ S # {}
  BY Zenon, <1>1
<1>3. Max(S) \in S /\ \A y \in S : y <= Max(S)
  BY Zenon, <1>1, <1>2, MinMax
<1>4. kept \in S /\ \A y \in S : y <= kept
  BY Zenon, <1>3 DEF Kept
<1> HIDE DEF kept
<1>5. kept \in 1..Len(m_result)
  BY Zenon, <1>1, <1>4
<1>6. ASSUME kept # Len(m_result)
      PROVE  m_result[kept].pos > last_pos
  <2>1. kept + 1 \in 1..Len(m_result) /\ (kept + 1) - 1 = kept /\ kept + 1 # 1 /\ ~(kept + 1 <= kept)
    <3>1. kept \in 1..Len(m_result) /\ kept # Len(m_result) /\ Len(m_result) \in Nat
      BY Zenon, <1>1, <1>5, <1>6
    <3> HIDE DEF kept
    <3> QED
      BY <3>1
  <2>2. kept + 1 \notin S
    BY Zenon, <1>4, <2>1
  <2>3. ~(m_result[kept].pos <= last_pos)
    BY Zenon, <1>1, <2>1, <2>2
  <2>4. m_result[kept].pos \in Int
    BY Zenon, <1>1, <1>5, HopParts
  <2> QED
    BY <2>3, <2>4
<1>7. kept > 1 => kept # 1
  BY <1>1, <1>5
<1> QED
  BY Zenon, <1>4, <1>5, <1>6, <1>7 DEF kept

\* What Append adds to a sequence.
LEMMA AppendIs ==
  ASSUME NEW S, NEW s \in Seq(S), NEW x \in S
  PROVE  /\ Append(s, x) \in Seq(S) /\ Append(s, x) # <<>>
         /\ Len(s) \in Nat /\ Len(Append(s, x)) = Len(s) + 1
         /\ DOMAIN Append(s, x) = 1..(Len(s) + 1)
         /\ Append(s, x)[Len(s) + 1] = x /\ \A k \in 1..Len(s) : Append(s, x)[k] = s[k]
OBVIOUS

\* c is the chain h, pruned behind kept and extended by the hop x.
Prolongs(c, h, kept, x) ==
  /\ c \in Seq(Hop) /\ Len(c) = kept + 1 /\ DOMAIN c = 1..(kept + 1) /\ c # <<>>
  /\ c[kept + 1] = x /\ \A k \in 1..kept : c[k] = h[k]

\* What SubSeq and Append make of a chain.
LEMMA PruneAndAppend ==
  ASSUME NEW h \in Seq(Hop), NEW kept \in 1..Len(h), NEW x \in Hop
  PROVE  Prolongs(Append(SubSeq(h, 1, kept), x), h, kept, x)
<1> DEFINE s == SubSeq(h, 1, kept)
<1>1. s \in Seq(Hop) /\ Len(s) = kept /\ \A k \in 1..kept : s[k] = h[k]
  OBVIOUS
<1> HIDE DEF s
<1>2. /\ Append(s, x) \in Seq(Hop) /\ Append(s, x) # <<>>
      /\ Len(Append(s, x)) = Len(s) + 1 /\ DOMAIN Append(s, x) = 1..(Len(s) + 1)
      /\ Append(s, x)[Len(s) + 1] = x /\ \A k \in 1..Len(s) : Append(s, x)[k] = s[k]
  BY <1>1, AppendIs
<1>3. /\ Append(s, x) \in Seq(Hop) /\ Append(s, x) # <<>>
      /\ Len(Append(s, x)) = kept + 1 /\ DOMAIN Append(s, x) = 1..(kept + 1)
      /\ Append(s, x)[kept + 1] = x /\ \A k \in 1..kept : Append(s, x)[k] = h[k]
  BY Zenon, <1>1, <1>2
<1> QED
  BY Zenon, <1>3 DEF s, Prolongs

\* A chain is extended by an event that does not occur behind its last hop but
\* in the instruction that is read.
LEMMA ExtendChain ==
  ASSUME trace \in Seq(Instructions), NEW events \in Instructions, trace' = Append(trace, events),
         NEW h \in Seq(Hop), LeadsTo(h, m_trace_pos), NEW kept \in 1..Len(h),
         NEW e \in Range(events), NextStops(h[kept], e) = {},
         NEW t, t = m_trace_pos + 1, t <= MaxTrace,
         NEW c, c = Append(SubSeq(h, 1, kept), [event |-> e, pos |-> t])
  PROVE  LeadsTo(c, t)'
<1> DEFINE x == [event |-> e, pos |-> t]
<1>1. /\ m_trace_pos \in Nat /\ t \in DOMAIN trace' /\ trace'[t] = events
      /\ t \in 1..MaxTrace /\ \A p \in 1..m_trace_pos : p < t
  <2>1. /\ m_trace_pos \in Nat /\ DOMAIN trace' = 1..(m_trace_pos + 1)
        /\ trace'[m_trace_pos + 1] = events
    BY Zenon, TraceGrows
  <2> QED
    BY <2>1, HopsAssumption
<1>2. e \in Events
  BY Zenon DEF Events
<1>3. x \in Hop /\ x.event = e /\ x.pos = t
  BY Zenon, <1>1, <1>2 DEF Hop
<1>4. c = Append(SubSeq(h, 1, kept), x)
  BY Zenon
<1> HIDE DEF x
<1>5. Prolongs(c, h, kept, x)
  BY Zenon, <1>3, <1>4, PruneAndAppend
<1>6. ASSUME NEW k \in 1..kept
      PROVE  StopsNext(c, k)'
  <2>1. k \in DOMAIN h
    OBVIOUS
  <2>2. StopsNext(h, k)'
    BY Zenon, <2>1, StopsNextGrows DEF LeadsTo
  <2>3. c[k] = h[k] /\ (k # 1 => c[k - 1] = h[k - 1])
    BY <1>5 DEF Prolongs
  <2> QED
    BY Zenon, <2>2, <2>3 DEF StopsNext
<1>7. StopsNext(c, kept + 1)'
  <2>1. kept \in DOMAIN h /\ kept \in 1..kept /\ kept + 1 # 1 /\ (kept + 1) - 1 = kept
    OBVIOUS
  <2>2. h[kept].pos \in 1..m_trace_pos /\ h[kept].pos \in Int
    BY Zenon, <2>1, StopsNextGrows, HopParts DEF LeadsTo
  <2>3. t > h[kept].pos
    BY <1>1, <2>2
  <2>4. t \in NextStops(h[kept], e)'
    BY Zenon, <1>1, <2>3 DEF NextStops, FirstStops
  <2>5. \A p \in NextStops(h[kept], e)' : p = t
    BY Zenon, <2>2, StopsGrow
  <2>6. t <= t
    BY <1>1
  <2>7. t \in NextStops(h[kept], e)' /\ \A p \in NextStops(h[kept], e)' : t <= p
    BY Zenon, <2>4, <2>5, <2>6
  <2>8. c[kept + 1].event = e /\ c[kept + 1].pos = t /\ c[(kept + 1) - 1] = h[kept]
    BY Zenon, <1>3, <1>5, <2>1 DEF Prolongs
  <2> QED
    BY Zenon, <2>1, <2>7, <2>8 DEF StopsNext
<1>8. \A k \in DOMAIN c : StopsNext(c, k)'
  <2>1. \A k \in 1..(kept + 1) : k \in 1..kept \/ k = kept + 1
    OBVIOUS
  <2> QED
    BY Zenon, <1>5, <1>6, <1>7, <2>1 DEF Prolongs
<1>9. Last(c).pos = t
  BY Zenon, <1>3, <1>5 DEF Prolongs, Last
<1> QED
  BY Zenon, <1>5, <1>8, <1>9 DEF Prolongs, LeadsTo

\* A chain of one hop leads to an event that never occurred before.
LEMMA NewChain ==
  ASSUME trace \in Seq(Instructions), NEW events \in Instructions, trace' = Append(trace, events),
         NEW e \in Range(events), FirstStops(e) = {},
         NEW t, t = m_trace_pos + 1, t <= MaxTrace,
         NEW c, c = <<[event |-> e, pos |-> t]>>
  PROVE  c \in Seq(Hop) /\ LeadsTo(c, t)' /\ Len(c) = 1
<1> DEFINE x == [event |-> e, pos |-> t]
<1>1. m_trace_pos \in Nat /\ t \in DOMAIN trace' /\ trace'[t] = events /\ t \in 1..MaxTrace /\ t <= t
  <2>1. /\ m_trace_pos \in Nat /\ DOMAIN trace' = 1..(m_trace_pos + 1)
        /\ trace'[m_trace_pos + 1] = events
    BY Zenon, TraceGrows
  <2> QED
    BY <2>1, HopsAssumption
<1>2. e \in Events
  BY Zenon DEF Events
<1>3. x \in Hop /\ x.event = e /\ x.pos = t
  BY Zenon, <1>1, <1>2 DEF Hop
<1>4. c = <<x>>
  BY Zenon
<1> HIDE DEF x
<1>5. c \in Seq(Hop) /\ Len(c) = 1 /\ DOMAIN c = {1} /\ c # <<>> /\ c[1] = x
  BY <1>3, <1>4
<1>6. t \in FirstStops(e)'
  BY Zenon, <1>1 DEF FirstStops
<1>7. \A p \in FirstStops(e)' : p = t
  <2>1. x.pos \in Int
    BY <1>1, <1>3
  <2> QED
    BY Zenon, <2>1, StopsGrow
<1>8. StopsNext(c, 1)'
  BY Zenon, <1>1, <1>3, <1>5, <1>6, <1>7 DEF StopsNext
<1>9. Last(c).pos = t
  BY Zenon, <1>3, <1>5 DEF Last
<1> QED
  BY Zenon, <1>5, <1>8, <1>9 DEF LeadsTo
-----------------------------------------------------------------------------
(***************************************************************************)
(* SmartHops::calculateFollowingHop                                        *)
(***************************************************************************)

\* The last positions stay those of the last occurrences.
LEMMA PositionsFollow ==
  ASSUME TypeOK, PositionsInv, m_trace_pos < MaxTrace, NEW events \in Instructions, FollowingHop(events)
  PROVE  /\ trace' = Append(trace, events) /\ trace' \in Seq(Instructions) /\ Len(trace') <= MaxTrace
         /\ m_last_positions' \in [Events -> 0..MaxTrace] /\ PositionsInv'
<1> DEFINE n == m_trace_pos
<1>1. /\ trace' = Append(trace, events) /\ trace \in Seq(Instructions)
      /\ m_last_positions' = [e \in Events |-> IF e \in Range(events) THEN n + 1 ELSE m_last_positions[e]]
  BY Zenon DEF FollowingHop, TypeOK
<1>2. /\ n \in Nat /\ m_trace_pos' = n + 1 /\ DOMAIN trace' = 1..(n + 1) /\ trace'[n + 1] = events
      /\ DOMAIN trace = 1..n /\ \A p \in 1..n : trace'[p] = trace[p]
  BY Zenon, <1>1, TraceGrows
<1>3. trace' \in Seq(Instructions) /\ Len(trace') <= MaxTrace
  BY <1>1, <1>2, HopsAssumption DEF m_trace_pos
<1> HIDE DEF n
<1>4. m_last_positions' \in [Events -> 0..MaxTrace]
  <2>1. n + 1 \in 0..MaxTrace
    BY <1>2, HopsAssumption DEF n
  <2> QED
    BY Zenon, <1>1, <2>1 DEF TypeOK
<1>5. ASSUME NEW e \in Events
      PROVE  /\ m_last_positions'[e] \in 0..(n + 1)
             /\ m_last_positions'[e] > 0 => e \in Range(trace'[m_last_positions'[e]])
             /\ \A p \in DOMAIN trace' : e \in Range(trace'[p]) => p <= m_last_positions'[e]
  <2> DEFINE L == m_last_positions[e]
  <2>1. /\ L \in 0..n /\ (L > 0 => e \in Range(trace[L]))
        /\ \A p \in 1..n : e \in Range(trace[p]) => p <= L
    BY Zenon, <1>2 DEF PositionsInv, n
  <2>2. CASE e \in Range(events)
    <3>1. m_last_positions'[e] = n + 1
      BY Zenon, <1>1, <2>2
    <3>2. n + 1 \in 0..(n + 1) /\ \A p \in 1..(n + 1) : p <= n + 1
      BY <1>2
    <3> QED
      BY Zenon, <1>2, <2>2, <3>1, <3>2
  <2>3. CASE e \notin Range(events)
    <3>1. m_last_positions'[e] = L
      BY Zenon, <1>1, <2>3
    <3>2. /\ L \in 0..(n + 1) /\ (L > 0 => L \in 1..n)
          /\ \A p \in 1..(n + 1) : p \in 1..n \/ p = n + 1
      BY <1>2, <2>1
    <3> QED
      BY Zenon, <1>2, <2>1, <2>3, <3>1, <3>2
  <2> QED
    BY Zenon, <2>2, <2>3
<1>6. PositionsInv'
  BY Zenon, <1>2, <1>5 DEF PositionsInv
<1> QED
  BY Zenon, <1>1, <1>3, <1>4, <1>6

\* The best event does not occur behind the last hop that is kept.
LEMMA BestDoesNotOccur ==
  ASSUME TypeOK, PositionsInv, LeadsTo(m_result, m_trace_pos), NEW events \in Instructions,
         m_last_positions[BestEvent(events)] > 0
  PROVE  /\ m_result # <<>> /\ Kept(m_last_positions[BestEvent(events)]) \in 1..Len(m_result)
         /\ NextStops(m_result[Kept(m_last_positions[BestEvent(events)])], BestEvent(events)) = {}
<1> DEFINE n == m_trace_pos
           e == BestEvent(events)
           L == m_last_positions[e]
           kept == Kept(L)
           q == m_result[kept].pos
<1>1. e \in Range(events) /\ e \in Events /\ events[1] \in Range(events) /\ events[1] \in Events
  <2>1. e \in Range(events)
    BY Zenon, BestEventIs DEF TypeOK
  <2>2. 1 \in DOMAIN events
    <3>1. events \in Seq(Events) /\ events # <<>>
      BY Zenon, HopsAssumption
    <3> QED
      BY <3>1
  <2> QED
    BY Zenon, <2>1, <2>2 DEF Events, Range
<1>2. n \in Nat /\ trace \in Seq(Instructions) /\ DOMAIN trace = 1..n
  BY DEF m_trace_pos, TypeOK
<1>3. /\ L \in 1..n
      /\ \A p \in 1..n : e \in Range(trace[p]) => p <= L
      /\ m_last_positions[events[1]] \in 0..n
  <2>1. /\ L \in 0..n /\ m_last_positions[events[1]] \in 0..n
        /\ \A p \in 1..n : e \in Range(trace[p]) => p <= L
    BY Zenon, <1>1, <1>2 DEF PositionsInv
  <2>2. L > 0
    BY Zenon
  <2> HIDE DEF L, n
  <2> QED
    BY <1>2, <2>1, <2>2
<1> HIDE DEF e, L, n
<1>4. m_result # <<>> /\ Last(m_result).pos = n
  <2>1. n # 0
    BY <1>2, <1>3
  <2> QED
    BY Zenon, <2>1 DEF LeadsTo, n
<1>5. L \in Int
  BY <1>3
<1>6. kept \in 1..Len(m_result) /\ (kept = Len(m_result) \/ q > L)
  BY Zenon, <1>4, <1>5, KeptIs DEF TypeOK
<1>7. kept \in DOMAIN m_result /\ q \in Int
  <2>1. kept \in DOMAIN m_result
    BY <1>6 DEF TypeOK
  <2> QED
    BY Zenon, <2>1, HopParts DEF TypeOK
<1>8. kept = Len(m_result) => q = n
  BY Zenon, <1>4 DEF Last
<1> HIDE DEF kept
<1>9. ASSUME NEW p \in NextStops(m_result[kept], e)
      PROVE  FALSE
  <2>1. /\ p \in 1..n /\ e \in Range(trace[p])
        /\ p > q \/ (p = q /\ \E i, j \in DOMAIN trace[p] :
                               i < j /\ trace[p][i] = m_result[kept].event /\ trace[p][j] = e)
    BY Zenon, <1>2, <1>9 DEF NextStops, FirstStops
  <2>2. p <= L
    BY Zenon, <1>3, <2>1
  <2>3. p = n /\ L = n /\ \E i, j \in DOMAIN trace[p] : i < j /\ trace[p][j] = e
    <3>1. q = n
      BY <1>2, <1>3, <1>6, <1>7, <1>8, <2>1, <2>2
    <3>2. p = n /\ L = n /\ ~(p > q)
      BY <1>2, <1>3, <2>1, <2>2, <3>1
    <3> QED
      BY Zenon, <2>1, <3>2
  <2>4. e = events[1]
    <3>1. L <= m_last_positions[events[1]] /\ (L = m_last_positions[events[1]] => e = events[1])
      BY Zenon, <1>1, BestEventIs DEF TypeOK, e, L
    <3>2. L = m_last_positions[events[1]]
      BY <1>2, <1>3, <2>3, <3>1
    <3> QED
      BY Zenon, <3>1, <3>2
  <2>5. PICK i, j \in DOMAIN trace[p] : i < j /\ trace[p][j] = events[1]
    BY Zenon, <2>3, <2>4
  <2>6. trace[p] \in Instructions /\ trace[p] \in Seq(Events)
    <3>1. trace[p] \in Instructions
      BY <1>2, <2>1
    <3> QED
      BY Zenon, <3>1, HopsAssumption
  <2>7. j = 1
    BY Zenon, <2>5, <2>6, HopsAssumption
  <2> QED
    BY <2>5, <2>6, <2>7
<1> QED
  BY Zenon, <1>4, <1>6, <1>9 DEF kept, e, L
\* The costs of a chain that is pruned behind kept and extended by a hop.
LEMMA CostsFollow ==
  ASSUME NEW h \in Seq(Hop), NEW kept \in 1..Len(h), NEW c, Len(c) = kept + 1,
         \A k \in 1..kept : c[k] = h[k]
  PROVE  /\ CostsOf(h, (kept + 1)..Len(h)) \in Nat /\ CostsOf(h, 1..Len(h)) \in Nat
         /\ CostsOf(c, 1..(kept + 1)) \in Nat
         /\ CostsOf(c, 1..(kept + 1)) =
              CostsOf(h, 1..Len(h)) - CostsOf(h, (kept + 1)..Len(h)) + HopCost(c, kept + 1)
<1> DEFINE A == 1..kept
           B == (kept + 1)..Len(h)
           C == {kept + 1}
<1>1. Len(h) \in Nat /\ kept \in Nat /\ kept <= Len(h)
  OBVIOUS
<1>2. /\ A \cup B = 1..Len(h) /\ A \cap B = {} /\ A \cup C = 1..(kept + 1) /\ A \cap C = {}
  BY <1>1
<1>3. IsFiniteSet(A) /\ IsFiniteSet(B) /\ IsFiniteSet(C)
  <2>1. 1 \in Int /\ kept \in Int /\ kept + 1 \in Int /\ Len(h) \in Int
    BY <1>1
  <2> QED
    BY Zenon, <2>1, FS_Interval, FS_Singleton
<1>4. CostsOf(h, A) = CostsOf(c, A)
  BY Zenon, <1>1, SameCosts
<1> HIDE DEF A, B, C
<1>5. /\ CostsOf(h, A) \in Nat /\ CostsOf(h, B) \in Nat
      /\ CostsOf(h, A \cup B) = CostsOf(h, A) + CostsOf(h, B)
  BY Zenon, <1>2, <1>3, CostsAddUp
<1>6. /\ CostsOf(c, C) \in Nat
      /\ CostsOf(c, A \cup C) = CostsOf(c, A) + CostsOf(c, C)
  BY Zenon, <1>2, <1>3, CostsAddUp
<1>7. CostsOf(c, C) = HopCost(c, kept + 1)
  BY Zenon, CostsOfOne DEF C
<1>8. /\ CostsOf(h, 1..Len(h)) = CostsOf(h, A) + CostsOf(h, B)
      /\ CostsOf(c, 1..(kept + 1)) = CostsOf(h, A) + HopCost(c, kept + 1)
      /\ HopCost(c, kept + 1) \in Nat
  BY Zenon, <1>2, <1>4, <1>5, <1>6, <1>7
<1>9. CostsOf(h, B) = CostsOf(h, (kept + 1)..Len(h))
  BY Zenon DEF B
<1> QED
  BY <1>5, <1>8, <1>9

\* The chain that calculateFollowingHop makes leads to the instruction it has
\* read, and its costs are those that are carried along.
LEMMA ChainFollows ==
  ASSUME TypeOK, PositionsInv, LeadsTo(m_result, m_trace_pos), CostsAgree,
         m_trace_pos < MaxTrace, NEW events \in Instructions, FollowingHop(events)
  PROVE  /\ m_result' \in Seq(Hop) /\ m_costs' \in Nat
         /\ LeadsTo(m_result, m_trace_pos)' /\ CostsAgree'
<1>0. SUFFICES ASSUME NEW c, c = m_result', NEW t, t = m_trace_pos + 1, NEW h, h = m_result
             PROVE  /\ c \in Seq(Hop) /\ m_costs' \in Nat
                    /\ LeadsTo(c, t)' /\ m_costs' = CostsOf(c, DOMAIN c)
  <2>1. m_trace_pos' = m_trace_pos + 1
    BY Zenon, TraceGrows, PositionsFollow DEF TypeOK
  <2>2. ASSUME NEW c, c = m_result', NEW t, t = m_trace_pos', LeadsTo(c, t)'
        PROVE  LeadsTo(m_result, m_trace_pos)'
    BY <2>2 DEF LeadsTo, StopsNext
  <2> QED
    BY Zenon, <2>1, <2>2 DEF CostsAgree
<1>1. /\ trace \in Seq(Instructions) /\ trace' = Append(trace, events)
      /\ h \in Seq(Hop) /\ LeadsTo(h, m_trace_pos)
  BY Zenon, <1>0, PositionsFollow DEF TypeOK
<1>2. t <= MaxTrace /\ t = m_trace_pos + 1
  BY <1>0, <1>1, HopsAssumption DEF m_trace_pos
<1>3. events \in Seq(Events) /\ events # <<>>
  BY Zenon, HopsAssumption
<1> DEFINE unknown == {k \in DOMAIN events : m_last_positions[events[k]] = 0}
           best == BestEvent(events)
           kept == Kept(m_last_positions[best])
           chain == Append(SubSeq(m_result, 1, kept), [event |-> best, pos |-> t])
<1>4. CASE unknown # {}
  <2> DEFINE e == events[Min(unknown)]
  <2>1. Min(unknown) \in unknown
    <3>1. unknown \in SUBSET (1..Len(events)) /\ Len(events) \in Nat
      BY <1>3
    <3> QED
      BY Zenon, <1>4, <3>1, MinMax
  <2>2. e \in Range(events) /\ m_last_positions[e] = 0
    BY Zenon, <2>1 DEF Range
  <2>3. e \in Events
    BY Zenon, <2>2 DEF Events
  <2>4. c = <<[event |-> e, pos |-> t]>> /\ m_costs' = COST_CHANGE
    BY Zenon, <1>0, <1>4 DEF FollowingHop
  <2> HIDE DEF e
  <2>5. FirstStops(e) = {}
    <3>1. \A p \in DOMAIN trace : ~(p <= 0)
      BY <1>1
    <3> QED
      BY Zenon, <2>2, <2>3, <3>1 DEF FirstStops, PositionsInv
  <2>6. c \in Seq(Hop) /\ LeadsTo(c, t)' /\ Len(c) = 1
    BY Zenon, <1>1, <1>2, <2>2, <2>4, <2>5, NewChain
  <2>7. DOMAIN c = {1} /\ HopCost(c, 1) = 1
    BY <2>6 DEF HopCost, COST_CHANGE
  <2>8. m_costs' = 1 /\ CostsOf(c, DOMAIN c) = 1
    BY Zenon, <2>4, <2>7, CostsOfOne DEF COST_CHANGE
  <2> QED
    BY <2>6, <2>8
<1>5. CASE unknown = {}
  <2>1. c = chain /\ m_costs' = m_costs - Refund(kept) + HopCost(chain, kept + 1)
    BY Zenon, <1>0, <1>5 DEF FollowingHop
  <2>2. best \in Range(events) /\ best \in Events
    BY Zenon, BestEventIs DEF TypeOK, Events
  <2>3. m_last_positions[best] > 0
    <3>1. m_last_positions[best] # 0
      BY Zenon, <1>5, <2>2 DEF Range
    <3>2. m_last_positions[best] \in 0..m_trace_pos
      BY Zenon, <2>2 DEF PositionsInv
    <3> HIDE DEF best
    <3> QED
      BY <3>1, <3>2
  <2>4. kept \in 1..Len(h) /\ NextStops(h[kept], best) = {}
    BY Zenon, <1>0, <2>3, BestDoesNotOccur
  <2> HIDE DEF best, kept
  <2>5. c \in Seq(Hop) /\ LeadsTo(c, t)' /\ Len(c) = kept + 1 /\ \A k \in 1..kept : c[k] = h[k]
    <3> DEFINE x == [event |-> best, pos |-> t]
    <3>1. c = Append(SubSeq(h, 1, kept), x)
      BY Zenon, <1>0, <2>1
    <3>2. LeadsTo(c, t)'
      BY Zenon, <1>1, <1>2, <2>2, <2>4, <3>1, ExtendChain
    <3>3. x \in Hop
      <4>1. t \in 1..MaxTrace
        BY <1>1, <1>2, HopsAssumption DEF m_trace_pos
      <4> QED
        BY Zenon, <2>2, <4>1 DEF Hop
    <3> HIDE DEF x
    <3>4. Prolongs(c, h, kept, x)
      BY Zenon, <1>1, <2>4, <3>1, <3>3, PruneAndAppend
    <3> QED
      BY Zenon, <1>1, <2>4, <3>1, <3>2, <3>4 DEF Prolongs
  <2>6. DOMAIN c = 1..(kept + 1) /\ DOMAIN h = 1..Len(h)
    BY <1>1, <2>5
  <2>7. /\ CostsOf(c, 1..(kept + 1)) \in Nat
        /\ CostsOf(c, 1..(kept + 1)) =
             CostsOf(h, 1..Len(h)) - CostsOf(h, (kept + 1)..Len(h)) + HopCost(c, kept + 1)
    BY Zenon, <1>1, <2>4, <2>5, CostsFollow
  <2>8. m_costs = CostsOf(h, 1..Len(h)) /\ Refund(kept) = CostsOf(h, (kept + 1)..Len(h))
    BY Zenon, <1>0, <2>6 DEF CostsAgree, Refund
  <2> QED
    BY Zenon, <2>1, <2>5, <2>6, <2>7, <2>8
<1> QED
  BY Zenon, <1>4, <1>5
-----------------------------------------------------------------------------
(***************************************************************************)
(* InjectionPointHops::parseFromInjectionInstr                             *)
(***************************************************************************)

\* A chain leads to the same target while the trace stays as it is.
LEMMA LeadsToStays ==
  ASSUME UNCHANGED trace, NEW h, NEW t, LeadsTo(h, t)
  PROVE  LeadsTo(h, t)'
<1>1. \A e : FirstStops(e)' = FirstStops(e)
  BY Zenon DEF FirstStops
<1>2. \A hop, e : NextStops(hop, e)' = NextStops(hop, e)
  BY Zenon, <1>1 DEF NextStops
<1>3. \A k : StopsNext(h, k) => StopsNext(h, k)'
  BY Zenon, <1>1, <1>2 DEF StopsNext
<1> QED
  BY Zenon, <1>3 DEF LeadsTo

\* The chain of a result that was stored leads to its target.
PointLeads(x) == LeadsTo(x.hops, x.target)

\* A step that stores chains that lead to their targets keeps ChainsLeadToTarget.
LEMMA ChainsStay ==
  ASSUME ChainsLeadToTarget, TypeOK, LeadsTo(m_result, m_trace_pos)',
         \A h \in Seq(Hop) : \A t : LeadsTo(h, t) => LeadsTo(h, t)',
         \A k \in DOMAIN m_results' : \/ \E j \in DOMAIN m_results : m_results'[k] = m_results[j]
                                      \/ m_results'[k] = Message(m_result, m_costs),
         m_ip' = m_ip \/ \E j \in DOMAIN m_results : m_ip' = m_results[j]
  PROVE  ChainsLeadToTarget'
<1>1. \A x \in Point : PointLeads(x) => PointLeads(x)'
  <2>1. \A x \in Point : x.hops \in Seq(Hop)
    BY DEF Point
  <2> QED
    BY Zenon, <2>1 DEF PointLeads
<1>2. \A j \in DOMAIN m_results : m_results[j] \in Point
  BY DEF TypeOK
<1>3. \A x : (\E j \in DOMAIN m_results : x = m_results[j]) => PointLeads(x)'
  <2>1. \A j \in DOMAIN m_results : PointLeads(m_results[j])
    BY Zenon DEF ChainsLeadToTarget, PointLeads
  <2> QED
    BY Zenon, <1>1, <1>2, <2>1
<1>4. \A x : x = Message(m_result, m_costs) => PointLeads(x)'
  <2> SUFFICES ASSUME NEW x, x = Message(m_result, m_costs)
               PROVE  PointLeads(x)'
    BY Zenon
  <2>1. x.hops = m_result /\ x.target = m_trace_pos
    BY Zenon DEF Message, ChainsLeadToTarget, LeadsTo
  <2>2. LeadsTo(x.hops, x.target)
    BY Zenon, <2>1 DEF ChainsLeadToTarget
  <2>3. x.hops \in Seq(Hop)
    BY Zenon, <2>1 DEF TypeOK
  <2> QED
    BY Zenon, <2>2, <2>3 DEF PointLeads
<1>5. \A k \in DOMAIN m_results' : \A x : x = m_results'[k] => PointLeads(x)'
  BY Zenon, <1>3, <1>4
<1>6. ASSUME m_ip' # NoPoint
      PROVE  \A x : x = m_ip' => PointLeads(x)'
  <2>1. CASE m_ip' = m_ip
    <3>1. m_ip \in Point /\ PointLeads(m_ip)
      BY Zenon, <1>6, <2>1 DEF TypeOK, ChainsLeadToTarget, PointLeads
    <3> QED
      BY Zenon, <1>1, <2>1, <3>1
  <2>2. CASE \E j \in DOMAIN m_results : m_ip' = m_results[j]
    BY Zenon, <1>3, <2>2
  <2> QED
    BY Zenon, <2>1, <2>2
<1>7. ASSUME NEW k \in DOMAIN m_results'
      PROVE  LeadsTo(m_results[k].hops, m_results[k].target)'
  <2>1. PICK x : x = m_results'[k]
    BY Zenon
  <2>2. PointLeads(x)'
    BY Zenon, <1>5, <2>1
  <2> QED
    BY <2>1, <2>2 DEF PointLeads, LeadsTo, StopsNext
<1>8. ASSUME m_ip' # NoPoint
      PROVE  LeadsTo(m_ip.hops, m_ip.target)'
  <2>1. PICK x : x = m_ip'
    BY Zenon
  <2>2. PointLeads(x)'
    BY Zenon, <1>6, <1>8, <2>1
  <2> QED
    BY <2>1, <2>2 DEF PointLeads, LeadsTo, StopsNext
<1>9. NoPoint' = NoPoint
  BY Zenon DEF NoPoint
<1> QED
  BY Zenon, <1>7, <1>8, <1>9 DEF ChainsLeadToTarget

\* Nothing read and nothing calculated satisfies the invariant.
LEMMA InitInv == Init => Inv
<1> SUFFICES ASSUME Init PROVE Inv
  BY Zenon
<1> USE DEF Init
<1>1. DOMAIN <<>> = {} /\ Len(<<>>) = 0
  OBVIOUS
<1>2. TypeOK
  <2>1. NoPoint \in Point
    BY HopsAssumption DEF NoPoint, Point
  <2>2. /\ trace \in Seq(Instructions) /\ Len(trace) <= MaxTrace
        /\ m_last_positions \in [Events -> 0..MaxTrace]
        /\ m_result \in Seq(Hop) /\ m_costs \in Nat /\ m_results \in Seq(Point)
        /\ m_curr_instr1 \in -1..MaxTrace /\ m_curr_instr2 \in -1..MaxTrace
        /\ instr1 \in 0..MaxTrace /\ instr2 \in 0..MaxTrace
    BY HopsAssumption
  <2> QED
    BY Zenon, <2>1, <2>2 DEF TypeOK
<1>3. PositionsInv
  BY <1>1 DEF PositionsInv, m_trace_pos
<1>4. ChainsLeadToTarget
  <2>1. m_trace_pos = 0 /\ DOMAIN m_results = {} /\ m_ip = NoPoint /\ m_result = <<>>
    BY Zenon, <1>1 DEF m_trace_pos
  <2>2. LeadsTo(m_result, m_trace_pos)
    BY <1>1, <2>1 DEF LeadsTo
  <2> QED
    BY Zenon, <2>1, <2>2 DEF ChainsLeadToTarget
<1>5. CostsAgree
  <2>1. \A c : {k \in {} : HopCost(m_result, k) = c} = {}
    BY Zenon
  <2>2. CostsOf(m_result, {}) = 1 * Cardinality({}) + 2 * Cardinality({})
    BY Zenon, <2>1 DEF CostsOf, COST_CHANGE, COST_NO_CHANGE
  <2>3. CostsOf(m_result, {}) = 0
    BY <2>2, FS_EmptySet
  <2> QED
    BY Zenon, <1>1, <2>3 DEF CostsAgree
<1>6. ResultsInv
  BY <1>1 DEF ResultsInv
<1> QED
  BY Zenon, <1>2, <1>3, <1>4, <1>5, <1>6 DEF Inv
\* calculateFollowingHop reads one more instruction.
LEMMA ReadTraceInv ==
  ASSUME Inv, ReadTrace
  PROVE  Inv'
<1> USE DEF Inv
<1>1. PICK events \in Instructions : FollowingHop(events)
  BY Zenon DEF ReadTrace
<1>2. UNCHANGED <<m_results, m_curr_instr1, m_curr_instr2, m_ip, pc, instr1, instr2>>
  BY Zenon DEF ReadTrace
<1>3. m_trace_pos < MaxTrace
  BY HopsAssumption DEF ReadTrace, NextOffset, TypeOK, m_trace_pos
<1>4. LeadsTo(m_result, m_trace_pos)
  BY Zenon DEF ChainsLeadToTarget
<1>5. /\ trace \in Seq(Instructions) /\ trace' = Append(trace, events)
      /\ trace' \in Seq(Instructions) /\ Len(trace') <= MaxTrace
      /\ m_last_positions' \in [Events -> 0..MaxTrace] /\ PositionsInv'
  BY Zenon, <1>1, <1>3, PositionsFollow DEF TypeOK
<1>6. /\ m_result' \in Seq(Hop) /\ m_costs' \in Nat
      /\ LeadsTo(m_result, m_trace_pos)' /\ CostsAgree'
  BY Zenon, <1>1, <1>3, <1>4, ChainFollows
<1>7. TypeOK'
  BY Zenon, <1>2, <1>5, <1>6 DEF TypeOK
<1>8. ChainsLeadToTarget'
  <2>1. \A h \in Seq(Hop) : \A t : LeadsTo(h, t) => LeadsTo(h, t)'
    BY Zenon, <1>5, LeadsToGrows
  <2>2. \A k \in DOMAIN m_results' : \E j \in DOMAIN m_results : m_results'[k] = m_results[j]
    BY Zenon, <1>2
  <2> QED
    BY Zenon, <1>2, <1>6, <2>1, <2>2, ChainsStay
<1>9. ResultsInv'
  BY Zenon, <1>2 DEF ResultsInv, Expected
<1> QED
  BY Zenon, <1>5, <1>6, <1>7, <1>8, <1>9

\* The calculator's variables stay as they are.
LEMMA CalculatorStays ==
  ASSUME Inv, UNCHANGED calcvars
  PROVE  /\ PositionsInv' /\ CostsAgree' /\ LeadsTo(m_result, m_trace_pos)'
         /\ \A h \in Seq(Hop) : \A t : LeadsTo(h, t) => LeadsTo(h, t)'
<1>1. UNCHANGED <<trace, m_last_positions, m_result, m_costs>>
  BY Zenon DEF calcvars
<1>2. PositionsInv' /\ CostsAgree'
  BY Zenon, <1>1 DEF Inv, PositionsInv, CostsAgree, m_trace_pos
<1>3. \A h, t : LeadsTo(h, t) => LeadsTo(h, t)'
  BY Zenon, <1>1, LeadsToStays
<1>4. LeadsTo(m_result, m_trace_pos)'
  <2>1. PICK h, t : h = m_result /\ t = m_trace_pos
    BY Zenon
  <2>2. LeadsTo(h, t)'
    BY Zenon, <1>3, <2>1 DEF Inv, ChainsLeadToTarget
  <2>3. h = m_result' /\ t = m_trace_pos'
    BY Zenon, <1>1, <2>1 DEF m_trace_pos
  <2> QED
    BY <2>2, <2>3 DEF LeadsTo, StopsNext
<1> QED
  BY Zenon, <1>2, <1>3, <1>4

\* The chain is stored: it belongs to the instruction after the last one, or to
\* the beginning of the class when there is a gap.
LEMMA AddResultInv ==
  ASSUME Inv, AddResult
  PROVE  Inv'
<1> USE DEF Inv
<1> DEFINE m == Message(m_result, m_costs)
           n == Len(m_results)
<1>1. /\ pc = "calculate" /\ instr2 > m_curr_instr2 /\ m_trace_pos = NextOffset
      /\ m_curr_instr1' = IF instr1 > m_curr_instr2 THEN instr1 ELSE m_curr_instr1
      /\ m_results' = Append(m_results, m) /\ m_curr_instr2' = NextOffset
      /\ UNCHANGED calcvars /\ UNCHANGED <<m_ip, pc, instr1, instr2>>
  BY Zenon DEF AddResult
<1>2. /\ PositionsInv' /\ CostsAgree' /\ LeadsTo(m_result, m_trace_pos)'
      /\ \A h \in Seq(Hop) : \A t : LeadsTo(h, t) => LeadsTo(h, t)'
  BY Zenon, <1>1, CalculatorStays
<1>3. /\ instr1 \in 0..MaxTrace /\ instr2 \in 0..MaxTrace /\ MaxTrace \in Nat
      /\ m_curr_instr1 \in -1..MaxTrace /\ m_curr_instr2 \in -1..MaxTrace
      /\ m_results \in Seq(Point)
  BY Zenon, HopsAssumption DEF TypeOK
<1>4. /\ m_curr_instr1' \in -1..MaxTrace /\ m_curr_instr2' \in 0..MaxTrace
      /\ m_curr_instr2' = IF instr1 > m_curr_instr2 THEN instr1 ELSE m_curr_instr2 + 1
  BY <1>1, <1>3 DEF NextOffset
<1>5. m.target = NextOffset
  BY Zenon, <1>1 DEF Message, ChainsLeadToTarget, LeadsTo
<1>6. m \in Point
  <2>1. NextOffset \in -1..MaxTrace
    BY <1>1, <1>4
  <2> QED
    BY Zenon, <1>5, <2>1 DEF Message, Point, TypeOK
<1> HIDE DEF m
<1>7. /\ m_results' \in Seq(Point) /\ m_results' # <<>> /\ n \in Nat
      /\ Len(m_results') = n + 1 /\ DOMAIN m_results' = 1..(n + 1) /\ DOMAIN m_results = 1..n
      /\ m_results'[n + 1] = m /\ \A k \in 1..n : m_results'[k] = m_results[k]
      /\ m_results = <<>> <=> n = 0
  BY <1>1, <1>3, <1>6, AppendIs
<1>8. TypeOK'
  <2>1. m_curr_instr2' \in -1..MaxTrace
    BY <1>3, <1>4
  <2> QED
    BY Zenon, <1>1, <1>4, <1>7, <2>1 DEF TypeOK, calcvars
<1>9. ChainsLeadToTarget'
  <2>1. \A k \in DOMAIN m_results' : \/ \E j \in DOMAIN m_results : m_results'[k] = m_results[j]
                                     \/ m_results'[k] = m
    <3>1. \A k \in 1..(n + 1) : k \in 1..n \/ k = n + 1
      BY <1>7
    <3> QED
      BY Zenon, <1>7, <3>1
  <2> QED
    BY Zenon, <1>1, <1>2, <2>1, ChainsStay DEF m
<1>10. ResultsInv'
  <2>1. \A k \in 1..n : m_results[k].target \in Int
    <3>1. \A k \in 1..n : m_results[k] \in Point
      BY <1>3, <1>7
    <3> QED
      BY <1>3, <3>1 DEF Point
  <2>2. m_results'[n + 1].target = m_curr_instr2'
    BY Zenon, <1>1, <1>5, <1>7
  <2>3. \A k \in 1..n : m_results'[k].target = m_results[k].target
    BY Zenon, <1>7
  <2>4. \A k : Expected(k) = m_curr_instr2 - (n - k)
    BY Zenon DEF Expected
  <2> HIDE DEF n
  <2>5. \A k : Expected(k)' = m_curr_instr2' - ((n + 1) - k)
    BY Zenon, <1>7 DEF Expected
  <2>6. /\ pc' = "calculate" /\ instr1' <= instr2' /\ instr1' <= m_curr_instr2'
        /\ m_curr_instr1' <= instr1' /\ m_results' # <<>>
    BY <1>1, <1>3, <1>4, <1>7 DEF ResultsInv
  <2>7. CASE n = 0
    <3>1. Expected(1)' = m_curr_instr2' /\ m_results'[1].target = m_curr_instr2'
      BY <1>4, <2>2, <2>5, <2>7
    <3>2. m_curr_instr2' = instr1 /\ m_curr_instr1' = instr1
      BY <1>1, <1>3, <1>4, <1>7, <2>7 DEF ResultsInv
    <3>3. \A k \in 2..Len(m_results') : FALSE
      BY <1>7, <2>7
    <3>4. Expected(1)' <= m_curr_instr1' /\ m_results'[1].target <= Expected(1)'
      BY <1>3, <3>1, <3>2
    <3>5. ~(instr1' > m_curr_instr2')
      BY <1>1, <1>3, <1>4, <2>6
    <3> QED
      BY Zenon, <2>6, <3>1, <3>3, <3>4, <3>5 DEF ResultsInv
  <2>8. CASE n # 0
    <3>1. /\ Expected(1) <= m_curr_instr1 /\ m_results[1].target <= Expected(1)
          /\ m_results[1].target = Expected(1) \/ Expected(1) < instr1
          /\ \A k \in 2..n : m_results[k].target = Expected(k)
          /\ instr1 > m_curr_instr2 => n <= 1
          /\ m_curr_instr1 <= instr1
      BY Zenon, <1>7, <2>8 DEF ResultsInv, n
    <3>2. 1 \in 1..n /\ n \in Nat \ {0}
      BY <1>7, <2>8
    <3>3. \A k \in 2..(n + 1) : m_results'[k].target = m_curr_instr2' - ((n + 1) - k)
      <4>1. CASE n = 1
        BY <1>4, <2>2, <4>1
      <4>2. CASE n # 1
        <5>1. m_curr_instr2' = m_curr_instr2 + 1
          BY <1>3, <1>4, <3>1, <3>2, <4>2
        <5>2. \A k \in 2..n : m_results'[k].target = m_curr_instr2 - (n - k)
          BY <2>3, <2>4, <3>1
        <5> QED
          BY <1>3, <2>2, <3>2, <5>1, <5>2
      <4> QED
        BY Zenon, <4>1, <4>2
    <3>4. /\ m_curr_instr2' - n <= m_curr_instr1' /\ m_results'[1].target <= m_curr_instr2' - n
          /\ m_results'[1].target = m_curr_instr2' - n \/ m_curr_instr2' - n < instr1'
      <4>1. /\ m_results[1].target \in Int /\ m_results'[1].target = m_results[1].target
            /\ Expected(1) = m_curr_instr2 - (n - 1)
        BY Zenon, <2>1, <2>3, <2>4, <3>2
      <4>2. CASE instr1 > m_curr_instr2
        BY <1>1, <1>3, <1>4, <3>1, <3>2, <4>1, <4>2
      <4>3. CASE ~(instr1 > m_curr_instr2)
        BY <1>1, <1>3, <1>4, <3>1, <3>2, <4>1, <4>3
      <4> QED
        BY Zenon, <4>2, <4>3
    <3>5. Expected(1)' = m_curr_instr2' - n
      BY <1>4, <2>5, <3>2
    <3>6. ~(instr1' > m_curr_instr2')
      BY <1>1, <1>3, <1>4, <2>6
    <3> QED
      BY Zenon, <1>7, <2>5, <2>6, <3>3, <3>4, <3>5, <3>6 DEF ResultsInv
  <2> QED
    BY Zenon, <2>7, <2>8
<1> QED
  BY Zenon, <1>2, <1>8, <1>9, <1>10
\* Results before the class are deleted, except for the last of them.
LEMMA ParseInv ==
  ASSUME Inv, ParseFromInjectionInstr
  PROVE  Inv'
<1> USE DEF Inv
<1>1. PICK i1 \in instr1..MaxTrace : \E i2 \in i1..MaxTrace :
        /\ instr1' = i1 /\ instr2' = i2 /\ m_results' = EraseOlder(i1)
        /\ m_curr_instr1' = IF \E k \in DOMAIN m_results : m_results[k].target < i1
                              THEN i1 ELSE m_curr_instr1
  BY Zenon DEF ParseFromInjectionInstr
<1>2. UNCHANGED calcvars /\ UNCHANGED <<m_curr_instr2, m_ip>> /\ pc' = "calculate"
  BY Zenon DEF ParseFromInjectionInstr
<1> DEFINE n == Len(m_results)
           older == {k \in DOMAIN m_results : m_results[k].target < i1}
           M == Max(older)
<1>3. /\ instr1 \in 0..MaxTrace /\ MaxTrace \in Nat /\ i1 \in 0..MaxTrace /\ instr1 <= i1
      /\ m_curr_instr1 \in -1..MaxTrace /\ m_curr_instr2 \in -1..MaxTrace
      /\ m_results \in Seq(Point) /\ n \in Nat /\ DOMAIN m_results = 1..n
      /\ m_results = <<>> <=> n = 0
  BY HopsAssumption DEF TypeOK
<1>4. instr1' = i1 /\ instr2' \in 0..MaxTrace /\ instr1' <= instr2'
  BY <1>1, <1>3
<1>5. \A k \in 1..n : m_results[k] \in Point /\ m_results[k].target \in Int
  <2>1. \A k \in 1..n : m_results[k] \in Point
    BY <1>3
  <2> QED
    BY <1>3, <2>1 DEF Point
<1>6. /\ PositionsInv' /\ CostsAgree' /\ LeadsTo(m_result, m_trace_pos)'
      /\ \A h \in Seq(Hop) : \A t : LeadsTo(h, t) => LeadsTo(h, t)'
  BY Zenon, <1>2, CalculatorStays
<1>7. /\ m_curr_instr1 <= instr1
      /\ n # 0 => /\ m_curr_instr2 - (n - 1) <= m_curr_instr1
                  /\ m_results[1].target <= m_curr_instr2 - (n - 1)
                  /\ m_results[1].target = m_curr_instr2 - (n - 1) \/ m_curr_instr2 - (n - 1) < instr1
      /\ n = 0 => m_curr_instr1 = -1 /\ m_curr_instr2 = -1
      /\ \A k \in 2..n : m_results[k].target = m_curr_instr2 - (n - k)
  BY Zenon, <1>3 DEF ResultsInv, Expected
<1>8. SUFFICES /\ m_results' \in Seq(Point) /\ m_curr_instr1' \in -1..MaxTrace /\ ResultsInv'
               /\ \A k \in DOMAIN m_results' : \E j \in DOMAIN m_results : m_results'[k] = m_results[j]
  <2>1. instr1' \in 0..MaxTrace
    BY Zenon, <1>3, <1>4
  <2>2. TypeOK'
    BY Zenon, <1>2, <1>4, <1>8, <2>1 DEF TypeOK, calcvars
  <2>3. ChainsLeadToTarget'
    BY Zenon, <1>2, <1>6, <1>8, ChainsStay
  <2> QED
    BY Zenon, <1>6, <1>8, <2>2, <2>3
<1>9. CASE older = {}
  <2>1. UNCHANGED <<m_results, m_curr_instr1>>
    BY Zenon, <1>1, <1>9 DEF EraseOlder
  <2>2. \A k \in 1..n : m_results[k].target >= i1
    BY <1>3, <1>5, <1>9
  <2>3. instr1' > m_curr_instr2' => n <= 1
    BY <1>2, <1>3, <1>4, <1>7, <2>2
  <2>4. m_curr_instr1' <= instr1'
    BY <1>3, <1>4, <1>7, <2>1
  <2>5. m_curr_instr2 - (n - 1) < instr1 => m_curr_instr2 - (n - 1) < instr1'
    BY <1>3, <1>4
  <2>6. ResultsInv'
    BY Zenon, <1>2, <1>3, <1>4, <1>7, <2>1, <2>3, <2>4, <2>5 DEF ResultsInv, Expected
  <2> QED
    BY Zenon, <1>3, <2>1, <2>6 DEF TypeOK
<1>10. CASE older # {}
  <2>1. m_results' = SubSeq(m_results, M, n) /\ m_curr_instr1' = i1
    BY Zenon, <1>1, <1>10 DEF EraseOlder
  <2>2. M \in older /\ \A y \in older : y <= M
    <3>1. older \in SUBSET (1..n)
      BY Zenon, <1>3
    <3> QED
      BY Zenon, <1>3, <1>10, <3>1, MinMax
  <2>3. M \in 1..n /\ m_results[M].target < i1
    BY Zenon, <1>3, <2>2
  <2> HIDE DEF M
  <2>4. n \in older => n = M
    BY <1>3, <2>2, <2>3
  <2> HIDE DEF older
  <2>5. /\ m_results' \in Seq(Point) /\ Len(m_results') = n - M + 1 /\ DOMAIN m_results' = 1..(n - M + 1)
        /\ \A k \in 1..(n - M + 1) : m_results'[k] = m_results[M + k - 1]
    BY <1>3, <2>1, <2>3
  <2>6. \A k \in 1..(n - M + 1) : M + k - 1 \in 1..n
    BY <1>3, <2>3
  <2>7. n - M + 1 \in Nat \ {0} /\ m_results' # <<>> /\ 1 \in 1..(n - M + 1) /\ M + 1 - 1 = M
    BY <1>3, <2>3, <2>5
  <2>8. \A k \in 2..(n - M + 1) : m_results'[k].target = m_curr_instr2 - ((n - M + 1) - k)
    <3>1. \A k \in 2..(n - M + 1) : /\ k \in 1..(n - M + 1) /\ M + k - 1 \in 2..n
                                    /\ n - (M + k - 1) = (n - M + 1) - k
      BY <1>3, <2>3
    <3> QED
      BY Zenon, <1>7, <2>5, <3>1
  <2>9. i1 > m_curr_instr2 => n - M + 1 <= 1
    <3>1. CASE n = 1
      BY <2>3, <3>1
    <3>2. CASE n # 1
      <4>1. n \in 2..n /\ m_curr_instr2 - (n - n) = m_curr_instr2
        BY <1>3, <2>3, <3>2
      <4>2. n \in 1..n /\ m_results[n].target = m_curr_instr2
        BY <1>3, <1>7, <4>1
      <4>3. i1 > m_curr_instr2 => n \in older
        BY <1>3, <4>2 DEF older
      <4> QED
        BY <1>3, <2>3, <2>4, <4>3
    <3> QED
      BY Zenon, <3>1, <3>2
  <2>10. m_results'[1] = m_results[M]
    BY Zenon, <2>5, <2>7
  <2>11. /\ m_curr_instr2 - ((n - M + 1) - 1) <= i1
         /\ m_results'[1].target <= m_curr_instr2 - ((n - M + 1) - 1)
         /\ \/ m_results'[1].target = m_curr_instr2 - ((n - M + 1) - 1)
            \/ m_curr_instr2 - ((n - M + 1) - 1) < i1
    <3>1. m_results[M].target \in Int
      BY Zenon, <1>5, <2>3
    <3>2. CASE M = 1
      BY <1>3, <1>7, <2>3, <2>10, <3>1, <3>2
    <3>3. CASE M # 1
      <4>1. M \in 2..n
        BY <1>3, <2>3, <3>3
      <4>2. m_results[M].target = m_curr_instr2 - (n - M)
        BY Zenon, <1>7, <4>1
      <4> QED
        BY <1>3, <2>3, <2>10, <4>1, <4>2
    <3> QED
      BY Zenon, <3>2, <3>3
  <2>12. i1 \in -1..MaxTrace /\ i1 <= i1
    BY <1>3
  <2>13. ResultsInv'
    BY Zenon, <1>2, <1>4, <2>1, <2>5, <2>7, <2>8, <2>9, <2>11, <2>12 DEF ResultsInv, Expected
  <2>14. \A k \in DOMAIN m_results' : \E j \in DOMAIN m_results : m_results'[k] = m_results[j]
    BY Zenon, <1>3, <2>5, <2>6
  <2> QED
    BY Zenon, <2>1, <2>5, <2>12, <2>13, <2>14
<1> QED
  BY Zenon, <1>9, <1>10
\* The search stays within the vector.
LEMMA ChooseMinimumInv ==
  ASSUME Inv, ChooseMinimum
  PROVE  Inv'
<1> USE DEF Inv
<1> DEFINE n == Len(m_results)
           first == instr1 - m_curr_instr1 + 1
           last == IF instr1 = instr2 THEN first ELSE instr2 - m_curr_instr1
           IsLeast(k) == \A j \in first..last : \/ m_results[k].costs < m_results[j].costs
                                                \/ m_results[k].costs = m_results[j].costs /\ k <= j
           best == CHOOSE k \in first..last : IsLeast(k)
<1>1. /\ pc = "calculate" /\ instr2 <= m_curr_instr2 /\ pc' = "idle" /\ m_ip' = m_results[best]
      /\ UNCHANGED calcvars /\ UNCHANGED <<m_results, m_curr_instr1, m_curr_instr2, instr1, instr2>>
  BY Zenon DEF ChooseMinimum
<1>2. /\ instr1 \in 0..MaxTrace /\ instr2 \in 0..MaxTrace /\ MaxTrace \in Nat
      /\ m_curr_instr1 \in -1..MaxTrace /\ m_curr_instr2 \in -1..MaxTrace
      /\ m_results \in Seq(Point) /\ n \in Nat /\ DOMAIN m_results = 1..n
      /\ m_results = <<>> <=> n = 0
  BY HopsAssumption DEF TypeOK
<1>3. /\ instr1 <= instr2 /\ m_curr_instr1 <= instr1
      /\ n # 0 => m_curr_instr2 - (n - 1) <= m_curr_instr1
      /\ n = 0 => m_curr_instr2 = -1
  BY Zenon, <1>1, <1>2 DEF ResultsInv, Expected
<1>4. /\ first \in Int /\ last \in Int /\ first >= 1 /\ first <= last /\ last <= n
  BY <1>1, <1>2, <1>3
<1>5. first \in first..last /\ \A k \in first..last : k \in 1..n
  BY <1>2, <1>4
<1>6. \A k \in 1..n : m_results[k] \in Point /\ m_results[k].costs \in Nat
  <2>1. \A k \in 1..n : m_results[k] \in Point
    BY <1>2
  <2> QED
    BY <2>1 DEF Point
<1>7. \E k \in first..last : IsLeast(k)
  <2> DEFINE D == first..last
             f == [k \in D |-> m_results[k].costs]
  <2>1. D = first..last /\ D # {} /\ f \in [D -> Nat]
    BY Zenon, <1>5, <1>6
  <2>2. \A k \in D : f[k] = m_results[k].costs
    BY Zenon
  <2> HIDE DEF D, f, first, last
  <2>3. \E k \in D : \A j \in D : f[k] < f[j] \/ (f[k] = f[j] /\ k <= j)
    BY <1>4, <2>1, FirstLeast
  <2>4. PICK k \in D : \A j \in D : f[k] < f[j] \/ (f[k] = f[j] /\ k <= j)
    BY Zenon, <2>3
  <2>5. \A j \in D : \/ m_results[k].costs < m_results[j].costs
                     \/ m_results[k].costs = m_results[j].costs /\ k <= j
    BY Zenon, <2>2, <2>4
  <2> QED
    BY Zenon, <2>1, <2>5
<1>8. best \in first..last
  BY Zenon, <1>7
<1> HIDE DEF best, first, last
<1>9. best \in DOMAIN m_results /\ m_results[best] \in Point
  BY Zenon, <1>2, <1>5, <1>6, <1>8
<1>10. /\ PositionsInv' /\ CostsAgree' /\ LeadsTo(m_result, m_trace_pos)'
       /\ \A h \in Seq(Hop) : \A t : LeadsTo(h, t) => LeadsTo(h, t)'
  BY Zenon, <1>1, CalculatorStays
<1>11. TypeOK'
  BY Zenon, <1>1, <1>9 DEF TypeOK, calcvars
<1>12. ChainsLeadToTarget'
  BY Zenon, <1>1, <1>9, <1>10, ChainsStay
<1>13. ResultsInv'
  <2>1. instr1 <= m_curr_instr2
    BY <1>1, <1>2, <1>3
  <2> QED
    BY Zenon, <1>1, <2>1 DEF ResultsInv, Expected
<1> QED
  BY Zenon, <1>10, <1>11, <1>12, <1>13

-----------------------------------------------------------------------------
\* Every step preserves the invariant.
LEMMA NextInv == Inv /\ [Next]_vars => Inv'
<1> SUFFICES ASSUME Inv, [Next]_vars PROVE Inv'
  BY Zenon
<1>1. CASE UNCHANGED vars
  <2>1. UNCHANGED <<trace, m_last_positions, m_result, m_costs, m_results, m_curr_instr1,
                    m_curr_instr2, m_ip, pc, instr1, instr2>>
    BY Zenon, <1>1 DEF vars, calcvars
  <2>2. UNCHANGED calcvars
    BY Zenon, <2>1 DEF calcvars
  <2>3. /\ PositionsInv' /\ CostsAgree' /\ LeadsTo(m_result, m_trace_pos)'
        /\ \A h \in Seq(Hop) : \A t : LeadsTo(h, t) => LeadsTo(h, t)'
    BY Zenon, <2>2, CalculatorStays
  <2>4. ChainsLeadToTarget'
    BY Zenon, <2>1, <2>3, ChainsStay DEF Inv
  <2>5. TypeOK' /\ ResultsInv'
    BY Zenon, <2>1 DEF Inv, TypeOK, ResultsInv, Expected
  <2> QED
    BY Zenon, <2>3, <2>4, <2>5 DEF Inv
<1>2. CASE Next
  BY Zenon, <1>2, ParseInv, ReadTraceInv, AddResultInv, ChooseMinimumInv DEF Next
<1> QED
  BY Zenon, <1>1, <1>2

\* The inductive invariant holds in every state of InjectionPointHops.
THEOREM HopsInvariant == Spec => []Inv
  BY InitInv, NextInv, PTL DEF Spec

\* Every variable of the calculation keeps its type; in particular the search
\* for the cheapest point stays within the vector of results.
THEOREM HopsTypeCorrect == Spec => []TypeOK
<1>1. Inv => TypeOK
  BY Zenon DEF Inv
<1> QED
  BY <1>1, HopsInvariant, PTL

\* A target that follows a chain of SmartHops ends at the recorded position,
\* for any set of instructions and traces of any length.
THEOREM ChainsLeadToTargetAlways == Spec => []ChainsLeadToTarget
<1>1. Inv => ChainsLeadToTarget
  BY Zenon DEF Inv
<1> QED
  BY <1>1, HopsInvariant, PTL

\* The costs that calculateFollowingHop carries along through extensions and
\* deletions are those of the chain.
THEOREM CostsAgreeAlways == Spec => []CostsAgree
<1>1. Inv => CostsAgree
  BY Zenon DEF Inv
<1> QED
  BY <1>1, HopsInvariant, PTL

\* parseFromInjectionInstr has a chain for every instruction of the class when
\* it chooses the cheapest.
THEOREM ResultsCoverClassAlways == Spec => []ResultsCoverClass
<1>1. Inv => ResultsCoverClass
  <2> SUFFICES ASSUME Inv, pc = "calculate", instr2 <= m_curr_instr2, NEW p \in instr1..instr2
               PROVE  \E k \in DOMAIN m_results : m_results[k].target = p
    BY Zenon DEF ResultsCoverClass
  <2> DEFINE n == Len(m_results)
             k == p - (m_curr_instr2 - n)
  <2>1. /\ instr1 \in 0..MaxTrace /\ instr2 \in 0..MaxTrace /\ MaxTrace \in Nat
        /\ m_curr_instr1 \in -1..MaxTrace /\ m_curr_instr2 \in -1..MaxTrace
        /\ m_results \in Seq(Point) /\ n \in Nat /\ DOMAIN m_results = 1..n
        /\ m_results = <<>> <=> n = 0
    BY HopsAssumption DEF Inv, TypeOK
  <2>2. /\ instr1 <= instr2 /\ m_curr_instr1 <= instr1
        /\ n = 0 => m_curr_instr2 = -1
        /\ n # 0 => /\ m_curr_instr2 - (n - 1) <= m_curr_instr1
                    /\ \/ m_results[1].target = m_curr_instr2 - (n - 1)
                       \/ m_curr_instr2 - (n - 1) < instr1
        /\ \A j \in 2..n : m_results[j].target = m_curr_instr2 - (n - j)
    BY Zenon, <2>1 DEF Inv, ResultsInv, Expected
  <2>3. k \in 1..n /\ p = m_curr_instr2 - (n - k)
    BY <2>1, <2>2
  <2> HIDE DEF k, n
  <2>4. CASE k = 1
    BY <2>1, <2>2, <2>3, <2>4
  <2>5. CASE k # 1
    <3>1. k \in 2..n
      BY <2>1, <2>3, <2>5
    <3> QED
      BY Zenon, <2>1, <2>2, <2>3, <3>1
  <2> QED
    BY Zenon, <2>4, <2>5
<1> QED
  BY <1>1, HopsInvariant, PTL
-----------------------------------------------------------------------------
(***************************************************************************)
(* Traces without memory accesses                                          *)
(***************************************************************************)

\* the trace tr has an execution at every position and nothing else
Plain(tr) == tr \in Seq(Instructions) /\ \A p \in DOMAIN tr : Len(tr[p]) = 1

\* hop k of a chain is where the target stops next, or first, in a plain trace
PlainStop(tr, h, k) ==
  /\ h[k].pos \in DOMAIN tr /\ h[k].event = tr[h[k].pos][1]
  /\ k > 1 => h[k - 1].pos < h[k].pos
  /\ \A p \in DOMAIN tr : tr[p][1] = h[k].event /\ (k > 1 => h[k - 1].pos < p) => h[k].pos <= p

\* h is a chain to position q of the plain trace tr
PlainChain(tr, h, q) ==
  /\ h \in Seq(Hop) /\ h # <<>> /\ h[Len(h)].pos = q
  /\ \A k \in DOMAIN h : PlainStop(tr, h, k)

\* No chain to position q costs less than c.
NoCheaper(tr, q, c) ==
  \A h : PlainChain(tr, h, q) => c <= CostsOf(h, 1..Len(h))

\* Behind hop k - 1 there is no position to which a chain leads that costs less
\* than the first k hops.
Bounded(tr, r) ==
  \A k \in DOMAIN r : \A q \in DOMAIN tr :
    (k > 1 => r[k - 1].pos < q) => NoCheaper(tr, q, CostsOf(r, 1..k))

\* The chain that was calculated for a plain trace is bounded in this way.
GreedyInv == WithoutAccesses => Bounded(trace, m_result)

\* An instruction of a plain trace has its execution and no other event.
LEMMA PlainEvents ==
  ASSUME NEW tr, Plain(tr), NEW p \in DOMAIN tr
  PROVE  /\ tr[p] \in Instructions /\ DOMAIN tr[p] = {1} /\ \A e : e \in Range(tr[p]) <=> e = tr[p][1]
<1>1. tr[p] \in Instructions /\ Len(tr[p]) = 1
  BY DEF Plain
<1>2. tr[p] \in Seq(Events)
  BY Zenon, <1>1, HopsAssumption
<1>3. DOMAIN tr[p] = {1}
  BY <1>1, <1>2
<1> QED
  BY Zenon, <1>1, <1>3 DEF Range

\* In a plain trace the places where a target can stop are those of an
\* instruction, or those behind the last hop.
PlainPlaces(hop, e) ==
  /\ \A p : p \in FirstStops(e) <=> p \in DOMAIN trace /\ trace[p][1] = e
  /\ \A p : p \in NextStops(hop, e) <=> p \in DOMAIN trace /\ trace[p][1] = e /\ p > hop.pos

\* That is where it can stop, for want of other events.
LEMMA PlainStops ==
  ASSUME Plain(trace), NEW e, NEW hop
  PROVE  PlainPlaces(hop, e)
<1>1. \A p : p \in FirstStops(e) <=> p \in DOMAIN trace /\ trace[p][1] = e
  BY Zenon, PlainEvents DEF FirstStops
<1>2. \A p \in DOMAIN trace : \A i, j \in DOMAIN trace[p] : ~(i < j)
  <2> SUFFICES ASSUME NEW p \in DOMAIN trace, NEW i \in DOMAIN trace[p], NEW j \in DOMAIN trace[p]
               PROVE  ~(i < j)
    BY Zenon
  <2>1. i = 1 /\ j = 1
    <3>1. DOMAIN trace[p] = {1}
      BY Zenon, PlainEvents
    <3> QED
      BY Zenon, <3>1
  <2> QED
    BY <2>1
<1> QED
  BY Zenon, <1>1, <1>2 DEF NextStops, PlainPlaces

\* A chain that leads to a position is a chain of the plain trace.
LEMMA PlainLeads ==
  ASSUME Plain(trace), NEW h \in Seq(Hop), h # <<>>, NEW q
  PROVE  LeadsTo(h, q) <=> PlainChain(trace, h, q)
<1>1. q = h[Len(h)].pos <=> q = IF h = <<>> THEN 0 ELSE Last(h).pos
  BY Zenon DEF Last
<1>2. ASSUME NEW k \in DOMAIN h
      PROVE  StopsNext(h, k) <=> PlainStop(trace, h, k)
  <2>0. \A hop, e : PlainPlaces(hop, e)
    BY Zenon, PlainStops
  <2>1. k \in Nat /\ (k # 1 <=> k > 1)
    BY <1>2
  <2>2. CASE k = 1
    <3>1. ~(k > 1)
      BY <2>2
    <3>2. StopsNext(h, k) <=> /\ h[k].pos \in FirstStops(h[k].event)
                              /\ \A p \in FirstStops(h[k].event) : h[k].pos <= p
      BY Zenon, <2>2 DEF StopsNext
    <3>3. \A p : p \in FirstStops(h[k].event) <=> p \in DOMAIN trace /\ trace[p][1] = h[k].event
      BY Zenon, <2>0 DEF PlainPlaces
    <3> QED
      BY Zenon, <3>1, <3>2, <3>3 DEF PlainStop
  <2>3. CASE k > 1
    <3> DEFINE next == NextStops(h[k - 1], h[k].event)
    <3>1. StopsNext(h, k) <=> h[k].pos \in next /\ \A p \in next : h[k].pos <= p
      BY Zenon, <2>1, <2>3 DEF StopsNext
    <3>2. \A p : p \in next <=> p \in DOMAIN trace /\ trace[p][1] = h[k].event /\ p > h[k - 1].pos
      BY Zenon, <2>0 DEF PlainPlaces
    <3>3. DOMAIN trace \subseteq Int /\ h[k - 1].pos \in Int /\ h[k].pos \in Int
      <4>1. k - 1 \in DOMAIN h
        BY <2>1, <2>3
      <4>2. h[k - 1].pos \in Int /\ h[k].pos \in Int
        BY Zenon, <4>1, HopParts
      <4> QED
        BY <4>2 DEF Plain
    <3>4. \A p \in DOMAIN trace : p > h[k - 1].pos <=> h[k - 1].pos < p
      BY <3>3
    <3> HIDE DEF next
    <3> QED
      BY Zenon, <2>3, <3>1, <3>2, <3>4 DEF PlainStop
  <2> QED
    BY Zenon, <2>1, <2>2, <2>3
<1> QED
  BY Zenon, <1>1, <1>2 DEF LeadsTo, PlainChain

\* The positions of a chain grow, so none lies behind the last one.
LEMMA PlainIncreasing ==
  ASSUME NEW tr, NEW h, NEW q, PlainChain(tr, h, q)
  PROVE  /\ Len(h) \in Nat \ {0} /\ DOMAIN h = 1..Len(h) /\ q \in DOMAIN tr
         /\ \A k \in 1..Len(h) : h[k].pos \in Int /\ h[k].pos <= q
<1>1. h \in Seq(Hop) /\ h # <<>> /\ h[Len(h)].pos = q /\ \A k \in DOMAIN h : PlainStop(tr, h, k)
  BY Zenon DEF PlainChain
<1> DEFINE n == Len(h)
           Bad == {k \in 1..n : ~(h[k].pos <= q)}
<1>2. n \in Nat \ {0} /\ DOMAIN h = 1..n /\ n \in DOMAIN h
  BY <1>1
<1>3. \A k \in 1..n : h[k].pos \in Int
  BY Zenon, <1>1, <1>2, HopParts
<1>4. q \in DOMAIN tr
  BY Zenon, <1>1, <1>2 DEF PlainStop
<1>5. ASSUME Bad # {} PROVE FALSE
  <2>1. Bad \in SUBSET (1..n) /\ n \in Nat
    BY Zenon, <1>2
  <2> HIDE DEF n, Bad
  <2>2. PICK k \in Bad : \A y \in Bad : y <= k
    BY Zenon, <1>5, <2>1, MinMax
  <2>3. k \in 1..n /\ ~(h[k].pos <= q)
    BY Zenon, <2>2 DEF Bad
  <2>4. k # n
    <3>1. h[k].pos \in Int
      BY Zenon, <1>3, <2>3
    <3>2. k = n => h[k].pos = q
      BY Zenon, <1>1 DEF n
    <3>3. h[k].pos = q => h[k].pos <= q
      BY <3>1
    <3> QED
      BY Zenon, <2>3, <3>2, <3>3
  <2>5. PICK j : j = k + 1
    BY Zenon
  <2>6. j \in 1..n /\ j > 1 /\ j - 1 = k /\ ~(j <= k)
    BY <1>2, <2>3, <2>4, <2>5
  <2>7. h[j].pos <= q
    BY Zenon, <2>2, <2>6 DEF Bad
  <2>8. h[k].pos < h[j].pos
    BY Zenon, <1>1, <1>2, <2>6 DEF PlainStop
  <2>9. h[k].pos \in Int /\ h[j].pos \in Int /\ q \in Int
    BY Zenon, <1>1, <1>2, <1>3, <2>3, <2>6 DEF n
  <2> QED
    BY <2>3, <2>7, <2>8, <2>9
<1> QED
  BY Zenon, <1>2, <1>3, <1>4, <1>5

\* A chain to a position that was read before is one of the shorter trace.
LEMMA PlainChainBefore ==
  ASSUME NEW tr \in Seq(Instructions), NEW x \in Instructions, NEW tr2, tr2 = Append(tr, x),
         NEW h, NEW q \in DOMAIN tr, PlainChain(tr2, h, q)
  PROVE  PlainChain(tr, h, q)
<1>1. h \in Seq(Hop) /\ h # <<>> /\ h[Len(h)].pos = q /\ \A k \in DOMAIN h : PlainStop(tr2, h, k)
  BY Zenon DEF PlainChain
<1>2. /\ DOMAIN h = 1..Len(h) /\ \A k \in 1..Len(h) : h[k].pos \in Int /\ h[k].pos <= q
  BY Zenon, PlainIncreasing
<1>3. /\ DOMAIN tr \subseteq DOMAIN tr2 /\ \A p \in DOMAIN tr : tr2[p] = tr[p]
      /\ \A p \in DOMAIN tr2 : \A r \in DOMAIN tr : p <= r => p \in DOMAIN tr
  OBVIOUS
<1>4. ASSUME NEW k \in DOMAIN h PROVE PlainStop(tr, h, k)
  <2>1. PlainStop(tr2, h, k) /\ h[k].pos <= q
    BY Zenon, <1>1, <1>2
  <2>2. h[k].pos \in DOMAIN tr
    BY Zenon, <1>3, <2>1 DEF PlainStop
  <2> QED
    BY Zenon, <1>3, <2>1, <2>2 DEF PlainStop
<1> QED
  BY Zenon, <1>1, <1>4 DEF PlainChain

\* The costs of one hop more.
LEMMA CostsStep ==
  ASSUME NEW r, NEW k \in Nat
  PROVE  /\ CostsOf(r, 1..k) \in Nat
         /\ HopCost(r, k + 1) \in {1, 2}
         /\ CostsOf(r, 1..(k + 1)) = CostsOf(r, 1..k) + HopCost(r, k + 1)
<1>1. 1..(k + 1) = (1..k) \cup {k + 1} /\ (1..k) \cap {k + 1} = {}
  OBVIOUS
<1>2. IsFiniteSet(1..k) /\ IsFiniteSet({k + 1})
  <2>1. 1 \in Int /\ k \in Int
    OBVIOUS
  <2> QED
    BY Zenon, <2>1, FS_Interval, FS_Singleton
<1>3. CostsOf(r, {k + 1}) = HopCost(r, k + 1) /\ HopCost(r, k + 1) \in {1, 2}
  BY Zenon, CostsOfOne
<1>4. PICK A, B : A = 1..k /\ B = {k + 1}
  BY Zenon
<1>5. CostsOf(r, A) \in Nat /\ CostsOf(r, A \cup B) = CostsOf(r, A) + CostsOf(r, B)
  BY Zenon, <1>1, <1>2, <1>4, CostsAddUp
<1> QED
  BY Zenon, <1>1, <1>3, <1>4, <1>5

\* More hops cost more.
LEMMA CostsGrow ==
  ASSUME NEW r, NEW j \in Nat, NEW k \in Nat, j <= k
  PROVE  CostsOf(r, 1..j) \in Nat /\ CostsOf(r, 1..k) \in Nat /\ CostsOf(r, 1..j) <= CostsOf(r, 1..k)
<1>1. 1..k = (1..j) \cup ((j + 1)..k) /\ (1..j) \cap ((j + 1)..k) = {}
  OBVIOUS
<1>2. IsFiniteSet(1..j) /\ IsFiniteSet((j + 1)..k)
  BY FS_Interval
<1>3. /\ CostsOf(r, 1..j) \in Nat /\ CostsOf(r, (j + 1)..k) \in Nat
      /\ CostsOf(r, 1..k) = CostsOf(r, 1..j) + CostsOf(r, (j + 1)..k)
  <2>1. PICK A, B : A = 1..j /\ B = (j + 1)..k
    BY Zenon
  <2>2. /\ CostsOf(r, A) \in Nat /\ CostsOf(r, B) \in Nat
        /\ CostsOf(r, A \cup B) = CostsOf(r, A) + CostsOf(r, B)
    BY Zenon, <1>1, <1>2, <2>1, CostsAddUp
  <2> QED
    BY Zenon, <1>1, <2>1, <2>2
<1> QED
  BY <1>3

\* h is a chain to an instruction x behind the trace tr: its hop before is at q,
\* where the chain g leads, and no execution of x lies behind that.
HopBefore(tr, x, h, g, q) ==
  /\ PlainChain(tr, g, q) /\ \A p \in DOMAIN tr : tr[p][1] = x[1] => p <= q
  /\ CostsOf(h, 1..Len(h)) = CostsOf(g, 1..Len(g)) + (IF tr[q][1] = x[1] THEN 2 ELSE 1)

\* What a chain to the instruction x that was just read costs: it has a hop
\* before, no execution of x lies behind that, and it costs one hop more than
\* the chain to that hop.
LEMMA FrontOfChain ==
  ASSUME NEW tr \in Seq(Instructions), NEW x \in Instructions, NEW tr2, tr2 = Append(tr, x),
         NEW n, n = Len(tr), NEW h, PlainChain(tr2, h, n + 1), NEW L \in DOMAIN tr, tr[L][1] = x[1]
  PROVE  \E g : \E q \in DOMAIN tr : HopBefore(tr, x, h, g, q)
<1>1. h \in Seq(Hop) /\ h[Len(h)].pos = n + 1 /\ \A k \in DOMAIN h : PlainStop(tr2, h, k)
  BY Zenon DEF PlainChain
<1>2. Len(h) \in Nat \ {0} /\ DOMAIN h = 1..Len(h)
  BY Zenon, PlainIncreasing
<1>3. /\ n \in Nat /\ DOMAIN tr = 1..n /\ DOMAIN tr2 = 1..(n + 1) /\ tr2[n + 1] = x
      /\ \A p \in 1..n : tr2[p] = tr[p] /\ p \in 1..(n + 1) /\ ~(n + 1 <= p)
  OBVIOUS
<1>4. PICK m : m = Len(h)
  BY Zenon
<1>5. m \in DOMAIN h /\ h[m].pos = n + 1 /\ PlainStop(tr2, h, m) /\ m \in Nat \ {0} /\ DOMAIN h = 1..m
  <2>1. m \in DOMAIN h
    BY <1>2, <1>4
  <2> QED
    BY Zenon, <1>1, <1>2, <1>4, <2>1
<1>6. h[m].event = x[1]
  BY Zenon, <1>3, <1>5 DEF PlainStop
<1>7. m > 1
  <2>1. ASSUME ~(m > 1) PROVE FALSE
    <3>1. tr2[L][1] = h[m].event /\ L \in DOMAIN tr2 /\ ~(n + 1 <= L)
      BY Zenon, <1>3, <1>6
    <3> QED
      BY Zenon, <1>5, <2>1, <3>1 DEF PlainStop
  <2> QED
    BY Zenon, <2>1
<1>8. PICK j : j = m - 1
  BY Zenon
<1>9. j \in Nat \ {0} /\ j \in 1..m /\ j + 1 = m /\ \A k \in 1..j : k \in 1..m /\ (k > 1 => k - 1 \in 1..j)
  BY <1>5, <1>7, <1>8
<1>10. PICK g : g \in Seq(Hop) /\ Len(g) = j /\ DOMAIN g = 1..j /\ g # <<>> /\ \A k \in 1..j : g[k] = h[k]
  <2>1. /\ SubSeq(h, 1, j) \in Seq(Hop) /\ Len(SubSeq(h, 1, j)) = j /\ DOMAIN SubSeq(h, 1, j) = 1..j
        /\ SubSeq(h, 1, j) # <<>> /\ \A k \in 1..j : SubSeq(h, 1, j)[k] = h[k]
    BY <1>1, <1>4, <1>9
  <2> QED
    BY Zenon, <2>1
<1>11. PICK q : q = h[j].pos
  BY Zenon
<1>12. q < n + 1 /\ q \in DOMAIN tr2 /\ h[j].event = tr2[q][1]
  <2>1. PlainStop(tr2, h, j)
    BY Zenon, <1>1, <1>5, <1>9
  <2> QED
    BY Zenon, <1>5, <1>7, <1>8, <1>11, <2>1 DEF PlainStop
<1>13. q \in DOMAIN tr /\ h[j].event = tr[q][1]
  <2>1. q \in DOMAIN tr
    BY <1>3, <1>12
  <2> QED
    BY Zenon, <1>3, <1>12, <2>1
<1>14. PlainChain(tr, g, q)
  <2>1. \A k \in 1..j : PlainStop(tr2, g, k)
    <3> SUFFICES ASSUME NEW k \in 1..j PROVE PlainStop(tr2, g, k)
      BY Zenon
    <3>1. PlainStop(tr2, h, k)
      BY Zenon, <1>1, <1>5, <1>9
    <3>2. g[k] = h[k] /\ (k > 1 => g[k - 1] = h[k - 1])
      BY Zenon, <1>9, <1>10
    <3> QED
      BY Zenon, <3>1, <3>2 DEF PlainStop
  <2>2. j \in 1..j
    BY <1>9
  <2>3. PlainChain(tr2, g, q)
    BY Zenon, <1>10, <1>11, <2>1, <2>2 DEF PlainChain
  <2> QED
    BY Zenon, <1>13, <2>3, PlainChainBefore
<1>15. ASSUME NEW p \in DOMAIN tr, tr[p][1] = x[1] PROVE p <= q
  <2>1. tr2[p][1] = h[m].event /\ p \in DOMAIN tr2 /\ ~(n + 1 <= p)
    BY Zenon, <1>3, <1>6, <1>15
  <2>2. ~(h[m - 1].pos < p)
    BY Zenon, <1>5, <2>1 DEF PlainStop
  <2>3. ~(q < p)
    BY Zenon, <1>8, <1>11, <2>2
  <2> QED
    BY <1>3, <1>13, <2>3
<1>16. CostsOf(h, 1..m) = CostsOf(g, 1..j) + (IF tr[q][1] = x[1] THEN 2 ELSE 1)
  <2>1. CostsOf(h, 1..(j + 1)) = CostsOf(h, 1..j) + HopCost(h, j + 1) /\ j \in Nat
    BY Zenon, <1>9, CostsStep
  <2>2. CostsOf(g, 1..j) = CostsOf(h, 1..j)
    BY Zenon, <1>10, <2>1, SameCosts
  <2>3. HopCost(h, m) = IF tr[q][1] = x[1] THEN 2 ELSE 1
    BY Zenon, <1>6, <1>7, <1>8, <1>13 DEF HopCost, COST_CHANGE, COST_NO_CHANGE
  <2> QED
    BY Zenon, <1>9, <2>1, <2>2, <2>3
<1> QED
  BY Zenon, <1>4, <1>10, <1>13, <1>14, <1>15, <1>16 DEF HopBefore

\* What calculateFollowingHop starts from when an instruction x comes that was
\* executed before, at L for the last time: the chain r to the last instruction
\* of the trace tr is bounded, and its first kept hops remain.
Pruned(tr, r, x, L, kept) ==
  /\ Plain(tr) /\ x \in Instructions /\ PlainChain(tr, r, Len(tr)) /\ Bounded(tr, r)
  /\ L \in DOMAIN tr /\ tr[L][1] = x[1] /\ \A p \in DOMAIN tr : tr[p][1] = x[1] => p <= L
  /\ kept \in 1..Len(r) /\ (kept > 1 => r[kept - 1].pos <= L)
  /\ kept = Len(r) \/ r[kept].pos > L

\* The hop behind the kept ones changes the event, but for the instruction
\* that is repeated at once.
LEMMA PrunedHop ==
  ASSUME NEW tr, NEW r, NEW x, NEW L, NEW kept, Pruned(tr, r, x, L, kept)
  PROVE  /\ r[kept].pos \in DOMAIN tr /\ r[kept].event = tr[r[kept].pos][1]
         /\ r[kept].event = x[1] => kept = Len(r) /\ L = Len(tr)
         /\ kept > 1 => r[kept - 1].pos < r[kept].pos
<1>1. /\ PlainChain(tr, r, Len(tr)) /\ kept \in 1..Len(r) /\ DOMAIN r = 1..Len(r)
      /\ r[Len(r)].pos = Len(tr) /\ PlainStop(tr, r, kept)
  <2>1. PlainChain(tr, r, Len(tr)) /\ kept \in 1..Len(r)
    BY Zenon DEF Pruned
  <2>2. DOMAIN r = 1..Len(r)
    BY Zenon, <2>1, PlainIncreasing
  <2> QED
    BY Zenon, <2>1, <2>2 DEF PlainChain
<1>2. /\ r[kept].pos \in DOMAIN tr /\ r[kept].event = tr[r[kept].pos][1]
      /\ kept > 1 => r[kept - 1].pos < r[kept].pos
  BY Zenon, <1>1 DEF PlainStop
<1>3. ASSUME r[kept].event = x[1] PROVE kept = Len(r) /\ L = Len(tr)
  <2>1. r[kept].pos <= L /\ L \in DOMAIN tr
    BY Zenon, <1>2, <1>3 DEF Pruned
  <2>2. DOMAIN tr = 1..Len(tr) /\ Len(tr) \in Nat
    BY DEF Pruned, Plain
  <2>3. ~(r[kept].pos > L)
    BY <1>2, <2>1, <2>2
  <2>4. kept = Len(r)
    BY Zenon, <2>3 DEF Pruned
  <2>5. Len(tr) <= L
    BY Zenon, <1>1, <2>1, <2>4
  <2> QED
    BY <2>1, <2>2, <2>4, <2>5
<1> QED
  BY Zenon, <1>2, <1>3

\* No chain to the instruction that was just read costs less than the kept
\* hops and the one that is appended.
LEMMA BoundAtEnd ==
  ASSUME NEW tr, NEW r, NEW x, NEW L, NEW kept, Pruned(tr, r, x, L, kept),
         NEW tr2, tr2 = Append(tr, x)
  PROVE  NoCheaper(tr2, Len(tr) + 1, CostsOf(r, 1..kept) + (IF r[kept].event = x[1] THEN 2 ELSE 1))
<1> DEFINE n == Len(tr)
           C(k) == CostsOf(r, 1..k)
           a == IF r[kept].event = x[1] THEN 2 ELSE 1
<1>1. /\ tr \in Seq(Instructions) /\ x \in Instructions /\ L \in DOMAIN tr /\ tr[L][1] = x[1]
      /\ \A p \in DOMAIN tr : tr[p][1] = x[1] => p <= L
      /\ Bounded(tr, r) /\ kept \in 1..Len(r) /\ (kept > 1 => r[kept - 1].pos <= L)
      /\ PlainChain(tr, r, Len(tr))
  BY Zenon DEF Pruned, Plain
<1>2. /\ r[kept].pos \in DOMAIN tr /\ r[kept].event = tr[r[kept].pos][1]
      /\ r[kept].event = x[1] => kept = Len(r) /\ L = Len(tr)
      /\ kept > 1 => r[kept - 1].pos < r[kept].pos
  BY Zenon, PrunedHop
<1>3. /\ n \in Nat /\ DOMAIN tr = 1..n /\ Len(r) \in Nat /\ DOMAIN r = 1..Len(r)
      /\ \A k \in 1..Len(r) : r[k].pos \in Int /\ r[k].pos <= n /\ PlainStop(tr, r, k)
      /\ r[Len(r)].pos = n
  <2>1. n \in Nat /\ DOMAIN tr = 1..n
    BY <1>1
  <2>2. /\ Len(r) \in Nat /\ DOMAIN r = 1..Len(r)
        /\ \A k \in 1..Len(r) : r[k].pos \in Int /\ r[k].pos <= n
    BY Zenon, <1>1, PlainIncreasing
  <2> QED
    BY Zenon, <1>1, <2>1, <2>2 DEF PlainChain
<1>4. kept \in Nat /\ kept >= 1 /\ C(kept) \in Nat
  <2>1. kept \in Nat /\ kept >= 1
    BY <1>1, <1>3
  <2> QED
    BY Zenon, <2>1, CostsStep
<1> HIDE DEF n, C
<1>5. SUFFICES ASSUME NEW h, PlainChain(tr2, h, n + 1)
               PROVE  C(kept) + a <= CostsOf(h, 1..Len(h))
  BY Zenon DEF NoCheaper, n, C
<1>6. PICK g : \E q \in DOMAIN tr : HopBefore(tr, x, h, g, q)
  <2>1. n = Len(tr)
    BY Zenon DEF n
  <2> QED
    BY Zenon, <1>1, <1>5, <2>1, FrontOfChain
<1>7. PICK q \in DOMAIN tr :
        /\ PlainChain(tr, g, q) /\ \A p \in DOMAIN tr : tr[p][1] = x[1] => p <= q
        /\ CostsOf(h, 1..Len(h)) = CostsOf(g, 1..Len(g)) + (IF tr[q][1] = x[1] THEN 2 ELSE 1)
  BY Zenon, <1>6 DEF HopBefore
<1>8. PICK G : G = CostsOf(g, 1..Len(g))
  BY Zenon
<1>9. G \in Nat /\ CostsOf(h, 1..Len(h)) = G + (IF tr[q][1] = x[1] THEN 2 ELSE 1)
  <2>1. Len(g) \in Nat
    BY Zenon, <1>7, PlainIncreasing
  <2> QED
    BY Zenon, <1>7, <1>8, <2>1, CostsStep
<1>10. L \in Int /\ q \in Int /\ L <= q /\ q <= n
  <2>1. L <= q
    BY Zenon, <1>1, <1>7
  <2> QED
    BY <1>1, <1>3, <1>7, <2>1
<1>11. \A k \in 1..Len(r) : (k > 1 => r[k - 1].pos < q) => C(k) <= G
  BY Zenon, <1>1, <1>3, <1>7, <1>8 DEF Bounded, NoCheaper, C
<1>12. SUFFICES C(kept) + a <= G + (IF tr[q][1] = x[1] THEN 2 ELSE 1)
  BY Zenon, <1>9
<1>13. a \in {1, 2} /\ (a = 2 => r[kept].event = x[1]) /\ (r[kept].event # x[1] => a = 1)
  OBVIOUS
<1> HIDE DEF a
<1>14. CASE kept > 1 => r[kept - 1].pos < q
  <2>1. C(kept) <= G
    BY Zenon, <1>1, <1>11, <1>14
  <2>2. CASE a = 1
    BY <1>4, <1>9, <2>1, <2>2
  <2>3. CASE a = 2
    <3>1. L = n
      BY Zenon, <1>2, <1>13, <2>3 DEF n
    <3>2. q = L
      BY <1>10, <3>1
    <3>3. tr[q][1] = x[1]
      BY Zenon, <1>1, <3>2
    <3> QED
      BY <1>4, <1>9, <2>1, <2>3, <3>3
  <2> QED
    BY Zenon, <1>13, <2>2, <2>3
<1>15. CASE kept > 1 /\ ~(r[kept - 1].pos < q)
  <2>1. PICK j : j = kept - 1
    BY Zenon
  <2>2. j \in Nat /\ j \in 1..Len(r) /\ j + 1 = kept
    BY <1>1, <1>3, <1>15, <2>1
  <2>3. r[j].pos <= L /\ ~(r[j].pos < q) /\ r[j].pos < r[kept].pos
    BY Zenon, <1>1, <1>2, <1>15, <2>1
  <2>4. r[j].pos \in Int
    BY Zenon, <1>3, <2>2
  <2>5. r[j].pos = L /\ q = L
    BY <1>10, <2>3, <2>4
  <2>6. r[j].event = x[1]
    BY Zenon, <1>1, <1>3, <2>2, <2>5 DEF PlainStop
  <2>7. r[kept].event # x[1]
    <3>1. r[kept].pos \in Int /\ r[kept].pos <= n
      BY Zenon, <1>1, <1>3
    <3>2. L # n
      BY <1>10, <2>3, <2>5, <3>1, <1>3
    <3> QED
      BY Zenon, <1>2, <3>2 DEF n
  <2>8. C(kept) = C(j) + 1 /\ C(j) \in Nat
    <3>1. /\ CostsOf(r, 1..j) \in Nat
          /\ CostsOf(r, 1..(j + 1)) = CostsOf(r, 1..j) + HopCost(r, j + 1)
      BY Zenon, <2>2, CostsStep
    <3>2. HopCost(r, kept) = 1
      BY Zenon, <1>15, <2>1, <2>6, <2>7 DEF HopCost, COST_CHANGE
    <3> QED
      BY Zenon, <2>2, <3>1, <3>2 DEF C
  <2>9. C(j) <= G
    <3>1. j > 1 => r[j - 1].pos < q
      BY Zenon, <1>3, <2>2, <2>5 DEF PlainStop
    <3> QED
      BY Zenon, <1>11, <2>2, <3>1
  <2>10. tr[q][1] = x[1] /\ a = 1
    BY Zenon, <1>1, <1>13, <2>5, <2>7
  <2> QED
    BY <1>4, <1>9, <2>8, <2>9, <2>10
<1> QED
  BY Zenon, <1>14, <1>15

\* A lower bound of the costs stays one when it gets lower.
LEMMA NoCheaperBelow ==
  ASSUME NEW tr, NEW q, NEW c \in Nat, NEW d \in Nat, c <= d, NoCheaper(tr, q, d)
  PROVE  NoCheaper(tr, q, c)
<1> SUFFICES ASSUME NEW h, PlainChain(tr, h, q)
             PROVE  c <= CostsOf(h, 1..Len(h))
  BY Zenon DEF NoCheaper
<1>1. Len(h) \in Nat
  BY Zenon, PlainIncreasing
<1>2. CostsOf(h, 1..Len(h)) \in Nat
  BY Zenon, <1>1, CostsStep
<1>3. d <= CostsOf(h, 1..Len(h))
  BY Zenon DEF NoCheaper
<1> QED
  BY <1>2, <1>3

\* calculateFollowingHop on an instruction that was executed before: the chain
\* it makes is bounded.
LEMMA GreedyExtends ==
  ASSUME NEW tr, NEW r, NEW x, NEW L, NEW kept, Pruned(tr, r, x, L, kept),
         NEW tr2, tr2 = Append(tr, x), NEW hop, hop.event = x[1],
         NEW c, Prolongs(c, r, kept, hop)
  PROVE  Bounded(tr2, c)
<1> DEFINE n == Len(tr)
           a == IF r[kept].event = x[1] THEN 2 ELSE 1
<1>1. /\ tr \in Seq(Instructions) /\ x \in Instructions /\ Bounded(tr, r) /\ kept \in 1..Len(r)
      /\ PlainChain(tr, r, Len(tr))
  BY Zenon DEF Pruned, Plain
<1>2. /\ Len(r) \in Nat /\ DOMAIN r = 1..Len(r) /\ r[Len(r)].pos = n
  BY Zenon, <1>1, PlainIncreasing DEF PlainChain
<1>3. n \in Nat /\ DOMAIN tr = 1..n /\ DOMAIN tr2 = 1..(n + 1)
  BY <1>1
<1>4. /\ kept \in Nat /\ kept >= 1 /\ kept + 1 \in Nat /\ kept <= kept + 1
      /\ kept + 1 > 1 /\ (kept + 1) - 1 = kept
  BY <1>1, <1>2
<1>5. /\ DOMAIN c = 1..(kept + 1) /\ c[kept + 1] = hop /\ \A k \in 1..kept : c[k] = r[k]
  BY Zenon DEF Prolongs
<1>6. ASSUME NEW k \in 1..kept PROVE CostsOf(c, 1..k) = CostsOf(r, 1..k)
  <2>1. k \in Nat /\ \A j \in 1..k : j \in 1..kept
    BY <1>4
  <2>2. \A j \in 1..k : c[j] = r[j]
    BY Zenon, <1>5, <2>1
  <2> QED
    BY Zenon, <2>1, <2>2, SameCosts
<1>7. CostsOf(c, 1..(kept + 1)) = CostsOf(r, 1..kept) + a /\ CostsOf(r, 1..kept) \in Nat
  <2>1. CostsOf(c, 1..(kept + 1)) = CostsOf(c, 1..kept) + HopCost(c, kept + 1) /\ CostsOf(c, 1..kept) \in Nat
    BY Zenon, <1>4, CostsStep
  <2>2. kept \in 1..kept
    BY <1>4
  <2>3. HopCost(c, kept + 1) = a
    BY Zenon, <1>4, <1>5, <2>2 DEF HopCost, COST_CHANGE, COST_NO_CHANGE
  <2> HIDE DEF a
  <2> QED
    BY Zenon, <1>6, <2>1, <2>2, <2>3
<1>8. NoCheaper(tr2, n + 1, CostsOf(c, 1..(kept + 1)))
  <2>1. NoCheaper(tr2, Len(tr) + 1, CostsOf(r, 1..kept) + (IF r[kept].event = x[1] THEN 2 ELSE 1))
    BY Zenon, BoundAtEnd
  <2> QED
    BY Zenon, <1>7, <2>1
<1>9. ASSUME NEW q \in DOMAIN tr, NEW d, NoCheaper(tr, q, d) PROVE NoCheaper(tr2, q, d)
  BY Zenon, <1>1, <1>9, PlainChainBefore DEF NoCheaper
<1> HIDE DEF n, a
<1>10. SUFFICES ASSUME NEW k \in 1..(kept + 1), NEW q \in 1..(n + 1), k > 1 => c[k - 1].pos < q
                PROVE  NoCheaper(tr2, q, CostsOf(c, 1..k))
  BY Zenon, <1>3, <1>5 DEF Bounded
<1>11. /\ k \in Nat /\ (k # kept + 1 => k \in 1..kept) /\ k <= kept + 1
       /\ k \in 1..kept /\ k > 1 => k - 1 \in 1..kept
  BY <1>4
<1>12. CASE q = n + 1
  <2>1. /\ CostsOf(c, 1..k) \in Nat /\ CostsOf(c, 1..(kept + 1)) \in Nat
        /\ CostsOf(c, 1..k) <= CostsOf(c, 1..(kept + 1))
    BY Zenon, <1>4, <1>11, CostsGrow
  <2> QED
    BY Zenon, <1>8, <1>12, <2>1, NoCheaperBelow
<1>13. CASE q # n + 1 /\ k # kept + 1
  <2>1. q \in DOMAIN tr /\ k \in DOMAIN r
    BY <1>1, <1>2, <1>3, <1>11, <1>13
  <2>2. k > 1 => r[k - 1].pos < q
    BY Zenon, <1>5, <1>10, <1>11, <1>13
  <2>3. NoCheaper(tr, q, CostsOf(r, 1..k))
    BY Zenon, <1>1, <2>1, <2>2 DEF Bounded
  <2> QED
    BY Zenon, <1>6, <1>9, <1>11, <1>13, <2>1, <2>3
<1>14. CASE q # n + 1 /\ k = kept + 1
  <2>1. q \in DOMAIN tr /\ q <= n /\ q \in Int
    BY <1>3, <1>14
  <2>2. r[kept].pos < q
    <3>1. kept \in 1..kept
      BY <1>4
    <3> QED
      BY Zenon, <1>4, <1>5, <1>10, <1>14, <3>1
  <2>3. kept # Len(r)
    <3>1. ~(n < q)
      BY <1>3, <2>1
    <3> QED
      BY Zenon, <1>2, <2>2, <3>1
  <2>4. a = 1
    <3>1. /\ r[kept].pos \in DOMAIN tr /\ r[kept].event = tr[r[kept].pos][1]
          /\ r[kept].event = x[1] => kept = Len(r) /\ L = Len(tr)
          /\ kept > 1 => r[kept - 1].pos < r[kept].pos
      BY Zenon, PrunedHop
    <3>2. r[kept].event # x[1]
      BY Zenon, <2>3, <3>1
    <3> QED
      BY Zenon, <3>2 DEF a
  <2>5. kept + 1 \in DOMAIN r
    <3>1. kept + 1 \in 1..Len(r)
      <4>1. PICK m : m = Len(r)
        BY Zenon
      <4>2. m \in Nat /\ kept \in 1..m /\ kept # m
        BY Zenon, <1>1, <1>2, <2>3, <4>1
      <4>3. kept + 1 \in 1..m
        BY <4>2
      <4> QED
        BY Zenon, <4>1, <4>3
    <3> QED
      BY Zenon, <1>2, <3>1
  <2>6. NoCheaper(tr, q, CostsOf(r, 1..(kept + 1)))
    BY Zenon, <1>1, <1>4, <2>1, <2>2, <2>5 DEF Bounded
  <2>7. /\ CostsOf(r, 1..(kept + 1)) = CostsOf(r, 1..kept) + HopCost(r, kept + 1)
        /\ HopCost(r, kept + 1) \in {1, 2}
    BY Zenon, <1>4, CostsStep
  <2>8. /\ CostsOf(c, 1..k) \in Nat /\ CostsOf(r, 1..(kept + 1)) \in Nat
        /\ CostsOf(c, 1..k) <= CostsOf(r, 1..(kept + 1))
    <3>1. CostsOf(c, 1..k) = CostsOf(r, 1..kept) + 1
      BY Zenon, <1>7, <1>14, <2>4
    <3> QED
      BY <1>7, <2>7, <3>1
  <2> QED
    BY Zenon, <1>9, <2>1, <2>6, <2>8, NoCheaperBelow
<1> QED
  BY Zenon, <1>12, <1>13, <1>14

\* calculateFollowingHop on an instruction that was not executed before: a chain
\* of a single hop is bounded.
LEMMA GreedyStarts ==
  ASSUME NEW tr, NEW c, DOMAIN c = {1}
  PROVE  Bounded(tr, c)
<1>1. \A h : CostsOf(h, 1..1) = 1
  <2> SUFFICES ASSUME NEW h PROVE CostsOf(h, 1..1) = 1
    BY Zenon
  <2>1. 1..1 = {1} /\ ~(1 > 1)
    OBVIOUS
  <2>2. CostsOf(h, {1}) = HopCost(h, 1)
    BY Zenon, CostsOfOne
  <2>3. HopCost(h, 1) = 1
    BY Zenon, <2>1 DEF HopCost, COST_CHANGE
  <2> QED
    BY Zenon, <2>1, <2>2, <2>3
<1>2. ASSUME NEW q, NEW h, PlainChain(tr, h, q) PROVE 1 <= CostsOf(h, 1..Len(h))
  <2>1. Len(h) \in Nat /\ 1 \in Nat /\ 1 <= Len(h)
    <3>1. Len(h) \in Nat \ {0}
      BY Zenon, <1>2, PlainIncreasing
    <3> QED
      BY <3>1
  <2>2. CostsOf(h, 1..1) <= CostsOf(h, 1..Len(h))
    BY Zenon, <2>1, CostsGrow
  <2> QED
    BY Zenon, <1>1, <2>2
<1> QED
  BY Zenon, <1>1, <1>2 DEF Bounded, NoCheaper

\* calculateFollowingHop keeps the chain bounded.
LEMMA GreedyFollows ==
  ASSUME TypeOK, PositionsInv, LeadsTo(m_result, m_trace_pos), GreedyInv,
         m_trace_pos < MaxTrace, NEW events \in Instructions, FollowingHop(events)
  PROVE  GreedyInv'
<1> SUFFICES ASSUME WithoutAccesses'
             PROVE  Bounded(trace', m_result')
  BY Zenon DEF GreedyInv
<1> DEFINE n == m_trace_pos
           unknown == {k \in DOMAIN events : m_last_positions[events[k]] = 0}
           best == BestEvent(events)
           kept == Kept(m_last_positions[best])
           hop == [event |-> best, pos |-> n + 1]
<1>1. trace \in Seq(Instructions) /\ trace' = Append(trace, events) /\ m_result \in Seq(Hop)
  BY Zenon, PositionsFollow DEF TypeOK
<1>2. /\ n \in Nat /\ DOMAIN trace = 1..n /\ DOMAIN trace' = 1..(n + 1) /\ trace'[n + 1] = events
      /\ \A p \in 1..n : trace'[p] = trace[p]
  BY Zenon, <1>1, TraceGrows
<1>3. n + 1 \in 1..(n + 1) /\ n + 1 \in 1..MaxTrace /\ \A p \in 1..n : p \in 1..(n + 1)
  <2> HIDE DEF n
  <2>1. n < MaxTrace
    BY Zenon DEF n
  <2> QED
    BY <1>2, <2>1, HopsAssumption
<1>4. WithoutAccesses /\ Len(events) = 1
  BY Zenon, <1>2, <1>3 DEF WithoutAccesses
<1>5. events \in Seq(Events) /\ DOMAIN events = {1}
  <2>1. events \in Seq(Events)
    BY Zenon, HopsAssumption
  <2> QED
    BY <1>4, <2>1
<1>6. Plain(trace) /\ Bounded(trace, m_result)
  BY Zenon, <1>1, <1>4 DEF Plain, WithoutAccesses, GreedyInv
<1>7. CASE unknown # {}
  <2>1. \E x : m_result' = <<x>>
    BY Zenon, <1>7 DEF FollowingHop
  <2>2. DOMAIN m_result' = {1}
    BY <2>1
  <2>3. PICK c, tr : c = m_result' /\ tr = trace'
    BY Zenon
  <2> QED
    BY Zenon, <2>2, <2>3, GreedyStarts
<1>8. CASE unknown = {}
  <2> DEFINE L == m_last_positions[best]
  <2>1. m_result' = Append(SubSeq(m_result, 1, kept), hop)
    BY Zenon, <1>8 DEF FollowingHop
  <2>2. best \in Range(events) /\ best \in Events
    BY Zenon, BestEventIs DEF TypeOK, Events
  <2>3. best = events[1]
    BY Zenon, <1>5, <2>2 DEF Range
  <2>4. L \in 0..n /\ L # 0 /\ (L > 0 => best \in Range(trace[L]))
    <3>1. L # 0
      BY Zenon, <1>8, <2>2 DEF Range
    <3> QED
      BY Zenon, <2>2, <3>1 DEF PositionsInv
  <2>5. \A p \in DOMAIN trace : best \in Range(trace[p]) => p <= L
    BY Zenon, <2>2 DEF PositionsInv
  <2>6. m_result # <<>> /\ LeadsTo(m_result, n) /\ n = Len(trace)
    <3>1. L > 0
      <4> HIDE DEF L, n
      <4> QED
        BY <1>2, <2>4
    <3> QED
      BY Zenon, <3>1, BestDoesNotOccur DEF m_trace_pos
  <2> HIDE DEF n, best
  <2>7. L \in DOMAIN trace /\ L > 0 /\ L \in Int
    <3> HIDE DEF L
    <3> QED
      BY <1>2, <2>4
  <2>8. /\ kept \in 1..Len(m_result) /\ (kept = Len(m_result) \/ m_result[kept].pos > L)
        /\ kept > 1 => m_result[kept - 1].pos <= L
    BY Zenon, <1>1, <2>6, <2>7, KeptIs
  <2> HIDE DEF kept, L
  <2>9. trace[L][1] = events[1]
    <3>1. best \in Range(trace[L]) <=> best = trace[L][1]
      BY Zenon, <1>6, <2>7, PlainEvents
    <3> QED
      BY Zenon, <2>3, <2>4, <2>7, <3>1
  <2>10. \A p \in DOMAIN trace : trace[p][1] = events[1] => p <= L
    BY Zenon, <1>6, <2>3, <2>5, PlainEvents
  <2>11. PlainChain(trace, m_result, Len(trace))
    BY Zenon, <1>1, <1>6, <2>6, PlainLeads
  <2>12. Pruned(trace, m_result, events, L, kept)
    BY Zenon, <1>6, <2>7, <2>8, <2>9, <2>10, <2>11 DEF Pruned
  <2>13. hop \in Hop /\ hop.event = events[1]
    BY <1>3, <2>2, <2>3 DEF Hop
  <2> HIDE DEF hop
  <2>14. Prolongs(m_result', m_result, kept, hop)
    BY Zenon, <1>1, <2>1, <2>8, <2>13, PruneAndAppend
  <2>15. PICK r, tr : r = m_result /\ tr = trace
    BY Zenon
  <2>16. PICK c, tr2 : c = m_result' /\ tr2 = trace'
    BY Zenon
  <2>17. Bounded(tr2, c)
    BY Zenon, <1>1, <2>12, <2>13, <2>14, <2>15, <2>16, GreedyExtends
  <2> QED
    BY Zenon, <2>16, <2>17
<1> QED
  BY Zenon, <1>7, <1>8

\* A bounded chain is one that no other chain beats.
LEMMA GreedyIsOptimal == Inv /\ GreedyInv => OptimalWithoutAccesses
<1> SUFFICES ASSUME Inv, GreedyInv, trace # <<>>, WithoutAccesses, NEW hops \in ChainsTo(m_trace_pos)
             PROVE  m_costs <= CostsOf(hops, DOMAIN hops)
  BY Zenon DEF OptimalWithoutAccesses
<1> DEFINE n == m_trace_pos
<1>1. /\ trace \in Seq(Instructions) /\ m_result \in Seq(Hop) /\ LeadsTo(m_result, n)
      /\ m_costs = CostsOf(m_result, DOMAIN m_result)
  BY Zenon DEF Inv, TypeOK, ChainsLeadToTarget, CostsAgree
<1>2. n \in Nat /\ n > 0 /\ DOMAIN trace = 1..n /\ n <= MaxTrace /\ MaxTrace \in Nat
  BY <1>1, HopsAssumption DEF m_trace_pos, Inv, TypeOK
<1>3. Plain(trace) /\ Bounded(trace, m_result)
  BY Zenon, <1>1 DEF Plain, WithoutAccesses, GreedyInv
<1>4. PICK front \in HopsBefore(n) : \E hop \in HopsAt(n) : hops = Append(front, hop)
  BY DEF ChainsTo
<1>5. PICK hop \in HopsAt(n) : hops = Append(front, hop)
  BY Zenon, <1>4
<1>6. LeadsTo(hops, n)
  BY DEF ChainsTo
<1>7. \A p \in 1..n : HopsAt(p) \subseteq Hop
  <2> SUFFICES ASSUME NEW p \in 1..n, NEW e \in Range(trace[p])
               PROVE  [event |-> e, pos |-> p] \in Hop
    BY Zenon DEF HopsAt
  <2>1. trace[p] \in Instructions
    BY Zenon, <1>2, <1>3, PlainEvents
  <2>2. e \in Events
    BY Zenon, <2>1 DEF Events
  <2>3. p \in 1..MaxTrace
    <3> HIDE DEF n
    <3> QED
      BY <1>2
  <2> QED
    BY Zenon, <2>2, <2>3 DEF Hop
<1>8. front \in Seq(Hop) /\ hop \in Hop
  <2> HIDE DEF n
  <2>1. n \in 1..n /\ 1..(n - 1) \subseteq 1..n /\ 0..(n - 1) \subseteq Nat
    BY <1>2
  <2>2. UNION {HopsAt(p) : p \in 1..(n - 1)} \subseteq Hop
    BY Zenon, <1>7, <2>1
  <2>3. PICK k \in Nat : front \in [1..k -> UNION {HopsAt(p) : p \in 1..(n - 1)}]
    BY Zenon, <2>1 DEF HopsBefore
  <2>4. front \in [1..k -> Hop]
    BY Zenon, <2>2, <2>3
  <2>5. front \in Seq(Hop)
    BY <2>4
  <2> QED
    BY Zenon, <1>7, <2>1, <2>5
<1>9. hops \in Seq(Hop) /\ hops # <<>>
  <2> HIDE DEF n
  <2> QED
    BY <1>5, <1>8
<1>10. PlainChain(trace, hops, n)
  BY Zenon, <1>3, <1>6, <1>9, PlainLeads
<1>11. m_result # <<>>
  <2>1. n # 0
    BY <1>2
  <2> QED
    BY Zenon, <1>1, <2>1 DEF LeadsTo
<1>12. PlainChain(trace, m_result, n)
  BY Zenon, <1>1, <1>3, <1>11, PlainLeads
<1> HIDE DEF n
<1>13. PICK k : k = Len(m_result)
  BY Zenon
<1>14. k \in DOMAIN m_result /\ DOMAIN m_result = 1..k /\ n \in DOMAIN trace /\ m_result[k].pos = n
  <2>1. Len(m_result) \in Nat \ {0} /\ DOMAIN m_result = 1..Len(m_result) /\ n \in DOMAIN trace
    BY Zenon, <1>12, PlainIncreasing
  <2>2. k \in 1..k
    BY <1>13, <2>1
  <2> QED
    BY Zenon, <1>12, <1>13, <2>1, <2>2 DEF PlainChain
<1>15. k > 1 => m_result[k - 1].pos < n
  BY Zenon, <1>12, <1>14 DEF PlainChain, PlainStop
<1>16. CostsOf(m_result, 1..k) <= CostsOf(hops, 1..Len(hops))
  BY Zenon, <1>3, <1>10, <1>14, <1>15 DEF Bounded, NoCheaper
<1>17. DOMAIN hops = 1..Len(hops)
  BY <1>9
<1> QED
  BY Zenon, <1>1, <1>14, <1>16, <1>17

\* On traces without memory accesses no chain to the last instruction costs
\* less than the one of SmartHops, for any instructions and traces of any length.
THEOREM OptimalAlways == Spec => []OptimalWithoutAccesses
<1>1. Init => GreedyInv
  <2> SUFFICES ASSUME Init PROVE Bounded(trace, m_result)
    BY Zenon DEF GreedyInv
  <2>1. DOMAIN m_result = {}
    BY DEF Init
  <2> QED
    BY Zenon, <2>1 DEF Bounded
<1>2. Inv /\ GreedyInv /\ [Next]_vars => GreedyInv'
  <2> SUFFICES ASSUME Inv, GreedyInv, [Next]_vars PROVE GreedyInv'
    BY Zenon
  <2>1. CASE UNCHANGED calcvars
    <3>1. UNCHANGED <<trace, m_result>>
      BY Zenon, <2>1 DEF calcvars
    <3> QED
      BY Zenon, <3>1 DEF GreedyInv, WithoutAccesses
  <2>2. CASE ReadTrace
    <3>1. PICK events \in Instructions : FollowingHop(events)
      BY Zenon, <2>2 DEF ReadTrace
    <3>2. m_trace_pos < MaxTrace
      BY <2>2, HopsAssumption DEF ReadTrace, NextOffset, Inv, TypeOK, m_trace_pos
    <3>3. TypeOK /\ PositionsInv /\ LeadsTo(m_result, m_trace_pos)
      BY Zenon DEF Inv, ChainsLeadToTarget
    <3> QED
      BY Zenon, <3>1, <3>2, <3>3, GreedyFollows
  <2> QED
    BY Zenon, <2>1, <2>2 DEF Next, vars, ParseFromInjectionInstr, AddResult, ChooseMinimum
<1> QED
  BY <1>1, <1>2, GreedyIsOptimal, HopsInvariant, PTL DEF Spec
=============================================================================
