--------------------------- MODULE JobServerProofs ---------------------------
(***************************************************************************)
(* Proofs that JobServer keeps its safety properties, for any number of    *)
(* jobs and connections, any queue size and any number of failing socket   *)
(* operations, and that it implements JobDistribution.                     *)
(***************************************************************************)
EXTENDS JobServerInvariant, FiniteSetTheorems, SequenceTheorems, TLAPS

-----------------------------------------------------------------------------
(***************************************************************************)
(* Sequences, and the least number of a set                                *)
(***************************************************************************)

(***************************************************************************)
(* What Append adds.                                                       *)
(***************************************************************************)
LEMMA AppendRange ==
    ASSUME NEW S, NEW s \in Seq(S), NEW x \in S
    PROVE  /\ Append(s, x) \in Seq(S)
           /\ Append(s, x) # <<>>
           /\ Len(Append(s, x)) = Len(s) + 1
           /\ Range(Append(s, x)) = Range(s) \cup {x}
           /\ IsInjective(s) /\ x \notin Range(s) => IsInjective(Append(s, x))
           /\ s # <<>> => Head(Append(s, x)) = Head(s)
<1>1. /\ Append(s, x) \in Seq(S)
      /\ Append(s, x) # <<>>
      /\ Len(Append(s, x)) = Len(s) + 1
      /\ DOMAIN Append(s, x) = 1..(Len(s) + 1)
      /\ DOMAIN s = 1..Len(s)
      /\ \A i \in 1..Len(s) : Append(s, x)[i] = s[i]
      /\ Append(s, x)[Len(s) + 1] = x
      /\ Len(s) \in Nat
  OBVIOUS
<1>2. Range(Append(s, x)) = Range(s) \cup {x}
  BY <1>1 DEF Range
<1>3. ASSUME IsInjective(s), x \notin Range(s)
      PROVE  IsInjective(Append(s, x))
  BY <1>1, <1>3 DEF Range, IsInjective
<1>4. s # <<>> => Head(Append(s, x)) = Head(s)
  OBVIOUS
<1> QED
  BY Zenon, <1>1, <1>2, <1>3, <1>4

(***************************************************************************)
(* What Tail removes, when no element occurs twice.                        *)
(***************************************************************************)
LEMMA TailRange ==
    ASSUME NEW S, NEW s \in Seq(S), s # <<>>
    PROVE  /\ Tail(s) \in Seq(S)
           /\ Head(s) \in S
           /\ Head(s) \in Range(s)
           /\ Len(Tail(s)) = Len(s) - 1
           /\ IsInjective(s) => /\ IsInjective(Tail(s))
                                /\ Range(Tail(s)) = Range(s) \ {Head(s)}
<1>1. /\ Tail(s) \in Seq(S)
      /\ Len(s) \in Nat \ {0}
      /\ Len(Tail(s)) = Len(s) - 1
      /\ DOMAIN s = 1..Len(s)
      /\ DOMAIN Tail(s) = 1..(Len(s) - 1)
      /\ \A i \in 1..(Len(s) - 1) : Tail(s)[i] = s[i + 1]
      /\ Head(s) = s[1]
      /\ Head(s) \in S
  OBVIOUS
<1>2. Head(s) \in Range(s)
  BY <1>1 DEF Range
<1>3. ASSUME IsInjective(s)
      PROVE  IsInjective(Tail(s)) /\ Range(Tail(s)) = Range(s) \ {Head(s)}
  <2>1. IsInjective(Tail(s))
    BY <1>1, <1>3 DEF IsInjective
  <2>2. ASSUME NEW y \in Range(Tail(s))
        PROVE  y \in Range(s) \ {Head(s)}
    BY <1>1, <1>3, <2>2 DEF IsInjective, Range
  <2>3. ASSUME NEW y \in Range(s), y # Head(s)
        PROVE  y \in Range(Tail(s))
    <3>1. PICK i \in 1..Len(s) : y = s[i]
      BY Zenon, <1>1 DEF Range
    <3>2. i - 1 \in 1..(Len(s) - 1) /\ Tail(s)[i - 1] = y
      BY <1>1, <2>3, <3>1
    <3> QED
      BY ZenonT(60), <1>1, <3>2 DEF Range
  <2> QED
    BY Zenon, <2>1, <2>2, <2>3
<1> QED
  BY Zenon, <1>1, <1>2, <1>3

(***************************************************************************)
(* What concatenation holds.                                               *)
(***************************************************************************)
LEMMA ConcatRange ==
    ASSUME NEW S, NEW s \in Seq(S), NEW t \in Seq(S)
    PROVE  /\ s \o t \in Seq(S)
           /\ Range(s \o t) = Range(s) \cup Range(t)
           /\ IsInjective(s) /\ IsInjective(t) /\ Range(s) \cap Range(t) = {}
                  => IsInjective(s \o t)
<1>1. /\ s \o t \in Seq(S)
      /\ Len(s) \in Nat /\ Len(t) \in Nat
      /\ DOMAIN s = 1..Len(s) /\ DOMAIN t = 1..Len(t)
      /\ DOMAIN (s \o t) = 1..(Len(s) + Len(t))
      /\ \A i \in 1..Len(s) : (s \o t)[i] = s[i]
      /\ \A i \in 1..Len(t) : (s \o t)[Len(s) + i] = t[i]
  BY ConcatProperties
<1>2. \A i \in DOMAIN (s \o t) :
          \/ i \in DOMAIN s /\ (s \o t)[i] = s[i]
          \/ i - Len(s) \in DOMAIN t /\ (s \o t)[i] = t[i - Len(s)]
  <2> SUFFICES ASSUME NEW i \in 1..(Len(s) + Len(t)), ~(i \in 1..Len(s))
               PROVE  i - Len(s) \in 1..Len(t) /\ (s \o t)[i] = t[i - Len(s)]
    BY Zenon, <1>1
  <2>1. i - Len(s) \in 1..Len(t) /\ Len(s) + (i - Len(s)) = i
    BY <1>1
  <2> QED
    BY Zenon, <1>1, <2>1
<1>3. Range(s \o t) \subseteq Range(s) \cup Range(t)
  BY Zenon, <1>2 DEF Range
<1>4. Range(s) \subseteq Range(s \o t)
  BY <1>1 DEF Range
<1>5. ASSUME NEW y \in Range(t) PROVE y \in Range(s \o t)
  <2>1. PICK i \in 1..Len(t) : y = t[i]
    BY Zenon, <1>1 DEF Range
  <2>2. Len(s) + i \in DOMAIN (s \o t) /\ (s \o t)[Len(s) + i] = y
    BY <1>1, <2>1
  <2> QED
    BY Zenon, <2>2 DEF Range
<1>6. ASSUME IsInjective(s), IsInjective(t), Range(s) \cap Range(t) = {}
      PROVE  IsInjective(s \o t)
  <2> SUFFICES ASSUME NEW a \in DOMAIN (s \o t), NEW b \in DOMAIN (s \o t),
                      (s \o t)[a] = (s \o t)[b]
               PROVE  a = b
    BY Zenon DEF IsInjective
  <2>0. a \in Int /\ b \in Int /\ Len(s) \in Int
    BY <1>1
  <2>1. CASE a \in DOMAIN s /\ (s \o t)[a] = s[a] /\ b \in DOMAIN s /\ (s \o t)[b] = s[b]
    BY ZenonT(60), <1>6, <2>1 DEF IsInjective
  <2>2. CASE /\ a - Len(s) \in DOMAIN t /\ (s \o t)[a] = t[a - Len(s)]
             /\ b - Len(s) \in DOMAIN t /\ (s \o t)[b] = t[b - Len(s)]
    <3>1. a - Len(s) = b - Len(s)
      BY ZenonT(60), <1>6, <2>2 DEF IsInjective
    <3> QED
      BY <2>0, <3>1
  <2>3. CASE /\ a \in DOMAIN s /\ (s \o t)[a] = s[a]
             /\ b - Len(s) \in DOMAIN t /\ (s \o t)[b] = t[b - Len(s)]
    BY ZenonT(60), <1>6, <2>3 DEF Range
  <2>4. CASE /\ b \in DOMAIN s /\ (s \o t)[b] = s[b]
             /\ a - Len(s) \in DOMAIN t /\ (s \o t)[a] = t[a - Len(s)]
    BY Zenon, <1>6, <2>4 DEF Range
  <2> QED
    BY Zenon, <1>2, <2>1, <2>2, <2>3, <2>4
<1> QED
  BY Zenon, <1>1, <1>3, <1>4, <1>5, <1>6

(***************************************************************************)
(* A nonempty set of natural numbers has a least element.                  *)
(***************************************************************************)
LEMMA NatMin ==
    ASSUME NEW T \in SUBSET Nat, T # {}
    PROVE  \E m \in T : \A k \in T : m <= k
<1>1. \E R : IsWellFoundedOn(R, Nat) /\ \A x, y \in Nat : x < y => <<x, y>> \in R
  <2>1. \A x, y \in Nat : x < y => <<x, y>> \in OpToRel(<, Nat)
    BY Zenon DEF OpToRel
  <2> QED
    BY <2>1, NatLessThanWellFounded, Zenon
<1>2. PICK R : IsWellFoundedOn(R, Nat) /\ \A x, y \in Nat : x < y => <<x, y>> \in R
  BY Zenon, <1>1
<1>3. T \subseteq Nat
  BY Zenon
<1>4. IsWellFoundedOn(R, Nat)
  BY Zenon, <1>2
<1>5. \E m \in T : \A y \in T : ~(<<y, m>> \in R)
  BY ZenonT(60), <1>4, WFMin
<1>6. PICK m \in T : \A y \in T : ~(<<y, m>> \in R)
  BY Zenon, <1>5
<1>7. \A k \in T : ~(k < m)
  BY <1>2, <1>3, <1>6, Zenon
<1> QED
  BY <1>3, <1>7

-----------------------------------------------------------------------------
(***************************************************************************)
(* Results                                                                 *)
(***************************************************************************)

(***************************************************************************)
(* The empty sequence has no elements.                                     *)
(***************************************************************************)
LEMMA EmptyRange ==
    /\ Range(<<>>) = {}
    /\ IsInjective(<<>>)
    /\ JobsOf(<<>>) = {}
    /\ DistinctJobs(<<>>)
BY DEF Range, IsInjective, JobsOf, DistinctJobs

(***************************************************************************)
(* A connection is not one of the other places.                            *)
(***************************************************************************)
LEMMA PlacesAreNotConns == \A c \in Conns : \A p \in Places : c # p
BY Zenon, ConstAssumption

-----------------------------------------------------------------------------
(***************************************************************************)
(* Receiving results.                                                      *)
(***************************************************************************)

(***************************************************************************)
(* What remove() yields for the workload IDs of a client of this run: each *)
(* running job it names, once, together with a result computed from that   *)
(* job's parameters.                                                       *)
(***************************************************************************)
LEMMA RemovedJobs ==
    ASSUME Inv, NEW results \in SeqsUpTo(clientJobs, MaxJobSize)
    PROVE  /\ Removed(results) \in Seq(PendingMsgs)
           /\ Removed(results) # <<>>
           /\ Len(Removed(results)) <= MaxJobSize
           /\ DistinctJobs(Removed(results))
           /\ JobsOf(Removed(results)) \subseteq HeldBy("running")
           /\ DOMAIN Removed(results) = DOMAIN results
           /\ \A i \in DOMAIN Removed(results) : Removed(results)[i].job # NoJob =>
                 /\ workloadID[Removed(results)[i].job] = Removed(results)[i].id
                 /\ Removed(results)[i].data.job = Removed(results)[i].job
                 /\ Removed(results)[i].data.intact
           /\ Range(Without(m_runningJobs, results)) =
                 Range(m_runningJobs) \ JobsOf(Removed(results))
           /\ \A id \in DOMAIN Without(m_runningJobs, results) :
                 id \in DOMAIN m_runningJobs /\ Without(m_runningJobs, results)[id] = m_runningJobs[id]
           /\ Without(m_runningJobs, results) \in
                 [DOMAIN Without(m_runningJobs, results) -> Jobs]
<1> USE ConstAssumption
<1> DEFINE R == Removed(results)
           W == Without(m_runningJobs, results)
<1>1. PICK n \in 1..MaxJobSize : results \in [1..n -> clientJobs]
  BY Zenon DEF SeqsUpTo
<1>2. \A i \in 1..n : /\ results[i] \in clientJobs
                      /\ results[i] \in Workloads
                      /\ results[i].id \in Nat
                      /\ results[i].job \in Jobs
                      /\ results[i].id = workloadID[results[i].job]
                      /\ results[i].intact \/ content[results[i].job] # "param"
  BY <1>1 DEF Inv, TypeOK, ClientInv, Workloads
<1>3. /\ DOMAIN R = 1..n
      /\ DOMAIN results = 1..n
      /\ \A i \in 1..n :
            /\ R[i].id = results[i].id
            /\ R[i].data = results[i]
            /\ R[i].job = IF /\ results[i].id \in DOMAIN m_runningJobs
                             /\ \A k \in 1..(i - 1) : results[k].id # results[i].id
                          THEN m_runningJobs[results[i].id] ELSE NoJob
  BY Zenon, <1>1 DEF Removed
<1>4. \A id \in DOMAIN m_runningJobs :
          /\ m_runningJobs[id] \in Jobs
          /\ m_runningJobs[id] # NoJob
          /\ m_runningJobs[id] \in HeldBy("running")
          /\ workloadID[m_runningJobs[id]] = id
          /\ id # 0
          /\ content[m_runningJobs[id]] = "param"
  <2> SUFFICES ASSUME NEW id \in DOMAIN m_runningJobs
               PROVE  /\ m_runningJobs[id] \in Jobs
                      /\ m_runningJobs[id] # NoJob
                      /\ m_runningJobs[id] \in HeldBy("running")
                      /\ workloadID[m_runningJobs[id]] = id
                      /\ id # 0
                      /\ content[m_runningJobs[id]] = "param"
    BY Zenon
  <2>1. m_runningJobs[id] \in Jobs
    BY Zenon DEF Inv, TypeOK
  <2>2. m_runningJobs[id] \in HeldBy("running")
    BY Zenon DEF Inv, HomeInv, Range
  <2>3. home[m_runningJobs[id]] = "running"
    BY Zenon, <2>2 DEF HeldBy
  <2>4. workloadID[m_runningJobs[id]] = id
    BY Zenon DEF Inv, IdInv
  <2>5. id # 0
    BY Zenon, <2>1, <2>3, <2>4 DEF Inv, IdInv, NotSentYet
  <2>6. content[m_runningJobs[id]] = "param"
    BY Zenon, <2>1, <2>3 DEF Inv, ContentInv
  <2> QED
    BY Zenon, <2>1, <2>2, <2>4, <2>5, <2>6
<1>5. \A i \in 1..n : R[i].job # NoJob =>
          /\ results[i].id \in DOMAIN m_runningJobs
          /\ R[i].job = m_runningJobs[results[i].id]
          /\ \A k \in 1..(i - 1) : results[k].id # results[i].id
  BY Zenon, <1>3
<1>6. ASSUME NEW i \in 1..n
      PROVE  R[i] \in PendingMsgs
  <2>1. R[i].job \in Jobs \cup {NoJob}
    BY Zenon, <1>4, <1>5
  <2>2. R[i] = [id |-> R[i].id, job |-> R[i].job, data |-> R[i].data]
    BY Zenon, <1>1 DEF Removed
  <2> QED
    BY Zenon, <1>2, <1>3, <2>1, <2>2 DEF PendingMsgs
<1>7. R \in Seq(PendingMsgs) /\ R # <<>> /\ Len(R) <= MaxJobSize
  <2>1. R = [i \in 1..n |-> R[i]]
    BY Zenon, <1>1 DEF Removed
  <2>2. R \in [1..n -> PendingMsgs] /\ n \in Nat
    BY <1>6, <2>1
  <2>3. R \in Seq(PendingMsgs) /\ Len(R) = n
    BY <2>2
  <2> QED
    BY <2>3
<1>8. DistinctJobs(R)
  <2> SUFFICES ASSUME NEW i \in 1..n, NEW k \in 1..n, R[i].job = R[k].job, R[i].job # NoJob
               PROVE  i = k
    BY Zenon, <1>3 DEF DistinctJobs
  <2>1. results[i].id = results[k].id
    BY <1>4, <1>5
  <2>2. i <= k /\ k <= i
    <3>1. ~(k \in 1..(i - 1)) /\ ~(i \in 1..(k - 1))
      BY Zenon, <1>5, <2>1
    <3> QED
      BY <3>1
  <2> QED
    BY <2>2
<1>9. JobsOf(R) \subseteq HeldBy("running")
  BY <1>3, <1>4, <1>5 DEF JobsOf
<1>10. ASSUME NEW i \in 1..n, R[i].job # NoJob
       PROVE  /\ workloadID[R[i].job] = R[i].id
              /\ R[i].data.job = R[i].job
              /\ R[i].data.intact
  <2>1. /\ R[i].id = results[i].id
        /\ R[i].data = results[i]
        /\ R[i].job \in Jobs
        /\ workloadID[R[i].job] = results[i].id
        /\ results[i].id # 0
        /\ content[R[i].job] = "param"
    BY <1>3, <1>4, <1>5, <1>10
  <2>2. results[i].job = R[i].job
    BY <1>2, <2>1 DEF Inv, IdInv
  <2> QED
    BY Zenon, <1>2, <2>1, <2>2
<1>11. /\ DOMAIN W = DOMAIN m_runningJobs \ {results[i].id : i \in 1..n}
       /\ \A id \in DOMAIN W : W[id] = m_runningJobs[id]
       /\ W \in [DOMAIN W -> Jobs]
  BY Zenon, <1>1, <1>4 DEF Without
<1>12. ASSUME NEW id \in DOMAIN m_runningJobs
       PROVE  id \notin DOMAIN W <=> m_runningJobs[id] \in JobsOf(R)
  <2>1. ASSUME id \notin DOMAIN W
        PROVE  m_runningJobs[id] \in JobsOf(R)
    <3> DEFINE T == {i \in 1..n : results[i].id = id}
    <3>1. T \in SUBSET Nat /\ T # {}
      BY <1>11, <2>1
    <3>2. PICK m \in T : \A k \in T : m <= k
      BY Zenon, <3>1, NatMin
    <3>3. \A k \in 1..(m - 1) : results[k].id # results[m].id
      BY <3>2
    <3>4. m \in 1..n /\ results[m].id = id
      BY Zenon, <3>2
    <3>5. R[m].job = m_runningJobs[id]
      BY Zenon, <1>3, <3>3, <3>4
    <3> QED
      BY <1>3, <1>4, <3>4, <3>5 DEF JobsOf
  <2>2. ASSUME m_runningJobs[id] \in JobsOf(R)
        PROVE  id \notin DOMAIN W
    <3>1. PICK i \in 1..n : R[i].job = m_runningJobs[id]
      BY Zenon, <1>3, <2>2 DEF JobsOf
    <3>2. results[i].id = id
      BY <1>4, <1>5, <3>1
    <3> QED
      BY Zenon, <1>11, <3>2
  <2> QED
    BY Zenon, <2>1, <2>2
<1>13. Range(W) = Range(m_runningJobs) \ JobsOf(R)
  BY <1>11, <1>12 DEF Range
<1> QED
  BY Zenon, <1>3, <1>7, <1>8, <1>9, <1>10, <1>11, <1>13

(***************************************************************************)
(* Places of jobs when some of them move.                                  *)
(***************************************************************************)
LEMMA SentIfHomesMove ==
    ASSUME TypeOK, UNCHANGED exp,
           \A k \in Jobs : home'[k] \in NotSentYet => home'[k] = home[k],
           \A d \in Conns : exp[d] # <<>> => pc'[d] = pc[d]
    PROVE  \A k \in Jobs : Sent(k) => Sent(k)'
<1> SUFFICES ASSUME NEW k \in Jobs, Sent(k)
             PROVE  Sent(k)'
  BY Zenon
<1>1. home'[k] \notin NotSentYet
  BY Zenon DEF Sent
<1>2. ASSUME NEW d \in Conns, k \in Range(exp[d])
      PROVE  pc'[d] = "jobSent" /\ k = Head(exp[d])
  <2>1. exp[d] # <<>>
    BY Zenon, <1>2, EmptyRange
  <2> QED
    BY Zenon, <1>2, <2>1 DEF Sent
<1> QED
  BY Zenon, <1>1, <1>2 DEF Sent

(***************************************************************************)
(* ResultFollows preserves the invariant.                                  *)
(***************************************************************************)
LEMMA ResultFollowsInv ==
    ASSUME Inv, NEW c \in Conns, NEW run,
           NEW results \in SeqsUpTo(ResultsOf(run), MaxJobSize), ResultFollows(c, run, results)
    PROVE  Inv'
<1> USE ConstAssumption
<1> DEFINE R == Removed(results)
<1>0. results \in SeqsUpTo(clientJobs, MaxJobSize)
  BY Zenon DEF ResultFollows, AcceptsResultsOf, ResultsOf
<1>1. /\ R \in Seq(PendingMsgs)
      /\ R # <<>>
      /\ Len(R) <= MaxJobSize
      /\ DistinctJobs(R)
      /\ JobsOf(R) \subseteq HeldBy("running")
      /\ DOMAIN R = DOMAIN results
      /\ \A i \in DOMAIN R : R[i].job # NoJob =>
            /\ workloadID[R[i].job] = R[i].id
            /\ R[i].data.job = R[i].job
            /\ R[i].data.intact
  BY Zenon, <1>0, RemovedJobs
<1>2. /\ Range(m_runningJobs') = Range(m_runningJobs) \ JobsOf(R)
      /\ \A id \in DOMAIN m_runningJobs' :
            id \in DOMAIN m_runningJobs /\ m_runningJobs'[id] = m_runningJobs[id]
      /\ m_runningJobs' \in [DOMAIN m_runningJobs' -> Jobs]
  <2>1. m_runningJobs' = Without(m_runningJobs, results)
    BY Zenon DEF ResultFollows
  <2> QED
    BY Zenon, <1>0, <2>1, RemovedJobs
<1>3. \A k \in Jobs : home'[k] = IF k \in JobsOf(R) THEN c ELSE home[k]
  <2>1. home' = [j \in Jobs |-> IF \E i \in DOMAIN results : R[i].job = j THEN c ELSE home[j]]
    BY Zenon DEF ResultFollows
  <2>2. \A k \in Jobs : (\E i \in DOMAIN results : R[i].job = k) <=> k \in JobsOf(R)
    BY Zenon, <1>1 DEF JobsOf
  <2> QED
    BY Zenon, <2>1, <2>2
<1>4. /\ pc[c] = "idle" /\ pc' = [pc EXCEPT ![c] = "rcvResult"]
      /\ msgs' = [msgs EXCEPT ![c] = R]
      /\ pc'[c] = "rcvResult" /\ msgs'[c] = R
      /\ \A d \in Conns \ {c} : pc'[d] = pc[d] /\ msgs'[d] = msgs[d]
      /\ UNCHANGED <<exp, recvd, temp_exp, content, workloadID, clientJobs>>
  BY Zenon DEF ResultFollows, At, Goto, Inv, TypeOK, networkVars
<1>5. exp[c] = <<>> /\ recvd[c] = <<>> /\ msgs[c] = <<>>
  BY Zenon, <1>4 DEF Inv, PcInv, Sending
<1> HIDE DEF R
<1>6. TypeOK'
  <2>1. pc' \in [Conns -> Pcs] /\ msgs' \in [Conns -> Seq(PendingMsgs)]
    BY Zenon, <1>1, <1>4 DEF Inv, TypeOK, Pcs
  <2>2. home' \in [Jobs -> Places \cup Conns]
    BY Zenon DEF ResultFollows, Inv, TypeOK
  <2>3. DOMAIN m_runningJobs' \subseteq Nat
    BY Zenon, <1>2 DEF Inv, TypeOK
  <2> QED
    BY Zenon, <1>2, <2>1, <2>2, <2>3 DEF ResultFollows, Inv, TypeOK, counterVars, campaignVars, networkVars
<1>7. PcInv'
  <2>1. Len(R) + Len(recvd[c]) <= MaxJobSize
    BY <1>1, <1>5
  <2> QED
    BY ZenonT(60), <1>1, <1>4, <1>5, <2>1 DEF Inv, PcInv, Sending
<1>8. HomeInv'
  <2>1. \A d \in Conns : \A p \in Places : d # p
    BY Zenon, PlacesAreNotConns
  <2>2. HeldBy(c) = {}
    BY Zenon, <1>5, EmptyRange DEF Inv, HomeInv
  <2>3. JobsOf(R) \subseteq Jobs /\ \A k \in JobsOf(R) : home[k] = "running"
    BY Zenon, <1>1 DEF HeldBy
  <2>4. /\ HeldBy(c)' = JobsOf(R)
        /\ HeldBy("running")' = HeldBy("running") \ JobsOf(R)
        /\ \A p : p # c /\ p # "running" => HeldBy(p)' = HeldBy(p)
    BY Zenon, <1>3, <2>1, <2>2, <2>3 DEF HeldBy, Places
  <2>5. /\ HeldBy("undone")' = HeldBy("undone") /\ HeldBy("done")' = HeldBy("done")
        /\ HeldBy("collected")' = HeldBy("collected")
        /\ \A d \in Conns \ {c} : HeldBy(d)' = HeldBy(d)
    BY Zenon, <2>1, <2>4 DEF Places
  <2>6. Range(m_runningJobs') = HeldBy("running")'
    BY Zenon, <1>2, <2>4 DEF Inv, HomeInv
  <2>7. ASSUME NEW d \in Conns
        PROVE  /\ HeldBy(d)' = Range(exp[d]) \cup Range(recvd[d]) \cup JobsOf(msgs'[d])
               /\ JobsOf(msgs'[d]) \cap Range(recvd[d]) = {}
               /\ DistinctJobs(msgs'[d])
    <3>1. CASE d = c
      BY SMTT(40), <1>1, <1>4, <1>5, <2>4, <3>1, EmptyRange
    <3>2. CASE d # c
      BY Zenon, <1>4, <2>5, <3>2 DEF Inv, HomeInv
    <3> QED
      BY Zenon, <3>1, <3>2
  <2> QED
    BY Zenon, <1>4, <2>5, <2>6, <2>7 DEF ResultFollows, Inv, HomeInv, campaignVars
<1>9. IdInv'
  <2>1. \A k \in Jobs : home'[k] \notin NotSentYet => workloadID[k] # 0
    <3>1. \A k \in JobsOf(R) : home[k] \notin NotSentYet
      BY Zenon, <1>1 DEF HeldBy, NotSentYet
    <3> QED
      BY Zenon, <1>3, <3>1 DEF Inv, IdInv
  <2>2. \A id \in DOMAIN m_runningJobs' : workloadID[m_runningJobs'[id]] = id
    BY <1>2 DEF Inv, IdInv
  <2>3. \A d \in Conns : \A i \in DOMAIN msgs'[d] :
            msgs'[d][i].job # NoJob => workloadID[msgs'[d][i].job] = msgs'[d][i].id
    BY <1>1, <1>4 DEF Inv, IdInv
  <2> QED
    BY SMTT(40), <1>4, <2>1, <2>2, <2>3 DEF ResultFollows, Inv, IdInv, counterVars
<1>10. ContentInv'
  <2>1. c \notin NotSentYet \cup {"running", "done", "collected"}
    BY Zenon DEF NotSentYet, Places
  <2>2. \A k \in JobsOf(R) : content[k] = "param"
    BY Zenon, <1>1 DEF Inv, ContentInv, HeldBy
  <2> QED
    BY <1>3, <1>4, <2>1, <2>2 DEF Inv, ContentInv
<1>11. ClientInv'
  <2>1. \A k \in Jobs : Sent(k) => Sent(k)'
    <3>1. \A k \in Jobs : home'[k] \in NotSentYet => home'[k] = home[k]
      BY Zenon, <1>3 DEF NotSentYet, Places
    <3>2. \A d \in Conns : exp[d] # <<>> => pc'[d] = pc[d]
      BY Zenon, <1>4, <1>5
    <3>3. UNCHANGED exp /\ TypeOK
      BY Zenon, <1>4 DEF Inv
    <3> QED
      BY Zenon, <3>1, <3>2, <3>3, SentIfHomesMove
  <2>2. \A w \in clientJobs : w.job \in Jobs
    BY Zenon DEF Inv, TypeOK, Workloads
  <2>3. \A d \in Conns : temp_exp[d] # NoJob => temp_exp[d] \in Jobs
    BY Zenon DEF Inv, TypeOK
  <2>4. \A d \in Conns : \A i \in DOMAIN msgs'[d] :
            msgs'[d][i].job # NoJob =>
                msgs'[d][i].data.job = msgs'[d][i].job /\ msgs'[d][i].data.intact
    BY <1>1, <1>4 DEF Inv, ClientInv
  <2> QED
    BY Zenon, <1>4, <2>1, <2>2, <2>3, <2>4 DEF Inv, ClientInv
<1> QED
  BY Zenon, <1>6, <1>7, <1>8, <1>9, <1>10, <1>11 DEF ResultFollows, Inv, campaignVars

(***************************************************************************)
(* The first of the announced results is read.                             *)
(***************************************************************************)
LEMMA TailMsgs ==
    ASSUME NEW ms \in Seq(PendingMsgs), ms # <<>>, DistinctJobs(ms)
    PROVE  /\ Head(ms) \in PendingMsgs
           /\ Head(ms).job \in Jobs \cup {NoJob}
           /\ Tail(ms) \in Seq(PendingMsgs)
           /\ Len(Tail(ms)) = Len(ms) - 1
           /\ DistinctJobs(Tail(ms))
           /\ JobsOf(Tail(ms)) = JobsOf(ms) \ {Head(ms).job}
           /\ Head(ms).job # NoJob => Head(ms).job \in JobsOf(ms)
           /\ \A i \in DOMAIN Tail(ms) : i + 1 \in DOMAIN ms /\ Tail(ms)[i] = ms[i + 1]
           /\ 1 \in DOMAIN ms /\ Head(ms) = ms[1]
<1>1. /\ Tail(ms) \in Seq(PendingMsgs)
      /\ Len(ms) \in Nat \ {0}
      /\ Len(Tail(ms)) = Len(ms) - 1
      /\ DOMAIN ms = 1..Len(ms)
      /\ DOMAIN Tail(ms) = 1..(Len(ms) - 1)
      /\ \A i \in 1..(Len(ms) - 1) : Tail(ms)[i] = ms[i + 1]
      /\ Head(ms) = ms[1]
      /\ Head(ms) \in PendingMsgs
  OBVIOUS
<1>2. \A i \in DOMAIN Tail(ms) : i + 1 \in DOMAIN ms /\ Tail(ms)[i] = ms[i + 1]
  BY <1>1
<1>3. \A i, k \in DOMAIN Tail(ms) : i + 1 = k + 1 => i = k
  BY <1>1
<1>4. DistinctJobs(Tail(ms))
  BY <1>2, <1>3 DEF DistinctJobs
<1>5. \A i \in DOMAIN ms : i # 1 => i - 1 \in DOMAIN Tail(ms) /\ Tail(ms)[i - 1] = ms[i]
  BY <1>1
<1>6. \A i \in DOMAIN Tail(ms) : i + 1 # 1 /\ 1 \in DOMAIN ms
  BY <1>1
<1>7. JobsOf(Tail(ms)) \subseteq JobsOf(ms) \ {Head(ms).job}
  <2> SUFFICES ASSUME NEW i \in DOMAIN Tail(ms), Tail(ms)[i].job # NoJob
               PROVE  Tail(ms)[i].job \in JobsOf(ms) \ {Head(ms).job}
    BY Zenon DEF JobsOf
  <2>1. ms[i + 1].job # ms[1].job
    BY Zenon, <1>2, <1>6 DEF DistinctJobs
  <2> QED
    BY Zenon, <1>1, <1>2, <2>1 DEF JobsOf
<1>8. JobsOf(ms) \ {Head(ms).job} \subseteq JobsOf(Tail(ms))
  BY <1>1, <1>5 DEF JobsOf
<1>9. 1 \in DOMAIN ms
  BY <1>1
<1> QED
  BY Zenon, <1>1, <1>2, <1>4, <1>7, <1>8, <1>9 DEF JobsOf, PendingMsgs

(***************************************************************************)
(* A result that is read replaces the parameters of the job it is for.     *)
(***************************************************************************)
LEMMA ReadResultEffect ==
    ASSUME Inv, NEW c \in Conns, pc[c] = "rcvResult", ReadResult(Head(msgs[c]))
    PROVE  /\ content' \in [Jobs -> Contents]
           /\ m_DoneCount' \in Nat
           /\ ReceivedWith(c, Head(msgs[c])) \in Seq(Jobs)
           /\ IsInjective(ReceivedWith(c, Head(msgs[c])))
           /\ Range(ReceivedWith(c, Head(msgs[c])))
                 = Range(recvd[c]) \cup (JobsOf(msgs[c]) \ JobsOf(Tail(msgs[c])))
           /\ Len(ReceivedWith(c, Head(msgs[c]))) <= Len(recvd[c]) + 1
           /\ Range(ReceivedWith(c, Head(msgs[c]))) \cap JobsOf(Tail(msgs[c])) = {}
           /\ \A k \in Range(ReceivedWith(c, Head(msgs[c]))) : content'[k] = "result"
           /\ \A k \in Jobs \ Range(ReceivedWith(c, Head(msgs[c]))) : content'[k] = content[k]
<1> USE ConstAssumption
<1> DEFINE m == Head(msgs[c])
           r == ReceivedWith(c, m)
<1>0. /\ msgs[c] \in Seq(PendingMsgs) /\ msgs[c] # <<>> /\ DistinctJobs(msgs[c])
      /\ recvd[c] \in Seq(Jobs) /\ IsInjective(recvd[c])
      /\ JobsOf(msgs[c]) \cap Range(recvd[c]) = {}
  BY Zenon DEF Inv, TypeOK, PcInv, HomeInv
<1>1. /\ m.job \in Jobs \cup {NoJob}
      /\ JobsOf(Tail(msgs[c])) = JobsOf(msgs[c]) \ {m.job}
      /\ m.job # NoJob => m.job \in JobsOf(msgs[c])
      /\ 1 \in DOMAIN msgs[c] /\ m = msgs[c][1]
  BY Zenon, <1>0, TailMsgs
<1>2. \A k \in Range(recvd[c]) : content[k] = "result"
  BY Zenon DEF Inv, ContentInv
<1>3. /\ content \in [Jobs -> Contents] /\ m_DoneCount \in Nat
      /\ Len(recvd[c]) \in Nat /\ Range(recvd[c]) \subseteq Jobs
  BY SMTT(40), <1>0 DEF Inv, TypeOK, Range
<1>4. CASE m.job = NoJob
  <2>1. r = recvd[c] /\ UNCHANGED <<content, m_DoneCount>>
    BY Zenon, <1>4 DEF ReceivedWith, ReadResult
  <2>2. JobsOf(Tail(msgs[c])) = JobsOf(msgs[c])
    BY Zenon, <1>1, <1>4 DEF JobsOf
  <2>3. Range(r) = Range(recvd[c]) \cup (JobsOf(msgs[c]) \ JobsOf(Tail(msgs[c])))
    BY Zenon, <2>1, <2>2
  <2> QED
    BY <1>0, <1>2, <1>3, <2>1, <2>2, <2>3
<1>5. CASE m.job # NoJob
  <2>1. /\ r = Append(recvd[c], m.job)
        /\ content' = [content EXCEPT ![m.job] = ResultFor(m)]
        /\ m_DoneCount' = m_DoneCount + 1
    BY Zenon, <1>5 DEF ReceivedWith, ReadResult
  <2>2. ResultFor(m) = "result"
    BY <1>1, <1>5 DEF ResultFor, Inv, ClientInv
  <2>3. m.job \in Jobs /\ m.job \notin Range(recvd[c])
    BY Zenon, <1>0, <1>1, <1>5
  <2>4. /\ Append(recvd[c], m.job) \in Seq(Jobs)
        /\ Range(Append(recvd[c], m.job)) = Range(recvd[c]) \cup {m.job}
        /\ IsInjective(Append(recvd[c], m.job))
        /\ Len(Append(recvd[c], m.job)) = Len(recvd[c]) + 1
    BY <1>0, <2>3, AppendRange
  <2>5. Range(r) = Range(recvd[c]) \cup (JobsOf(msgs[c]) \ JobsOf(Tail(msgs[c])))
    BY Zenon, <1>1, <1>5, <2>1, <2>4
  <2>6. Range(r) \cap JobsOf(Tail(msgs[c])) = {}
    BY Zenon, <1>0, <1>1, <2>1, <2>4
  <2>7. /\ content' \in [Jobs -> Contents]
        /\ \A k \in Range(r) : content'[k] = "result"
        /\ \A k \in Jobs \ Range(r) : content'[k] = content[k]
    <3>1. content' = [content EXCEPT ![m.job] = "result"] /\ "result" \in Contents
      BY Zenon, <2>1, <2>2 DEF Contents
    <3>2. /\ content' \in [Jobs -> Contents] /\ content'[m.job] = "result"
          /\ \A k \in Jobs \ {m.job} : content'[k] = content[k]
      BY Zenon, <1>3, <2>3, <3>1
    <3>3. Range(r) = Range(recvd[c]) \cup {m.job}
      BY Zenon, <2>1, <2>4
    <3> HIDE DEF m, r
    <3> QED
      BY Zenon, <1>2, <1>3, <3>2, <3>3
  <2>8. m_DoneCount' \in Nat /\ Len(r) <= Len(recvd[c]) + 1
    BY <1>3, <2>1, <2>4
  <2> QED
    BY Zenon, <2>1, <2>4, <2>5, <2>6, <2>7, <2>8
<1> QED
  BY Zenon, <1>4, <1>5

(***************************************************************************)
(* RcvResult preserves the invariant.                                      *)
(***************************************************************************)
LEMMA RcvResultInv ==
    ASSUME Inv, NEW c \in Conns, RcvResult(c)
    PROVE  Inv'
<1> USE ConstAssumption
<1> DEFINE r == ReceivedWith(c, Head(msgs[c]))
           t == Tail(msgs[c])
<1>0. /\ msgs[c] \in Seq(PendingMsgs) /\ msgs[c] # <<>> /\ DistinctJobs(msgs[c])
      /\ pc[c] = "rcvResult" /\ t # <<>>
      /\ recvd' = [recvd EXCEPT ![c] = r] /\ msgs' = [msgs EXCEPT ![c] = t]
      /\ recvd'[c] = r /\ msgs'[c] = t
      /\ \A d \in Conns \ {c} : recvd'[d] = recvd[d] /\ msgs'[d] = msgs[d]
      /\ UNCHANGED <<home, pc, exp, temp_exp, workloadID, clientJobs>>
  BY Zenon DEF RcvResult, At, Inv, TypeOK, PcInv, HomeInv, networkVars
<1>1. /\ t \in Seq(PendingMsgs)
      /\ Len(t) = Len(msgs[c]) - 1
      /\ DistinctJobs(t)
      /\ JobsOf(t) \subseteq JobsOf(msgs[c])
      /\ \A i \in DOMAIN t : i + 1 \in DOMAIN msgs[c] /\ t[i] = msgs[c][i + 1]
  BY <1>0, TailMsgs
<1>2. /\ content' \in [Jobs -> Contents]
      /\ m_DoneCount' \in Nat
      /\ r \in Seq(Jobs)
      /\ IsInjective(r)
      /\ Range(r) = Range(recvd[c]) \cup (JobsOf(msgs[c]) \ JobsOf(t))
      /\ Len(r) <= Len(recvd[c]) + 1
      /\ Range(r) \cap JobsOf(t) = {}
      /\ \A k \in Range(r) : content'[k] = "result"
      /\ \A k \in Jobs \ Range(r) : content'[k] = content[k]
  BY Zenon, <1>0, ReadResultEffect DEF RcvResult
<1> HIDE DEF r, t
<1>3. TypeOK'
  <2>1. recvd' \in [Conns -> Seq(Jobs)] /\ msgs' \in [Conns -> Seq(PendingMsgs)]
    BY Zenon, <1>0, <1>1, <1>2 DEF Inv, TypeOK
  <2> QED
    BY Zenon, <1>2, <2>1 DEF RcvResult, Inv, TypeOK, queueVars, campaignVars, networkVars
<1>4. PcInv'
  <2>1. Len(t) + Len(r) <= MaxJobSize
    <3>1. /\ Len(msgs[c]) \in Nat /\ Len(recvd[c]) \in Nat /\ Len(r) \in Nat /\ Len(t) \in Nat
      <4>1. recvd[c] \in Seq(Jobs)
        BY Zenon DEF Inv, TypeOK
      <4> QED
        BY <1>0, <1>1, <1>2, <4>1
    <3>2. Len(msgs[c]) + Len(recvd[c]) <= MaxJobSize
      BY Zenon DEF Inv, PcInv
    <3>3. Len(t) = Len(msgs[c]) - 1 /\ Len(r) <= Len(recvd[c]) + 1
      BY Zenon, <1>1, <1>2
    <3> DEFINE lm == Len(msgs[c])
               lr == Len(recvd[c])
               lt == Len(t)
               lq == Len(r)
    <3>4. lm \in Nat /\ lr \in Nat /\ lt \in Nat /\ lq \in Nat /\ MaxJobSize \in Nat
      BY Zenon, <3>1
    <3>5. lm + lr <= MaxJobSize /\ lt = lm - 1 /\ lq <= lr + 1
      BY Zenon, <3>2, <3>3
    <3> HIDE DEF lm, lr, lt, lq
    <3>6. lt + lq <= MaxJobSize
      BY <3>4, <3>5
    <3> QED
      BY Zenon, <3>6 DEF lt, lq
  <2> QED
    BY Zenon, <1>0, <2>1 DEF Inv, PcInv
<1>5. HomeInv'
  <2>1. HeldBy(c) = Range(exp[c]) \cup Range(r) \cup JobsOf(t)
    BY <1>1, <1>2 DEF Inv, HomeInv
  <2>2. \A p : HeldBy(p)' = HeldBy(p)
    BY Zenon, <1>0 DEF HeldBy
  <2>3. ASSUME NEW d \in Conns
        PROVE  /\ HeldBy(d) = Range(exp[d]) \cup Range(recvd'[d]) \cup JobsOf(msgs'[d])
               /\ IsInjective(recvd'[d])
               /\ JobsOf(msgs'[d]) \cap Range(recvd'[d]) = {}
               /\ DistinctJobs(msgs'[d])
    BY ZenonT(40), <1>0, <1>1, <1>2, <2>1 DEF Inv, HomeInv
  <2> QED
    BY Zenon, <1>0, <2>2, <2>3 DEF RcvResult, Inv, HomeInv, queueVars, campaignVars
<1>6. IdInv'
  <2>1. \A d \in Conns : \A i \in DOMAIN msgs'[d] :
            msgs'[d][i].job # NoJob => workloadID[msgs'[d][i].job] = msgs'[d][i].id
    BY <1>0, <1>1 DEF Inv, IdInv
  <2> QED
    BY <1>0, <2>1 DEF RcvResult, Inv, IdInv, queueVars
<1>7. ContentInv'
  <2>1. Range(r) \subseteq HeldBy(c) /\ HeldBy(c) \subseteq Jobs
    BY <1>1, <1>2 DEF Inv, HomeInv, HeldBy
  <2>2. \A k \in Jobs : home[k] # c => content'[k] = content[k]
    BY Zenon, <1>2, <2>1 DEF HeldBy
  <2>3. /\ c \notin NotSentYet \cup {"running"} /\ c \notin {"done", "collected"}
    BY Zenon DEF NotSentYet, Places
  <2>4. \A d \in Conns \ {c} : Range(exp[d]) \cup Range(recvd[d]) \cup JobsOf(msgs[d]) \subseteq HeldBy(d)
    BY Zenon DEF Inv, HomeInv
  <2>5. \A d \in Conns \ {c} : \A k \in Range(exp[d]) \cup Range(recvd[d]) \cup JobsOf(msgs[d]) :
            content'[k] = content[k]
    BY <2>2, <2>4 DEF HeldBy
  <2>6. exp[c] = <<>>
    BY Zenon, <1>0 DEF Inv, PcInv, Sending
  <2>7. \A k \in JobsOf(t) : content'[k] = "param"
    <3>1. \A k \in JobsOf(t) : k \in Jobs /\ k \notin Range(r) /\ content[k] = "param"
      BY SMTT(40), <1>1, <1>2 DEF Inv, HomeInv, HeldBy, ContentInv
    <3> QED
      BY Zenon, <1>2, <3>1
  <2>8. ASSUME NEW d \in Conns
        PROVE  /\ \A k \in Range(exp[d]) \cup JobsOf(msgs'[d]) : content'[k] = "param"
               /\ \A k \in Range(recvd'[d]) : content'[k] = "result"
    BY SMTT(40), <1>0, <1>2, <2>5, <2>6, <2>7, EmptyRange DEF Inv, ContentInv
  <2>9. /\ \A k \in Jobs : home[k] \in NotSentYet \cup {"running"} => content'[k] = "param"
        /\ \A k \in Jobs : home[k] \in {"done", "collected"} => content'[k] = "result"
    BY Zenon, <2>2, <2>3 DEF Inv, ContentInv
  <2> QED
    BY Zenon, <1>0, <2>8, <2>9 DEF ContentInv
<1>8. ClientInv'
  <2>1. \A k : Sent(k)' <=> Sent(k)
    BY Zenon, <1>0 DEF Sent
  <2>2. \A k \in Jobs : content'[k] = content[k] \/ content'[k] = "result"
    BY Zenon, <1>2
  <2>3. \A w \in clientJobs : w.job \in Jobs
    BY Zenon DEF Inv, TypeOK, Workloads
  <2>4. \A w \in clientJobs : w.intact \/ content'[w.job] # "param"
    BY Zenon, <2>2, <2>3 DEF Inv, ClientInv
  <2>5. \A d \in Conns : \A i \in DOMAIN msgs'[d] :
            msgs'[d][i].job # NoJob =>
                msgs'[d][i].data.job = msgs'[d][i].job /\ msgs'[d][i].data.intact
    BY <1>0, <1>1 DEF Inv, ClientInv
  <2> QED
    BY Zenon, <1>0, <2>1, <2>4, <2>5 DEF Inv, ClientInv
<1> QED
  BY Zenon, <1>3, <1>4, <1>5, <1>6, <1>7, <1>8 DEF RcvResult, Inv, queueVars, campaignVars

(***************************************************************************)
(* Inserting jobs again whose result could not be read.                    *)
(***************************************************************************)
LEMMA ReinsertedJobs ==
    ASSUME Inv, NEW c \in Conns, NEW failed \in Seq(PendingMsgs), DistinctJobs(failed),
           JobsOf(failed) \subseteq HeldBy(c),
           \A i \in DOMAIN failed : failed[i].job # NoJob =>
               workloadID[failed[i].job] = failed[i].id
    PROVE  /\ DOMAIN Reinserted(m_runningJobs, failed) \subseteq Nat
           /\ Reinserted(m_runningJobs, failed) \in
                 [DOMAIN Reinserted(m_runningJobs, failed) -> Jobs]
           /\ Range(Reinserted(m_runningJobs, failed)) = Range(m_runningJobs) \cup JobsOf(failed)
           /\ \A id \in DOMAIN Reinserted(m_runningJobs, failed) :
                 workloadID[Reinserted(m_runningJobs, failed)[id]] = id
<1> USE ConstAssumption
<1> DEFINE F == FailedJobs(failed)
           M == Reinserted(m_runningJobs, failed)
           IDs == {failed[i].id : i \in F}
           at(id) == CHOOSE i \in F : failed[i].id = id
<1>1. \A i \in F : /\ i \in DOMAIN failed
                   /\ failed[i].job \in Jobs
                   /\ failed[i].job \in JobsOf(failed)
                   /\ failed[i].id \in Nat
                   /\ workloadID[failed[i].job] = failed[i].id
                   /\ home[failed[i].job] = c
  <2> SUFFICES ASSUME NEW i \in F
               PROVE  /\ i \in DOMAIN failed
                      /\ failed[i].job \in Jobs
                      /\ failed[i].job \in JobsOf(failed)
                      /\ failed[i].id \in Nat
                      /\ workloadID[failed[i].job] = failed[i].id
                      /\ home[failed[i].job] = c
    BY Zenon
  <2>1. i \in DOMAIN failed /\ failed[i].job # NoJob
    BY Zenon DEF FailedJobs
  <2>2. failed[i] \in PendingMsgs
    BY <2>1
  <2>3. failed[i].job \in JobsOf(failed)
    BY Zenon, <2>1 DEF JobsOf
  <2> QED
    BY Zenon, <2>1, <2>2, <2>3 DEF PendingMsgs, HeldBy
<1>2. \A id \in DOMAIN m_runningJobs : /\ id \in Nat
                                       /\ m_runningJobs[id] \in Jobs
                                       /\ home[m_runningJobs[id]] = "running"
                                       /\ workloadID[m_runningJobs[id]] = id
                                       /\ id # 0
  <2> SUFFICES ASSUME NEW id \in DOMAIN m_runningJobs
               PROVE  /\ id \in Nat
                      /\ m_runningJobs[id] \in Jobs
                      /\ home[m_runningJobs[id]] = "running"
                      /\ workloadID[m_runningJobs[id]] = id
                      /\ id # 0
    BY Zenon
  <2>1. id \in Nat /\ m_runningJobs[id] \in Jobs /\ m_runningJobs[id] \in Range(m_runningJobs)
    BY Zenon DEF Inv, TypeOK, Range
  <2>2. home[m_runningJobs[id]] = "running" /\ workloadID[m_runningJobs[id]] = id
    BY Zenon, <2>1 DEF Inv, HomeInv, HeldBy, IdInv
  <2> QED
    BY Zenon, <2>1, <2>2 DEF Inv, IdInv, NotSentYet
<1>3. ASSUME NEW i \in F
      PROVE  failed[i].id \notin DOMAIN m_runningJobs
  <2> SUFFICES ASSUME failed[i].id \in DOMAIN m_runningJobs PROVE FALSE
    BY Zenon
  <2>1. m_runningJobs[failed[i].id] = failed[i].job
    BY <1>1, <1>2 DEF Inv, IdInv
  <2>2. c # "running"
    BY Zenon DEF Places
  <2> QED
    BY <1>1, <1>2, <2>1, <2>2
<1>4. /\ DOMAIN M = DOMAIN m_runningJobs \cup IDs
      /\ \A id \in DOMAIN m_runningJobs : M[id] = m_runningJobs[id]
      /\ \A id \in DOMAIN M : id \notin DOMAIN m_runningJobs => M[id] = failed[at(id)].job
  BY Zenon DEF Reinserted
<1>5. \A id \in IDs : at(id) \in F /\ failed[at(id)].id = id
  BY Zenon
<1> HIDE DEF M, at
<1>6. \A id \in IDs : id \notin DOMAIN m_runningJobs
  BY Zenon, <1>3
<1>7. \A id \in IDs : M[id] \in Jobs /\ M[id] \in JobsOf(failed) /\ workloadID[M[id]] = id
  BY <1>1, <1>4, <1>5, <1>6
<1>8. DOMAIN M \subseteq Nat
  BY <1>1, <1>2, <1>4
<1>9. \A id \in DOMAIN M : M[id] \in Jobs /\ workloadID[M[id]] = id
  BY Zenon, <1>2, <1>4, <1>7
<1>10. M \in [DOMAIN M -> Jobs]
  <2>1. M = [id \in DOMAIN M |-> M[id]]
    BY DEF M, Reinserted
  <2> QED
    BY Zenon, <1>9, <2>1
<1>11. Range(M) \subseteq Range(m_runningJobs) \cup JobsOf(failed)
  BY Zenon, <1>4, <1>7 DEF Range
<1>12. Range(m_runningJobs) \subseteq Range(M)
  BY <1>4 DEF Range
<1>13. ASSUME NEW j \in JobsOf(failed)
       PROVE  j \in Range(M)
  <2>1. PICK i \in F : failed[i].job = j
    BY Zenon DEF JobsOf, FailedJobs
  <2>2. failed[i].id \in IDs /\ failed[i].id \in DOMAIN M
    BY Zenon, <1>4
  <2>3. M[failed[i].id] = j
    <3>1. M[failed[i].id] \in Jobs /\ workloadID[M[failed[i].id]] = failed[i].id
      BY Zenon, <1>7, <2>2
    <3>2. workloadID[j] = failed[i].id /\ j \in Jobs /\ home[j] = c
      BY Zenon, <1>1, <2>1
    <3>3. failed[i].id # 0
      <4>1. c \notin NotSentYet
        BY Zenon DEF NotSentYet, Places
      <4> QED
        BY Zenon, <3>2, <4>1 DEF Inv, IdInv
    <3> QED
      BY SMTT(40), <3>1, <3>2, <3>3 DEF Inv, IdInv
  <2> QED
    BY Zenon, <2>2, <2>3 DEF Range
<1> QED
  BY Zenon, <1>8, <1>9, <1>10, <1>11, <1>12, <1>13 DEF M

(***************************************************************************)
(* Received results extend the done queue without a repetition.            *)
(***************************************************************************)
LEMMA DoneExtended ==
    ASSUME Inv, NEW received \in Seq(Jobs), IsInjective(received),
           HeldBy("done") \cap Range(received) = {}
    PROVE  /\ m_doneJobs \o received \in Seq(Jobs)
           /\ Range(m_doneJobs \o received) = HeldBy("done") \cup Range(received)
           /\ IsInjective(m_doneJobs \o received)
<1>1. m_doneJobs \in Seq(Jobs) /\ IsInjective(m_doneJobs) /\ Range(m_doneJobs) = HeldBy("done")
  BY Zenon DEF Inv, TypeOK, HomeInv
<1> QED
  BY <1>1, ConcatRange

(***************************************************************************)
(* Jobs of another coroutine are not those of this one.                    *)
(***************************************************************************)
LEMMA OthersJobs ==
    ASSUME Inv, NEW c \in Conns, NEW d \in Conns \ {c}
    PROVE  \A k \in Range(exp[d]) \cup Range(recvd[d]) \cup JobsOf(msgs[d]) :
               k \in Jobs /\ home[k] # c
<1>1. HeldBy(d) = Range(exp[d]) \cup Range(recvd[d]) \cup JobsOf(msgs[d])
  BY Zenon DEF Inv, HomeInv
<1>2. \A k \in HeldBy(d) : k \in Jobs /\ home[k] = d
  BY Zenon DEF HeldBy
<1> QED
  BY Zenon, <1>1, <1>2

(***************************************************************************)
(* What a coroutine holds after StoreResults: nothing, within every bound. *)
(***************************************************************************)
LEMMA NoMessages == Len(<<>>) + Len(<<>>) <= MaxJobSize /\ DOMAIN <<>> = {}
  BY SMTT(40), ConstAssumption

(***************************************************************************)
(* The second locked section of receiveExperimentResults preserves the     *)
(* invariant, whatever part of the results has been read.                  *)
(***************************************************************************)
LEMMA StoreResultsInv ==
    ASSUME Inv, NEW c \in Conns, pc[c] = "rcvResult",
           NEW received \in Seq(Jobs), IsInjective(received),
           NEW failed \in Seq(PendingMsgs), DistinctJobs(failed),
           Range(received) \cup JobsOf(failed) = HeldBy(c),
           Range(received) \cap JobsOf(failed) = {},
           \A i \in DOMAIN failed : failed[i].job # NoJob =>
               workloadID[failed[i].job] = failed[i].id,
           \A k \in JobsOf(failed) : content[k] = "param",
           content' \in [Jobs -> Contents],
           \A k \in Range(received) : content'[k] = "result",
           \A k \in Jobs \ Range(received) : content'[k] = content[k],
           m_DoneCount' \in Nat, faults' \in Nat,
           StoreResults(c, received, failed),
           UNCHANGED <<m_undoneJobs, nextpick, m_counter, workloadID, want, exp, temp_exp,
                       campaignVars, clientJobs>>
    PROVE  Inv'
<1> USE ConstAssumption
<1>1. /\ DOMAIN m_runningJobs' \subseteq Nat
      /\ m_runningJobs' \in [DOMAIN m_runningJobs' -> Jobs]
      /\ Range(m_runningJobs') = Range(m_runningJobs) \cup JobsOf(failed)
      /\ \A id \in DOMAIN m_runningJobs' : workloadID[m_runningJobs'[id]] = id
  <2>1. m_runningJobs' = Reinserted(m_runningJobs, failed)
    BY Zenon DEF StoreResults
  <2> QED
    BY Zenon, <2>1, ReinsertedJobs
<1>2. \A k \in Jobs : home'[k] = IF k \in Range(received) THEN "done"
                               ELSE IF k \in JobsOf(failed) THEN "running" ELSE home[k]
  <2>1. \A k \in Jobs : (\E i \in DOMAIN received : received[i] = k) <=> k \in Range(received)
    BY Zenon DEF Range
  <2>2. \A k \in Jobs : (\E i \in FailedJobs(failed) : failed[i].job = k) <=> k \in JobsOf(failed)
    BY DEF JobsOf, FailedJobs
  <2> QED
    BY Zenon, <2>1, <2>2 DEF StoreResults
<1>3. /\ pc'[c] = "idle" /\ msgs'[c] = <<>> /\ recvd'[c] = <<>>
      /\ \A d \in Conns \ {c} : pc'[d] = pc[d] /\ msgs'[d] = msgs[d] /\ recvd'[d] = recvd[d]
      /\ exp[c] = <<>> /\ temp_exp[c] = NoJob
      /\ Len(<<>>) = 0
  BY Zenon DEF StoreResults, Goto, Inv, TypeOK, PcInv, Sending
<1>4. HeldBy(c) \subseteq Jobs /\ \A k \in HeldBy(c) : home[k] = c
  BY Zenon DEF HeldBy
<1>5. \A d \in Conns : \A p \in Places : d # p
  BY Zenon, PlacesAreNotConns
<1>6. \A k \in Jobs : home'[k] = home[k] \/ (home[k] = c /\ home'[k] \in {"done", "running"})
  BY Zenon, <1>2, <1>4
<1>7. /\ HeldBy(c)' = {}
      /\ HeldBy("done")' = HeldBy("done") \cup Range(received)
      /\ HeldBy("running")' = HeldBy("running") \cup JobsOf(failed)
      /\ \A p : p # c /\ p # "done" /\ p # "running" => HeldBy(p)' = HeldBy(p)
  <2>1. HeldBy(c)' = {}
    <3>1. c # "done" /\ c # "running"
      BY Zenon, <1>5 DEF Places
    <3>2. ASSUME NEW k \in Jobs
          PROVE  home'[k] # c
      <4>1. home[k] = c => k \in Range(received) \/ k \in JobsOf(failed)
        BY Zenon DEF HeldBy
      <4> QED
        BY Zenon, <1>2, <3>1, <4>1
    <3> QED
      BY Zenon, <3>2 DEF HeldBy
  <2>2. HeldBy("done")' = HeldBy("done") \cup Range(received)
    BY SMTT(40), <1>2, <1>4, <1>5 DEF HeldBy, Places
  <2>3. HeldBy("running")' = HeldBy("running") \cup JobsOf(failed)
    BY SMTT(40), <1>2, <1>4, <1>5 DEF HeldBy, Places
  <2>4. \A p : p # c /\ p # "done" /\ p # "running" => HeldBy(p)' = HeldBy(p)
    BY <1>6 DEF HeldBy
  <2> QED
    BY Zenon, <2>1, <2>2, <2>3, <2>4
<1>8. /\ m_doneJobs' \in Seq(Jobs)
      /\ IsInjective(m_doneJobs')
      /\ Range(m_doneJobs') = HeldBy("done")'
  <2>1. m_doneJobs' = m_doneJobs \o received
    BY Zenon DEF StoreResults
  <2>2. HeldBy("done") \cap Range(received) = {}
    BY Zenon, <1>4, <1>5 DEF HeldBy, Places
  <2>3. /\ m_doneJobs \o received \in Seq(Jobs)
        /\ Range(m_doneJobs \o received) = HeldBy("done") \cup Range(received)
        /\ IsInjective(m_doneJobs \o received)
    BY Zenon, <2>2, DoneExtended
  <2> QED
    BY Zenon, <1>7, <2>1, <2>3
<1>9. doneFinished' \in BOOLEAN /\ (doneFinished' => noMoreExps')
  <2>1. doneFinished' = (doneFinished \/ (/\ m_undoneJobs = <<>>
                                          /\ noMoreExps
                                          /\ DOMAIN m_runningJobs' = {}))
    BY Zenon DEF StoreResults
  <2>2. doneFinished => noMoreExps
    BY Zenon DEF Inv
  <2>3. noMoreExps' = noMoreExps
    BY Zenon DEF campaignVars
  <2> QED
    BY ZenonT(60), <2>1, <2>2, <2>3
<1>10. TypeOK'
  <2>1. /\ pc' \in [Conns -> Pcs] /\ msgs' \in [Conns -> Seq(PendingMsgs)]
        /\ recvd' \in [Conns -> Seq(Jobs)]
    <3>1. /\ pc' = [pc EXCEPT ![c] = "idle"] /\ msgs' = [msgs EXCEPT ![c] = <<>>]
          /\ recvd' = [recvd EXCEPT ![c] = <<>>]
      BY Zenon DEF StoreResults, Goto
    <3>2. <<>> \in Seq(Jobs) /\ <<>> \in Seq(PendingMsgs) /\ "idle" \in Pcs
      BY DEF Pcs
    <3>3. /\ pc \in [Conns -> Pcs] /\ msgs \in [Conns -> Seq(PendingMsgs)]
          /\ recvd \in [Conns -> Seq(Jobs)]
      BY Zenon DEF Inv, TypeOK
    <3> QED
      BY Zenon, <3>1, <3>2, <3>3
  <2>2. home' \in [Jobs -> Places \cup Conns]
    BY Zenon DEF StoreResults, Inv, TypeOK, Places
  <2> QED
    BY ZenonT(60), <1>1, <1>8, <1>9, <2>1, <2>2 DEF Inv, TypeOK, campaignVars
<1>11. PcInv'
  <2>1. Len(msgs'[c]) + Len(recvd'[c]) <= MaxJobSize
    BY ZenonT(60), <1>3, NoMessages
  <2> DEFINE Holds(d) ==
               /\ pc'[d] \in Sending => exp'[d] # <<>>
               /\ exp'[d] # <<>> => pc'[d] \in Sending \cup {"dequeue"}
               /\ pc'[d] = "rcvResult" <=> msgs'[d] # <<>>
               /\ recvd'[d] # <<>> => pc'[d] = "rcvResult"
               /\ Len(msgs'[d]) + Len(recvd'[d]) <= MaxJobSize
               /\ pc'[d] = "resendCtrl" <=> temp_exp'[d] # NoJob
  <2>2. Holds(c)
    BY ZenonT(60), <1>3, <2>1 DEF Sending
  <2>3. ASSUME NEW d \in Conns \ {c}
        PROVE  Holds(d)
    <3>1. /\ pc'[d] = pc[d] /\ exp'[d] = exp[d] /\ msgs'[d] = msgs[d]
          /\ recvd'[d] = recvd[d] /\ temp_exp'[d] = temp_exp[d]
      BY Zenon, <1>3
    <3> QED
      BY <3>1, ZenonT(40) DEF Inv, PcInv
  <2>4. \A d \in Conns : Holds(d)
    BY Zenon, <2>2, <2>3
  <2> QED
    BY Zenon, <2>4 DEF PcInv
<1>12. HomeInv'
  <2>1. /\ HeldBy("undone")' = HeldBy("undone") /\ HeldBy("collected")' = HeldBy("collected")
        /\ \A d \in Conns \ {c} : HeldBy(d)' = HeldBy(d)
    BY Zenon, <1>5, <1>7 DEF Places
  <2>2. Range(m_runningJobs') = HeldBy("running")'
    BY Zenon, <1>1, <1>7 DEF Inv, HomeInv
  <2>3. ASSUME NEW d \in Conns
        PROVE  /\ HeldBy(d)' = Range(exp[d]) \cup Range(recvd'[d]) \cup JobsOf(msgs'[d])
               /\ IsInjective(recvd'[d])
               /\ JobsOf(msgs'[d]) \cap Range(recvd'[d]) = {}
               /\ DistinctJobs(msgs'[d])
    <3>1. CASE d = c
      BY Zenon, <1>3, <1>7, <3>1, EmptyRange
    <3>2. CASE d # c
      <4>1. recvd'[d] = recvd[d] /\ msgs'[d] = msgs[d] /\ HeldBy(d)' = HeldBy(d)
        BY Zenon, <1>3, <2>1, <3>2
      <4>2. /\ HeldBy(d) = Range(exp[d]) \cup Range(recvd[d]) \cup JobsOf(msgs[d])
            /\ IsInjective(recvd[d])
            /\ JobsOf(msgs[d]) \cap Range(recvd[d]) = {}
            /\ DistinctJobs(msgs[d])
        BY Zenon DEF Inv, HomeInv
      <4> QED
        BY ZenonT(60), <4>1, <4>2
    <3> QED
      BY Zenon, <3>1, <3>2
  <2> QED
    BY ZenonT(60), <1>8, <2>1, <2>2, <2>3 DEF Inv, HomeInv, campaignVars
<1>13. IdInv'
  <2>1. \A k \in Jobs : home'[k] \notin NotSentYet => home[k] \notin NotSentYet
    BY Zenon, <1>5, <1>6 DEF NotSentYet, Places
  <2>2. \A d \in Conns : \A i \in DOMAIN msgs'[d] :
            msgs'[d][i].job # NoJob => workloadID[msgs'[d][i].job] = msgs'[d][i].id
    <3> SUFFICES ASSUME NEW d \in Conns, NEW i \in DOMAIN msgs'[d], msgs'[d][i].job # NoJob
                 PROVE  workloadID[msgs'[d][i].job] = msgs'[d][i].id
      BY Zenon
    <3>1. d # c
      BY Zenon, <1>3, NoMessages
    <3>2. msgs'[d] = msgs[d]
      BY Zenon, <1>3, <3>1
    <3>3. \A m \in DOMAIN msgs[d] : msgs[d][m].job # NoJob =>
              workloadID[msgs[d][m].job] = msgs[d][m].id
      BY Zenon DEF Inv, IdInv
    <3>4. i \in DOMAIN msgs[d] /\ msgs[d][i].job # NoJob
      BY Zenon, <3>2
    <3>5. workloadID[msgs[d][i].job] = msgs[d][i].id
      BY ZenonT(60), <3>3, <3>4
    <3> QED
      BY Zenon, <3>2, <3>5
  <2> QED
    BY SMTT(40), <1>1, <2>1, <2>2 DEF Inv, IdInv
<1>14. ContentInv'
  <2>1. \A k \in Jobs : home[k] # c => content'[k] = content[k] /\ home'[k] = home[k]
    BY Zenon, <1>4, <1>6
  <2>2. /\ \A k \in Jobs : home'[k] \in NotSentYet \cup {"running"} => content'[k] = "param"
        /\ \A k \in Jobs : home'[k] \in {"done", "collected"} => content'[k] = "result"
    <3> SUFFICES ASSUME NEW k \in Jobs
                 PROVE  /\ home'[k] \in NotSentYet \cup {"running"} => content'[k] = "param"
                        /\ home'[k] \in {"done", "collected"} => content'[k] = "result"
      BY Zenon
    <3>1. CASE home[k] # c
      BY ZenonT(60), <2>1, <3>1 DEF Inv, ContentInv
    <3>2. CASE k \in Range(received)
      BY Zenon, <1>2, <3>2 DEF NotSentYet
    <3>3. CASE k \in JobsOf(failed)
      <4>1. k \notin Range(received)
        BY Zenon, <3>3
      <4>2. content'[k] = "param" /\ home'[k] = "running"
        BY Zenon, <1>2, <3>3, <4>1
      <4> QED
        BY Zenon, <4>2
    <3> QED
      BY Zenon, <3>1, <3>2, <3>3 DEF HeldBy
  <2>3. ASSUME NEW d \in Conns
        PROVE  /\ \A k \in Range(exp[d]) \cup JobsOf(msgs'[d]) : content'[k] = "param"
               /\ \A k \in Range(recvd'[d]) : content'[k] = "result"
    <3>1. CASE d = c
      BY Zenon, <1>3, <3>1, EmptyRange
    <3>2. CASE d # c
      <4>1. \A k \in Range(exp[d]) \cup Range(recvd[d]) \cup JobsOf(msgs[d]) :
                k \in Jobs /\ home[k] # c
        BY Zenon, <3>2, OthersJobs
      <4>2. msgs'[d] = msgs[d] /\ recvd'[d] = recvd[d]
        BY Zenon, <1>3, <3>2
      <4>3. /\ \A k \in Range(exp[d]) \cup JobsOf(msgs[d]) : content[k] = "param"
            /\ \A k \in Range(recvd[d]) : content[k] = "result"
        BY Zenon DEF Inv, ContentInv
      <4> QED
        BY Zenon, <2>1, <4>1, <4>2, <4>3
    <3> QED
      BY Zenon, <3>1, <3>2
  <2> QED
    BY ZenonT(60), <2>2, <2>3 DEF ContentInv
<1>15. ClientInv'
  <2>1. \A k \in Jobs : Sent(k) => Sent(k)'
    <3>1. \A k \in Jobs : home'[k] \in NotSentYet => home'[k] = home[k]
      BY Zenon, <1>6 DEF NotSentYet
    <3>2. \A d \in Conns : exp[d] # <<>> => pc'[d] = pc[d]
      BY Zenon, <1>3
    <3>3. UNCHANGED exp /\ TypeOK
      BY Zenon DEF Inv
    <3> QED
      BY ZenonT(60), <3>1, <3>2, <3>3, SentIfHomesMove
  <2>2. \A w \in clientJobs : w.job \in Jobs
    BY Zenon DEF Inv, TypeOK, Workloads
  <2>3. \A d \in Conns : temp_exp[d] # NoJob => temp_exp[d] \in Jobs
    BY Zenon DEF Inv, TypeOK
  <2>4. \A d \in Conns : \A i \in DOMAIN msgs'[d] :
            msgs'[d][i].job # NoJob =>
                msgs'[d][i].data.job = msgs'[d][i].job /\ msgs'[d][i].data.intact
    <3> SUFFICES ASSUME NEW d \in Conns, NEW i \in DOMAIN msgs'[d], msgs'[d][i].job # NoJob
                 PROVE  msgs'[d][i].data.job = msgs'[d][i].job /\ msgs'[d][i].data.intact
      BY Zenon
    <3>1. d # c
      BY Zenon, <1>3, NoMessages
    <3>2. msgs'[d] = msgs[d]
      BY Zenon, <1>3, <3>1
    <3>3. \A m \in DOMAIN msgs[d] : msgs[d][m].job # NoJob =>
              msgs[d][m].data.job = msgs[d][m].job /\ msgs[d][m].data.intact
      BY Zenon DEF Inv, ClientInv
    <3>4. i \in DOMAIN msgs[d] /\ msgs[d][i].job # NoJob
      BY Zenon, <3>2
    <3>5. msgs[d][i].data.job = msgs[d][i].job /\ msgs[d][i].data.intact
      BY Zenon, <3>3, <3>4
    <3> QED
      BY ZenonT(60), <3>2, <3>5
  <2>5. \A k \in Jobs : content'[k] = content[k] \/ content'[k] = "result"
    BY Zenon
  <2>6. \A w \in clientJobs : w.intact \/ content'[w.job] # "param"
    BY Zenon, <2>2, <2>5 DEF Inv, ClientInv
  <2> QED
    BY Zenon, <2>1, <2>2, <2>3, <2>4, <2>6 DEF Inv, ClientInv
<1> QED
  BY Zenon, <1>9, <1>10, <1>11, <1>12, <1>13, <1>14, <1>15 DEF Inv

(***************************************************************************)
(* RcvLastResult preserves the invariant: everything has been read.        *)
(***************************************************************************)
LEMMA RcvLastResultInv ==
    ASSUME Inv, NEW c \in Conns, RcvLastResult(c)
    PROVE  Inv'
<1> DEFINE r == ReceivedWith(c, Head(msgs[c]))
<1>1. pc[c] = "rcvResult" /\ ReadResult(Head(msgs[c])) /\ Tail(msgs[c]) = <<>>
  BY Zenon DEF RcvLastResult, At
<1>2. /\ content' \in [Jobs -> Contents]
      /\ m_DoneCount' \in Nat
      /\ r \in Seq(Jobs)
      /\ IsInjective(r)
      /\ Range(r) = Range(recvd[c]) \cup (JobsOf(msgs[c]) \ JobsOf(Tail(msgs[c])))
      /\ \A k \in Range(r) : content'[k] = "result"
      /\ \A k \in Jobs \ Range(r) : content'[k] = content[k]
  BY Zenon, <1>1, ReadResultEffect
<1>3. exp[c] = <<>>
  BY Zenon, <1>1 DEF Inv, PcInv, Sending
<1>4. Range(r) \cup JobsOf(<<>>) = HeldBy(c) /\ Range(r) \cap JobsOf(<<>>) = {}
  BY Zenon, <1>1, <1>2, <1>3, EmptyRange DEF Inv, HomeInv
<1>5. /\ <<>> \in Seq(PendingMsgs) /\ DistinctJobs(<<>>) /\ JobsOf(<<>>) = {}
      /\ DOMAIN <<>> = {}
  BY EmptyRange
<1>6. /\ StoreResults(c, r, <<>>)
      /\ UNCHANGED <<m_undoneJobs, nextpick, m_counter, workloadID, want, exp, temp_exp,
                     campaignVars, clientJobs>>
  BY Zenon DEF RcvLastResult, networkVars
<1>7. faults' \in Nat
  BY Zenon DEF RcvLastResult, networkVars, Inv, TypeOK
<1> HIDE DEF r
<1> QED
  BY Zenon, <1>1, <1>2, <1>4, <1>5, <1>6, <1>7, StoreResultsInv

(***************************************************************************)
(* RcvFailed preserves the invariant: what has not been read runs again.   *)
(***************************************************************************)
LEMMA RcvFailedInv ==
    ASSUME Inv, NEW c \in Conns, RcvFailed(c)
    PROVE  Inv'
<1>1. /\ pc[c] = "rcvResult"
      /\ StoreResults(c, recvd[c], msgs[c])
      /\ UNCHANGED <<m_undoneJobs, nextpick, m_counter, workloadID, want, exp, temp_exp,
                     campaignVars, clientJobs>>
      /\ UNCHANGED content
  BY Zenon DEF RcvFailed, At
<1>2. faults' \in Nat
  BY DEF RcvFailed, Fail, Inv, TypeOK
<1>3. m_DoneCount' \in Nat
  <2>1. msgs[c] \in Seq(PendingMsgs)
    BY Zenon DEF Inv, TypeOK
  <2>2. FailedJobs(msgs[c]) \subseteq 1..Len(msgs[c]) /\ Len(msgs[c]) \in Nat
    BY <2>1 DEF FailedJobs
  <2>3. IsFiniteSet(1..Len(msgs[c]))
    BY <2>2, FS_Interval
  <2>4. IsFiniteSet(FailedJobs(msgs[c]))
    BY Zenon, <2>2, <2>3, FS_Subset
  <2>5. Cardinality(FailedJobs(msgs[c])) \in Nat
    BY Zenon, <2>4, FS_CardinalityType
  <2>6. m_DoneCount' = m_DoneCount + Cardinality(FailedJobs(msgs[c])) /\ m_DoneCount \in Nat
    BY Zenon DEF RcvFailed, Inv, TypeOK
  <2> QED
    BY <2>5, <2>6
<1>4. /\ recvd[c] \in Seq(Jobs) /\ IsInjective(recvd[c])
      /\ msgs[c] \in Seq(PendingMsgs) /\ DistinctJobs(msgs[c])
      /\ content' \in [Jobs -> Contents]
  BY Zenon, <1>1 DEF Inv, TypeOK, HomeInv
<1>5. exp[c] = <<>>
  BY Zenon, <1>1 DEF Inv, PcInv, Sending
<1>6. Range(recvd[c]) \cup JobsOf(msgs[c]) = HeldBy(c) /\ Range(recvd[c]) \cap JobsOf(msgs[c]) = {}
  BY Zenon, <1>5, EmptyRange DEF Inv, HomeInv
<1>7. \A i \in DOMAIN msgs[c] : msgs[c][i].job # NoJob =>
          workloadID[msgs[c][i].job] = msgs[c][i].id
  BY Zenon DEF Inv, IdInv
<1>8. /\ \A k \in JobsOf(msgs[c]) : content[k] = "param"
      /\ \A k \in Range(recvd[c]) : content'[k] = "result"
      /\ \A k \in Jobs \ Range(recvd[c]) : content'[k] = content[k]
  BY Zenon, <1>1 DEF Inv, ContentInv
<1> QED
  BY Zenon, <1>1, <1>2, <1>3, <1>4, <1>6, <1>7, <1>8, StoreResultsInv

-----------------------------------------------------------------------------
(***************************************************************************)
(* The campaign, and the control steps of the coroutines                   *)
(***************************************************************************)

(***************************************************************************)
(* A job that was sent stays so while its coroutine is not the one to move *)
(* from "jobSent".                                                         *)
(***************************************************************************)
LEMMA SentKept ==
    ASSUME TypeOK, NEW c \in Conns, NEW p, Goto(c, p), pc[c] # "jobSent",
           UNCHANGED <<home, exp>>
    PROVE  \A j : Sent(j) => Sent(j)'
BY Zenon DEF TypeOK, Goto, Sent

(***************************************************************************)
(* Steps that move no job.                                                 *)
(***************************************************************************)
LEMMA NoJobMoved ==
    ASSUME Inv,
           UNCHANGED <<m_undoneJobs, m_runningJobs, m_doneJobs, m_counter, jobVars, exp, msgs,
                       recvd, collected>>
    PROVE  HomeInv' /\ IdInv' /\ ContentInv'
<1>1. HomeInv'
  BY Zenon DEF Inv, HomeInv, HeldBy, jobVars
<1>2. IdInv'
  BY Zenon DEF Inv, IdInv, jobVars
<1>3. ContentInv'
  BY Zenon DEF Inv, ContentInv, jobVars
<1> QED
  BY Zenon, <1>1, <1>2, <1>3

(***************************************************************************)
(* Steps that only move the program counter of a coroutine.                *)
(***************************************************************************)
LEMMA ControlStep ==
    ASSUME Inv, TypeOK', PcInv', NEW c \in Conns, NEW p, Goto(c, p), pc[c] # "jobSent",
           UNCHANGED <<m_undoneJobs, m_runningJobs, m_doneJobs, doneFinished, m_counter, jobVars,
                       exp, temp_exp, msgs, recvd, noMoreExps, collected, clientJobs>>
    PROVE  Inv'
<1>1. ClientInv'
  BY Zenon, SentKept DEF Inv, ClientInv, jobVars
<1> QED
  BY Zenon, <1>1, NoJobMoved DEF Inv

(***************************************************************************)
(* NeedWork preserves the invariant.                                      *)
(***************************************************************************)
LEMMA NeedWorkInv ==
    ASSUME Inv, NEW c \in Conns, NEW run, NEW n \in Nat, NeedWork(c, run, n)
    PROVE  Inv'
<1>1. TypeOK'
  <2>1. pc' \in [Conns -> Pcs] /\ want' \in [Conns -> Nat]
    BY ZenonT(60) DEF NeedWork, Inv, TypeOK, Goto, Pcs
  <2> QED
    BY Zenon, <2>1 DEF NeedWork, Inv, TypeOK, queueVars, counterVars, jobVars, campaignVars,
                       networkVars
<1>2. PcInv'
  BY Zenon DEF NeedWork, Inv, TypeOK, PcInv, At, Goto, Sending
<1> QED
  BY Zenon, <1>1, <1>2, ControlStep DEF NeedWork, At, queueVars, counterVars, campaignVars, networkVars

(***************************************************************************)
(* DequeueEnd preserves the invariant.                                    *)
(***************************************************************************)
LEMMA DequeueEndInv ==
    ASSUME Inv, NEW c \in Conns, DequeueEnd(c)
    PROVE  Inv'
<1>1. TypeOK'
  BY Zenon, ConstAssumption DEF DequeueEnd, Inv, TypeOK, At, Goto, Pcs, queueVars, counterVars, jobVars,
         campaignVars, networkVars
<1>2. PcInv'
  BY Zenon DEF DequeueEnd, Inv, TypeOK, PcInv, At, Goto, Sending
<1> QED
  BY Zenon, <1>1, <1>2, ControlStep DEF DequeueEnd, At, queueVars, counterVars, campaignVars, networkVars

(***************************************************************************)
(* CtrlSent preserves the invariant.                                      *)
(***************************************************************************)
LEMMA CtrlSentInv ==
    ASSUME Inv, NEW c \in Conns, CtrlSent(c)
    PROVE  Inv'
<1>1. TypeOK'
  BY Zenon, ConstAssumption DEF CtrlSent, Inv, TypeOK, At, Goto, Pcs, queueVars, counterVars, jobVars,
         campaignVars, networkVars
<1>2. PcInv'
  BY Zenon DEF CtrlSent, Inv, TypeOK, PcInv, At, Goto, Sending
<1> QED
  BY Zenon, <1>1, <1>2, ControlStep DEF CtrlSent, At, queueVars, counterVars, campaignVars, networkVars

(***************************************************************************)
(* JobFailed preserves the invariant.                                     *)
(***************************************************************************)
LEMMA JobFailedInv ==
    ASSUME Inv, NEW c \in Conns, JobFailed(c)
    PROVE  Inv'
<1>1. TypeOK'
  <2>1. faults' \in Nat
    BY DEF JobFailed, Fail, Inv, TypeOK
  <2>2. pc' \in [Conns -> Pcs]
    BY Zenon DEF JobFailed, Goto, Inv, TypeOK, Pcs
  <2> QED
    BY Zenon, <2>1, <2>2 DEF JobFailed, Inv, TypeOK, queueVars, counterVars, jobVars, campaignVars
<1>2. PcInv'
  BY Zenon DEF JobFailed, Inv, TypeOK, PcInv, At, Goto, Sending
<1> QED
  BY Zenon, <1>1, <1>2, ControlStep DEF JobFailed, At, queueVars, counterVars, campaignVars, networkVars

(***************************************************************************)
(* PickNothing preserves the invariant.                                   *)
(***************************************************************************)
LEMMA PickNothingInv ==
    ASSUME Inv, NEW c \in Conns, PickNothing(c)
    PROVE  Inv'
<1>1. TypeOK'
  BY Zenon, ConstAssumption DEF PickNothing, Inv, TypeOK, At, Goto, Pcs, queueVars, counterVars, jobVars,
         campaignVars, networkVars
<1>2. PcInv'
  BY Zenon DEF PickNothing, Inv, TypeOK, PcInv, At, Goto, Sending
<1> QED
  BY Zenon, <1>1, <1>2, ControlStep DEF PickNothing, At, queueVars, counterVars, campaignVars, networkVars

(***************************************************************************)
(* Replied preserves the invariant.                                       *)
(***************************************************************************)
LEMMA RepliedInv ==
    ASSUME Inv, NEW c \in Conns, Replied(c)
    PROVE  Inv'
<1>1. TypeOK'
  BY Zenon, ConstAssumption DEF Replied, Inv, TypeOK, At, Goto, Pcs, queueVars, counterVars, jobVars,
         campaignVars, networkVars
<1>2. PcInv'
  BY Zenon DEF Replied, Inv, TypeOK, PcInv, At, Goto, Sending
<1> QED
  BY Zenon, <1>1, <1>2, ControlStep DEF Replied, At, queueVars, counterVars, campaignVars, networkVars

(***************************************************************************)
(* PickRunning preserves the invariant: a running job has been sent.       *)
(***************************************************************************)
LEMMA PickRunningInv ==
    ASSUME Inv, NEW c \in Conns, PickRunning(c)
    PROVE  Inv'
<1>1. PICK id \in DOMAIN m_runningJobs : temp_exp' = [temp_exp EXCEPT ![c] = m_runningJobs[id]]
  BY Zenon DEF PickRunning
<1> DEFINE j == m_runningJobs[id]
<1>2. j \in Jobs /\ j # NoJob /\ home[j] = "running"
  BY SMTT(40), ConstAssumption DEF Inv, TypeOK, HomeInv, HeldBy, Range
<1>3. PickPosition \in Nat
  BY Zenon DEF PickPosition, Inv, TypeOK
<1>4. TypeOK'
  <2>1. nextpick' \in Nat
    BY <1>3 DEF PickRunning
  <2>2. pc' \in [Conns -> Pcs] /\ temp_exp' \in [Conns -> Jobs \cup {NoJob}]
    BY Zenon, <1>1, <1>2 DEF PickRunning, Goto, Inv, TypeOK, Pcs
  <2> QED
    BY Zenon, <2>1, <2>2 DEF PickRunning, Inv, TypeOK, counterVars, jobVars, campaignVars, networkVars
<1>5. PcInv'
  BY Zenon, <1>1, <1>2 DEF PickRunning, Inv, TypeOK, PcInv, At, Goto, Sending
<1>6. \A k : Sent(k) => Sent(k)'
  BY Zenon, SentKept DEF PickRunning, Inv, At, jobVars
<1>7. Sent(j)
  <2>1. \A d \in Conns : j \notin Range(exp[d])
    BY <1>2, ConstAssumption DEF Inv, HomeInv, HeldBy, Places
  <2> QED
    BY Zenon, <1>2, <2>1 DEF Sent, NotSentYet
<1>8. ClientInv'
  BY ZenonT(60), <1>1, <1>6, <1>7 DEF PickRunning, Inv, TypeOK, ClientInv, jobVars, networkVars
<1> QED
  BY <1>4, <1>5, <1>8, NoJobMoved DEF PickRunning, Inv, counterVars, campaignVars

(***************************************************************************)
(* Resend preserves the invariant: what the client is sent is intact or    *)
(* the job has a result already.                                           *)
(***************************************************************************)
LEMMA ResendInv ==
    ASSUME Inv, NEW c \in Conns, Resend(c)
    PROVE  Inv'
<1> DEFINE t == temp_exp[c]
           w == WorkloadOf(t)
<1>1. t \in Jobs /\ Sent(t)
  BY Zenon DEF Resend, At, Inv, TypeOK, PcInv, ClientInv
<1>2. /\ w \in Workloads
      /\ w.id = workloadID[t] /\ w.job = t
      /\ w.intact \/ content[t] # "param"
  BY Zenon, <1>1 DEF WorkloadOf, Workloads, Inv, TypeOK
<1>3. TypeOK'
  <2>1. pc' \in [Conns -> Pcs] /\ temp_exp' \in [Conns -> Jobs \cup {NoJob}]
    BY Zenon DEF Resend, Goto, Inv, TypeOK, Pcs
  <2>2. clientJobs' \subseteq Workloads
    BY Zenon, <1>2 DEF Resend, Inv, TypeOK
  <2> QED
    BY Zenon, <2>1, <2>2 DEF Resend, Inv, TypeOK, queueVars, counterVars, jobVars, campaignVars
<1>4. PcInv'
  BY Zenon DEF Resend, Inv, TypeOK, PcInv, At, Goto, Sending
<1>5. \A k : Sent(k) => Sent(k)'
  BY Zenon, SentKept DEF Resend, Inv, At, jobVars
<1>6. ClientInv'
  BY Zenon, <1>1, <1>2, <1>5 DEF Resend, Inv, TypeOK, ClientInv, jobVars
<1> QED
  BY Zenon, <1>3, <1>4, <1>6, NoJobMoved DEF Resend, Inv, queueVars, counterVars, campaignVars

(***************************************************************************)
(* ResendFailed preserves the invariant.                                   *)
(***************************************************************************)
LEMMA ResendFailedInv ==
    ASSUME Inv, NEW c \in Conns, ResendFailed(c)
    PROVE  Inv'
<1>1. TypeOK'
  <2>1. pc' \in [Conns -> Pcs] /\ temp_exp' \in [Conns -> Jobs \cup {NoJob}] /\ faults' \in Nat
    BY DEF ResendFailed, Fail, Goto, Inv, TypeOK, Pcs
  <2> QED
    BY Zenon, <2>1 DEF ResendFailed, Inv, TypeOK, queueVars, counterVars, jobVars, campaignVars
<1>2. PcInv'
  BY Zenon DEF ResendFailed, Inv, TypeOK, PcInv, At, Goto, Sending
<1>3. \A k : Sent(k) => Sent(k)'
  BY Zenon, SentKept DEF ResendFailed, Inv, At, jobVars
<1>4. ClientInv'
  BY Zenon, <1>3 DEF ResendFailed, Inv, TypeOK, ClientInv, jobVars
<1> QED
  BY Zenon, <1>1, <1>2, <1>4, NoJobMoved DEF ResendFailed, Inv, queueVars, counterVars, campaignVars

-----------------------------------------------------------------------------
(***************************************************************************)
(* The campaign and the collector.                                         *)
(***************************************************************************)

(***************************************************************************)
(* What a job's change of holder does to the sets of jobs held.            *)
(***************************************************************************)
LEMMA MoveHome ==
    ASSUME TypeOK, NEW j \in Jobs, NEW o, NEW q, home[j] = o, o # q,
           home' = [home EXCEPT ![j] = q]
    PROVE  /\ j \notin HeldBy(q)
           /\ HeldBy(q)' = HeldBy(q) \cup {j}
           /\ HeldBy(o)' = HeldBy(o) \ {j}
           /\ \A p : p # q /\ p # o => HeldBy(p)' = HeldBy(p)
BY Zenon DEF HeldBy, TypeOK

(***************************************************************************)
(* A sent job stays so while jobs held by others change their place.       *)
(***************************************************************************)
LEMMA SentIfMoved ==
    ASSUME TypeOK, NEW j \in Jobs, NEW q, home' = [home EXCEPT ![j] = q],
           home[j] \in NotSentYet \/ q \notin NotSentYet,
           UNCHANGED <<pc, exp>>
    PROVE  \A k \in Jobs : Sent(k) => Sent(k)'
BY Zenon DEF TypeOK, Sent

(***************************************************************************)
(* AddParam preserves the invariant.                                       *)
(***************************************************************************)
LEMMA AddParamInv ==
    ASSUME Inv, NEW j \in Jobs, AddParam(j)
    PROVE  Inv'
<1> USE ConstAssumption
<1>1. TypeOK'
  <2>1. m_undoneJobs' \in Seq(Jobs) /\ home' \in [Jobs -> Places \cup Conns]
    BY DEF AddParam, Inv, TypeOK, Places
  <2> QED
    BY Zenon, <2>1 DEF AddParam, Inv, TypeOK, coroutineVars, campaignVars, networkVars
<1>2. PcInv'
  BY Zenon DEF AddParam, Inv, PcInv, coroutineVars
<1>3. HomeInv'
  <2>1. /\ j \notin HeldBy("undone")
        /\ HeldBy("undone")' = HeldBy("undone") \cup {j}
        /\ \A p : p # "undone" /\ p # "campaign" => HeldBy(p)' = HeldBy(p)
    BY Zenon, MoveHome DEF AddParam, Inv
  <2>2. \A c \in Conns : c # "campaign" /\ c # "undone"
    BY Zenon DEF Places
  <2>3. Range(m_undoneJobs') = HeldBy("undone")' /\ IsInjective(m_undoneJobs')
    <3>1. m_undoneJobs' = Append(m_undoneJobs, j) /\ m_undoneJobs \in Seq(Jobs)
      BY Zenon DEF AddParam, Inv, TypeOK
    <3>2. Range(m_undoneJobs) = HeldBy("undone") /\ IsInjective(m_undoneJobs)
      BY Zenon DEF Inv, HomeInv
    <3>3. /\ Range(Append(m_undoneJobs, j)) = Range(m_undoneJobs) \cup {j}
          /\ IsInjective(Append(m_undoneJobs, j))
      BY <2>1, <3>1, <3>2, AppendRange
    <3> QED
      BY Zenon, <2>1, <3>1, <3>2, <3>3
  <2>4. UNCHANGED <<m_runningJobs, m_doneJobs, collected, exp, recvd, msgs>>
    BY Zenon DEF AddParam, coroutineVars, campaignVars
  <2>5. \A p \in Conns \cup {"running", "done", "collected"} : HeldBy(p)' = HeldBy(p)
    BY Zenon, <2>1, <2>2
  <2> QED
    BY Zenon, <2>3, <2>4, <2>5 DEF Inv, HomeInv
<1>4. IdInv'
  BY Zenon DEF AddParam, Inv, TypeOK, IdInv, NotSentYet, coroutineVars
<1>5. ContentInv'
  BY Zenon DEF AddParam, Inv, TypeOK, ContentInv, NotSentYet, coroutineVars
<1>6. ClientInv'
  <2>1. \A k \in Jobs : Sent(k) => Sent(k)'
    BY Zenon, SentIfMoved DEF AddParam, Inv, NotSentYet, coroutineVars
  <2> QED
    BY Zenon, <2>1 DEF AddParam, Inv, TypeOK, Workloads, ClientInv, coroutineVars, networkVars
<1> QED
  BY Zenon, <1>1, <1>2, <1>3, <1>4, <1>5, <1>6 DEF AddParam, Inv, campaignVars

(***************************************************************************)
(* SkipJobs preserves the invariant.                                       *)
(***************************************************************************)
LEMMA SkipJobsInv ==
    ASSUME Inv, NEW j \in Jobs, SkipJobs(j)
    PROVE  Inv'
<1> USE ConstAssumption
<1>1. TypeOK'
  <2>1. m_DoneCount' \in Nat /\ home' \in [Jobs -> Places \cup Conns]
    BY SMTT(40) DEF SkipJobs, Inv, TypeOK, Places
  <2> QED
    BY Zenon, <2>1 DEF SkipJobs, Inv, TypeOK, queueVars, coroutineVars, campaignVars, networkVars
<1>2. PcInv'
  BY ZenonT(40) DEF SkipJobs, Inv, PcInv, coroutineVars
<1>3. HomeInv'
  <2>1. \A p : p # "skipped" /\ p # "campaign" => HeldBy(p)' = HeldBy(p)
    BY Zenon, MoveHome DEF SkipJobs, Inv
  <2>2. \A c \in Conns : c # "campaign" /\ c # "skipped"
    BY Zenon DEF Places
  <2> QED
    BY Zenon, <2>1, <2>2 DEF SkipJobs, Inv, HomeInv, queueVars, coroutineVars, campaignVars
<1>4. IdInv'
  BY Zenon DEF SkipJobs, Inv, TypeOK, IdInv, NotSentYet, queueVars, coroutineVars
<1>5. ContentInv'
  BY Zenon DEF SkipJobs, Inv, TypeOK, ContentInv, NotSentYet, coroutineVars
<1>6. ClientInv'
  <2>1. \A k \in Jobs : Sent(k) => Sent(k)'
    BY Zenon, SentIfMoved DEF SkipJobs, Inv, NotSentYet, coroutineVars
  <2> QED
    BY <2>1 DEF SkipJobs, Inv, TypeOK, Workloads, ClientInv, coroutineVars, networkVars
<1> QED
  BY Zenon, <1>1, <1>2, <1>3, <1>4, <1>5, <1>6 DEF SkipJobs, Inv, queueVars, campaignVars

(***************************************************************************)
(* GetDone preserves the invariant.                                        *)
(***************************************************************************)
LEMMA GetDoneInv ==
    ASSUME Inv, GetDone
    PROVE  Inv'
<1> USE ConstAssumption
<1> DEFINE j == Head(m_doneJobs)
<1>0. /\ j \in Jobs /\ j \in Range(m_doneJobs) /\ home[j] = "done" /\ j # NoJob
      /\ m_doneJobs' \in Seq(Jobs)
      /\ IsInjective(m_doneJobs')
      /\ Range(m_doneJobs') = Range(m_doneJobs) \ {j}
  BY SMTT(40), TailRange DEF GetDone, Inv, TypeOK, HomeInv, HeldBy
<1>1. TypeOK'
  <2>1. collected' \in Jobs \cup {NoJob} /\ home' \in [Jobs -> Places \cup Conns]
    BY Zenon, <1>0 DEF GetDone, Inv, TypeOK, Places
  <2> QED
    BY Zenon, <1>0, <2>1 DEF GetDone, Inv, TypeOK, queueVars, coroutineVars, networkVars
<1>2. PcInv'
  BY Zenon DEF GetDone, Inv, PcInv, coroutineVars
<1>3. HomeInv'
  <2>1. /\ HeldBy("collected")' = HeldBy("collected") \cup {j}
        /\ HeldBy("done")' = HeldBy("done") \ {j}
        /\ \A p : p # "collected" /\ p # "done" => HeldBy(p)' = HeldBy(p)
    BY ZenonT(60), <1>0, MoveHome DEF GetDone, Inv
  <2>2. \A c \in Conns : c # "done" /\ c # "collected"
    BY Zenon DEF Places
  <2>3. HeldBy("collected")' = {collected'} \ {NoJob}
    BY Zenon, <1>0, <2>1 DEF GetDone, Inv, HomeInv
  <2> QED
    BY Zenon, <1>0, <2>1, <2>2, <2>3 DEF GetDone, Inv, HomeInv, queueVars, coroutineVars
<1>4. IdInv'
  BY Zenon, <1>0 DEF GetDone, Inv, TypeOK, IdInv, NotSentYet, queueVars, coroutineVars
<1>5. ContentInv'
  BY Zenon, <1>0 DEF GetDone, Inv, TypeOK, ContentInv, NotSentYet, coroutineVars
<1>6. ClientInv'
  <2>1. \A k \in Jobs : Sent(k) => Sent(k)'
    BY Zenon, <1>0, SentIfMoved DEF GetDone, Inv, NotSentYet, coroutineVars
  <2> QED
    BY Zenon, <2>1 DEF GetDone, Inv, TypeOK, Workloads, ClientInv, coroutineVars, networkVars
<1> QED
  BY Zenon, <1>1, <1>2, <1>3, <1>4, <1>5, <1>6 DEF GetDone, Inv, queueVars

(***************************************************************************)
(* DeleteResult preserves the invariant.                                   *)
(***************************************************************************)
LEMMA DeleteResultInv ==
    ASSUME Inv, DeleteResult
    PROVE  Inv'
<1> USE ConstAssumption
<1>0. collected \in Jobs /\ home[collected] = "collected"
  BY Zenon DEF DeleteResult, Inv, TypeOK, HomeInv, HeldBy
<1>1. TypeOK'
  <2>1. home' \in [Jobs -> Places \cup Conns] /\ content' \in [Jobs -> Contents]
    BY Zenon, <1>0 DEF DeleteResult, Inv, TypeOK, Places, Contents
  <2> QED
    BY Zenon, <2>1 DEF DeleteResult, Inv, TypeOK, queueVars, counterVars, coroutineVars, networkVars
<1>2. PcInv'
  BY Zenon DEF DeleteResult, Inv, PcInv, coroutineVars
<1>3. HomeInv'
  <2>1. /\ HeldBy("collected")' = HeldBy("collected") \ {collected}
        /\ \A p : p # "deleted" /\ p # "collected" => HeldBy(p)' = HeldBy(p)
    BY Zenon, <1>0, MoveHome DEF DeleteResult, Inv
  <2>2. \A c \in Conns : c # "deleted" /\ c # "collected"
    BY Zenon DEF Places
  <2>3. HeldBy("collected")' = {collected'} \ {NoJob}
    BY Zenon, <2>1 DEF DeleteResult, Inv, HomeInv
  <2>4. UNCHANGED <<m_undoneJobs, m_runningJobs, m_doneJobs, exp, recvd, msgs>>
    BY Zenon DEF DeleteResult, queueVars, coroutineVars
  <2>5. \A p \in Conns \cup {"undone", "running", "done"} : HeldBy(p)' = HeldBy(p)
    BY Zenon, <2>1, <2>2
  <2> QED
    BY Zenon, <2>3, <2>4, <2>5 DEF Inv, HomeInv
<1>4. IdInv'
  BY Zenon, <1>0 DEF DeleteResult, Inv, TypeOK, IdInv, NotSentYet, queueVars, counterVars, coroutineVars
<1>5. ContentInv'
  <2>1. \A c \in Conns : collected \notin Range(exp[c]) \cup JobsOf(msgs[c]) \cup Range(recvd[c])
    BY SMTT(40), <1>0 DEF Inv, HomeInv, HeldBy, Places
  <2> QED
    BY SMTT(40), <1>0, <2>1 DEF DeleteResult, Inv, TypeOK, ContentInv, NotSentYet, coroutineVars
<1>6. ClientInv'
  <2>1. \A k \in Jobs : Sent(k) => Sent(k)'
    BY Zenon, <1>0, SentIfMoved DEF DeleteResult, Inv, NotSentYet, coroutineVars
  <2> QED
    BY Zenon, <1>0, <2>1 DEF DeleteResult, Inv, TypeOK, Workloads, ClientInv, coroutineVars, networkVars
<1> QED
  BY Zenon, <1>1, <1>2, <1>3, <1>4, <1>5, <1>6 DEF DeleteResult, Inv, queueVars

(***************************************************************************)
(* Steps of the campaign that touch neither jobs nor coroutines.           *)
(***************************************************************************)
LEMMA FlagStep ==
    ASSUME Inv, TypeOK',
           UNCHANGED <<m_undoneJobs, m_runningJobs, m_doneJobs, counterVars, jobVars,
                       coroutineVars, collected, clientJobs>>,
           doneFinished' => noMoreExps'
    PROVE  Inv'
<1>1. PcInv'
  BY Zenon DEF Inv, PcInv, coroutineVars
<1>2. HomeInv' /\ IdInv' /\ ContentInv'
  BY Zenon, NoJobMoved DEF counterVars, coroutineVars
<1>3. ClientInv'
  BY DEF Inv, ClientInv, Sent, jobVars, coroutineVars
<1> QED
  BY Zenon, <1>1, <1>2, <1>3 DEF Inv

(***************************************************************************)
(* SetNoMoreExperiments, GetDoneNull, Done and Terminated preserve the     *)
(* invariant.                                                              *)
(***************************************************************************)
LEMMA FlagActionsInv ==
    ASSUME Inv, SetNoMoreExperiments \/ GetDoneNull \/ Done \/ UNCHANGED vars
    PROVE  Inv'
<1>1. CASE SetNoMoreExperiments
  <2>1. noMoreExps' = TRUE /\ doneFinished' \in BOOLEAN
    BY Zenon, <1>1 DEF SetNoMoreExperiments
  <2>2. TypeOK'
    BY Zenon, <1>1, <2>1 DEF SetNoMoreExperiments, Inv, TypeOK, counterVars, jobVars, coroutineVars,
                      networkVars
  <2> QED
    BY Zenon, <1>1, <2>1, <2>2, FlagStep DEF SetNoMoreExperiments, networkVars
<1>2. CASE GetDoneNull
  <2>1. TypeOK'
    BY Zenon, <1>2 DEF GetDoneNull, Inv, TypeOK, queueVars, counterVars, jobVars, coroutineVars,
                networkVars
  <2> QED
    BY Zenon, <1>2, <2>1, FlagStep DEF GetDoneNull, Inv, queueVars, networkVars
<1>3. CASE Done
  <2>1. TypeOK'
    BY Zenon, <1>3 DEF Done, Inv, TypeOK, queueVars, counterVars, jobVars, coroutineVars, networkVars
  <2> QED
    BY Zenon, <1>3, <2>1, FlagStep DEF Done, Inv, queueVars, networkVars
<1>4. CASE UNCHANGED vars
  <2>1. TypeOK'
    BY Zenon, <1>4 DEF vars, Inv, TypeOK, queueVars, counterVars, jobVars, coroutineVars,
                campaignVars, networkVars
  <2> QED
    BY Zenon, <1>4, <2>1, FlagStep DEF vars, Inv, queueVars, campaignVars, networkVars
<1> QED
  BY Zenon, <1>1, <1>2, <1>3, <1>4

-----------------------------------------------------------------------------
(***************************************************************************)
(* Handing out jobs.                                                       *)
(***************************************************************************)

-----------------------------------------------------------------------------

(***************************************************************************)
(* The invariant holds initially.                                          *)
(***************************************************************************)
LEMMA InitInv == Init => Inv
<1> SUFFICES ASSUME Init PROVE Inv
  BY Zenon
<1> USE ConstAssumption
<1>1. TypeOK
  <2>1. /\ DOMAIN m_runningJobs \subseteq Nat
        /\ m_runningJobs \in [DOMAIN m_runningJobs -> Jobs]
    BY Zenon DEF Init
  <2>2. workloadID \in [Jobs -> Nat] /\ content \in [Jobs -> Contents]
    BY Zenon DEF Init, Contents
  <2>3. home \in [Jobs -> Places \cup Conns] /\ pc \in [Conns -> Pcs]
    BY Zenon DEF Init, Places, Pcs
  <2>4. /\ want \in [Conns -> Nat] /\ temp_exp \in [Conns -> Jobs \cup {NoJob}]
        /\ exp \in [Conns -> Seq(Jobs)] /\ recvd \in [Conns -> Seq(Jobs)]
        /\ msgs \in [Conns -> Seq(PendingMsgs)]
    BY DEF Init
  <2>5. /\ m_undoneJobs \in Seq(Jobs) /\ m_doneJobs \in Seq(Jobs)
        /\ nextpick \in Nat /\ m_counter \in Nat /\ m_DoneCount \in Nat /\ faults \in Nat
        /\ collected \in Jobs \cup {NoJob} /\ clientJobs \subseteq Workloads
    BY DEF Init
  <2>6. /\ doneFinished \in BOOLEAN /\ noMoreExps \in BOOLEAN
        /\ stopped \in BOOLEAN /\ gotNull \in BOOLEAN
    BY Zenon DEF Init
  <2> QED
    BY <2>1, <2>2, <2>3, <2>4, <2>5, <2>6 DEF TypeOK
<1>2. PcInv
  BY DEF Init, PcInv, Sending
<1>3. HomeInv
  <2>1. /\ \A p : p # "campaign" => HeldBy(p) = {}
        /\ \A c \in Conns : c # "campaign"
    BY Zenon DEF Init, HeldBy, Places
  <2>2. Range(m_runningJobs) = {}
    BY Zenon DEF Init, Range
  <2> QED
    BY Zenon, <2>1, <2>2, EmptyRange DEF Init, HomeInv
<1>4. IdInv
  BY DEF Init, IdInv, NotSentYet
<1>5. ContentInv
  BY Zenon, EmptyRange DEF Init, ContentInv
<1>6. ClientInv
  BY DEF Init, ClientInv
<1> QED
  BY Zenon, <1>1, <1>2, <1>3, <1>4, <1>5, <1>6 DEF Inv, Init

(***************************************************************************)
(* The results still to be read.                                           *)
(***************************************************************************)
LEMMA MsgTypes ==
    ASSUME TypeOK, NEW d \in Conns, NEW i \in DOMAIN msgs[d]
    PROVE  /\ msgs[d][i] \in PendingMsgs
           /\ msgs[d][i].job \in Jobs \cup {NoJob}
           /\ msgs[d][i].id \in Nat
           /\ msgs[d][i].data \in Workloads
           /\ msgs[d][i].job # NoJob => msgs[d][i].job \in JobsOf(msgs[d])
<1>1. msgs[d] \in Seq(PendingMsgs)
  BY Zenon DEF TypeOK
<1>2. msgs[d][i] \in PendingMsgs
  BY <1>1
<1> QED
  BY Zenon, <1>2 DEF PendingMsgs, JobsOf

(***************************************************************************)
(* DequeueUndone preserves the invariant: the new workload ID is fresh.    *)
(***************************************************************************)
LEMMA DequeueUndoneInv ==
    ASSUME Inv, NEW c \in Conns, DequeueUndone(c)
    PROVE  Inv'
<1> USE ConstAssumption
<1> DEFINE j == Head(m_undoneJobs)
<1>0. /\ j \in Jobs /\ j \in Range(m_undoneJobs) /\ home[j] = "undone" /\ c # "undone"
      /\ m_undoneJobs' \in Seq(Jobs)
      /\ IsInjective(m_undoneJobs')
      /\ Range(m_undoneJobs') = Range(m_undoneJobs) \ {j}
  BY Zenon, TailRange DEF DequeueUndone, Inv, TypeOK, HomeInv, HeldBy, Places
<1>1. j \notin Range(exp[c])
  BY <1>0 DEF Inv, HomeInv, HeldBy
<1>2. /\ exp'[c] = Append(exp[c], j) /\ \A d \in Conns \ {c} : exp'[d] = exp[d]
      /\ exp' \in [Conns -> Seq(Jobs)]
      /\ exp'[c] # <<>>
      /\ Range(exp'[c]) = Range(exp[c]) \cup {j}
      /\ IsInjective(exp'[c])
  <2>1. exp[c] \in Seq(Jobs) /\ IsInjective(exp[c])
    BY Zenon DEF Inv, TypeOK, HomeInv
  <2>2. /\ Append(exp[c], j) \in Seq(Jobs)
        /\ Append(exp[c], j) # <<>>
        /\ Range(Append(exp[c], j)) = Range(exp[c]) \cup {j}
        /\ IsInjective(Append(exp[c], j))
    BY <1>0, <1>1, <2>1, AppendRange
  <2>3. exp' = [exp EXCEPT ![c] = Append(exp[c], j)] /\ exp \in [Conns -> Seq(Jobs)]
    BY Zenon DEF DequeueUndone, Inv, TypeOK
  <2> QED
    BY Zenon, <2>2, <2>3
<1>3. m_counter' \in Nat /\ m_counter' = m_counter + 1 /\ m_counter \in Nat
  <2>1. m_counter' = m_counter + 1
    BY Zenon DEF DequeueUndone
  <2> QED
    BY SMTT(40), <2>1 DEF Inv, TypeOK
<1>4. TypeOK'
  <2>1. home' \in [Jobs -> Places \cup Conns] /\ workloadID' \in [Jobs -> Nat]
    BY Zenon, <1>0, <1>3 DEF DequeueUndone, Inv, TypeOK
  <2>2. want' \in [Conns -> Nat]
    <3>1. want' = [want EXCEPT ![c] = want[c] - 1] /\ want[c] > 0
      BY Zenon DEF DequeueUndone
    <3> QED
      BY SMTT(40), <3>1 DEF Inv, TypeOK
  <2> QED
    BY Zenon, <1>0, <1>2, <1>3, <2>1, <2>2 DEF DequeueUndone, Inv, TypeOK, campaignVars, networkVars
<1>5. PcInv'
  BY Zenon, <1>2 DEF DequeueUndone, Inv, TypeOK, PcInv, At, Sending
<1>6. HomeInv'
  <2>1. /\ HeldBy(c)' = HeldBy(c) \cup {j}
        /\ HeldBy("undone")' = HeldBy("undone") \ {j}
        /\ \A p : p # c /\ p # "undone" => HeldBy(p)' = HeldBy(p)
    BY Zenon, <1>0, MoveHome DEF DequeueUndone, Inv
  <2>2. \A d \in Conns : \A p \in Places : d # p
    BY Zenon, PlacesAreNotConns
  <2>3. Range(m_undoneJobs') = HeldBy("undone")'
    BY Zenon, <1>0, <2>1 DEF Inv, HomeInv
  <2>4. /\ Range(m_runningJobs)' = HeldBy("running")'
        /\ Range(m_doneJobs)' = HeldBy("done")'
        /\ IsInjective(m_doneJobs)'
        /\ HeldBy("collected")' = {collected'} \ {NoJob}
    BY SMTT(40), <2>1, <2>2 DEF DequeueUndone, Inv, HomeInv, campaignVars, Places
  <2>5. HeldBy(c)' = Range(exp'[c]) \cup Range(recvd[c]) \cup JobsOf(msgs[c])
    BY SMTT(40), <1>2, <2>1 DEF Inv, HomeInv
  <2>6. \A d \in Conns \ {c} : HeldBy(d)' = Range(exp'[d]) \cup Range(recvd[d]) \cup JobsOf(msgs[d])
    BY Zenon, <1>2, <2>1, <2>2 DEF Inv, HomeInv, Places
  <2> QED
    BY Zenon, <1>0, <1>2, <2>3, <2>4, <2>5, <2>6 DEF DequeueUndone, Inv, HomeInv
<1>7. IdInv'
  <2>1. /\ \A k \in Jobs \ {j} : workloadID'[k] = workloadID[k] /\ home'[k] = home[k]
        /\ workloadID'[j] = m_counter + 1
    BY Zenon, <1>0, <1>3 DEF DequeueUndone, Inv, TypeOK
  <2>2. \A k \in Jobs : workloadID[k] \in Nat /\ workloadID[k] <= m_counter
    BY Zenon DEF Inv, TypeOK, IdInv
  <2>3. j \notin Range(m_runningJobs) /\ \A d \in Conns : j \notin JobsOf(msgs[d])
    BY SMTT(40), <1>0 DEF Inv, HomeInv, HeldBy, Places
  <2>4. /\ \A k \in Jobs : workloadID'[k] <= m_counter'
        /\ \A k, l \in Jobs : workloadID'[k] = workloadID'[l] /\ workloadID'[k] # 0 => k = l
        /\ \A k \in Jobs : home'[k] \notin NotSentYet => workloadID'[k] # 0
    BY SMTT(40), <1>3, <2>1, <2>2 DEF Inv, IdInv
  <2>5. \A id \in DOMAIN m_runningJobs : workloadID'[m_runningJobs[id]] = id
    <3> SUFFICES ASSUME NEW id \in DOMAIN m_runningJobs
                 PROVE  workloadID'[m_runningJobs[id]] = id
      BY Zenon
    <3>1. m_runningJobs[id] \in Jobs \ {j}
      BY SMTT(40), <2>3 DEF Inv, TypeOK, Range
    <3> QED
      BY Zenon, <2>1, <3>1 DEF Inv, IdInv
  <2>6. \A d \in Conns : \A i \in DOMAIN msgs[d] :
            msgs[d][i].job # NoJob => workloadID'[msgs[d][i].job] = msgs[d][i].id
    <3> SUFFICES ASSUME NEW d \in Conns, NEW i \in DOMAIN msgs[d], msgs[d][i].job # NoJob
                 PROVE  workloadID'[msgs[d][i].job] = msgs[d][i].id
      BY Zenon
    <3>1. msgs[d][i].job \in Jobs /\ msgs[d][i].job \in JobsOf(msgs[d])
      BY Zenon, MsgTypes DEF Inv
    <3> QED
      BY SMTT(40), <2>1, <2>3, <3>1 DEF Inv, IdInv
  <2> QED
    BY <2>4, <2>5, <2>6 DEF DequeueUndone, IdInv
<1>8. ContentInv'
  <2>1. content[j] = "param"
    BY Zenon, <1>0 DEF Inv, ContentInv, NotSentYet
  <2>2. \A k \in Jobs : home'[k] = IF k = j THEN c ELSE home[k]
    BY Zenon, <1>0 DEF DequeueUndone, Inv, TypeOK
  <2>3. c \notin NotSentYet \cup {"running", "done", "collected"}
    BY Zenon DEF NotSentYet, Places
  <2> QED
    BY SMTT(40), <1>2, <2>1, <2>2, <2>3 DEF DequeueUndone, Inv, ContentInv
<1>9. ClientInv'
  <2>1. ASSUME NEW k \in Jobs, Sent(k) PROVE Sent(k)' /\ k # j
    <3>1. k # j
      BY Zenon, <1>0, <2>1 DEF Sent, NotSentYet
    <3>2. home'[k] = home[k]
      BY <1>0, <3>1 DEF DequeueUndone, Inv, TypeOK
    <3>3. k \notin Range(exp[c])
      BY Zenon, <2>1 DEF Sent, DequeueUndone, At
    <3> QED
      BY Zenon, <1>2, <2>1, <3>1, <3>2, <3>3 DEF Sent, DequeueUndone
  <2>2. \A k \in Jobs : Sent(k) => workloadID'[k] = workloadID[k]
    BY Zenon, <1>0, <2>1 DEF DequeueUndone, Inv, TypeOK
  <2>3. UNCHANGED <<clientJobs, content, temp_exp, msgs>>
    BY Zenon DEF DequeueUndone, networkVars
  <2>4. \A w \in clientJobs : w.job \in Jobs
    BY Zenon DEF Inv, TypeOK, Workloads
  <2>5. \A d \in Conns : temp_exp[d] # NoJob => temp_exp[d] \in Jobs
    BY Zenon DEF Inv, TypeOK
  <2> QED
    BY Zenon, <2>1, <2>2, <2>3, <2>4, <2>5 DEF Inv, ClientInv
<1> QED
  BY SMTT(40), <1>4, <1>5, <1>6, <1>7, <1>8, <1>9 DEF DequeueUndone, Inv, campaignVars

(***************************************************************************)
(* CtrlFailed preserves the invariant: the jobs it leaks were not sent.    *)
(***************************************************************************)
LEMMA CtrlFailedInv ==
    ASSUME Inv, NEW c \in Conns, CtrlFailed(c)
    PROVE  Inv'
<1> USE ConstAssumption
<1>1. \A k \in Jobs : home'[k] = IF home[k] = c THEN "leaked" ELSE home[k]
  BY Zenon DEF CtrlFailed
<1>2. exp'[c] = <<>> /\ \A d \in Conns \ {c} : exp'[d] = exp[d]
  BY Zenon DEF CtrlFailed, Inv, TypeOK
<1>3. recvd[c] = <<>> /\ msgs[c] = <<>>
  BY Zenon DEF CtrlFailed, At, Inv, PcInv
<1>4. TypeOK'
  <2>1. home' \in [Jobs -> Places \cup Conns]
    BY Zenon DEF CtrlFailed, Inv, TypeOK, Places
  <2>2. pc' \in [Conns -> Pcs] /\ exp' \in [Conns -> Seq(Jobs)] /\ faults' \in Nat
    BY SMTT(40) DEF CtrlFailed, Fail, Goto, Inv, TypeOK, Pcs
  <2> QED
    BY Zenon, <2>1, <2>2 DEF CtrlFailed, Inv, TypeOK, queueVars, counterVars, campaignVars
<1>5. PcInv'
  BY Zenon, <1>2 DEF CtrlFailed, Inv, TypeOK, PcInv, At, Goto, Sending
<1>6. HomeInv'
  <2>1. /\ HeldBy(c)' = {}
        /\ \A p : p # c /\ p # "leaked" => HeldBy(p)' = HeldBy(p)
    BY Zenon, <1>1 DEF HeldBy, Places
  <2>2. \A d \in Conns : \A p \in Places : d # p
    BY Zenon, PlacesAreNotConns
  <2>3. /\ HeldBy("undone")' = HeldBy("undone") /\ HeldBy("running")' = HeldBy("running")
        /\ HeldBy("done")' = HeldBy("done") /\ HeldBy("collected")' = HeldBy("collected")
    BY Zenon, <2>1, <2>2 DEF Places
  <2>4. \A d \in Conns \ {c} : HeldBy(d)' = HeldBy(d)
    BY Zenon, <2>1, <2>2 DEF Places
  <2>5. \A d \in Conns : /\ HeldBy(d)' = Range(exp'[d]) \cup Range(recvd[d]) \cup JobsOf(msgs[d])
                         /\ IsInjective(exp'[d])
    BY SMTT(40), <1>2, <1>3, <2>1, <2>4, EmptyRange DEF Inv, HomeInv
  <2> QED
    BY Zenon, <2>3, <2>5 DEF CtrlFailed, Inv, HomeInv, queueVars, campaignVars
<1>7. IdInv'
  <2>1. \A k \in Jobs : home'[k] \notin NotSentYet => home[k] \notin NotSentYet
    BY Zenon, <1>1 DEF NotSentYet, Places
  <2> QED
    BY Zenon, <2>1 DEF CtrlFailed, Inv, IdInv, queueVars, counterVars
<1>8. ContentInv'
  <2>1. \A k \in Jobs : home'[k] \in NotSentYet \cup {"running", "done", "collected"} => home'[k] = home[k]
    BY Zenon, <1>1 DEF NotSentYet
  <2>2. \A d \in Conns : Range(exp'[d]) \subseteq Range(exp[d])
    BY Zenon, <1>2, EmptyRange
  <2> QED
    BY Zenon, <2>1, <2>2 DEF CtrlFailed, Inv, ContentInv
<1>9. ClientInv'
  <2>1. ASSUME NEW k \in Jobs, Sent(k) PROVE Sent(k)'
    <3>1. home'[k] \notin NotSentYet
      BY Zenon, <1>1, <2>1 DEF Sent, NotSentYet
    <3>2. \A d \in Conns \ {c} : pc'[d] = pc[d]
      BY Zenon DEF CtrlFailed, Goto, Inv, TypeOK
    <3> QED
      BY Zenon, <1>2, <2>1, <3>1, <3>2, EmptyRange DEF Sent
  <2>2. UNCHANGED <<clientJobs, workloadID, content, temp_exp, msgs>>
    BY Zenon DEF CtrlFailed
  <2>3. \A w \in clientJobs : w.job \in Jobs
    BY Zenon DEF Inv, TypeOK, Workloads
  <2>4. \A d \in Conns : temp_exp[d] # NoJob => temp_exp[d] \in Jobs
    BY Zenon DEF Inv, TypeOK
  <2> QED
    BY SMTT(40), <2>1, <2>2, <2>3, <2>4 DEF Inv, ClientInv
<1> QED
  BY SMTT(40), <1>4, <1>5, <1>6, <1>7, <1>8, <1>9 DEF CtrlFailed, Inv, queueVars, campaignVars

(***************************************************************************)
(* The job at the front of exp is held by its coroutine alone.             *)
(***************************************************************************)
LEMMA FrontJob ==
    ASSUME Inv, NEW c \in Conns, pc[c] \in Sending
    PROVE  /\ Head(exp[c]) \in Jobs
           /\ Head(exp[c]) \in Range(exp[c])
           /\ home[Head(exp[c])] = c
           /\ content[Head(exp[c])] = "param"
           /\ workloadID[Head(exp[c])] # 0
           /\ Tail(exp[c]) \in Seq(Jobs)
           /\ IsInjective(Tail(exp[c]))
           /\ Range(Tail(exp[c])) = Range(exp[c]) \ {Head(exp[c])}
           /\ \A d \in Conns \ {c} : Head(exp[c]) \notin Range(exp[d])
           /\ recvd[c] = <<>> /\ msgs[c] = <<>>
<1>1. exp[c] \in Seq(Jobs) /\ exp[c] # <<>> /\ IsInjective(exp[c])
  BY Zenon DEF Inv, TypeOK, PcInv, HomeInv
<1>2. /\ Head(exp[c]) \in Jobs
      /\ Head(exp[c]) \in Range(exp[c])
      /\ Tail(exp[c]) \in Seq(Jobs)
      /\ IsInjective(Tail(exp[c]))
      /\ Range(Tail(exp[c])) = Range(exp[c]) \ {Head(exp[c])}
  BY ZenonT(60), <1>1, TailRange
<1>3. home[Head(exp[c])] = c
  BY <1>2 DEF Inv, HomeInv, HeldBy
<1>4. \A d \in Conns \ {c} : Head(exp[c]) \notin Range(exp[d])
  BY <1>3 DEF Inv, HomeInv, HeldBy
<1>5. workloadID[Head(exp[c])] # 0
  <2>1. c \notin NotSentYet
    BY Zenon, ConstAssumption DEF NotSentYet, Places
  <2> QED
    BY Zenon, <1>2, <1>3, <2>1 DEF Inv, IdInv
<1>6. content[Head(exp[c])] = "param"
  BY Zenon, <1>2 DEF Inv, ContentInv
<1>7. recvd[c] = <<>> /\ msgs[c] = <<>>
  BY Zenon DEF Inv, PcInv, Sending
<1> QED
  BY SMTT(40), <1>2, <1>3, <1>4, <1>5, <1>6, <1>7

(***************************************************************************)
(* DeliverJob preserves the invariant.                                     *)
(***************************************************************************)
LEMMA DeliverJobInv ==
    ASSUME Inv, NEW c \in Conns, DeliverJob(c)
    PROVE  Inv'
<1> DEFINE j == Head(exp[c])
           w == WorkloadOf(j)
<1>0. /\ j \in Jobs /\ home[j] = c
      /\ content[j] = "param"
      /\ \A d \in Conns \ {c} : j \notin Range(exp[d])
  BY Zenon, FrontJob DEF DeliverJob, Sending
<1>1. w \in Workloads /\ w.id = workloadID[j] /\ w.job = j /\ w.intact
  BY Zenon, <1>0 DEF WorkloadOf, Workloads, Inv, TypeOK
<1>2. TypeOK'
  <2>1. pc' \in [Conns -> Pcs] /\ clientJobs' \subseteq Workloads
    BY Zenon, <1>1 DEF DeliverJob, Goto, Inv, TypeOK, Pcs
  <2> QED
    BY SMTT(40), <2>1 DEF DeliverJob, Inv, TypeOK, queueVars, counterVars, jobVars, campaignVars
<1>3. PcInv'
  BY Zenon DEF DeliverJob, Inv, TypeOK, PcInv, Goto, Sending
<1>4. \A k : Sent(k) => Sent(k)'
  BY Zenon, SentKept DEF DeliverJob, Inv, jobVars
<1>5. Sent(j)'
  <2>1. c \notin NotSentYet
    BY Zenon, ConstAssumption DEF NotSentYet, Places
  <2>2. pc'[c] = "jobSent"
    BY Zenon DEF DeliverJob, Goto, Inv, TypeOK
  <2> QED
    BY Zenon, <1>0, <2>1, <2>2 DEF Sent, DeliverJob, jobVars
<1>6. ClientInv'
  BY <1>1, <1>4, <1>5 DEF DeliverJob, Inv, ClientInv, jobVars
<1> QED
  BY SMTT(40), <1>2, <1>3, <1>6, NoJobMoved DEF DeliverJob, Inv, queueVars, counterVars, campaignVars

(***************************************************************************)
(* When the job at the front of exp goes to place q, the coroutine keeps   *)
(* the others.                                                             *)
(***************************************************************************)
LEMMA PopFront ==
    ASSUME Inv, NEW c \in Conns, pc[c] \in Sending,
           NEW q \in Places, home' = [home EXCEPT ![Head(exp[c])] = q],
           exp' = [exp EXCEPT ![c] = Tail(exp[c])],
           UNCHANGED <<msgs, recvd>>
    PROVE  /\ home' \in [Jobs -> Places \cup Conns]
           /\ exp' \in [Conns -> Seq(Jobs)]
           /\ HeldBy(q)' = HeldBy(q) \cup {Head(exp[c])}
           /\ Head(exp[c]) \notin HeldBy(q)
           /\ \A p \in Places \ {q} : HeldBy(p)' = HeldBy(p)
           /\ \A d \in Conns :
                 /\ HeldBy(d)' = Range(exp[d])' \cup Range(recvd[d])' \cup JobsOf(msgs[d])'
                 /\ IsInjective(exp[d])'
                 /\ Range(exp'[d]) \subseteq Range(exp[d]) \ {Head(exp[c])}
<1> USE ConstAssumption
<1> DEFINE j == Head(exp[c])
<1>0. /\ j \in Jobs /\ home[j] = c
      /\ Tail(exp[c]) \in Seq(Jobs)
      /\ IsInjective(Tail(exp[c]))
      /\ Range(Tail(exp[c])) = Range(exp[c]) \ {j}
      /\ \A d \in Conns \ {c} : j \notin Range(exp[d])
      /\ recvd[c] = <<>> /\ msgs[c] = <<>>
  BY Zenon, FrontJob
<1>1. \A d \in Conns : \A p \in Places : d # p
  BY Zenon, PlacesAreNotConns
<1>2. /\ j \notin HeldBy(q)
      /\ HeldBy(q)' = HeldBy(q) \cup {j}
      /\ HeldBy(c)' = HeldBy(c) \ {j}
      /\ \A p : p # q /\ p # c => HeldBy(p)' = HeldBy(p)
  <2>1. c # q /\ TypeOK /\ home' = [home EXCEPT ![j] = q]
    BY Zenon, <1>1 DEF Inv
  <2>2. \A k \in Jobs : home'[k] = IF k = j THEN q ELSE home[k]
    BY Zenon, <1>0, <2>1 DEF TypeOK
  <2> HIDE DEF j
  <2> QED
    BY <1>0, <2>1, <2>2 DEF HeldBy
<1>3. \A p \in Places \ {q} : HeldBy(p)' = HeldBy(p)
  BY Zenon, <1>1, <1>2
<1>4. home' \in [Jobs -> Places \cup Conns] /\ exp' \in [Conns -> Seq(Jobs)]
  BY Zenon, <1>0 DEF Inv, TypeOK
<1>5. exp'[c] = Tail(exp[c]) /\ \A d \in Conns \ {c} : exp'[d] = exp[d]
  BY Zenon DEF Inv, TypeOK
<1>6. \A d \in Conns : IsInjective(exp'[d]) /\ Range(exp'[d]) \subseteq Range(exp[d]) \ {j}
  BY SMTT(40), <1>0, <1>5 DEF Inv, HomeInv
<1>7. HeldBy(c)' = Range(exp'[c]) \cup Range(recvd'[c]) \cup JobsOf(msgs'[c])
  BY SMTT(40), <1>0, <1>2, <1>5, EmptyRange DEF Inv, HomeInv
<1>8. ASSUME NEW d \in Conns \ {c}
      PROVE  HeldBy(d)' = Range(exp'[d]) \cup Range(recvd'[d]) \cup JobsOf(msgs'[d])
  <2>1. HeldBy(d)' = HeldBy(d)
    BY Zenon, <1>1, <1>2
  <2> QED
    BY Zenon, <1>5, <2>1 DEF Inv, HomeInv
<1> QED
  BY Zenon, <1>2, <1>3, <1>4, <1>6, <1>7, <1>8

(***************************************************************************)
(* JobSent preserves the invariant, and its insert is not refused.         *)
(***************************************************************************)
LEMMA JobSentInv ==
    ASSUME Inv, NEW c \in Conns, JobSent(c)
    PROVE  Inv'
<1> USE ConstAssumption
<1> DEFINE j == Head(exp[c])
           id == workloadID[j]
<1>0. /\ j \in Jobs /\ home[j] = c /\ content[j] = "param" /\ id # 0
      /\ recvd[c] = <<>> /\ msgs[c] = <<>> /\ j \in Range(exp[c])
  BY Zenon, FrontJob DEF JobSent, At, Sending
<1>1. /\ home' = [home EXCEPT ![j] = "running"]
      /\ exp' = [exp EXCEPT ![c] = Tail(exp[c])]
      /\ UNCHANGED <<msgs, recvd>>
      /\ pc[c] \in Sending /\ "running" \in Places
  BY Zenon DEF JobSent, At, Sending, Places
<1>2. /\ home' \in [Jobs -> Places \cup Conns]
      /\ exp' \in [Conns -> Seq(Jobs)]
      /\ HeldBy("running")' = HeldBy("running") \cup {j}
      /\ j \notin HeldBy("running")
      /\ \A p \in Places \ {"running"} : HeldBy(p)' = HeldBy(p)
      /\ \A d \in Conns :
            /\ HeldBy(d)' = Range(exp[d])' \cup Range(recvd[d])' \cup JobsOf(msgs[d])'
            /\ IsInjective(exp[d])'
            /\ Range(exp'[d]) \subseteq Range(exp[d]) \ {j}
  BY Zenon, <1>1, PopFront
<1>3. id \notin DOMAIN m_runningJobs
  <2> SUFFICES ASSUME id \in DOMAIN m_runningJobs PROVE FALSE
    BY Zenon
  <2>1. m_runningJobs[id] \in Jobs /\ m_runningJobs[id] \in HeldBy("running")
    BY Zenon DEF Inv, TypeOK, HomeInv, Range
  <2>2. m_runningJobs[id] = j
    BY Zenon, <1>0, <2>1 DEF Inv, IdInv
  <2> QED
    BY Zenon, <1>2, <2>1, <2>2
<1>4. /\ DOMAIN m_runningJobs' = DOMAIN m_runningJobs \cup {id}
      /\ m_runningJobs'[id] = j
      /\ \A k \in DOMAIN m_runningJobs : m_runningJobs'[k] = m_runningJobs[k]
      /\ m_runningJobs' \in [DOMAIN m_runningJobs' -> Jobs]
  <2>1. m_runningJobs' = Inserted(m_runningJobs, id, j)
    BY Zenon DEF JobSent
  <2> QED
    BY SMTT(40), <1>0, <1>3, <2>1 DEF Inserted, Inv, TypeOK
<1>5. TypeOK'
  <2>1. pc' \in [Conns -> Pcs]
    BY Zenon DEF JobSent, Goto, Inv, TypeOK, Pcs
  <2>2. DOMAIN m_runningJobs' \subseteq Nat
    BY ZenonT(60), <1>0, <1>4 DEF Inv, TypeOK
  <2> QED
    BY Zenon, <1>2, <1>4, <2>1, <2>2 DEF JobSent, Inv, TypeOK, counterVars, campaignVars, networkVars
<1>6. PcInv'
  <2>1. /\ exp'[c] = Tail(exp[c]) /\ \A d \in Conns \ {c} : exp'[d] = exp[d] /\ pc'[d] = pc[d]
        /\ pc'[c] = IF Tail(exp[c]) = <<>> THEN "idle" ELSE "sendJob"
    BY <1>1 DEF JobSent, Goto, Inv, TypeOK
  <2> QED
    BY ZenonT(60), <1>0, <2>1 DEF JobSent, At, Inv, PcInv, Sending
<1>7. HomeInv'
  <2>1. Range(m_runningJobs') = Range(m_runningJobs) \cup {j}
    BY SMTT(40), <1>4 DEF Range
  <2>2. Range(m_runningJobs') = HeldBy("running")'
    BY Zenon, <1>2, <2>1 DEF Inv, HomeInv
  <2>3. /\ HeldBy("undone")' = HeldBy("undone") /\ HeldBy("done")' = HeldBy("done")
        /\ HeldBy("collected")' = HeldBy("collected")
    BY Zenon, <1>2 DEF Places
  <2> QED
    BY Zenon, <1>2, <2>2, <2>3 DEF JobSent, Inv, HomeInv, campaignVars
<1>8. IdInv'
  <2>1. \A k \in DOMAIN m_runningJobs' : workloadID[m_runningJobs'[k]] = k
    BY Zenon, <1>4 DEF Inv, IdInv
  <2>2. \A k \in Jobs : home'[k] \notin NotSentYet => workloadID[k] # 0
    BY Zenon, <1>0, <1>1 DEF Inv, TypeOK, IdInv
  <2> QED
    BY ZenonT(60), <1>1, <2>1, <2>2 DEF JobSent, Inv, IdInv, counterVars
<1>9. ContentInv'
  <2>1. \A k \in Jobs : home'[k] = IF k = j THEN "running" ELSE home[k]
    BY SMTT(40), <1>0, <1>1 DEF Inv, TypeOK
  <2> QED
    BY Zenon, <1>0, <1>1, <1>2, <2>1 DEF JobSent, Inv, ContentInv, NotSentYet
<1>10. ClientInv'
  <2>1. ASSUME NEW k \in Jobs, Sent(k) PROVE Sent(k)'
    <3>1. home'[k] \notin NotSentYet
      BY SMTT(40), <1>0, <1>1, <2>1 DEF Sent, NotSentYet, Inv, TypeOK
    <3>2. \A d \in Conns \ {c} : pc'[d] = pc[d] /\ exp'[d] = exp[d]
      BY SMTT(40), <1>1 DEF JobSent, Goto, Inv, TypeOK
    <3>3. k \notin Range(exp'[c])
      BY Zenon, <1>2, <2>1 DEF Sent
    <3> QED
      BY SMTT(40), <2>1, <3>1, <3>2, <3>3 DEF Sent
  <2>2. UNCHANGED <<clientJobs, workloadID, content, temp_exp, msgs>>
    BY Zenon DEF JobSent, networkVars
  <2>3. \A w \in clientJobs : w.job \in Jobs
    BY Zenon DEF Inv, TypeOK, Workloads
  <2>4. \A d \in Conns : temp_exp[d] # NoJob => temp_exp[d] \in Jobs
    BY Zenon DEF Inv, TypeOK
  <2> QED
    BY Zenon, <2>1, <2>2, <2>3, <2>4 DEF Inv, ClientInv
<1> QED
  BY SMTT(40), <1>5, <1>6, <1>7, <1>8, <1>9, <1>10 DEF JobSent, Inv, campaignVars

(***************************************************************************)
(* Requeue preserves the invariant: the job it gives up was not sent.      *)
(***************************************************************************)
LEMMA RequeueInv ==
    ASSUME Inv, NEW c \in Conns, Requeue(c)
    PROVE  Inv'
<1> USE ConstAssumption
<1> DEFINE j == Head(exp[c])
<1>0. /\ j \in Jobs /\ home[j] = c /\ content[j] = "param"
      /\ recvd[c] = <<>> /\ msgs[c] = <<>> /\ j \in Range(exp[c])
  BY Zenon, FrontJob DEF Requeue, At, Sending
<1>1. /\ home' = [home EXCEPT ![j] = "undone"]
      /\ exp' = [exp EXCEPT ![c] = Tail(exp[c])]
      /\ UNCHANGED <<msgs, recvd>>
      /\ pc[c] \in Sending /\ "undone" \in Places
  BY Zenon DEF Requeue, At, Sending, Places
<1>2. /\ home' \in [Jobs -> Places \cup Conns]
      /\ exp' \in [Conns -> Seq(Jobs)]
      /\ HeldBy("undone")' = HeldBy("undone") \cup {j}
      /\ j \notin HeldBy("undone")
      /\ \A p \in Places \ {"undone"} : HeldBy(p)' = HeldBy(p)
      /\ \A d \in Conns :
            /\ HeldBy(d)' = Range(exp[d])' \cup Range(recvd[d])' \cup JobsOf(msgs[d])'
            /\ IsInjective(exp[d])'
            /\ Range(exp'[d]) \subseteq Range(exp[d]) \ {j}
  BY Zenon, <1>1, PopFront
<1>3. /\ m_undoneJobs' \in Seq(Jobs)
      /\ Range(m_undoneJobs') = HeldBy("undone")'
      /\ IsInjective(m_undoneJobs')
  <2>1. m_undoneJobs' = Append(m_undoneJobs, j) /\ m_undoneJobs \in Seq(Jobs)
    BY Zenon DEF Requeue, Inv, TypeOK
  <2>2. Range(m_undoneJobs) = HeldBy("undone") /\ IsInjective(m_undoneJobs)
    BY Zenon DEF Inv, HomeInv
  <2>3. /\ Append(m_undoneJobs, j) \in Seq(Jobs)
        /\ Range(Append(m_undoneJobs, j)) = Range(m_undoneJobs) \cup {j}
        /\ IsInjective(Append(m_undoneJobs, j))
    BY <1>0, <1>2, <2>1, <2>2, AppendRange
  <2> QED
    BY Zenon, <1>2, <2>1, <2>2, <2>3
<1>4. TypeOK'
  <2>1. pc' \in [Conns -> Pcs]
    BY Zenon DEF Requeue, Goto, Inv, TypeOK, Pcs
  <2> QED
    BY Zenon, <1>2, <1>3, <2>1 DEF Requeue, Inv, TypeOK, counterVars, campaignVars, networkVars
<1>5. PcInv'
  <2>1. /\ exp'[c] = Tail(exp[c]) /\ \A d \in Conns \ {c} : exp'[d] = exp[d] /\ pc'[d] = pc[d]
        /\ pc'[c] = IF Tail(exp[c]) = <<>> THEN "idle" ELSE "requeue"
    BY <1>1 DEF Requeue, Goto, Inv, TypeOK
  <2> QED
    BY Zenon, <1>0, <2>1 DEF Requeue, At, Inv, PcInv, Sending
<1>6. HomeInv'
  <2>1. /\ HeldBy("running")' = HeldBy("running") /\ HeldBy("done")' = HeldBy("done")
        /\ HeldBy("collected")' = HeldBy("collected")
    BY Zenon, <1>2 DEF Places
  <2> QED
    BY ZenonT(60), <1>2, <1>3, <2>1 DEF Requeue, Inv, HomeInv, campaignVars
<1>7. IdInv'
  <2>1. \A k \in Jobs : home'[k] \notin NotSentYet => workloadID[k] # 0
    BY Zenon, <1>0, <1>1 DEF Inv, TypeOK, IdInv, NotSentYet
  <2> QED
    BY ZenonT(60), <1>1, <2>1 DEF Requeue, Inv, IdInv, counterVars
<1>8. ContentInv'
  <2>1. \A k \in Jobs : home'[k] = IF k = j THEN "undone" ELSE home[k]
    BY SMTT(40), <1>0, <1>1 DEF Inv, TypeOK
  <2> QED
    BY ZenonT(60), <1>0, <1>1, <1>2, <2>1 DEF Requeue, Inv, ContentInv, NotSentYet
<1>9. ClientInv'
  <2>1. ASSUME NEW k \in Jobs, Sent(k) PROVE Sent(k)'
    <3>1. k \notin Range(exp[c])
      BY Zenon, <2>1 DEF Sent, Requeue, At
    <3>2. home'[k] = home[k]
      BY SMTT(40), <1>0, <1>1, <3>1 DEF Inv, TypeOK
    <3>3. \A d \in Conns \ {c} : pc'[d] = pc[d] /\ exp'[d] = exp[d]
      BY SMTT(40), <1>1 DEF Requeue, Goto, Inv, TypeOK
    <3>4. k \notin Range(exp'[c])
      BY Zenon, <1>2, <3>1
    <3> QED
      BY Zenon, <2>1, <3>2, <3>3, <3>4 DEF Sent
  <2>2. UNCHANGED <<clientJobs, workloadID, content, temp_exp, msgs>>
    BY Zenon DEF Requeue, networkVars
  <2>3. \A w \in clientJobs : w.job \in Jobs
    BY Zenon DEF Inv, TypeOK, Workloads
  <2>4. \A d \in Conns : temp_exp[d] # NoJob => temp_exp[d] \in Jobs
    BY Zenon DEF Inv, TypeOK
  <2> QED
    BY Zenon, <2>1, <2>2, <2>3, <2>4 DEF Inv, ClientInv
<1> QED
  BY Zenon, <1>4, <1>5, <1>6, <1>7, <1>8, <1>9 DEF Requeue, Inv, campaignVars

-----------------------------------------------------------------------------
(***************************************************************************)
(* Every step preserves the invariant.                                     *)
(***************************************************************************)
LEMMA NextInv ==
    ASSUME Inv, [Next]_vars
    PROVE  Inv'
<1>1. CASE UNCHANGED vars
  BY Zenon, <1>1, FlagActionsInv
<1>2. CASE CampaignStep
  BY Zenon, <1>2, AddParamInv, SkipJobsInv, FlagActionsInv DEF CampaignStep
<1>3. CASE CollectorStep
  BY Zenon, <1>3, GetDoneInv, DeleteResultInv, FlagActionsInv DEF CollectorStep
<1>4. ASSUME NEW c \in Conns, ClientStep(c)
      PROVE  Inv'
  BY <1>4, NeedWorkInv, ResultFollowsInv DEF ClientStep
<1>5. ASSUME NEW c \in Conns, CoroutineStep(c)
      PROVE  Inv'
  BY SMTT(40), <1>5, DequeueUndoneInv, DequeueEndInv, CtrlSentInv, CtrlFailedInv, DeliverJobInv, JobSentInv,
     JobFailedInv, RequeueInv, PickRunningInv, PickNothingInv, ResendInv, ResendFailedInv,
     RepliedInv, RcvResultInv, RcvLastResultInv, RcvFailedInv DEF CoroutineStep
<1>6. CASE Terminated
  BY Zenon, <1>6, FlagActionsInv DEF Terminated
<1> QED
  BY Zenon, <1>1, <1>2, <1>3, <1>4, <1>5, <1>6 DEF Next

(***************************************************************************)
(* The invariant holds throughout.                                         *)
(***************************************************************************)
THEOREM InvAlways == Spec => []Inv
<1>1. Init => Inv
  BY Zenon, InitInv
<1>2. Inv /\ [Next]_vars => Inv'
  BY Zenon, NextInv
<1> QED
  BY <1>1, <1>2, PTL DEF Spec

-----------------------------------------------------------------------------
(***************************************************************************)
(* How often a job occurs in a container without duplicates.               *)
(***************************************************************************)
LEMMA PositionsCount ==
    ASSUME NEW place, NEW s, NEW j
    PROVE  /\ j \notin Range(s) => Positions(place, s, j) = {}
           /\ j \in Range(s) /\ IsInjective(s) => \E x : Positions(place, s, j) = {x}
<1>1. ASSUME j \notin Range(s) PROVE Positions(place, s, j) = {}
  BY Zenon, <1>1 DEF Range, Positions
<1>2. ASSUME j \in Range(s), IsInjective(s) PROVE \E x : Positions(place, s, j) = {x}
  <2>1. PICK i \in DOMAIN s : s[i] = j
    BY Zenon, <1>2 DEF Range
  <2>2. {k \in DOMAIN s : s[k] = j} = {i}
    BY Zenon, <1>2, <2>1 DEF IsInjective
  <2>3. Positions(place, s, j) = {<<place, i>>}
    BY Zenon, <2>2 DEF Positions
  <2> QED
    BY Zenon, <2>3
<1> QED
  BY Zenon, <1>1, <1>2

(***************************************************************************)
(* The same for the jobs of a sequence of results.                         *)
(***************************************************************************)
LEMMA JobsInCount ==
    ASSUME NEW place, NEW ms, NEW j \in Jobs, DistinctJobs(ms)
    PROVE  /\ j \notin JobsOf(ms) => Positions(place, JobsIn(ms), j) = {}
           /\ j \in JobsOf(ms) => \E x : Positions(place, JobsIn(ms), j) = {x}
<1>1. j # NoJob
  BY Zenon, ConstAssumption
<1>2. DOMAIN JobsIn(ms) = DOMAIN ms /\ \A i \in DOMAIN ms : JobsIn(ms)[i] = ms[i].job
  BY Zenon DEF JobsIn
<1>3. ASSUME j \notin JobsOf(ms) PROVE Positions(place, JobsIn(ms), j) = {}
  BY Zenon, <1>1, <1>2, <1>3 DEF JobsOf, Positions
<1>4. ASSUME j \in JobsOf(ms) PROVE \E x : Positions(place, JobsIn(ms), j) = {x}
  <2>1. PICK i \in DOMAIN ms : ms[i].job = j
    BY Zenon, <1>4 DEF JobsOf
  <2>2. {k \in DOMAIN JobsIn(ms) : JobsIn(ms)[k] = j} = {i}
    BY Zenon, <1>1, <1>2, <2>1 DEF DistinctJobs
  <2>3. Positions(place, JobsIn(ms), j) = {<<place, i>>}
    BY Zenon, <2>2 DEF Positions
  <2> QED
    BY Zenon, <2>3
<1> QED
  BY Zenon, <1>3, <1>4

(***************************************************************************)
(* The invariant says that every job is in one place.                      *)
(***************************************************************************)
LEMMA InvInOnePlace ==
    ASSUME Inv
    PROVE  JobInOnePlace
<1> SUFFICES ASSUME NEW j \in Jobs
             PROVE  Cardinality(Occurrences(j)) =
                      IF home[j] \in {"campaign", "skipped", "deleted", "leaked"} THEN 0 ELSE 1
  BY Zenon DEF JobInOnePlace
<1> DEFINE U == Positions(<<"undone">>, m_undoneJobs, j)
           R == Positions(<<"running">>, m_runningJobs, j)
           D == Positions(<<"done">>, m_doneJobs, j)
           C == Positions(<<"collected">>, <<collected>>, j)
           E(c) == Positions(<<"exp", c>>, exp[c], j)
           V(c) == Positions(<<"recvd", c>>, recvd[c], j)
           M(c) == Positions(<<"msgs", c>>, JobsIn(msgs[c]), j)
           H == UNION {HeldByConn(c, j) : c \in Conns}
<1>1. Occurrences(j) = U \cup R \cup D \cup C \cup H
  BY Zenon DEF Occurrences
<1>2. \A p : home[j] = p <=> j \in HeldBy(p)
  BY Zenon DEF HeldBy
<1>3. (home[j] # "undone" => U = {}) /\ (home[j] = "undone" => \E x : U = {x})
  <2>1. IsInjective(m_undoneJobs) /\ (j \in Range(m_undoneJobs) <=> home[j] = "undone")
    BY Zenon, <1>2 DEF Inv, HomeInv
  <2> QED
    BY Zenon, <2>1, PositionsCount
<1>4. (home[j] # "running" => R = {}) /\ (home[j] = "running" => \E x : R = {x})
  <2>1. IsInjective(m_runningJobs)
    BY Zenon DEF IsInjective, Inv, IdInv
  <2>2. j \in Range(m_runningJobs) <=> home[j] = "running"
    BY Zenon, <1>2 DEF Inv, HomeInv
  <2> QED
    BY Zenon, <2>1, <2>2, PositionsCount
<1>5. (home[j] # "done" => D = {}) /\ (home[j] = "done" => \E x : D = {x})
  <2>1. IsInjective(m_doneJobs) /\ (j \in Range(m_doneJobs) <=> home[j] = "done")
    BY Zenon, <1>2 DEF Inv, HomeInv
  <2> QED
    BY Zenon, <2>1, PositionsCount
<1>6. (home[j] # "collected" => C = {}) /\ (home[j] = "collected" => \E x : C = {x})
  <2>1. home[j] = "collected" <=> collected = j
    BY Zenon, <1>2, ConstAssumption DEF Inv, HomeInv
  <2>2. Range(<<collected>>) = {collected} /\ IsInjective(<<collected>>)
    BY SMTT(40) DEF Range, IsInjective
  <2> QED
    BY Zenon, <2>1, <2>2, PositionsCount
<1>7. ASSUME NEW c \in Conns
      PROVE  /\ IsInjective(exp[c]) /\ IsInjective(recvd[c]) /\ DistinctJobs(msgs[c])
             /\ j \in Range(exp[c]) \cup Range(recvd[c]) \cup JobsOf(msgs[c]) <=> home[j] = c
             /\ j \in Range(exp[c]) => j \notin Range(recvd[c]) /\ j \notin JobsOf(msgs[c])
             /\ j \in Range(recvd[c]) => j \notin JobsOf(msgs[c])
  <2>1. j \in Range(exp[c]) => recvd[c] = <<>> /\ msgs[c] = <<>>
    BY Zenon, EmptyRange DEF Inv, PcInv, Sending
  <2> QED
    BY SMTT(40), <1>2, <2>1, EmptyRange DEF Inv, HomeInv
<1>8. ASSUME NEW c \in Conns
      PROVE  /\ (j \notin Range(exp[c]) => E(c) = {}) /\ (j \in Range(exp[c]) => \E x : E(c) = {x})
             /\ (j \notin Range(recvd[c]) => V(c) = {}) /\ (j \in Range(recvd[c]) => \E x : V(c) = {x})
             /\ (j \notin JobsOf(msgs[c]) => M(c) = {}) /\ (j \in JobsOf(msgs[c]) => \E x : M(c) = {x})
  <2>1. (j \notin Range(exp[c]) => E(c) = {}) /\ (j \in Range(exp[c]) => \E x : E(c) = {x})
    BY Zenon, <1>7, PositionsCount
  <2>2. (j \notin Range(recvd[c]) => V(c) = {}) /\ (j \in Range(recvd[c]) => \E x : V(c) = {x})
    BY ZenonT(60), <1>7, PositionsCount
  <2>3. (j \notin JobsOf(msgs[c]) => M(c) = {}) /\ (j \in JobsOf(msgs[c]) => \E x : M(c) = {x})
    BY Zenon, <1>7, JobsInCount
  <2> QED
    BY Zenon, <2>1, <2>2, <2>3
<1> HIDE DEF U, R, D, C, E, V, M
<1>9. \A c \in Conns : home[j] # c => HeldByConn(c, j) = {}
  <2> SUFFICES ASSUME NEW c \in Conns, home[j] # c
               PROVE  HeldByConn(c, j) = {}
    BY Zenon
  <2>1. E(c) = {} /\ V(c) = {} /\ M(c) = {}
    BY ZenonT(60), <1>7, <1>8
  <2> QED
    BY Zenon, <2>1 DEF HeldByConn, E, V, M
<1>10. \A c \in Conns : home[j] = c => \E x : HeldByConn(c, j) = {x}
  <2> SUFFICES ASSUME NEW c \in Conns, home[j] = c
               PROVE  \E x : HeldByConn(c, j) = {x}
    BY Zenon
  <2>1. HeldByConn(c, j) = E(c) \cup V(c) \cup M(c)
    BY Zenon DEF HeldByConn, E, V, M
  <2>2. CASE j \in Range(exp[c])
    <3>1. V(c) = {} /\ M(c) = {} /\ \E x : E(c) = {x}
      BY ZenonT(60), <1>7, <1>8, <2>2
    <3> QED
      BY Zenon, <2>1, <3>1
  <2>3. CASE j \in Range(recvd[c])
    <3>1. E(c) = {} /\ M(c) = {} /\ \E x : V(c) = {x}
      BY Zenon, <1>7, <1>8, <2>3
    <3> QED
      BY Zenon, <2>1, <3>1
  <2>4. CASE j \in JobsOf(msgs[c])
    <3>1. E(c) = {} /\ V(c) = {} /\ \E x : M(c) = {x}
      BY Zenon, <1>7, <1>8, <2>4
    <3> QED
      BY Zenon, <2>1, <3>1
  <2> QED
    BY Zenon, <1>7, <2>2, <2>3, <2>4
<1>11. home[j] \in Places \cup Conns /\ \A c \in Conns : c \notin Places
  BY Zenon, PlacesAreNotConns DEF Inv, TypeOK
<1>12. home[j] \notin Conns => H = {}
  BY Zenon, <1>9
<1>13. ASSUME home[j] \in Conns
       PROVE  \E x : H = {x}
  <2>1. H = HeldByConn(home[j], j)
    BY Zenon, <1>9, <1>13
  <2> QED
    BY Zenon, <1>10, <1>13, <2>1
<1> HIDE DEF H
<1>14. CASE home[j] \in {"campaign", "skipped", "deleted", "leaked"}
  <2>1. home[j] \notin Conns
    BY Zenon, <1>11, <1>14 DEF Places
  <2>2. Occurrences(j) = {}
    BY Zenon, <1>1, <1>3, <1>4, <1>5, <1>6, <1>12, <1>14, <2>1
  <2> QED
    BY Zenon, <1>14, <2>2, FS_EmptySet
<1>15. CASE home[j] \in {"undone", "running", "done", "collected"}
  <2>1. home[j] \notin Conns
    BY Zenon, <1>11, <1>15 DEF Places
  <2>2. \E x : Occurrences(j) = {x}
    BY Zenon, <1>1, <1>3, <1>4, <1>5, <1>6, <1>12, <1>15, <2>1
  <2> QED
    BY Zenon, <1>15, <2>2, FS_Singleton
<1>16. CASE home[j] \in Conns
  <2>1. home[j] \notin {"campaign", "skipped", "deleted", "leaked", "undone", "running", "done",
                        "collected"}
    BY Zenon, <1>11, <1>16 DEF Places
  <2>2. Occurrences(j) = H
    BY Zenon, <1>1, <1>3, <1>4, <1>5, <1>6, <2>1
  <2>3. \E x : Occurrences(j) = {x}
    BY Zenon, <1>13, <1>16, <2>2
  <2> QED
    BY Zenon, <2>1, <2>3, FS_Singleton
<1> QED
  BY Zenon, <1>11, <1>14, <1>15, <1>16 DEF Places

(***************************************************************************)
(* No pointer to a job is ever duplicated, and none is lost except by the  *)
(* failing send of a WORK_FOLLOWS message, for any number of jobs, clients *)
(* and failures.                                                           *)
(***************************************************************************)
THEOREM JobInOnePlaceAlways == Spec => []JobInOnePlace
<1>1. Inv => JobInOnePlace
  BY Zenon, InvInOnePlace
<1> QED
  BY <1>1, InvAlways, PTL

(***************************************************************************)
(* Type correctness of the job server.                                     *)
(***************************************************************************)
THEOREM TypeCorrect == Spec => []TypeOK
<1>1. Inv => TypeOK
  BY Zenon DEF Inv
<1> QED
  BY <1>1, InvAlways, PTL

(***************************************************************************)
(* Jobs that can be handed out hold parameters, jobs on their way to the   *)
(* campaign hold results computed from their own parameters.               *)
(***************************************************************************)
THEOREM ContentMatchesPlaceAlways == Spec => []ContentMatchesPlace
<1>1. ASSUME Inv PROVE ContentMatchesPlace
  <2>1. /\ \A i \in DOMAIN m_undoneJobs : m_undoneJobs[i] \in HeldBy("undone")
        /\ \A id \in DOMAIN m_runningJobs : m_runningJobs[id] \in HeldBy("running")
        /\ \A i \in DOMAIN m_doneJobs : m_doneJobs[i] \in HeldBy("done")
        /\ collected # NoJob => collected \in HeldBy("collected")
    BY Zenon, <1>1 DEF Inv, HomeInv, Range
  <2>2. /\ \A k \in HeldBy("undone") \cup HeldBy("running") : content[k] = "param"
        /\ \A k \in HeldBy("done") \cup HeldBy("collected") : content[k] = "result"
    BY Zenon, <1>1 DEF Inv, ContentInv, HeldBy, NotSentYet
  <2>3. ASSUME NEW c \in Conns
        PROVE  /\ \A i \in DOMAIN exp[c] : content[exp[c][i]] = "param"
               /\ \A i \in DOMAIN recvd[c] : content[recvd[c][i]] = "result"
               /\ \A i \in DOMAIN msgs[c] :
                     msgs[c][i].job # NoJob => content[msgs[c][i].job] = "param"
    BY Zenon, <1>1 DEF Inv, ContentInv, Range, JobsOf
  <2> QED
    BY Zenon, <2>1, <2>2, <2>3 DEF ContentMatchesPlace
<1> QED
  BY <1>1, InvAlways, PTL

(***************************************************************************)
(* m_runningJobs.insert() is never refused: the IDs are unique.            *)
(***************************************************************************)
THEOREM InsertNeverRefusedAlways == Spec => []InsertNeverRefused
<1>1. ASSUME Inv, NEW id \in DOMAIN m_runningJobs
      PROVE  /\ m_runningJobs[id] \in Jobs
             /\ home[m_runningJobs[id]] = "running"
             /\ workloadID[m_runningJobs[id]] = id
             /\ id # 0
  <2>1. m_runningJobs[id] \in Jobs /\ m_runningJobs[id] \in Range(m_runningJobs)
    BY Zenon, <1>1 DEF Inv, TypeOK, Range
  <2>2. home[m_runningJobs[id]] = "running"
    <3>1. Range(m_runningJobs) = HeldBy("running")
      BY Zenon, <1>1 DEF Inv, HomeInv
    <3> QED
      BY Zenon, <2>1, <3>1 DEF HeldBy
  <2>3. workloadID[m_runningJobs[id]] = id
    BY Zenon, <1>1 DEF Inv, IdInv
  <2> QED
    BY SMTT(40), <1>1, <2>1, <2>2, <2>3 DEF Inv, IdInv, NotSentYet
<1>2. ASSUME Inv, NEW c \in Conns, NEW j \in Jobs, home[j] = c
      PROVE  workloadID[j] \notin DOMAIN m_runningJobs
  <2>1. c # "running"
    BY Zenon, ConstAssumption DEF Places
  <2>2. ASSUME workloadID[j] \in DOMAIN m_runningJobs PROVE FALSE
    <3>1. m_runningJobs[workloadID[j]] = j
      BY SMTT(40), <1>1, <1>2, <2>2 DEF Inv, IdInv
    <3> QED
      BY SMTT(40), <1>1, <1>2, <2>1, <2>2, <3>1
  <2> QED
    BY Zenon, <2>2
<1>3. ASSUME Inv PROVE InsertNeverRefused
  <2>1. ASSUME NEW c \in Conns, pc[c] = "jobSent"
        PROVE  workloadID[Head(exp[c])] \notin DOMAIN m_runningJobs
    BY ZenonT(60), <1>2, <1>3, <2>1, FrontJob DEF Sending
  <2>2. ASSUME NEW c \in Conns, NEW i \in DOMAIN msgs[c], msgs[c][i].job # NoJob
        PROVE  msgs[c][i].id \notin DOMAIN m_runningJobs
    <3>1. msgs[c][i].job \in Jobs /\ msgs[c][i].job \in JobsOf(msgs[c])
      BY SMTT(40), <1>3, <2>2, MsgTypes DEF Inv
    <3>2. home[msgs[c][i].job] = c /\ workloadID[msgs[c][i].job] = msgs[c][i].id
      BY SMTT(40), <1>3, <2>2, <3>1 DEF Inv, HomeInv, HeldBy, IdInv
    <3> QED
      BY Zenon, <1>2, <1>3, <3>1, <3>2
  <2> QED
    BY Zenon, <2>1, <2>2 DEF InsertNeverRefused
<1> QED
  BY <1>3, InvAlways, PTL

-----------------------------------------------------------------------------
(***************************************************************************)
(* The job server implements JobDistribution: every step of a thread or of *)
(* a coroutine is one step of the abstract job distribution, or changes    *)
(* nothing the campaign can see.                                           *)
(***************************************************************************)

(***************************************************************************)
(* Places a job can be in between AddParam and the arrival of its result.  *)
(***************************************************************************)
OpenPlaces == {"undone", "running", "leaked"} \cup Conns

(***************************************************************************)
(* What the campaign knows of a job, by its place.                         *)
(***************************************************************************)
LEMMA StatusByPlace ==
    ASSUME NEW j
    PROVE  /\ home[j] = "campaign" <=> StatusOf(j) = "new"
           /\ home[j] = "skipped" <=> StatusOf(j) = "skipped"
           /\ home[j] = "done" <=> StatusOf(j) = "complete"
           /\ home[j] \in {"collected", "deleted"} <=> StatusOf(j) = "returned"
           /\ home[j] \in OpenPlaces => StatusOf(j) = "open"
<1>1. \A c \in Conns : \A p \in Places : c # p
  BY Zenon, PlacesAreNotConns
<1> QED
  BY Zenon, <1>1 DEF StatusOf, OpenPlaces, Places

(***************************************************************************)
(* The same after a step.                                                  *)
(***************************************************************************)
LEMMA StatusByPlaceNext ==
    ASSUME NEW j
    PROVE  /\ home'[j] = "campaign" <=> StatusOf(j)' = "new"
           /\ home'[j] = "skipped" <=> StatusOf(j)' = "skipped"
           /\ home'[j] = "done" <=> StatusOf(j)' = "complete"
           /\ home'[j] \in {"collected", "deleted"} <=> StatusOf(j)' = "returned"
           /\ home'[j] \in OpenPlaces => StatusOf(j)' = "open"
<1>1. \A c \in Conns : \A p \in Places : c # p
  BY Zenon, PlacesAreNotConns
<1> QED
  BY Zenon, <1>1 DEF StatusOf, OpenPlaces, Places

Statuses == [j \in Jobs |-> StatusOf(j)]

(***************************************************************************)
(* A step that moves jobs only among the places of open jobs, if at all,   *)
(* leaves their status alone.                                              *)
(***************************************************************************)
LEMMA StatusKept ==
    ASSUME \A j \in Jobs : home'[j] = home[j] \/ (home[j] \in OpenPlaces /\ home'[j] \in OpenPlaces)
    PROVE  Statuses' = Statuses
<1>1. ASSUME NEW j \in Jobs PROVE StatusOf(j)' = StatusOf(j)
  <2>1. CASE home'[j] = home[j]
    BY Zenon, <2>1 DEF StatusOf
  <2>2. CASE home[j] \in OpenPlaces /\ home'[j] \in OpenPlaces
    BY Zenon, <2>2, StatusByPlace, StatusByPlaceNext
  <2> QED
    BY Zenon, <2>1, <2>2
<1> QED
  BY Zenon, <1>1 DEF Statuses

(***************************************************************************)
(* The status when one job moves.                                          *)
(***************************************************************************)
LEMMA StatusOfMoved ==
    ASSUME TypeOK, NEW j \in Jobs, NEW p, home' = [home EXCEPT ![j] = p], NEW s, StatusOf(j)' = s
    PROVE  Statuses' = [Statuses EXCEPT ![j] = s]
<1>1. \A k \in Jobs : k # j => StatusOf(k)' = StatusOf(k)
  BY Zenon DEF StatusOf, TypeOK
<1> QED
  BY Zenon, <1>1 DEF Statuses

(***************************************************************************)
(* Steps the campaign does not see.                                        *)
(***************************************************************************)
LEMMA Invisible ==
    ASSUME \A j \in Jobs : home'[j] = home[j] \/ (home[j] \in OpenPlaces /\ home'[j] \in OpenPlaces),
           UNCHANGED <<m_doneJobs, noMoreExps, gotNull>>
    PROVE  UNCHANGED Distribution!absVars
<1>1. Statuses' = Statuses
  BY Zenon, StatusKept
<1> QED
  BY Zenon, <1>1 DEF Distribution!absVars, Statuses

(***************************************************************************)
(* The end of receiveExperimentResults completes the jobs whose results    *)
(* were received.                                                          *)
(***************************************************************************)
LEMMA StoreCompletes ==
    ASSUME Inv, NEW c \in Conns, NEW received \in Seq(Jobs), IsInjective(received),
           NEW failed, Range(received) \subseteq HeldBy(c),
           \A i \in FailedJobs(failed) : failed[i].job \in HeldBy(c),
           Len(received) <= MaxJobSize,
           StoreResults(c, received, failed), UNCHANGED <<noMoreExps, gotNull>>
    PROVE  [Distribution!Next]_(Distribution!absVars)
<1> USE ConstAssumption
<1>1. /\ m_doneJobs' = m_doneJobs \o received
      /\ home' = [j \in Jobs |->
                    IF \E i \in DOMAIN received : received[i] = j THEN "done"
                    ELSE IF \E i \in FailedJobs(failed) : failed[i].job = j THEN "running"
                    ELSE home[j]]
  BY Zenon DEF StoreResults
<1>2. /\ \A j \in HeldBy(c) : j \in Jobs /\ home[j] \in OpenPlaces
      /\ "running" \in OpenPlaces
  BY Zenon DEF HeldBy, OpenPlaces
<1>3. CASE received = <<>>
  <2>1. m_doneJobs' = m_doneJobs
    BY <1>1, <1>3 DEF Inv, TypeOK
  <2>2. DOMAIN received = {}
    BY SMTT(30), <1>3
  <2>3. \A j \in Jobs : home'[j] = home[j] \/ (home[j] \in OpenPlaces /\ home'[j] \in OpenPlaces)
    BY Zenon, <1>1, <1>2, <2>2
  <2> QED
    BY Zenon, <2>1, <2>3, Invisible
<1>4. CASE received # <<>>
  <2>1. received \in SeqsUpTo(Jobs, MaxJobSize)
    <3>1. Len(received) \in 1..MaxJobSize /\ received \in [1..Len(received) -> Jobs]
      BY <1>4
    <3> QED
      BY Zenon, <3>1 DEF SeqsUpTo
  <2>2. ASSUME NEW i \in DOMAIN received PROVE Statuses[received[i]] = "open"
    <3>1. received[i] \in HeldBy(c)
      BY Zenon DEF Range
    <3> QED
      BY Zenon, <1>2, <3>1, StatusByPlace DEF Statuses
  <2>3. \A i, k \in DOMAIN received : received[i] = received[k] => i = k
    BY Zenon DEF IsInjective
  <2>4. Statuses' = [j \in Jobs |-> IF \E i \in DOMAIN received : received[i] = j
                                    THEN "complete" ELSE Statuses[j]]
    <3>1. ASSUME NEW j \in Jobs, \E i \in DOMAIN received : received[i] = j
          PROVE  StatusOf(j)' = "complete"
      BY Zenon, <1>1, <3>1, StatusByPlaceNext
    <3>2. ASSUME NEW j \in Jobs, ~ \E i \in DOMAIN received : received[i] = j
          PROVE  StatusOf(j)' = StatusOf(j)
      <4>1. CASE \E i \in FailedJobs(failed) : failed[i].job = j
        <5>1. home'[j] = "running" /\ home[j] \in OpenPlaces
          BY Zenon, <1>1, <1>2, <3>2, <4>1
        <5> QED
          BY Zenon, <1>2, <5>1, StatusByPlace, StatusByPlaceNext
      <4>2. CASE ~ \E i \in FailedJobs(failed) : failed[i].job = j
        <5>1. home'[j] = home[j]
          BY Zenon, <1>1, <3>2, <4>2
        <5> QED
          BY Zenon, <5>1 DEF StatusOf
      <4> QED
        BY Zenon, <4>1, <4>2
    <3> QED
      BY Zenon, <3>1, <3>2 DEF Statuses
  <2>5. Distribution!Complete(received)
    BY Zenon, <1>1, <2>2, <2>3, <2>4 DEF Distribution!Complete, Statuses
  <2> QED
    BY Zenon, <2>1, <2>5 DEF Distribution!Next
<1> QED
  BY Zenon, <1>3, <1>4

(***************************************************************************)
(* The steps of the campaign and of its collector thread.                  *)
(***************************************************************************)
LEMMA CampaignRefines ==
    ASSUME Inv, CampaignStep \/ CollectorStep
    PROVE  [Distribution!Next]_(Distribution!absVars)
<1>1. ASSUME NEW j \in Jobs, AddParam(j)
      PROVE  Distribution!Submit(j)
  <2>1. Statuses[j] = "new"
    BY Zenon, <1>1, StatusByPlace DEF AddParam, Statuses
  <2>2. home' = [home EXCEPT ![j] = "undone"] /\ StatusOf(j)' = "open"
    BY <1>1, StatusByPlaceNext DEF AddParam, Inv, TypeOK, OpenPlaces
  <2>3. Statuses' = [Statuses EXCEPT ![j] = "open"]
    BY Zenon, <2>2, StatusOfMoved DEF Inv
  <2> QED
    BY Zenon, <1>1, <2>1, <2>3 DEF AddParam, Distribution!Submit, Statuses, campaignVars
<1>2. ASSUME NEW j \in Jobs, SkipJobs(j)
      PROVE  Distribution!Skip(j)
  <2>1. Statuses[j] = "new"
    BY Zenon, <1>2, StatusByPlace DEF SkipJobs, Statuses
  <2>2. home' = [home EXCEPT ![j] = "skipped"] /\ StatusOf(j)' = "skipped"
    BY Zenon, <1>2, StatusByPlaceNext DEF SkipJobs, Inv, TypeOK
  <2>3. Statuses' = [Statuses EXCEPT ![j] = "skipped"]
    BY Zenon, <2>2, StatusOfMoved DEF Inv
  <2> QED
    BY Zenon, <1>2, <2>1, <2>3 DEF SkipJobs, Distribution!Skip, Statuses, campaignVars, queueVars
<1>3. ASSUME SetNoMoreExperiments
      PROVE  Distribution!Close
  <2>1. Statuses' = Statuses
    BY Zenon, <1>3, StatusKept DEF SetNoMoreExperiments, jobVars
  <2> QED
    BY Zenon, <1>3, <2>1 DEF SetNoMoreExperiments, Distribution!Close, Statuses
<1>4. ASSUME Done
      PROVE  UNCHANGED Distribution!absVars
  BY Zenon, <1>4, Invisible DEF Done, jobVars, queueVars
<1>5. ASSUME GetDone
      PROVE  Distribution!Return
  <2>1. Head(m_doneJobs) \in Jobs
    BY Zenon, <1>5, TailRange DEF GetDone, Inv, TypeOK
  <2>2. home' = [home EXCEPT ![Head(m_doneJobs)] = "collected"]
    BY Zenon, <1>5 DEF GetDone
  <2>3. PICK j \in Jobs : j = Head(m_doneJobs)
    BY Zenon, <2>1
  <2>4. home' = [home EXCEPT ![j] = "collected"] /\ StatusOf(j)' = "returned"
    BY SMTT(40), <2>2, <2>3, StatusByPlaceNext DEF Inv, TypeOK
  <2>5. Statuses' = [Statuses EXCEPT ![j] = "returned"]
    BY Zenon, <2>4, StatusOfMoved DEF Inv
  <2> QED
    BY Zenon, <1>5, <2>3, <2>5 DEF GetDone, Distribution!Return, Statuses
<1>6. ASSUME GetDoneNull
      PROVE  Distribution!End
  <2>1. Statuses' = Statuses
    BY Zenon, <1>6, StatusKept DEF GetDoneNull, jobVars
  <2>2. noMoreExps
    BY Zenon, <1>6 DEF GetDoneNull, Inv
  <2> QED
    BY Zenon, <1>6, <2>1, <2>2 DEF GetDoneNull, Distribution!End, Statuses, queueVars
<1>7. ASSUME DeleteResult
      PROVE  UNCHANGED Distribution!absVars
  <2>1. collected \in Jobs /\ home[collected] = "collected"
    BY Zenon, <1>7 DEF DeleteResult, Inv, TypeOK, HomeInv, HeldBy
  <2>2. home' = [home EXCEPT ![collected] = "deleted"]
    BY Zenon, <1>7 DEF DeleteResult
  <2>3. PICK j \in Jobs : j = collected
    BY Zenon, <2>1
  <2>4. StatusOf(j)' = "returned" /\ StatusOf(j) = "returned"
    BY SMTT(40), <2>1, <2>2, <2>3, StatusByPlace, StatusByPlaceNext DEF Inv, TypeOK
  <2>5. Statuses' = [Statuses EXCEPT ![j] = "returned"]
    BY Zenon, <2>2, <2>3, <2>4, StatusOfMoved DEF Inv
  <2>6. Statuses' = Statuses
    BY Zenon, <2>4, <2>5 DEF Statuses
  <2> QED
    BY Zenon, <1>7, <2>6 DEF DeleteResult, Distribution!absVars, Statuses, queueVars
<1> QED
  BY Zenon, <1>1, <1>2, <1>3, <1>4, <1>5, <1>6, <1>7 DEF CampaignStep, CollectorStep, Distribution!Next

(***************************************************************************)
(* The steps of the communication thread: only a result that was received  *)
(* matters to the campaign.                                                *)
(***************************************************************************)
LEMMA CommThreadRefines ==
    ASSUME Inv, NEW c \in Conns, ClientStep(c) \/ CoroutineStep(c)
    PROVE  [Distribution!Next]_(Distribution!absVars)
<1> USE ConstAssumption
<1> DEFINE Hidden ==
             /\ \A j \in Jobs :
                   home'[j] = home[j] \/ (home[j] \in OpenPlaces /\ home'[j] \in OpenPlaces)
             /\ UNCHANGED <<m_doneJobs, noMoreExps, gotNull>>
<1>1. ASSUME NEW run, NEW n, NeedWork(c, run, n) PROVE Hidden
  BY Zenon, <1>1 DEF NeedWork, jobVars, queueVars, campaignVars
<1>2. ASSUME NEW run, NEW results \in SeqsUpTo(ResultsOf(run), MaxJobSize),
             ResultFollows(c, run, results)
      PROVE  Hidden
  <2>1. results \in SeqsUpTo(clientJobs, MaxJobSize)
    BY Zenon, <1>2 DEF ResultFollows, AcceptsResultsOf, ResultsOf
  <2>2. /\ JobsOf(Removed(results)) \subseteq HeldBy("running")
        /\ DOMAIN Removed(results) = DOMAIN results
    BY Zenon, <2>1, RemovedJobs
  <2>3. \A j \in Jobs : (\E i \in DOMAIN results : Removed(results)[i].job = j) =>
                            home[j] = "running"
    BY Zenon, <2>2 DEF JobsOf, HeldBy
  <2> QED
    BY Zenon, <1>2, <2>3 DEF ResultFollows, OpenPlaces, campaignVars
<1>3. ASSUME DequeueUndone(c) PROVE Hidden
  <2>1. m_undoneJobs \in Seq(Jobs) /\ m_undoneJobs # <<>>
    BY Zenon, <1>3 DEF DequeueUndone, Inv, TypeOK
  <2>2. Head(m_undoneJobs) \in Jobs /\ home[Head(m_undoneJobs)] = "undone"
    BY Zenon, <2>1, TailRange DEF Inv, HomeInv, HeldBy
  <2> QED
    BY Zenon, <1>3, <2>2 DEF DequeueUndone, Inv, TypeOK, OpenPlaces, campaignVars
<1>4. ASSUME CtrlFailed(c) PROVE Hidden
  BY Zenon, <1>4 DEF CtrlFailed, OpenPlaces, queueVars, campaignVars
<1>5. ASSUME JobSent(c) \/ Requeue(c) PROVE Hidden
  <2>1. Head(exp[c]) \in Jobs /\ home[Head(exp[c])] = c
    BY Zenon, <1>5, FrontJob DEF JobSent, Requeue, At, Sending
  <2> QED
    BY Zenon, <1>5, <2>1 DEF JobSent, Requeue, Inv, TypeOK, OpenPlaces, campaignVars
<1>6. ASSUME \/ DequeueEnd(c) \/ CtrlSent(c) \/ DeliverJob(c) \/ JobFailed(c) \/ PickRunning(c)
             \/ PickNothing(c) \/ Resend(c) \/ ResendFailed(c) \/ Replied(c) \/ RcvResult(c)
      PROVE  Hidden
  BY Zenon, <1>6 DEF DequeueEnd, CtrlSent, DeliverJob, JobFailed, PickRunning, PickNothing, Resend,
              ResendFailed, Replied, RcvResult, jobVars, queueVars, campaignVars
<1>7. ASSUME RcvLastResult(c)
      PROVE  [Distribution!Next]_(Distribution!absVars)
  <2> DEFINE r == ReceivedWith(c, Head(msgs[c]))
  <2>1. pc[c] = "rcvResult" /\ ReadResult(Head(msgs[c])) /\ Tail(msgs[c]) = <<>>
    BY Zenon, <1>7 DEF RcvLastResult, At
  <2>2. /\ r \in Seq(Jobs)
        /\ IsInjective(r)
        /\ Range(r) = Range(recvd[c]) \cup (JobsOf(msgs[c]) \ JobsOf(Tail(msgs[c])))
        /\ Len(r) <= Len(recvd[c]) + 1
    BY ZenonT(60), <2>1, ReadResultEffect
  <2>3. Range(r) \subseteq HeldBy(c)
    BY Zenon, <2>2 DEF Inv, HomeInv
  <2>4. Len(r) <= MaxJobSize
    <3> DEFINE lm == Len(msgs[c])
               lr == Len(recvd[c])
               lq == Len(r)
    <3>1. lm \in Nat \ {0} /\ lr \in Nat /\ lq \in Nat
      <4>1. msgs[c] \in Seq(PendingMsgs) /\ msgs[c] # <<>> /\ recvd[c] \in Seq(Jobs)
        BY Zenon, <2>1 DEF Inv, TypeOK, PcInv
      <4> QED
        BY <2>2, <4>1
    <3>2. lm + lr <= MaxJobSize /\ lq <= lr + 1
      BY ZenonT(60), <2>2 DEF Inv, PcInv
    <3> HIDE DEF lm, lr, lq
    <3>3. lq <= MaxJobSize
      BY <3>1, <3>2
    <3> QED
      BY Zenon, <3>3 DEF lq
  <2>5. StoreResults(c, r, <<>>) /\ UNCHANGED <<noMoreExps, gotNull>>
    BY Zenon, <1>7 DEF RcvLastResult, campaignVars
  <2>6. FailedJobs(<<>>) = {}
    BY DEF FailedJobs
  <2>7. \A i \in FailedJobs(<<>>) : <<>>[i].job \in HeldBy(c)
    BY Zenon, <2>6
  <2> HIDE DEF r
  <2> QED
    BY ZenonT(60), <2>2, <2>3, <2>4, <2>5, <2>7, StoreCompletes
<1>8. ASSUME RcvFailed(c)
      PROVE  [Distribution!Next]_(Distribution!absVars)
  <2>1. /\ recvd[c] \in Seq(Jobs) /\ IsInjective(recvd[c]) /\ Range(recvd[c]) \subseteq HeldBy(c)
        /\ JobsOf(msgs[c]) \subseteq HeldBy(c)
    BY Zenon DEF Inv, TypeOK, HomeInv
  <2>2. \A i \in FailedJobs(msgs[c]) : msgs[c][i].job \in HeldBy(c)
    BY Zenon, <2>1 DEF FailedJobs, JobsOf
  <2>3. Len(recvd[c]) <= MaxJobSize
    <3> DEFINE lm == Len(msgs[c])
               lr == Len(recvd[c])
    <3>1. lm \in Nat /\ lr \in Nat
      <4>1. msgs[c] \in Seq(PendingMsgs)
        BY Zenon DEF Inv, TypeOK
      <4> QED
        BY SMTT(40), <2>1, <4>1
    <3>2. lm + lr <= MaxJobSize
      BY ZenonT(60) DEF Inv, PcInv
    <3> HIDE DEF lm, lr
    <3>3. lr <= MaxJobSize
      BY SMTT(30), <3>1, <3>2
    <3> QED
      BY Zenon, <3>3 DEF lr
  <2>4. StoreResults(c, recvd[c], msgs[c]) /\ UNCHANGED <<noMoreExps, gotNull>>
    BY Zenon, <1>8 DEF RcvFailed, campaignVars
  <2> QED
    BY Zenon, <2>1, <2>2, <2>3, <2>4, StoreCompletes
<1>9. Hidden => UNCHANGED Distribution!absVars
  BY Zenon, Invisible
<1> HIDE DEF Hidden
<1>10. CASE ClientStep(c)
  BY Zenon, <1>1, <1>2, <1>9, <1>10 DEF ClientStep
<1>11. CASE CoroutineStep(c)
  BY SMTT(40), <1>3, <1>4, <1>5, <1>6, <1>7, <1>8, <1>9, <1>11 DEF CoroutineStep
<1> QED
  BY Zenon, <1>10, <1>11

(***************************************************************************)
(* To the campaign the job server is a queue that completes each added job *)
(* at most once, returns the results in the order of their completion, and *)
(* reports their end only when no completed result is waiting.             *)
(***************************************************************************)
THEOREM ImplementsJobDistribution == Spec => DistributionSpec
<1>1. Init => Distribution!Init
  <2> SUFFICES ASSUME Init PROVE Distribution!Init
    BY Zenon
  <2>1. \A j \in Jobs : StatusOf(j) = "new"
    BY Zenon, StatusByPlace DEF Init
  <2> QED
    BY Zenon, <2>1 DEF Init, Distribution!Init
<1>2. Inv /\ [Next]_vars => [Distribution!Next]_(Distribution!absVars)
  <2> SUFFICES ASSUME Inv, [Next]_vars
               PROVE  [Distribution!Next]_(Distribution!absVars)
    BY Zenon
  <2>1. CASE UNCHANGED vars
    BY Zenon, <2>1, Invisible DEF vars, jobVars, queueVars, campaignVars
  <2>2. CASE Terminated
    BY Zenon, <2>2, Invisible DEF Terminated, vars, jobVars, queueVars, campaignVars
  <2>3. CASE CampaignStep \/ CollectorStep
    BY Zenon, <2>3, CampaignRefines
  <2>4. CASE \E c \in Conns : ClientStep(c) \/ CoroutineStep(c)
    BY Zenon, <2>4, CommThreadRefines
  <2> QED
    BY <2>1, <2>2, <2>3, <2>4 DEF Next
<1> QED
  BY <1>1, <1>2, InvAlways, PTL DEF Spec, DistributionSpec, Distribution!Spec

=============================================================================
