----------------------- MODULE ListenerManagerProofs -----------------------
(***************************************************************************)
(* The safety properties of ListenerManager hold for any number of flows,  *)
(* listeners and performance buffers.  First what an experiment flow does  *)
(* to its listeners while it runs: additions, and removals by exchange     *)
(* with the last listener; then the steps of the simulator.                *)
(***************************************************************************)
EXTENDS ListenerManagerInvariant, SequenceTheorems, TLAPS

(***************************************************************************)
(* What Append adds.                                                       *)
(***************************************************************************)
LEMMA AppendRange ==
    ASSUME NEW S, NEW s \in Seq(S), NEW x \in S
    PROVE  /\ Append(s, x) \in Seq(S)
           /\ Append(s, x) # <<>>
           /\ Len(Append(s, x)) = Len(s) + 1
           /\ Range(Append(s, x)) = Range(s) \cup {x}
           /\ IsInjective(s) /\ x \notin Range(s) => IsInjective(Append(s, x))
           /\ s # <<>> => Head(Append(s, x)) = Head(s)
<1>1. /\ Append(s, x) \in Seq(S)
      /\ Append(s, x) # <<>>
      /\ Len(Append(s, x)) = Len(s) + 1
      /\ DOMAIN Append(s, x) = 1..(Len(s) + 1)
      /\ DOMAIN s = 1..Len(s)
      /\ \A i \in 1..Len(s) : Append(s, x)[i] = s[i]
      /\ Append(s, x)[Len(s) + 1] = x
      /\ Len(s) \in Nat
  OBVIOUS
<1>2. Range(Append(s, x)) = Range(s) \cup {x}
  BY <1>1 DEF Range
<1>3. ASSUME IsInjective(s), x \notin Range(s)
      PROVE  IsInjective(Append(s, x))
  BY <1>1, <1>3 DEF Range, IsInjective
<1>4. s # <<>> => Head(Append(s, x)) = Head(s)
  OBVIOUS
<1> QED
  BY Zenon, <1>1, <1>2, <1>3, <1>4

(***************************************************************************)
(* What Tail removes, when no element occurs twice.                        *)
(***************************************************************************)
LEMMA TailRange ==
    ASSUME NEW S, NEW s \in Seq(S), s # <<>>
    PROVE  /\ Tail(s) \in Seq(S)
           /\ Head(s) \in S
           /\ Head(s) \in Range(s)
           /\ Len(Tail(s)) = Len(s) - 1
           /\ IsInjective(s) => /\ IsInjective(Tail(s))
                                /\ Range(Tail(s)) = Range(s) \ {Head(s)}
<1>1. /\ Tail(s) \in Seq(S)
      /\ Len(s) \in Nat \ {0}
      /\ Len(Tail(s)) = Len(s) - 1
      /\ DOMAIN s = 1..Len(s)
      /\ DOMAIN Tail(s) = 1..(Len(s) - 1)
      /\ \A i \in 1..(Len(s) - 1) : Tail(s)[i] = s[i + 1]
      /\ Head(s) = s[1]
      /\ Head(s) \in S
  OBVIOUS
<1>2. Head(s) \in Range(s)
  BY <1>1 DEF Range
<1>3. ASSUME IsInjective(s)
      PROVE  IsInjective(Tail(s)) /\ Range(Tail(s)) = Range(s) \ {Head(s)}
  <2>1. IsInjective(Tail(s))
    BY <1>1, <1>3 DEF IsInjective
  <2>2. ASSUME NEW y \in Range(Tail(s))
        PROVE  y \in Range(s) \ {Head(s)}
    BY <1>1, <1>3, <2>2 DEF IsInjective, Range
  <2>3. ASSUME NEW y \in Range(s), y # Head(s)
        PROVE  y \in Range(Tail(s))
    <3>1. PICK i \in 1..Len(s) : y = s[i]
      BY Zenon, <1>1 DEF Range
    <3>2. i - 1 \in 1..(Len(s) - 1) /\ Tail(s)[i - 1] = y
      BY <1>1, <2>3, <3>1
    <3> QED
      BY ZenonT(60), <1>1, <3>2 DEF Range
  <2> QED
    BY Zenon, <2>1, <2>2, <2>3
<1> QED
  BY Zenon, <1>1, <1>2, <1>3

-----------------------------------------------------------------------------
(***************************************************************************)
(* Removing an element, which occurs once, from a sequence.                *)
(***************************************************************************)
LEMMA RemoveFirstRange ==
    ASSUME NEW S, NEW s \in Seq(S), IsInjective(s), NEW e \in Range(s)
    PROVE  /\ RemoveFirst(s, e) \in Seq(S)
           /\ IsInjective(RemoveFirst(s, e))
           /\ Range(RemoveFirst(s, e)) = Range(s) \ {e}
<1>1. DOMAIN s = 1..Len(s) /\ Len(s) \in Nat
  OBVIOUS
<1>2. PICK i \in 1..Len(s) : s[i] = e
  BY Zenon, <1>1 DEF Range
<1>3. RemoveFirst(s, e) = WithoutIndexed(s, i)
  <2> DEFINE First(k) == s[k] = e /\ \A j \in 1..(k - 1) : s[j] # e
  <2>1. \A k \in DOMAIN s : s[k] = e => k = i
    BY Zenon, <1>1, <1>2 DEF IsInjective
  <2>2. i \in DOMAIN s /\ First(i)
    <3>1. \A j \in 1..(i - 1) : j \in DOMAIN s /\ j # i
      BY <1>1, <1>2
    <3> QED
      BY Zenon, <1>1, <1>2, <2>1, <3>1
  <2>3. (CHOOSE k \in DOMAIN s : First(k)) = i
    BY Zenon, <2>1, <2>2
  <2> QED
    BY Zenon, <2>2, <2>3 DEF RemoveFirst
<1> DEFINE t == WithoutIndexed(s, i)
<1>4. /\ t \in Seq(S)
      /\ Len(t) = Len(s) - 1
      /\ \A k \in 1..(Len(s) - 1) : t[k] = IF k < i THEN s[k] ELSE s[k + 1]
  <2> DEFINE a == SubSeq(s, 1, i - 1)
             b == SubSeq(s, i + 1, Len(s))
  <2>1. /\ a \in Seq(S) /\ Len(a) = i - 1
        /\ \A k \in 1..(i - 1) : a[k] = s[k]
    BY <1>1, <1>2
  <2>2. /\ b \in Seq(S) /\ Len(b) = Len(s) - i
        /\ \A k \in 1..(Len(s) - i) : b[k] = s[i + 1 + k - 1]
    <3>1. \A k \in (i + 1)..Len(s) : s[k] \in S
      BY <1>1, <1>2
    <3>2. i + 1 \in Int /\ Len(s) \in Int /\ Len(s) - (i + 1) + 1 = Len(s) - i
      BY <1>1, <1>2
    <3>3. /\ b \in Seq(S)
          /\ Len(b) = IF i + 1 <= Len(s) THEN Len(s) - (i + 1) + 1 ELSE 0
          /\ \A k \in 1..(Len(s) - (i + 1) + 1) : b[k] = s[i + 1 + k - 1]
      BY <3>1, <3>2, SubSeqProperties
    <3> HIDE DEF b
    <3>4. Len(b) = Len(s) - i
      <4>1. i \in Int /\ i <= Len(s) /\ Len(s) \in Int
        BY <1>1
      <4>2. CASE i < Len(s)
        <5>1. i + 1 <= Len(s)
          BY <4>1, <4>2
        <5> QED
          BY Zenon, <3>2, <3>3, <5>1
      <4>3. CASE i = Len(s)
        <5>1. ~(i + 1 <= Len(s)) /\ Len(s) - i = 0
          BY <4>1, <4>3
        <5> QED
          BY Zenon, <3>3, <5>1
      <4> QED
        BY <4>1, <4>2, <4>3
    <3> QED
      BY <3>2, <3>3, <3>4, Zenon
  <2>3. t = a \o b
    BY Zenon DEF WithoutIndexed
  <2> HIDE DEF a, b, t
  <2>4. /\ t \in Seq(S) /\ Len(t) = Len(a) + Len(b)
        /\ \A k \in 1..(Len(a) + Len(b)) : t[k] = IF k <= Len(a) THEN a[k] ELSE b[k - Len(a)]
    BY ZenonT(60), <2>1, <2>2, <2>3, ConcatProperties
  <2>5. ASSUME NEW k \in 1..(Len(s) - 1)
        PROVE  t[k] = IF k < i THEN s[k] ELSE s[k + 1]
    <3>1. CASE k < i
      <4>1. k \in 1..(Len(a) + Len(b)) /\ k <= Len(a) /\ k \in 1..(i - 1)
        BY SMTT(40), <1>1, <1>2, <2>1, <2>2, <3>1
      <4> QED
        BY <2>1, <2>4, <3>1, <4>1
    <3>2. CASE k >= i
      <4>1. /\ k - (i - 1) \in 1..(Len(s) - i)
            /\ i + 1 + (k - (i - 1)) - 1 = k + 1
            /\ k \in 1..(Len(a) + Len(b)) /\ ~(k <= Len(a))
        BY <1>1, <1>2, <2>1, <2>2, <3>2
      <4>2. t[k] = b[k - (i - 1)]
        BY ZenonT(60), <2>1, <2>4, <4>1
      <4>3. b[k - (i - 1)] = s[k + 1]
        BY Zenon, <2>2, <4>1
      <4> QED
        BY SMTT(40), <1>1, <1>2, <3>2, <4>2, <4>3
    <3> QED
      BY <1>1, <1>2, <3>1, <3>2
  <2> QED
    BY <1>1, <1>2, <2>1, <2>2, <2>4, <2>5
<1>5. DOMAIN t = 1..(Len(s) - 1)
  BY <1>4
<1> HIDE DEF t
<1>6. IsInjective(t)
  BY SMTT(40), <1>1, <1>4, <1>5 DEF IsInjective
<1>7. Range(t) \subseteq Range(s) \ {e}
  BY SMTT(40), <1>1, <1>2, <1>4, <1>5 DEF IsInjective, Range
<1>8. ASSUME NEW y \in Range(s), y # e
      PROVE  y \in Range(t)
  <2>1. PICK k \in 1..Len(s) : s[k] = y
    BY Zenon, <1>1 DEF Range
  <2>2. CASE k < i
    BY SMTT(40), <1>2, <1>4, <1>5, <2>1, <2>2 DEF Range
  <2>3. CASE k > i
    <3>1. k - 1 \in 1..(Len(s) - 1) /\ t[k - 1] = y
      BY SMTT(40), <1>1, <1>2, <1>4, <2>1, <2>3
    <3> QED
      BY Zenon, <1>5, <3>1 DEF Range
  <2> QED
    BY SMTT(40), <1>2, <1>8, <2>1, <2>2, <2>3
<1> QED
  BY Zenon, <1>3, <1>4, <1>6, <1>7, <1>8 DEF t

(***************************************************************************)
(* Taking the last element away.                                           *)
(***************************************************************************)
LEMMA FrontRange ==
    ASSUME NEW S, NEW s \in Seq(S), s # <<>>
    PROVE  /\ Front(s) \in Seq(S)
           /\ Last(s) \in S /\ Last(s) \in Range(s)
           /\ Range(Front(s)) \subseteq Range(s)
           /\ Range(s) \subseteq Range(Front(s)) \cup {Last(s)}
           /\ IsInjective(s) => IsInjective(Front(s)) /\ Last(s) \notin Range(Front(s))
<1>1. /\ DOMAIN s = 1..Len(s) /\ Len(s) \in Nat \ {0}
      /\ Front(s) \in Seq(S) /\ Len(Front(s)) = Len(s) - 1
      /\ \A k \in 1..(Len(s) - 1) : Front(s)[k] = s[k]
      /\ Last(s) = s[Len(s)] /\ Last(s) \in S
  <2>1. DOMAIN s = 1..Len(s) /\ Len(s) \in Nat \ {0}
    BY Zenon, EmptySeq, LenProperties
  <2>2. /\ Front(s) \in Seq(S) /\ Len(Front(s)) = Len(s) - 1
        /\ \A k \in 1..(Len(s) - 1) : Front(s)[k] = s[k]
    BY <2>1 DEF Front
  <2> QED
    BY <2>1, <2>2 DEF Last
<1>2. DOMAIN Front(s) = 1..(Len(s) - 1)
  BY <1>1
<1>3. Last(s) \in Range(s) /\ Range(Front(s)) \subseteq Range(s)
  BY <1>1, <1>2 DEF Range
<1>4. Range(s) \subseteq Range(Front(s)) \cup {Last(s)}
  BY <1>1, <1>2 DEF Range
<1>5. ASSUME IsInjective(s)
      PROVE  IsInjective(Front(s)) /\ Last(s) \notin Range(Front(s))
  BY <1>1, <1>2, <1>5 DEF Range, IsInjective
<1> QED
  BY Zenon, <1>1, <1>3, <1>4, <1>5

(***************************************************************************)
(* Moving the last element into the slot i.                                *)
(***************************************************************************)
LEMMA MovedLast ==
    ASSUME NEW S, NEW s \in Seq(S), NEW i \in 1..Len(s)
    PROVE  LET t == Front([s EXCEPT ![i] = Last(s)])
           IN  /\ t \in Seq(S)
               /\ Len(t) = Len(s) - 1
               /\ \A k \in 1..(Len(s) - 1) : t[k] = IF k = i THEN s[Len(s)] ELSE s[k]
<1> DEFINE r == [s EXCEPT ![i] = Last(s)]
<1>1. /\ r \in Seq(S) /\ Len(r) = Len(s)
      /\ \A k \in 1..Len(s) : r[k] = IF k = i THEN s[Len(s)] ELSE s[k]
  BY DEF Last
<1> HIDE DEF r
<1> QED
  BY <1>1 DEF r, Front

-----------------------------------------------------------------------------
(***************************************************************************)
(* A buffer holds the positions of the listeners it is the home of.        *)
(***************************************************************************)
Holds(buf, b, loc, home) ==
    /\ IsInjective(buf)
    /\ \A y : y \in Range(buf) <=> \E x \in Listeners : home[x] = b /\ loc[x] = y

(***************************************************************************)
(* In an agreeing state a performance buffer holds exactly the indices of  *)
(* the listeners it is home of.                                            *)
(***************************************************************************)
LEMMA BuffersHold ==
    IndicesAgree => \A b \in Buffers : Holds(m_BufList[b], b, m_Loc, m_Home)
  BY DEF IndicesAgree, Holds

(***************************************************************************)
(* m_remove() takes one listener out and keeps all indices right; of the   *)
(* other listeners only the last one gets a new place.                     *)
(***************************************************************************)
LEMMA RemoveKeepsIndices ==
    ASSUME TypeOK, IndicesAgree, NEW idx \in DOMAIN m_BufferList, m_remove(idx)
    PROVE  /\ m_BufferList' \in Seq(Listeners)
           /\ m_BufList' \in [Buffers -> Seq(Nat \ {0})]
           /\ m_Loc' \in [Listeners -> Nat]
           /\ m_Home' \in [Listeners -> Buffers \cup {NoBuffer}]
           /\ Len(m_BufferList') = Len(m_BufferList) - 1
           /\ IndicesAgree'
           /\ m_BufferList[idx] \in Listeners
           /\ m_Loc'[m_BufferList[idx]] = INVALID_INDEX
           /\ \A x \in Listeners \ {m_BufferList[idx]} :
                 \/ m_Loc'[x] = m_Loc[x]
                 \/ m_Loc[x] = Len(m_BufferList) /\ m_Loc'[x] = idx
<1> DEFINE n    == Len(m_BufferList)
           l    == m_BufferList[idx]
           last == m_BufferList[n]
<1>1. /\ m_BufferList \in Seq(Listeners)
      /\ m_BufList \in [Buffers -> Seq(Nat \ {0})]
      /\ m_Loc \in [Listeners -> Nat]
      /\ m_Home \in [Listeners -> Buffers \cup {NoBuffer}]
  BY Zenon DEF TypeOK
<1>2. n \in Nat /\ DOMAIN m_BufferList = 1..n /\ idx \in 1..n /\ n \in 1..n
  BY <1>1
<1>3. l \in Listeners /\ last \in Listeners
  BY <1>1, <1>2
<1>4. /\ \A k \in 1..n : m_Loc[m_BufferList[k]] = k
      /\ \A x \in Listeners :
            /\ m_Loc[x] = 0 => m_Home[x] = NoBuffer
            /\ m_Loc[x] # 0 => /\ m_Loc[x] \in 1..n
                               /\ m_BufferList[m_Loc[x]] = x
                               /\ m_Home[x] = PerfBuffer[x]
  BY Zenon, <1>2 DEF IndicesAgree, INVALID_INDEX
<1>5. NoBuffer \notin Buffers
  BY Zenon DEF Buffers
<1>6. \A b \in Buffers : Holds(m_BufList[b], b, m_Loc, m_Home)
  BY Zenon, BuffersHold
<1>7. /\ m_BufferList' = Front([m_BufferList EXCEPT ![idx] = Last(m_BufferList)])
      /\ m_Loc' = [m_Loc EXCEPT ![last] = idx, ![l] = 0]
      /\ m_Home' = [m_Home EXCEPT ![l] = NoBuffer]
      /\ m_BufList' = IF idx = n THEN WithoutIndex(l, idx)
                      ELSE Reindexed(WithoutIndex(l, idx), last, m_Loc[last], idx)
  BY Zenon DEF m_remove, Last, INVALID_INDEX
<1>8. /\ m_BufferList' \in Seq(Listeners)
      /\ Len(m_BufferList') = n - 1
      /\ \A k \in 1..(n - 1) : m_BufferList'[k] = IF k = idx THEN last ELSE m_BufferList[k]
  BY ZenonT(60), <1>1, <1>2, <1>7, MovedLast
<1>9. m_Loc[l] = idx /\ m_Loc[last] = n
  BY Zenon, <1>2, <1>4
<1> HIDE DEF n, l, last
<1>10. DOMAIN m_BufferList' = 1..(n - 1)
  BY <1>2, <1>8
<1>11. /\ m_Loc' \in [Listeners -> Nat]
       /\ \A x \in Listeners : m_Loc'[x] = IF x = l THEN 0
                                           ELSE IF x = last THEN idx ELSE m_Loc[x]
  BY SMTT(40), <1>1, <1>2, <1>3, <1>7
<1>12. /\ m_Home' \in [Listeners -> Buffers \cup {NoBuffer}]
       /\ \A x \in Listeners : m_Home'[x] = IF x = l THEN NoBuffer ELSE m_Home[x]
  BY Zenon, <1>1, <1>3, <1>7
<1>13. \A k \in 1..(n - 1) : m_Loc'[m_BufferList'[k]] = k
  <2> SUFFICES ASSUME NEW k \in 1..(n - 1)
               PROVE  m_Loc'[m_BufferList'[k]] = k
    BY Zenon
  <2>1. k \in 1..n /\ k # n
    BY <1>2
  <2>2. CASE k = idx
    <3>1. last # l
      BY <1>9, <2>1, <2>2
    <3> QED
      BY Zenon, <1>3, <1>8, <1>11, <2>2, <3>1
  <2>3. CASE k # idx
    <3>1. m_BufferList[k] \in Listeners /\ m_Loc[m_BufferList[k]] = k
      BY <1>1, <1>2, <1>4, <2>1
    <3>2. m_BufferList[k] # l /\ m_BufferList[k] # last
      BY Zenon, <1>9, <2>1, <2>3, <3>1
    <3> QED
      BY SMTT(40), <1>8, <1>11, <2>3, <3>1, <3>2
  <2> QED
    BY Zenon, <2>2, <2>3
<1>14. \A x \in Listeners :
          IF m_Loc'[x] = 0 THEN m_Home'[x] = NoBuffer
          ELSE /\ m_Loc'[x] \in 1..(n - 1)
               /\ m_BufferList'[m_Loc'[x]] = x
               /\ m_Home'[x] = PerfBuffer[x]
  <2> SUFFICES ASSUME NEW x \in Listeners, x # l
               PROVE  IF m_Loc'[x] = 0 THEN m_Home'[x] = NoBuffer
                      ELSE /\ m_Loc'[x] \in 1..(n - 1)
                           /\ m_BufferList'[m_Loc'[x]] = x
                           /\ m_Home'[x] = PerfBuffer[x]
    BY Zenon, <1>3, <1>11, <1>12
  <2>1. m_Home'[x] = m_Home[x]
    BY Zenon, <1>12
  <2>2. CASE x = last
    <3>1. m_Loc'[x] = idx /\ idx # n
      BY Zenon, <1>3, <1>11, <2>2 DEF l, last
    <3>2. idx \in 1..(n - 1)
      BY <1>2, <3>1
    <3>3. m_Home[x] = PerfBuffer[x]
      BY SMTT(40), <1>2, <1>4, <1>9, <2>2
    <3> QED
      BY SMTT(40), <1>2, <1>8, <2>1, <2>2, <3>1, <3>2, <3>3
  <2>3. CASE x # last
    <3>1. m_Loc'[x] = m_Loc[x]
      BY Zenon, <1>11, <2>3
    <3>2. CASE m_Loc[x] # 0
      <4>1. m_Loc[x] \in 1..n /\ m_BufferList[m_Loc[x]] = x /\ m_Home[x] = PerfBuffer[x]
        BY Zenon, <1>4, <3>2
      <4>2. m_Loc[x] # n /\ m_Loc[x] # idx
        BY Zenon, <2>3, <4>1 DEF l, last
      <4>3. m_Loc[x] \in 1..(n - 1)
        BY <1>2, <4>1, <4>2
      <4> QED
        BY Zenon, <1>8, <2>1, <3>1, <3>2, <4>1, <4>2, <4>3
    <3>3. CASE m_Loc[x] = 0
      BY Zenon, <1>4, <2>1, <3>1, <3>3
    <3> QED
      BY Zenon, <3>2, <3>3
  <2> QED
    BY Zenon, <2>2, <2>3
<1>15. \A x \in Listeners : m_Loc[x] = idx => x = l
  BY <1>2, <1>4 DEF l
<1>16. \A x \in Listeners : m_Loc[x] = n => x = last
  BY <1>2, <1>4 DEF last
<1> DEFINE bufs == WithoutIndex(l, idx)
<1>17. /\ bufs \in [Buffers -> Seq(Nat \ {0})]
       /\ \A b \in Buffers :
             /\ IsInjective(bufs[b])
             /\ \A y : y \in Range(bufs[b]) <=>
                          \E x \in Listeners : x # l /\ m_Home[x] = b /\ m_Loc[x] = y
  <2>1. CASE m_Home[l] = NoBuffer
    <3>1. bufs = m_BufList
      BY Zenon, <2>1 DEF WithoutIndex
    <3>2. \A x \in Listeners, b \in Buffers : m_Home[x] = b => x # l
      BY Zenon, <1>5, <2>1
    <3> HIDE DEF bufs
    <3> QED
      BY <1>1, <1>6, <3>1, <3>2 DEF Holds
  <2>2. CASE m_Home[l] # NoBuffer
    <3>1. m_Home[l] \in Buffers
      BY Zenon, <1>1, <1>3, <2>2
    <3>2. idx \in Range(m_BufList[m_Home[l]])
      BY Zenon, <1>3, <1>6, <1>9, <3>1 DEF Holds
    <3> DEFINE r == RemoveFirst(m_BufList[m_Home[l]], idx)
    <3>3. /\ r \in Seq(Nat \ {0})
          /\ IsInjective(r)
          /\ Range(r) = Range(m_BufList[m_Home[l]]) \ {idx}
      BY SMTT(40), <1>1, <1>6, <3>1, <3>2, RemoveFirstRange DEF Holds
    <3>4. bufs = [m_BufList EXCEPT ![m_Home[l]] = r]
      BY Zenon, <2>2 DEF WithoutIndex
    <3> HIDE DEF bufs, r
    <3>5. bufs \in [Buffers -> Seq(Nat \ {0})]
      BY Zenon, <1>1, <3>1, <3>3, <3>4
    <3>6. ASSUME NEW b \in Buffers
          PROVE  /\ IsInjective(bufs[b])
                 /\ \A y : y \in Range(bufs[b]) <=>
                              \E x \in Listeners : x # l /\ m_Home[x] = b /\ m_Loc[x] = y
      <4>1. CASE b = m_Home[l]
        <5>1. bufs[b] = r
          BY Zenon, <1>1, <3>1, <3>4, <4>1
        <5>2. \A y : y \in Range(m_BufList[b]) <=>
                        \E x \in Listeners : m_Home[x] = b /\ m_Loc[x] = y
          BY Zenon, <1>6 DEF Holds
        <5> QED
          BY SMTT(40), <1>9, <1>15, <3>3, <4>1, <5>1, <5>2
      <4>2. CASE b # m_Home[l]
        <5>1. bufs[b] = m_BufList[b]
          BY Zenon, <1>1, <3>1, <3>4, <4>2
        <5> QED
          BY <1>6, <4>2, <5>1 DEF Holds
      <4> QED
        BY Zenon, <4>1, <4>2
    <3> QED
      BY Zenon, <3>5, <3>6
  <2> QED
    BY ZenonT(60), <2>1, <2>2
<1>18. m_BufList' = IF idx = n \/ m_Home[last] = NoBuffer THEN bufs
                    ELSE [bufs EXCEPT ![m_Home[last]] =
                             Append(RemoveFirst(bufs[m_Home[last]], n), idx)]
  <2>1. CASE idx = n
    BY Zenon, <1>7, <2>1
  <2>2. CASE idx # n
    <3>1. m_BufList' = Reindexed(bufs, last, n, idx)
      BY <1>7, <1>9, <2>2
    <3> HIDE DEF bufs
    <3>2. CASE m_Home[last] = NoBuffer
      BY SMTT(40), <2>2, <3>1, <3>2 DEF Reindexed
    <3>3. CASE m_Home[last] # NoBuffer
      <4>1. m_Home[last] \in Buffers
        BY <1>1, <1>3, <3>3
      <4> QED
        BY SMTT(40), <1>17, <2>2, <3>1, <3>3, <4>1 DEF Reindexed
    <3> QED
      BY <3>2, <3>3
  <2> QED
    BY Zenon, <2>1, <2>2
<1> HIDE DEF bufs
<1>19. /\ m_BufList' \in [Buffers -> Seq(Nat \ {0})]
       /\ \A b \in Buffers : Holds(m_BufList'[b], b, m_Loc', m_Home')
  <2>1. CASE idx = n \/ m_Home[last] = NoBuffer
    <3>1. m_BufList' = bufs
      BY Zenon, <1>18, <2>1
    <3>2. ASSUME NEW b \in Buffers, NEW y
          PROVE  (\E x \in Listeners : x # l /\ m_Home[x] = b /\ m_Loc[x] = y)
                     <=> \E x \in Listeners : m_Home'[x] = b /\ m_Loc'[x] = y
      <4>1. \A x \in Listeners : x # l /\ m_Home[x] = b => m_Home'[x] = b /\ m_Loc'[x] = m_Loc[x]
        BY SMTT(40), <1>3, <1>5, <1>11, <1>12, <2>1 DEF l, last
      <4>2. \A x \in Listeners : m_Home'[x] = b => x # l /\ m_Home[x] = b
        BY Zenon, <1>5, <1>12
      <4> QED
        BY Zenon, <4>1, <4>2
    <3>3. ASSUME NEW b \in Buffers
          PROVE  Holds(m_BufList'[b], b, m_Loc', m_Home')
      <4>1. IsInjective(bufs[b])
        BY Zenon, <1>17
      <4>2. \A y : y \in Range(bufs[b]) <=> \E x \in Listeners : m_Home'[x] = b /\ m_Loc'[x] = y
        BY ZenonT(60), <1>17, <3>2
      <4> QED
        BY Zenon, <3>1, <4>1, <4>2 DEF Holds
    <3> QED
      BY Zenon, <1>17, <3>1, <3>3
  <2>2. CASE idx # n /\ m_Home[last] # NoBuffer
    <3> DEFINE h == m_Home[last]
               r == RemoveFirst(bufs[h], n)
    <3>1. h \in Buffers /\ last # l
      BY Zenon, <1>1, <1>3, <1>9, <2>2
    <3>2. n \in Range(bufs[h])
      BY Zenon, <1>3, <1>9, <1>17, <3>1
    <3>3. /\ r \in Seq(Nat \ {0})
          /\ IsInjective(r)
          /\ Range(r) = Range(bufs[h]) \ {n}
      BY SMTT(40), <1>17, <3>1, <3>2, RemoveFirstRange
    <3>4. idx \notin Range(r) /\ idx \in Nat \ {0}
      <4> HIDE DEF r, h
      <4>1. idx \notin Range(bufs[h])
        BY Zenon, <1>15, <1>17, <3>1
      <4> QED
        BY <1>2, <3>3, <4>1
    <3> DEFINE t == Append(r, idx)
    <3>5. /\ t \in Seq(Nat \ {0})
          /\ IsInjective(t)
          /\ Range(t) = (Range(bufs[h]) \ {n}) \cup {idx}
      <4> HIDE DEF r, h
      <4> QED
        BY SMTT(40), <3>3, <3>4, AppendRange
    <3>6. m_BufList' = [bufs EXCEPT ![h] = t]
      BY Zenon, <1>18, <2>2
    <3> HIDE DEF t, r
    <3>7. m_BufList' \in [Buffers -> Seq(Nat \ {0})]
      BY Zenon, <1>17, <3>1, <3>5, <3>6
    <3>8. ASSUME NEW b \in Buffers
          PROVE  Holds(m_BufList'[b], b, m_Loc', m_Home')
      <4>1. \A x \in Listeners : m_Home'[x] = b <=> x # l /\ m_Home[x] = b
        BY Zenon, <1>5, <1>12
      <4>2. \A x \in Listeners : x # l => m_Loc'[x] = IF x = last THEN idx ELSE m_Loc[x]
        BY Zenon, <1>11
      <4>3. \A y : y \in Range(bufs[b]) <=>
                      \E x \in Listeners : x # l /\ m_Home[x] = b /\ m_Loc[x] = y
        BY Zenon, <1>17
      <4>4. CASE b = h
        <5>1. m_BufList'[b] = t
          BY SMTT(40), <1>17, <3>1, <3>6, <4>4
        <5>2. ASSUME NEW y \in Range(t)
              PROVE  \E x \in Listeners : m_Home'[x] = b /\ m_Loc'[x] = y
          <6>1. CASE y = idx
            BY SMTT(40), <1>3, <3>1, <4>1, <4>2, <4>4, <6>1
          <6>2. CASE y \in Range(bufs[h]) /\ y # n
            BY SMTT(40), <1>9, <4>1, <4>2, <4>3, <4>4, <6>2
          <6> QED
            BY SMTT(40), <3>5, <5>2, <6>1, <6>2
        <5>3. ASSUME NEW x \in Listeners, m_Home'[x] = b
              PROVE  m_Loc'[x] \in Range(t)
          BY SMTT(40), <1>16, <3>5, <4>1, <4>2, <4>3, <4>4, <5>3
        <5> QED
          BY SMTT(40), <3>5, <5>1, <5>2, <5>3 DEF Holds
      <4>5. CASE b # h
        <5>1. m_BufList'[b] = bufs[b]
          BY Zenon, <1>17, <3>1, <3>6, <4>5
        <5>2. \A x \in Listeners : m_Home[x] = b => x # last
          BY Zenon, <4>5
        <5> QED
          BY SMTT(40), <1>17, <4>1, <4>2, <4>3, <5>1, <5>2 DEF Holds
      <4> QED
        BY Zenon, <4>4, <4>5
    <3> QED
      BY Zenon, <3>7, <3>8
  <2> QED
    BY Zenon, <2>1, <2>2
<1>20. IndicesAgree'
  <2>1. \A b \in Buffers : /\ IsInjective(m_BufList'[b])
                           /\ Range(m_BufList'[b]) = {m_Loc'[x] : x \in {z \in Listeners : m_Home'[z] = b}}
    BY <1>19 DEF Holds
  <2> QED
    BY Zenon, <1>10, <1>13, <1>14, <2>1 DEF IndicesAgree, INVALID_INDEX
<1> QED
  BY Zenon, <1>3, <1>8, <1>9, <1>11, <1>12, <1>19, <1>20 DEF n, l, last, INVALID_INDEX

(***************************************************************************)
(* add() puts a new listener last and keeps all indices right.             *)
(***************************************************************************)
LEMMA AddKeepsIndices ==
    ASSUME TypeOK, IndicesAgree, NEW l \in Listeners, m_Loc[l] = INVALID_INDEX, Added(l)
    PROVE  /\ m_BufferList' \in Seq(Listeners)
           /\ m_BufList' \in [Buffers -> Seq(Nat \ {0})]
           /\ m_Loc' \in [Listeners -> Nat]
           /\ m_Home' \in [Listeners -> Buffers \cup {NoBuffer}]
           /\ IndicesAgree'
<1> DEFINE n == Len(m_BufferList)
           p == PerfBuffer[l]
<1>1. /\ m_BufferList \in Seq(Listeners)
      /\ m_BufList \in [Buffers -> Seq(Nat \ {0})]
      /\ m_Loc \in [Listeners -> Nat]
      /\ m_Home \in [Listeners -> Buffers \cup {NoBuffer}]
  BY Zenon DEF TypeOK
<1>2. n \in Nat /\ DOMAIN m_BufferList = 1..n
  BY <1>1
<1>3. /\ \A k \in 1..n : m_Loc[m_BufferList[k]] = k
      /\ \A x \in Listeners :
            /\ m_Loc[x] = 0 => m_Home[x] = NoBuffer
            /\ m_Loc[x] # 0 => /\ m_Loc[x] \in 1..n
                               /\ m_BufferList[m_Loc[x]] = x
                               /\ m_Home[x] = PerfBuffer[x]
  BY Zenon, <1>2 DEF IndicesAgree, INVALID_INDEX
<1>4. NoBuffer \notin Buffers /\ p \in Buffers \cup {NoBuffer}
  BY Zenon DEF Buffers
<1>5. \A b \in Buffers : Holds(m_BufList[b], b, m_Loc, m_Home)
  BY Zenon, BuffersHold
<1>6. /\ m_BufferList' = Append(m_BufferList, l)
      /\ m_Loc' = [m_Loc EXCEPT ![l] = n + 1]
      /\ m_Home' = [m_Home EXCEPT ![l] = p]
      /\ m_BufList' = IF p = NoBuffer THEN m_BufList
                      ELSE [m_BufList EXCEPT ![p] = Append(@, n + 1)]
  BY Zenon DEF Added
<1>7. /\ m_BufferList' \in Seq(Listeners)
      /\ DOMAIN m_BufferList' = 1..(n + 1)
      /\ \A k \in 1..n : m_BufferList'[k] = m_BufferList[k]
      /\ m_BufferList'[n + 1] = l
  BY <1>1, <1>6
<1> HIDE DEF n, p
<1>8. /\ m_Loc' \in [Listeners -> Nat]
      /\ \A x \in Listeners : m_Loc'[x] = IF x = l THEN n + 1 ELSE m_Loc[x]
  BY SMTT(40), <1>1, <1>2, <1>6
<1>9. /\ m_Home' \in [Listeners -> Buffers \cup {NoBuffer}]
      /\ \A x \in Listeners : m_Home'[x] = IF x = l THEN p ELSE m_Home[x]
  BY Zenon, <1>1, <1>4, <1>6
<1>10. \A k \in 1..(n + 1) : m_Loc'[m_BufferList'[k]] = k
  <2>1. \A k \in 1..n : m_BufferList[k] \in Listeners /\ m_BufferList[k] # l
    BY SMTT(40), <1>1, <1>2, <1>3 DEF INVALID_INDEX
  <2> QED
    BY SMTT(40), <1>2, <1>3, <1>7, <1>8, <2>1
<1>11. \A x \in Listeners :
          IF m_Loc'[x] = 0 THEN m_Home'[x] = NoBuffer
          ELSE /\ m_Loc'[x] \in 1..(n + 1)
               /\ m_BufferList'[m_Loc'[x]] = x
               /\ m_Home'[x] = PerfBuffer[x]
  BY SMTT(40), <1>2, <1>3, <1>7, <1>8, <1>9 DEF p
<1>12. m_Home[l] = NoBuffer
  BY Zenon, <1>3 DEF INVALID_INDEX
<1>13. /\ m_BufList' \in [Buffers -> Seq(Nat \ {0})]
       /\ \A b \in Buffers : Holds(m_BufList'[b], b, m_Loc', m_Home')
  <2>1. ASSUME NEW b \in Buffers, b # p
        PROVE  Holds(m_BufList[b], b, m_Loc', m_Home')
    <3>1. \A x \in Listeners : m_Home'[x] = b <=> m_Home[x] = b
      BY Zenon, <1>4, <1>9, <1>12, <2>1
    <3>2. \A x \in Listeners : m_Home[x] = b => m_Loc'[x] = m_Loc[x]
      BY Zenon, <1>4, <1>8, <1>12
    <3> QED
      BY SMTT(40), <1>5, <3>1, <3>2 DEF Holds
  <2>2. CASE p = NoBuffer
    <3>1. m_BufList' = m_BufList
      BY Zenon, <1>6, <2>2
    <3> QED
      BY Zenon, <1>1, <1>4, <2>1, <2>2, <3>1
  <2>3. CASE p \in Buffers
    <3> DEFINE t == Append(m_BufList[p], n + 1)
    <3>1. m_BufList' = [m_BufList EXCEPT ![p] = t]
      BY Zenon, <1>1, <1>4, <1>6, <2>3
    <3>2. \A x \in Listeners : m_Loc[x] # n + 1
      BY <1>1, <1>2, <1>3
    <3>3. n + 1 \notin Range(m_BufList[p])
      BY Zenon, <1>5, <2>3, <3>2 DEF Holds
    <3>4. /\ t \in Seq(Nat \ {0})
          /\ IsInjective(t)
          /\ Range(t) = Range(m_BufList[p]) \cup {n + 1}
      <4>1. n + 1 \in Nat \ {0} /\ m_BufList[p] \in Seq(Nat \ {0}) /\ IsInjective(m_BufList[p])
        BY <1>1, <1>2, <1>5, <2>3 DEF Holds
      <4> QED
        BY Zenon, <3>3, <4>1, AppendRange
    <3> HIDE DEF t
    <3>5. Holds(t, p, m_Loc', m_Home')
      <4>1. \A y : y \in Range(m_BufList[p]) <=>
                      \E x \in Listeners : m_Home[x] = p /\ m_Loc[x] = y
        BY Zenon, <1>5, <2>3 DEF Holds
      <4>2. \A y : y \in Range(t) <=> \E x \in Listeners : m_Home'[x] = p /\ m_Loc'[x] = y
        BY SMTT(40), <1>4, <1>8, <1>9, <1>12, <2>3, <3>4, <4>1
      <4> QED
        BY Zenon, <3>4, <4>2 DEF Holds
    <3>6. m_BufList' \in [Buffers -> Seq(Nat \ {0})]
      BY Zenon, <1>1, <2>3, <3>1, <3>4
    <3>7. \A b \in Buffers : m_BufList'[b] = IF b = p THEN t ELSE m_BufList[b]
      BY Zenon, <1>1, <2>3, <3>1
    <3> QED
      BY Zenon, <2>1, <3>5, <3>6, <3>7
  <2> QED
    BY Zenon, <1>4, <2>2, <2>3
<1>14. IndicesAgree'
  <2>1. \A b \in Buffers : /\ IsInjective(m_BufList'[b])
                           /\ Range(m_BufList'[b]) = {m_Loc'[x] : x \in {z \in Listeners : m_Home'[z] = b}}
    BY <1>13 DEF Holds
  <2> QED
    BY ZenonT(60), <1>7, <1>10, <1>11, <2>1 DEF IndicesAgree, INVALID_INDEX
<1> QED
  BY Zenon, <1>7, <1>8, <1>9, <1>13, <1>14

(***************************************************************************)
(* clearListeners() empties the list and every buffer that holds anything. *)
(***************************************************************************)
LEMMA ClearKeepsIndices ==
    ASSUME TypeOK, IndicesAgree, ClearAllListeners
    PROVE  /\ m_BufferList' \in Seq(Listeners)
           /\ m_BufList' \in [Buffers -> Seq(Nat \ {0})]
           /\ m_Loc' \in [Listeners -> Nat]
           /\ m_Home' \in [Listeners -> Buffers \cup {NoBuffer}]
           /\ IndicesAgree'
<1>1. /\ m_BufferList' = <<>>
      /\ m_Loc' = [l \in Listeners |-> 0]
      /\ m_Home' = [l \in Listeners |-> NoBuffer]
      /\ m_BufList' = [b \in Buffers |-> IF \E l \in Listeners : m_Home[l] = b THEN <<>>
                                         ELSE m_BufList[b]]
  BY Zenon DEF ClearAllListeners, INVALID_INDEX
<1>2. m_BufList \in [Buffers -> Seq(Nat \ {0})]
  BY Zenon DEF TypeOK
<1>3. <<>> \in Seq(Nat \ {0}) /\ <<>> \in Seq(Listeners) /\ DOMAIN <<>> = {}
  OBVIOUS
<1>4. IsInjective(<<>>) /\ Range(<<>>) = {}
  BY Zenon, <1>3 DEF IsInjective, Range
<1>5. NoBuffer \notin Buffers
  BY Zenon DEF Buffers
<1>6. /\ m_BufferList' \in Seq(Listeners)
      /\ m_BufList' \in [Buffers -> Seq(Nat \ {0})]
      /\ m_Loc' \in [Listeners -> Nat]
      /\ m_Home' \in [Listeners -> Buffers \cup {NoBuffer}]
  BY Zenon, <1>1, <1>2, <1>3
<1>7. ASSUME NEW b \in Buffers
      PROVE  IsInjective(m_BufList'[b]) /\ Range(m_BufList'[b]) = {}
  <2>1. CASE \E l \in Listeners : m_Home[l] = b
    BY Zenon, <1>1, <1>4, <2>1
  <2>2. CASE ~\E l \in Listeners : m_Home[l] = b
    <3>1. m_BufList'[b] = m_BufList[b]
      BY Zenon, <1>1, <2>2
    <3>2. Holds(m_BufList[b], b, m_Loc, m_Home)
      BY Zenon, BuffersHold
    <3> QED
      BY Zenon, <2>2, <3>1, <3>2 DEF Holds
  <2> QED
    BY Zenon, <2>1, <2>2
<1>8. \A b \in Buffers : {m_Loc'[x] : x \in {z \in Listeners : m_Home'[z] = b}} = {}
  BY Zenon, <1>1, <1>5
<1>9. \A x \in Listeners : m_Loc'[x] = 0 /\ m_Home'[x] = NoBuffer
  BY Zenon, <1>1
<1>10. \A k \in DOMAIN m_BufferList' : m_Loc'[m_BufferList'[k]] = k
  BY Zenon, <1>1, <1>3
<1>11. IndicesAgree'
  BY Zenon, <1>7, <1>8, <1>9, <1>10 DEF IndicesAgree, INVALID_INDEX
<1> QED
  BY Zenon, <1>6, <1>11

-----------------------------------------------------------------------------
(***************************************************************************)
(* The listeners in m_BufferList are those that know a place.              *)
(***************************************************************************)
LEMMA ListedKnowPlace ==
    ASSUME TypeOK, IndicesAgree
    PROVE  \A x \in Listeners : x \in Range(m_BufferList) <=> m_Loc[x] # 0
<1>1. DOMAIN m_BufferList = 1..Len(m_BufferList)
  BY DEF TypeOK
<1>2. ASSUME NEW k \in DOMAIN m_BufferList
      PROVE  m_Loc[m_BufferList[k]] # 0
  BY <1>1 DEF IndicesAgree
<1>3. ASSUME NEW x \in Listeners, m_Loc[x] # 0
      PROVE  m_Loc[x] \in DOMAIN m_BufferList /\ m_BufferList[m_Loc[x]] = x
  BY Zenon, <1>3 DEF IndicesAgree, INVALID_INDEX
<1> QED
  BY Zenon, <1>2, <1>3 DEF Range

(***************************************************************************)
(* A step that leaves list, indices and buffers alone keeps them in        *)
(* agreement.                                                              *)
(***************************************************************************)
LEMMA IndexFrame ==
    ASSUME IndicesAgree, UNCHANGED indexVars
    PROVE  IndicesAgree'
<1>1. UNCHANGED m_BufferList /\ UNCHANGED m_BufList /\ UNCHANGED m_Loc /\ UNCHANGED m_Home
  BY Zenon DEF indexVars
<1> QED
  BY <1>1 DEF IndicesAgree

(***************************************************************************)
(* m_remove() takes the listener out of the range of m_BufferList.         *)
(***************************************************************************)
LEMMA RemoveShrinks ==
    ASSUME TypeOK, IndicesAgree, NEW idx \in DOMAIN m_BufferList, m_remove(idx)
    PROVE  Range(m_BufferList') \subseteq Range(m_BufferList) \ {m_BufferList[idx]}
<1> DEFINE l == m_BufferList[idx]
<1>1. /\ m_BufferList' \in Seq(Listeners)
      /\ IndicesAgree'
      /\ l \in Listeners /\ m_Loc'[l] = 0
      /\ \A x \in Listeners \ {l} : \/ m_Loc'[x] = m_Loc[x]
                                    \/ m_Loc[x] = Len(m_BufferList) /\ m_Loc'[x] = idx
  BY Zenon, RemoveKeepsIndices DEF INVALID_INDEX
<1>2. Len(m_BufferList) # 0
  BY DEF TypeOK
<1> HIDE DEF l
<1> SUFFICES ASSUME NEW k \in DOMAIN m_BufferList'
             PROVE  m_BufferList'[k] \in Range(m_BufferList) \ {l}
  BY Zenon DEF Range, l
<1> DEFINE x == m_BufferList'[k]
<1>3. x \in Listeners /\ k \in Nat \ {0}
  BY <1>1
<1>4. m_Loc'[x] = k
  BY Zenon, <1>1 DEF IndicesAgree
<1> HIDE DEF x
<1>5. x # l
  BY Zenon, <1>1, <1>3, <1>4
<1>6. m_Loc[x] # 0
  BY SMTT(40), <1>1, <1>2, <1>3, <1>4, <1>5
<1> QED
  BY Zenon, <1>3, <1>5, <1>6, ListedKnowPlace DEF x

(***************************************************************************)
(* What the rest of the invariant needs of a step of a flow: listeners     *)
(* about to fire are cancelled just when they go to the delete list.       *)
(***************************************************************************)
Marks ==
    /\ m_DeleteList' \subseteq Listeners /\ m_DeleteList \subseteq m_DeleteList'
    /\ cancelled' \subseteq Nat
    /\ m_FireList = <<>> => m_DeleteList' = m_DeleteList /\ cancelled' = cancelled
    /\ ~UsesRemoveAll => \A k \in DOMAIN m_FireList :
          /\ k <= it => (k \in cancelled' <=> k \in cancelled)
          /\ k > it /\ (k \in cancelled <=> m_FireList[k] \in m_DeleteList) =>
                (k \in cancelled' <=> m_FireList[k] \in m_DeleteList')

(***************************************************************************)
(* A step that puts nothing into the delete list marks nothing.            *)
(***************************************************************************)
LEMMA MarksNothing ==
    ASSUME TypeOK, UNCHANGED <<m_DeleteList, cancelled>>
    PROVE  Marks
<1>1. m_DeleteList' = m_DeleteList /\ cancelled' = cancelled
  BY Zenon
<1> QED
  BY Zenon, <1>1 DEF TypeOK, Marks

(***************************************************************************)
(* A removal marks the listeners that it puts into the delete list, and    *)
(* cancels exactly their positions ahead of the iterator.                  *)
(***************************************************************************)
LEMMA MarksRemoved ==
    ASSUME TypeOK, NEW S \in SUBSET Listeners, m_DeleteList' = m_DeleteList \cup InFireList(S),
           cancelled' = cancelled \cup Pending(S)
    PROVE  Marks
<1>0. DOMAIN <<>> = {}
  OBVIOUS
<1>1. /\ DOMAIN m_FireList \subseteq Nat /\ it \in Nat
      /\ m_DeleteList \subseteq Listeners /\ cancelled \subseteq Nat
  <2>1. /\ m_FireList \in Seq(Listeners) /\ it \in Nat
        /\ m_DeleteList \subseteq Listeners /\ cancelled \subseteq Nat
    BY Zenon DEF TypeOK
  <2>2. DOMAIN m_FireList = 1..Len(m_FireList) /\ Len(m_FireList) \in Nat
    BY <2>1
  <2> QED
    BY SMTT(40), <2>1, <2>2
<1>2. InFireList(S) = {m_FireList[k] : k \in DOMAIN m_FireList} \cap S
  BY Zenon DEF InFireList
<1>3. Pending(S) = {k \in DOMAIN m_FireList : m_FireList[k] \in S /\ k > it}
  BY Zenon DEF Pending
<1>4. m_DeleteList' \subseteq Listeners /\ m_DeleteList \subseteq m_DeleteList'
      /\ cancelled' \subseteq Nat
  BY ZenonT(60), <1>1, <1>2, <1>3
<1>5. m_FireList = <<>> => m_DeleteList' = m_DeleteList /\ cancelled' = cancelled
  BY Zenon, <1>0, <1>2, <1>3
<1>6. ASSUME NEW k \in DOMAIN m_FireList
      PROVE  /\ k <= it => (k \in cancelled' <=> k \in cancelled)
             /\ k > it /\ (k \in cancelled <=> m_FireList[k] \in m_DeleteList) =>
                   (k \in cancelled' <=> m_FireList[k] \in m_DeleteList')
  BY SMTT(40), <1>1, <1>2, <1>3
<1> QED
  BY Zenon, <1>4, <1>5, <1>6 DEF Marks

(***************************************************************************)
(* A step of a flow keeps the parts of the invariant that are about the    *)
(* event.                                                                  *)
(***************************************************************************)
LEMMA FlowFrame ==
    ASSUME Inv, pc \in {"flow", "clear"}, pc' \in {"flow", "clear"}, Marks,
           UNCHANGED <<m_FireList, it, ret, eventVars, fired>>, removeAll' => UsesRemoveAll
    PROVE  ControlInv' /\ SlowInv' /\ FastInv' /\ TellInv' /\ FireInv'
<1>1. /\ m_FireList' = m_FireList /\ it' = it /\ ret' = ret /\ fired' = fired
      /\ matching' = matching /\ gathering' = gathering /\ res' = res /\ due' = due /\ hits' = hits
  BY Zenon DEF eventVars
<1>2. SlowInv' /\ FastInv'
  BY Zenon DEF SlowInv, FastInv
<1>3. TellInv'
  BY Zenon, <1>1 DEF Inv, TellInv
<1>4. ControlInv'
  <2>1. res = <<>> /\ gathering = <<>>
    BY Zenon DEF Inv, ControlInv
  <2>2. ret = "sim" => /\ m_FireList = <<>> /\ m_DeleteList = {} /\ due = {}
                       /\ fired = {} /\ cancelled = {}
    BY Zenon DEF Inv, ControlInv
  <2>3. ret = "sim" => m_DeleteList' = {} /\ cancelled' = {}
    BY Zenon, <2>2 DEF Marks
  <2> QED
    BY Zenon, <1>1, <2>1, <2>2, <2>3 DEF ControlInv
<1>5. FireInv'
  <2> SUFFICES ASSUME ~UsesRemoveAll, NEW k \in DOMAIN m_FireList, ret = "trigger"
               PROVE  /\ k < it => (k \in fired <=> k \notin cancelled')
                      /\ k = it => k \in fired /\ k \notin cancelled'
                      /\ k > it => k \notin fired /\
                                   (k \in cancelled' <=> m_FireList[k] \in m_DeleteList')
    BY Zenon, <1>1 DEF FireInv, Running
  <2>1. /\ k < it => (k \in fired <=> k \notin cancelled)
        /\ k = it => k \in fired /\ k \notin cancelled
        /\ k > it => k \notin fired /\ (k \in cancelled <=> m_FireList[k] \in m_DeleteList)
    BY Zenon DEF Inv, FireInv, Running
  <2>2. /\ k <= it => (k \in cancelled' <=> k \in cancelled)
        /\ k > it /\ (k \in cancelled <=> m_FireList[k] \in m_DeleteList) =>
                (k \in cancelled' <=> m_FireList[k] \in m_DeleteList')
    BY Zenon DEF Marks
  <2>3. k \in Int /\ it \in Int
    BY DEF Inv, TypeOK
  <2> QED
    BY SMTT(40), <2>1, <2>2, <2>3
<1> QED
  BY SMTT(40), <1>2, <1>3, <1>4, <1>5

-----------------------------------------------------------------------------
(***************************************************************************)
(* The actions of flows preserve the invariant.                            *)
(***************************************************************************)
LEMMA ConstructInv ==
    ASSUME Inv, NEW l \in Listeners, Construct(l)
    PROVE  Inv'
<1>1. /\ pc = "flow" /\ pc' = pc /\ alive' = alive \cup {l}
      /\ UNCHANGED <<m_FireList, it, ret, eventVars, fired>> /\ UNCHANGED clearVars
      /\ UNCHANGED <<m_DeleteList, cancelled>> /\ UNCHANGED indexVars
  BY Zenon DEF Construct
<1>2. ControlInv' /\ SlowInv' /\ FastInv' /\ TellInv' /\ FireInv'
  <2>1. removeAll' => UsesRemoveAll
    BY Zenon, <1>1 DEF Inv, ControlInv, clearVars
  <2> QED
    BY Zenon, <1>1, <2>1, FlowFrame, MarksNothing DEF Inv
<1>3. IndicesAgree'
  BY Zenon, <1>1, IndexFrame DEF Inv
<1>4. TypeOK'
  <2>1. alive' \subseteq Listeners
    BY Zenon, <1>1 DEF Inv, TypeOK
  <2> QED
    BY Zenon, <2>1 DEF Inv, TypeOK, Construct, indexVars, eventVars, clearVars
<1>5. DestroyedUntouched'
  <2>1. m_BufferList' = m_BufferList /\ res' = res /\ m_FireList' = m_FireList
        /\ m_DeleteList' = m_DeleteList
    BY Zenon, <1>1 DEF indexVars, eventVars
  <2> QED
    BY Zenon, <1>1, <2>1 DEF Inv, DestroyedUntouched
<1> QED
  BY Zenon, <1>2, <1>3, <1>4, <1>5 DEF Inv

(***************************************************************************)
(* setCounter() keeps the invariant: it touches the two counters of a      *)
(* listener only.                                                          *)
(***************************************************************************)
LEMMA SetCounterInv ==
    ASSUME Inv, NEW l \in Listeners, NEW n \in Counters, SetCounter(l, n)
    PROVE  Inv'
<1>1. /\ pc = "flow" /\ pc' = pc /\ alive' = alive
      /\ m_OccCounter' = [m_OccCounter EXCEPT ![l] = n]
      /\ m_OccCounterInit' = [m_OccCounterInit EXCEPT ![l] = n]
      /\ UNCHANGED <<m_FireList, it, ret, eventVars, fired>> /\ UNCHANGED clearVars
      /\ UNCHANGED <<m_DeleteList, cancelled>> /\ UNCHANGED indexVars
  BY Zenon DEF SetCounter
<1>2. ControlInv' /\ SlowInv' /\ FastInv' /\ TellInv' /\ FireInv'
  <2>1. removeAll' => UsesRemoveAll
    BY Zenon, <1>1 DEF Inv, ControlInv, clearVars
  <2> QED
    BY Zenon, <1>1, <2>1, FlowFrame, MarksNothing DEF Inv
<1>3. IndicesAgree'
  BY Zenon, <1>1, IndexFrame DEF Inv
<1>4. TypeOK'
  <2>1. n \in 0..UINT_MAX
    BY Zenon, ListenerAssumption
  <2>2. m_OccCounter' \in [Listeners -> 0..UINT_MAX] /\ m_OccCounterInit' \in [Listeners -> 0..UINT_MAX]
    BY Zenon, <1>1, <2>1 DEF Inv, TypeOK
  <2> QED
    BY Zenon, <2>2 DEF Inv, TypeOK, SetCounter, indexVars, eventVars, clearVars
<1>5. DestroyedUntouched'
  <2>1. m_BufferList' = m_BufferList /\ res' = res /\ m_FireList' = m_FireList
        /\ m_DeleteList' = m_DeleteList
    BY Zenon, <1>1 DEF indexVars, eventVars
  <2> QED
    BY Zenon, <1>1, <2>1 DEF Inv, DestroyedUntouched
<1> QED
  BY Zenon, <1>2, <1>3, <1>4, <1>5 DEF Inv

(***************************************************************************)
(* addListener() keeps the invariant: the new listener is the last of the  *)
(* list and of its buffer.                                                 *)
(***************************************************************************)
LEMMA AddListenerInv ==
    ASSUME Inv, NEW l \in Listeners, AddListener(l)
    PROVE  Inv'
<1>1. /\ pc = "flow" /\ pc' = pc /\ alive' = alive
      /\ l \in alive /\ m_Loc[l] = INVALID_INDEX
      /\ m_Parent' = [m_Parent EXCEPT ![l] = current]
      /\ Added(l)
      /\ UNCHANGED <<m_FireList, it, ret, eventVars, fired>> /\ UNCHANGED clearVars
      /\ UNCHANGED <<m_DeleteList, cancelled>>
  BY Zenon DEF AddListener, Addable
<1>2. ControlInv' /\ SlowInv' /\ FastInv' /\ TellInv' /\ FireInv'
  <2>1. removeAll' => UsesRemoveAll
    BY Zenon, <1>1 DEF Inv, ControlInv, clearVars
  <2> QED
    BY Zenon, <1>1, <2>1, FlowFrame, MarksNothing DEF Inv
<1>3. /\ m_BufferList' \in Seq(Listeners)
      /\ m_BufList' \in [Buffers -> Seq(Nat \ {0})]
      /\ m_Loc' \in [Listeners -> Nat]
      /\ m_Home' \in [Listeners -> Buffers \cup {NoBuffer}]
      /\ IndicesAgree'
  BY Zenon, <1>1, AddKeepsIndices DEF Inv
<1>4. TypeOK'
  <2>1. m_Parent' \in [Listeners -> Flows \cup {NoFlow}]
    BY Zenon, <1>1 DEF Inv, TypeOK
  <2> QED
    BY Zenon, <1>3, <2>1 DEF Inv, TypeOK, AddListener, eventVars, clearVars
<1>5. DestroyedUntouched'
  <2>1. res' = res /\ m_FireList' = m_FireList /\ m_DeleteList' = m_DeleteList
    BY Zenon, <1>1 DEF eventVars
  <2>2. Range(m_BufferList') = Range(m_BufferList) \cup {l}
    BY SMTT(40), <1>1, AppendRange DEF Added, Inv, TypeOK
  <2> QED
    BY Zenon, <1>1, <2>1, <2>2 DEF Inv, DestroyedUntouched
<1> QED
  BY SMTT(40), <1>2, <1>3, <1>4, <1>5 DEF Inv

(***************************************************************************)
(* A refused addListener() keeps the invariant although it has set the     *)
(* parent.                                                                 *)
(***************************************************************************)
LEMMA AddListenerRefusedInv ==
    ASSUME Inv, NEW l \in Listeners, AddListenerRefused(l)
    PROVE  Inv'
<1>1. /\ pc = "flow" /\ pc' = pc /\ alive' = alive
      /\ m_Parent' = [m_Parent EXCEPT ![l] = current]
      /\ UNCHANGED <<m_FireList, it, ret, eventVars, fired>> /\ UNCHANGED clearVars
      /\ m_DeleteList' = m_DeleteList \cup InFireList({l})
      /\ cancelled' = cancelled \cup Pending({l})
      /\ UNCHANGED indexVars
  BY Zenon DEF AddListenerRefused
<1>2. Marks
  BY Zenon, <1>1, MarksRemoved DEF Inv
<1>3. ControlInv' /\ SlowInv' /\ FastInv' /\ TellInv' /\ FireInv'
  <2>1. removeAll' => UsesRemoveAll
    BY Zenon, <1>1 DEF Inv, ControlInv, clearVars
  <2> QED
    BY Zenon, <1>1, <1>2, <2>1, FlowFrame
<1>4. IndicesAgree'
  BY Zenon, <1>1, IndexFrame DEF Inv
<1>5. TypeOK'
  <2>1. m_Parent' \in [Listeners -> Flows \cup {NoFlow}]
    BY Zenon, <1>1 DEF Inv, TypeOK
  <2>2. m_DeleteList' \subseteq Listeners /\ cancelled' \subseteq Nat
    BY Zenon, <1>2 DEF Marks
  <2> QED
    BY Zenon, <2>1, <2>2 DEF Inv, TypeOK, AddListenerRefused, indexVars, eventVars, clearVars
<1>6. DestroyedUntouched'
  <2>1. m_BufferList' = m_BufferList /\ res' = res /\ m_FireList' = m_FireList
    BY Zenon, <1>1 DEF indexVars, eventVars
  <2>2. m_DeleteList \subseteq m_DeleteList'
    BY Zenon, <1>1
  <2> QED
    BY Zenon, <1>1, <2>1, <2>2 DEF Inv, DestroyedUntouched
<1> QED
  BY Zenon, <1>3, <1>4, <1>5, <1>6 DEF Inv

(***************************************************************************)
(* remove() of one listener, whether it is in the list or not.             *)
(***************************************************************************)
LEMMA RemoveOneEffect ==
    ASSUME Inv, NEW l \in Listeners, RemoveOne(l)
    PROVE  /\ m_BufferList' \in Seq(Listeners)
           /\ m_BufList' \in [Buffers -> Seq(Nat \ {0})]
           /\ m_Loc' \in [Listeners -> Nat]
           /\ m_Home' \in [Listeners -> Buffers \cup {NoBuffer}]
           /\ IndicesAgree'
           /\ Range(m_BufferList') \subseteq Range(m_BufferList) \ {l}
           /\ Marks
           /\ InFireList({l}) \subseteq m_DeleteList'
<1>1. TypeOK /\ IndicesAgree
  BY Zenon DEF Inv
<1>2. Marks /\ InFireList({l}) \subseteq m_DeleteList'
  BY Zenon, <1>1, MarksRemoved DEF RemoveOne
<1>3. CASE m_Loc[l] # INVALID_INDEX
  <2>1. m_Loc[l] \in DOMAIN m_BufferList /\ m_BufferList[m_Loc[l]] = l /\ m_remove(m_Loc[l])
    BY Zenon, <1>1, <1>3 DEF IndicesAgree, RemoveOne
  <2> QED
    BY ZenonT(60), <1>1, <1>2, <2>1, RemoveKeepsIndices, RemoveShrinks
<1>4. CASE m_Loc[l] = INVALID_INDEX
  <2>1. UNCHANGED indexVars
    BY Zenon, <1>4 DEF RemoveOne
  <2>2. IndicesAgree'
    BY Zenon, <1>1, <2>1, IndexFrame
  <2>3. m_BufferList' = m_BufferList /\ m_BufList' = m_BufList /\ m_Loc' = m_Loc /\ m_Home' = m_Home
    BY Zenon, <2>1 DEF indexVars
  <2>4. l \notin Range(m_BufferList)
    BY Zenon, <1>1, <1>4, ListedKnowPlace DEF INVALID_INDEX
  <2> QED
    BY ZenonT(60), <1>1, <1>2, <2>2, <2>3, <2>4 DEF TypeOK
<1> QED
  BY ZenonT(60), <1>3, <1>4

(***************************************************************************)
(* removeListener(li) keeps the invariant: a listener that is about to     *)
(* fire is marked as deleted.                                              *)
(***************************************************************************)
LEMMA RemoveListenerInv ==
    ASSUME Inv, NEW l \in Listeners, RemoveListener(l)
    PROVE  Inv'
<1>1. /\ pc = "flow" /\ pc' = pc /\ alive' = alive
      /\ RemoveOne(l)
      /\ UNCHANGED <<m_FireList, it, ret, eventVars, fired>> /\ UNCHANGED clearVars
  BY Zenon DEF RemoveListener, listenerVars
<1>2. /\ m_BufferList' \in Seq(Listeners)
      /\ m_BufList' \in [Buffers -> Seq(Nat \ {0})]
      /\ m_Loc' \in [Listeners -> Nat]
      /\ m_Home' \in [Listeners -> Buffers \cup {NoBuffer}]
      /\ IndicesAgree'
      /\ Range(m_BufferList') \subseteq Range(m_BufferList)
      /\ Marks
  BY ZenonT(60), <1>1, RemoveOneEffect
<1>3. ControlInv' /\ SlowInv' /\ FastInv' /\ TellInv' /\ FireInv'
  <2>1. removeAll' => UsesRemoveAll
    BY Zenon, <1>1 DEF Inv, ControlInv, clearVars
  <2> QED
    BY Zenon, <1>1, <1>2, <2>1, FlowFrame
<1>4. TypeOK'
  <2>1. m_DeleteList' \subseteq Listeners /\ cancelled' \subseteq Nat
    BY Zenon, <1>2 DEF Marks
  <2> QED
    BY Zenon, <1>2, <2>1 DEF Inv, TypeOK, RemoveListener, listenerVars, eventVars, clearVars
<1>5. DestroyedUntouched'
  <2>1. res' = res /\ m_FireList' = m_FireList
    BY Zenon, <1>1 DEF eventVars
  <2>2. m_DeleteList \subseteq m_DeleteList'
    BY Zenon, <1>2 DEF Marks
  <2> QED
    BY Zenon, <1>1, <1>2, <2>1, <2>2 DEF Inv, DestroyedUntouched
<1> QED
  BY Zenon, <1>2, <1>3, <1>4, <1>5 DEF Inv

(***************************************************************************)
(* The destructor keeps the invariant: it removes the listener before its  *)
(* memory is gone.                                                         *)
(***************************************************************************)
LEMMA DestroyInv ==
    ASSUME Inv, NEW l \in Listeners, Destroy(l)
    PROVE  Inv'
<1>1. /\ pc = "flow" /\ pc' = pc /\ alive' = alive \ {l}
      /\ RemoveOne(l)
      /\ m_OccCounter' = [m_OccCounter EXCEPT ![l] = 1]
      /\ m_OccCounterInit' = [m_OccCounterInit EXCEPT ![l] = 1]
      /\ m_Parent' = [m_Parent EXCEPT ![l] = NoFlow]
      /\ UNCHANGED <<m_FireList, it, ret, eventVars, fired>> /\ UNCHANGED clearVars
  BY Zenon DEF Destroy
<1>2. /\ m_BufferList' \in Seq(Listeners)
      /\ m_BufList' \in [Buffers -> Seq(Nat \ {0})]
      /\ m_Loc' \in [Listeners -> Nat]
      /\ m_Home' \in [Listeners -> Buffers \cup {NoBuffer}]
      /\ IndicesAgree'
      /\ Range(m_BufferList') \subseteq Range(m_BufferList) \ {l}
      /\ Marks
      /\ InFireList({l}) \subseteq m_DeleteList'
  BY ZenonT(60), <1>1, RemoveOneEffect
<1>3. ControlInv' /\ SlowInv' /\ FastInv' /\ TellInv' /\ FireInv'
  <2>1. removeAll' => UsesRemoveAll
    BY Zenon, <1>1 DEF Inv, ControlInv, clearVars
  <2> QED
    BY Zenon, <1>1, <1>2, <2>1, FlowFrame
<1>4. TypeOK'
  <2>1. m_DeleteList' \subseteq Listeners /\ cancelled' \subseteq Nat
    BY Zenon, <1>2 DEF Marks
  <2>2. /\ m_OccCounter' \in [Listeners -> 0..UINT_MAX]
        /\ m_OccCounterInit' \in [Listeners -> 0..UINT_MAX]
    <3>1. 1 \in 0..UINT_MAX
      BY SMTT(40), ListenerAssumption
    <3> QED
      BY Zenon, <1>1, <3>1 DEF Inv, TypeOK
  <2>3. m_Parent' \in [Listeners -> Flows \cup {NoFlow}] /\ alive' \subseteq Listeners
    BY Zenon, <1>1 DEF Inv, TypeOK
  <2> QED
    BY Zenon, <1>2, <2>1, <2>2, <2>3 DEF Inv, TypeOK, Destroy, eventVars, clearVars
<1>5. DestroyedUntouched'
  <2>1. m_FireList' = m_FireList /\ Range(res') = {}
    <3>1. res' = res /\ m_FireList' = m_FireList /\ res = <<>>
      BY Zenon, <1>1 DEF eventVars, Inv, ControlInv
    <3> QED
      BY <3>1 DEF Range
  <2>2. m_DeleteList \subseteq m_DeleteList'
    BY Zenon, <1>2 DEF Marks
  <2>3. l \in Range(m_FireList) => l \in m_DeleteList'
    BY Zenon, <1>2 DEF InFireList, Range
  <2> QED
    BY Zenon, <1>1, <1>2, <2>1, <2>2, <2>3 DEF Inv, DestroyedUntouched
<1> QED
  BY Zenon, <1>2, <1>3, <1>4, <1>5 DEF Inv

(***************************************************************************)
(* clearListeners(ANY_FLOW) keeps the invariant: lists and buffers are     *)
(* emptied at once, and the pending listeners are marked as deleted.       *)
(***************************************************************************)
LEMMA ClearAllListenersInv ==
    ASSUME Inv, ClearAllListeners
    PROVE  Inv'
<1>1. /\ pc = "flow" /\ pc' = pc /\ alive' = alive
      /\ m_BufferList' = <<>>
      /\ m_DeleteList' = m_DeleteList \cup InFireList(Listeners)
      /\ cancelled' = cancelled \cup Pending(Listeners)
      /\ UNCHANGED <<m_FireList, it, ret, eventVars, fired>> /\ UNCHANGED clearVars
  BY Zenon DEF ClearAllListeners, listenerVars
<1>2. /\ m_BufferList' \in Seq(Listeners)
      /\ m_BufList' \in [Buffers -> Seq(Nat \ {0})]
      /\ m_Loc' \in [Listeners -> Nat]
      /\ m_Home' \in [Listeners -> Buffers \cup {NoBuffer}]
      /\ IndicesAgree'
  BY Zenon, ClearKeepsIndices DEF Inv
<1>3. Marks
  BY Zenon, <1>1, MarksRemoved DEF Inv
<1>4. ControlInv' /\ SlowInv' /\ FastInv' /\ TellInv' /\ FireInv'
  <2>1. removeAll' => UsesRemoveAll
    BY Zenon, <1>1 DEF Inv, ControlInv, clearVars
  <2> QED
    BY SMTT(40), <1>1, <1>3, <2>1, FlowFrame
<1>5. TypeOK'
  <2>1. m_DeleteList' \subseteq Listeners /\ cancelled' \subseteq Nat
    BY Zenon, <1>3 DEF Marks
  <2> QED
    BY Zenon, <1>2, <2>1 DEF Inv, TypeOK, ClearAllListeners, listenerVars, eventVars, clearVars
<1>6. DestroyedUntouched'
  <2>1. res' = res /\ m_FireList' = m_FireList /\ Range(m_BufferList') = {}
    BY <1>1 DEF eventVars, Range
  <2>2. m_DeleteList \subseteq m_DeleteList'
    BY Zenon, <1>1
  <2> QED
    BY Zenon, <1>1, <2>1, <2>2 DEF Inv, DestroyedUntouched
<1> QED
  BY Zenon, <1>2, <1>4, <1>5, <1>6 DEF Inv

(***************************************************************************)
(* The begin of the loop that removes the listeners of one flow keeps the  *)
(* invariant.                                                              *)
(***************************************************************************)
LEMMA BeginClearInv ==
    ASSUME Inv, NEW f \in Flows \cup {NoFlow}, NEW all \in BOOLEAN, all => UsesRemoveAll,
           BeginClear(f, all)
    PROVE  Inv'
<1>1. /\ pc = "flow" /\ pc' = "clear" /\ alive' = alive
      /\ clearing' = f /\ removeAll' = all
      /\ UNCHANGED <<m_FireList, it, ret, eventVars, fired>>
      /\ UNCHANGED <<m_DeleteList, cancelled>> /\ UNCHANGED indexVars
  BY Zenon DEF BeginClear, listenerVars
<1>2. ControlInv' /\ SlowInv' /\ FastInv' /\ TellInv' /\ FireInv'
  BY Zenon, <1>1, FlowFrame, MarksNothing DEF Inv
<1>3. IndicesAgree'
  BY Zenon, <1>1, IndexFrame DEF Inv
<1>4. TypeOK'
  <2>1. pc' \in Pcs
    BY Zenon, <1>1 DEF Pcs
  <2>2. clearing' \in Flows \cup {NoFlow} /\ removeAll' \in BOOLEAN
    BY Zenon, <1>1
  <2> QED
    BY Zenon, <2>1, <2>2 DEF Inv, TypeOK, BeginClear, listenerVars, indexVars, eventVars
<1>5. DestroyedUntouched'
  <2>1. m_BufferList' = m_BufferList /\ res' = res /\ m_FireList' = m_FireList
        /\ m_DeleteList' = m_DeleteList
    BY Zenon, <1>1 DEF indexVars, eventVars
  <2> QED
    BY Zenon, <1>1, <2>1 DEF Inv, DestroyedUntouched
<1> QED
  BY Zenon, <1>2, <1>3, <1>4, <1>5 DEF Inv

(***************************************************************************)
(* Each round of the loop that removes the listeners of one flow keeps the *)
(* invariant.                                                              *)
(***************************************************************************)
LEMMA ClearOneInv ==
    ASSUME Inv, ClearOne
    PROVE  Inv'
<1>1. /\ pc = "clear" /\ pc' = pc /\ alive' = alive
      /\ UNCHANGED <<m_FireList, it, ret, eventVars, fired>> /\ UNCHANGED clearVars
      /\ UNCHANGED <<m_DeleteList, cancelled>>
  BY Zenon DEF ClearOne, listenerVars
<1>2. PICK idx \in DOMAIN m_BufferList : m_remove(idx)
  BY Zenon DEF ClearOne
<1>3. /\ m_BufferList' \in Seq(Listeners)
      /\ m_BufList' \in [Buffers -> Seq(Nat \ {0})]
      /\ m_Loc' \in [Listeners -> Nat]
      /\ m_Home' \in [Listeners -> Buffers \cup {NoBuffer}]
      /\ IndicesAgree'
      /\ Range(m_BufferList') \subseteq Range(m_BufferList)
  BY Zenon, <1>2, RemoveKeepsIndices, RemoveShrinks DEF Inv
<1>4. ControlInv' /\ SlowInv' /\ FastInv' /\ TellInv' /\ FireInv'
  <2>1. removeAll' => UsesRemoveAll
    BY Zenon, <1>1 DEF Inv, ControlInv, clearVars
  <2> QED
    BY Zenon, <1>1, <2>1, FlowFrame, MarksNothing DEF Inv
<1>5. TypeOK'
  BY Zenon, <1>3 DEF Inv, TypeOK, ClearOne, listenerVars, eventVars, clearVars
<1>6. DestroyedUntouched'
  <2>1. res' = res /\ m_FireList' = m_FireList /\ m_DeleteList' = m_DeleteList
    BY Zenon, <1>1 DEF eventVars
  <2> QED
    BY Zenon, <1>1, <1>3, <2>1 DEF Inv, DestroyedUntouched
<1> QED
  BY Zenon, <1>3, <1>4, <1>5, <1>6 DEF Inv

(***************************************************************************)
(* The listeners of the flow that are about to fire are alive or marked    *)
(* already, so remove(flow) marks just those it should.                    *)
(***************************************************************************)
LEMMA ClearEndInv ==
    ASSUME Inv, ClearEnd
    PROVE  Inv'
<1>1. /\ pc = "clear" /\ pc' = "flow" /\ alive' = alive
      /\ m_DeleteList' = m_DeleteList \cup Deleted
      /\ cancelled' = cancelled \cup Pending(OfFlow(clearing))
      /\ clearing' = NoFlow /\ removeAll' = FALSE
      /\ UNCHANGED <<m_FireList, it, ret, eventVars, fired>> /\ UNCHANGED indexVars
  BY Zenon DEF ClearEnd, listenerVars
<1>2. OfFlow(clearing) \subseteq Listeners
  BY Zenon DEF OfFlow, Inv, TypeOK
<1>3. Marks
  <2>1. CASE removeAll
    <3>1. UsesRemoveAll
      BY Zenon, <2>1 DEF Inv, ControlInv
    <3>2. Deleted \subseteq Listeners /\ (m_FireList = <<>> => Deleted = {})
      BY DEF Deleted, InFireList
    <3>3. /\ Pending(OfFlow(clearing)) \subseteq Nat
          /\ m_FireList = <<>> => Pending(OfFlow(clearing)) = {}
      <4>1. m_FireList \in Seq(Listeners)
        BY Zenon DEF Inv, TypeOK
      <4>2. DOMAIN m_FireList \subseteq Nat /\ (m_FireList = <<>> => DOMAIN m_FireList = {})
        BY <4>1
      <4> QED
        BY Zenon, <4>2 DEF Pending
    <3> QED
      BY ZenonT(60), <1>1, <3>1, <3>2, <3>3 DEF Marks, Inv, TypeOK
  <2>2. CASE ~removeAll
    <3>1. Range(m_FireList) \subseteq alive \cup m_DeleteList
      BY Zenon DEF Inv, DestroyedUntouched
    <3>2. m_DeleteList' = m_DeleteList \cup InFireList(OfFlow(clearing))
      <4>1. m_FireList \in Seq(Listeners)
        BY Zenon DEF Inv, TypeOK
      <4>2. InFireList(Listeners) = Range(m_FireList)
        BY <4>1 DEF InFireList, Range
      <4>3. InFireList(OfFlow(clearing)) = Range(m_FireList) \cap OfFlow(clearing)
        BY Zenon DEF InFireList, Range
      <4>4. Deleted = {l \in Range(m_FireList) \ m_DeleteList : m_Parent[l] = clearing}
        BY Zenon, <2>2, <4>2 DEF Deleted
      <4> QED
        BY Zenon, <1>1, <3>1, <4>3, <4>4 DEF OfFlow
    <3> QED
      BY Zenon, <1>1, <1>2, <3>2, MarksRemoved DEF Inv
  <2> QED
    BY Zenon, <2>1, <2>2
<1>4. ControlInv' /\ SlowInv' /\ FastInv' /\ TellInv' /\ FireInv'
  BY Zenon, <1>1, <1>3, FlowFrame
<1>5. IndicesAgree'
  BY Zenon, <1>1, IndexFrame DEF Inv
<1>6. TypeOK'
  <2>1. m_DeleteList' \subseteq Listeners /\ cancelled' \subseteq Nat
    BY Zenon, <1>3 DEF Marks
  <2>2. pc' \in Pcs
    BY Zenon, <1>1 DEF Pcs
  <2>3. clearing' \in Flows \cup {NoFlow} /\ removeAll' \in BOOLEAN
    BY Zenon, <1>1
  <2> QED
    BY Zenon, <2>1, <2>2, <2>3 DEF Inv, TypeOK, ClearEnd, listenerVars, indexVars, eventVars
<1>7. DestroyedUntouched'
  <2>1. m_BufferList' = m_BufferList /\ res' = res /\ m_FireList' = m_FireList
    BY Zenon, <1>1 DEF indexVars, eventVars
  <2>2. m_DeleteList \subseteq m_DeleteList'
    BY Zenon, <1>1
  <2> QED
    BY Zenon, <1>1, <2>1, <2>2 DEF Inv, DestroyedUntouched
<1> QED
  BY Zenon, <1>4, <1>5, <1>6, <1>7 DEF Inv

-----------------------------------------------------------------------------

(***************************************************************************)
(* A flow that is started outside of any event keeps the invariant.        *)
(***************************************************************************)
LEMMA ToggleInv ==
    ASSUME Inv, NEW f \in Flows, Toggle(f)
    PROVE  Inv'
<1>1. /\ pc = "sim" /\ pc' = "flow" /\ ret' = "sim" /\ current' = f
      /\ alive' = alive /\ UNCHANGED <<m_FireList, m_DeleteList, it, fired, cancelled>>
      /\ UNCHANGED eventVars /\ UNCHANGED clearVars /\ UNCHANGED indexVars
  BY Zenon DEF Toggle, listenerVars
<1>2. /\ m_BufferList' = m_BufferList /\ matching' = matching /\ gathering' = gathering
      /\ res' = res /\ due' = due /\ hits' = hits /\ removeAll' = removeAll
  BY Zenon, <1>1 DEF indexVars, eventVars, clearVars
<1>3. IndicesAgree'
  BY Zenon, <1>1, IndexFrame DEF Inv
<1>4. TypeOK'
  <2>1. pc' \in Pcs /\ current' \in Flows \cup {NoFlow} /\ ret' \in {"sim", "trigger"}
    BY Zenon, <1>1 DEF Pcs
  <2> QED
    BY Zenon, <2>1 DEF Inv, TypeOK, Toggle, listenerVars, indexVars, eventVars, clearVars
<1>5. DestroyedUntouched'
  BY Zenon, <1>1, <1>2 DEF Inv, DestroyedUntouched
<1>6. ControlInv'
  <2>1. /\ res = <<>> /\ gathering = <<>> /\ m_FireList = <<>> /\ m_DeleteList = {} /\ due = {}
        /\ fired = {} /\ cancelled = {} /\ (removeAll => UsesRemoveAll)
    BY Zenon, <1>1 DEF Inv, ControlInv
  <2> QED
    BY Zenon, <1>1, <1>2, <2>1 DEF ControlInv
<1>7. SlowInv' /\ FastInv'
  BY Zenon, <1>1 DEF SlowInv, FastInv
<1>8. TellInv'
  BY Zenon, <1>1, <1>2 DEF Inv, TellInv
<1>9. FireInv'
  BY Zenon, <1>1 DEF FireInv, Running
<1> QED
  BY SMTT(40), <1>3, <1>4, <1>5, <1>6, <1>7, <1>8, <1>9 DEF Inv

(***************************************************************************)
(* resume() keeps the invariant: the iterator moves on if an event is      *)
(* being worked off.                                                       *)
(***************************************************************************)
LEMMA ResumeInv ==
    ASSUME Inv, Resume
    PROVE  Inv'
<1>1. /\ pc = "flow" /\ pc' = ret /\ ret' = "sim" /\ current' = NoFlow
      /\ it' = (IF ret = "trigger" THEN it + 1 ELSE it)
      /\ alive' = alive /\ UNCHANGED <<m_FireList, m_DeleteList, fired, cancelled>>
      /\ UNCHANGED eventVars /\ UNCHANGED clearVars /\ UNCHANGED indexVars
  BY Zenon DEF Resume, listenerVars
<1>2. /\ m_BufferList' = m_BufferList /\ matching' = matching /\ gathering' = gathering
      /\ res' = res /\ due' = due /\ hits' = hits /\ removeAll' = removeAll
  BY Zenon, <1>1 DEF indexVars, eventVars, clearVars
<1>3. IndicesAgree'
  BY Zenon, <1>1, IndexFrame DEF Inv
<1>4. ret \in {"sim", "trigger"} /\ it \in Nat \ {0} /\ m_FireList \in Seq(Listeners)
  BY Zenon DEF Inv, TypeOK
<1>5. TypeOK'
  <2>1. pc' \in Pcs /\ current' \in Flows \cup {NoFlow} /\ ret' \in {"sim", "trigger"}
    BY Zenon, <1>1, <1>4 DEF Pcs
  <2>2. it' \in Nat \ {0}
    BY SMTT(40), <1>1, <1>4
  <2> QED
    BY Zenon, <2>1, <2>2 DEF Inv, TypeOK, Resume, listenerVars, indexVars, eventVars, clearVars
<1>6. DestroyedUntouched'
  BY Zenon, <1>1, <1>2 DEF Inv, DestroyedUntouched
<1>7. ControlInv'
  <2>1. res = <<>> /\ gathering = <<>> /\ (removeAll => UsesRemoveAll)
    BY Zenon, <1>1 DEF Inv, ControlInv
  <2>2. ret = "sim" => /\ m_FireList = <<>> /\ m_DeleteList = {} /\ due = {}
                       /\ fired = {} /\ cancelled = {}
    BY Zenon, <1>1 DEF Inv, ControlInv
  <2> QED
    BY SMTT(40), <1>1, <1>2, <1>4, <2>1, <2>2 DEF ControlInv
<1>8. SlowInv' /\ FastInv'
  BY Zenon, <1>1, <1>4 DEF SlowInv, FastInv
<1>9. TellInv'
  BY Zenon, <1>1, <1>2 DEF Inv, TellInv
<1>10. FireInv'
  <2> SUFFICES ASSUME ~UsesRemoveAll, ret = "trigger", NEW k \in DOMAIN m_FireList
               PROVE  /\ k < it + 1 => (k \in fired <=> k \notin cancelled)
                      /\ k >= it + 1 => /\ k \notin fired
                                        /\ k \in cancelled <=> m_FireList[k] \in m_DeleteList
    BY Zenon, <1>1, <1>4 DEF FireInv, Running
  <2>1. /\ k < it => (k \in fired <=> k \notin cancelled)
        /\ k = it => k \in fired /\ k \notin cancelled
        /\ k > it => k \notin fired /\ (k \in cancelled <=> m_FireList[k] \in m_DeleteList)
    BY Zenon, <1>1 DEF Inv, FireInv, Running
  <2>2. k \in Int /\ it \in Int
    BY <1>4
  <2> QED
    BY SMTT(40), <2>1, <2>2
<1> QED
  BY SMTT(40), <1>3, <1>5, <1>6, <1>7, <1>8, <1>9, <1>10 DEF Inv

-----------------------------------------------------------------------------
(***************************************************************************)
(* The steps of the event handlers preserve the invariant.                 *)
(***************************************************************************)
LEMMA OnEventInv ==
    ASSUME Inv, NEW M \in SUBSET Listeners, OnEvent(M)
    PROVE  Inv'
<1>1. /\ pc = "sim" /\ pc' = "slow" /\ it' = 1 /\ ret' = ret
      /\ matching' = M /\ due' = {l \in M : m_Loc[l] # INVALID_INDEX}
      /\ gathering' = gathering /\ res' = res /\ hits' = hits
      /\ alive' = alive /\ UNCHANGED <<m_FireList, m_DeleteList, fired, cancelled>>
      /\ UNCHANGED clearVars /\ UNCHANGED indexVars
  BY Zenon DEF OnEvent, listenerVars
<1>2. m_BufferList' = m_BufferList /\ m_Loc' = m_Loc /\ removeAll' = removeAll
  BY Zenon, <1>1 DEF indexVars, clearVars
<1>3. /\ res = <<>> /\ gathering = <<>> /\ m_FireList = <<>> /\ m_DeleteList = {} /\ due = {}
      /\ fired = {} /\ cancelled = {} /\ (removeAll => UsesRemoveAll)
  BY Zenon, <1>1 DEF Inv, ControlInv
<1>4. IndicesAgree'
  BY Zenon, <1>1, IndexFrame DEF Inv
<1>5. TypeOK'
  <2>1. pc' \in Pcs /\ it' \in Nat \ {0} /\ matching' \subseteq Listeners /\ due' \subseteq Listeners
    BY SMTT(40), <1>1 DEF Pcs
  <2> QED
    BY Zenon, <2>1 DEF Inv, TypeOK, OnEvent, listenerVars, indexVars, clearVars
<1>6. DestroyedUntouched'
  BY Zenon, <1>1, <1>2 DEF Inv, DestroyedUntouched
<1>7. ControlInv'
  BY Zenon, <1>1, <1>2, <1>3 DEF ControlInv
<1>8. FastInv' /\ TellInv' /\ FireInv'
  BY Zenon, <1>1 DEF FastInv, TellInv, FireInv, Running
<1>9. SlowInv'
  <2>1. \A l \in Listeners : hits[l] = 0
    BY ZenonT(60), <1>1, <1>3 DEF Inv, TellInv
  <2>2. \A l \in Listeners : m_Loc[l] \in Nat
    BY Zenon DEF Inv, TypeOK
  <2> QED
    BY SMTT(40), <1>1, <1>2, <2>1, <2>2 DEF SlowInv, INVALID_INDEX
<1> QED
  BY SMTT(40), <1>4, <1>5, <1>6, <1>7, <1>8, <1>9 DEF Inv

(***************************************************************************)
(* Passing a listener that does not match keeps what the walk has told.    *)
(***************************************************************************)
LEMMA SlowSkipInv ==
    ASSUME Inv, SlowSkip
    PROVE  Inv'
<1>1. /\ pc = "slow" /\ pc' = pc /\ ret' = ret
      /\ it <= Len(m_BufferList) /\ m_BufferList[it] \notin matching /\ it' = it + 1
      /\ alive' = alive /\ UNCHANGED <<m_FireList, m_DeleteList, fired, cancelled>>
      /\ UNCHANGED eventVars /\ UNCHANGED clearVars /\ UNCHANGED indexVars
  BY Zenon DEF SlowSkip, listenerVars
<1>2. /\ m_BufferList' = m_BufferList /\ m_Loc' = m_Loc /\ matching' = matching
      /\ gathering' = gathering /\ res' = res /\ due' = due /\ hits' = hits
      /\ removeAll' = removeAll
  BY Zenon, <1>1 DEF indexVars, eventVars, clearVars
<1>3. it \in Nat \ {0} /\ \A l \in Listeners : m_Loc[l] \in Nat
  BY Zenon DEF Inv, TypeOK
<1>4. IndicesAgree'
  BY Zenon, <1>1, IndexFrame DEF Inv
<1>5. TypeOK'
  <2>1. it' \in Nat \ {0}
    BY SMTT(40), <1>1, <1>3
  <2> QED
    BY Zenon, <2>1 DEF Inv, TypeOK, SlowSkip, listenerVars, indexVars, eventVars, clearVars
<1>6. DestroyedUntouched'
  BY Zenon, <1>1, <1>2 DEF Inv, DestroyedUntouched
<1>7. ControlInv'
  BY Zenon, <1>1, <1>2 DEF Inv, ControlInv
<1>8. FastInv' /\ TellInv' /\ FireInv'
  BY Zenon, <1>1 DEF FastInv, TellInv, FireInv, Running
<1>9. SlowInv'
  <2>1. \A l \in Listeners : m_Loc[l] = it => l \notin matching
    BY SMTT(40), <1>1, <1>3 DEF Inv, IndicesAgree, INVALID_INDEX
  <2>2. /\ due \subseteq matching
        /\ \A l \in Listeners :
              /\ hits[l] = IF l \in due /\ (m_Loc[l] = 0 \/ m_Loc[l] < it) THEN 1 ELSE 0
              /\ l \in matching /\ m_Loc[l] >= it => l \in due
    BY ZenonT(60), <1>1 DEF Inv, SlowInv, INVALID_INDEX
  <2>3. \A l \in Listeners : m_Loc[l] < it + 1 <=> m_Loc[l] < it \/ m_Loc[l] = it
    BY <1>3
  <2>4. \A l \in Listeners : m_Loc[l] >= it + 1 => m_Loc[l] >= it
    BY <1>3
  <2> QED
    BY Zenon, <1>1, <1>2, <2>1, <2>2, <2>3, <2>4 DEF SlowInv, INVALID_INDEX
<1> QED
  BY SMTT(40), <1>4, <1>5, <1>6, <1>7, <1>8, <1>9 DEF Inv

(***************************************************************************)
(* makeActive() of a listener in the list: its counter decreases, or it    *)
(* moves from m_BufferList to m_FireList.                                  *)
(***************************************************************************)
LEMMA CountsDownEffect ==
    ASSUME Inv, NEW l \in Listeners, CountsDown(l)
    PROVE  /\ m_OccCounter' \in [Listeners -> 0..UINT_MAX]
           /\ UNCHANGED indexVars /\ m_FireList' = m_FireList
<1>1. m_OccCounter \in [Listeners -> 0..UINT_MAX] /\ UINT_MAX \in Nat
  BY Zenon, ListenerAssumption DEF Inv, TypeOK
<1>2. DecreaseCounter(m_OccCounter[l]) \in 0..UINT_MAX
  BY <1>1 DEF DecreaseCounter
<1>3. m_OccCounter' = [m_OccCounter EXCEPT ![l] = DecreaseCounter(m_OccCounter[l])]
  BY Zenon, <1>1 DEF CountsDown
<1>4. UNCHANGED indexVars /\ m_FireList' = m_FireList
  BY Zenon DEF CountsDown
<1> QED
  BY Zenon, <1>1, <1>2, <1>3, <1>4

(***************************************************************************)
(* A listener whose counter runs out leaves the list by exchange with the  *)
(* last one and is appended to the fire list.                              *)
(***************************************************************************)
LEMMA RunsOutEffect ==
    ASSUME Inv, NEW l \in Listeners, m_Loc[l] # 0, RunsOut(l)
    PROVE  /\ m_OccCounter' \in [Listeners -> 0..UINT_MAX]
           /\ m_BufferList' \in Seq(Listeners)
           /\ m_BufList' \in [Buffers -> Seq(Nat \ {0})]
           /\ m_Loc' \in [Listeners -> Nat]
           /\ m_Home' \in [Listeners -> Buffers \cup {NoBuffer}]
           /\ m_FireList' \in Seq(Listeners)
           /\ IndicesAgree'
           /\ Range(m_BufferList') \subseteq Range(m_BufferList)
           /\ Range(m_FireList') = Range(m_FireList) \cup {l}
           /\ m_Loc[l] \in 1..Len(m_BufferList)
           /\ m_Loc'[l] = 0
           /\ \A x \in Listeners \ {l} :
                 \/ m_Loc'[x] = m_Loc[x]
                 \/ m_Loc[x] = Len(m_BufferList) /\ m_Loc'[x] = m_Loc[l]
<1>1. TypeOK /\ IndicesAgree
  BY Zenon DEF Inv
<1>2. m_Loc[l] \in DOMAIN m_BufferList /\ m_BufferList[m_Loc[l]] = l
  BY ZenonT(60), <1>1 DEF IndicesAgree, INVALID_INDEX
<1>3. m_remove(m_Loc[l]) /\ m_FireList' = Append(m_FireList, l)
      /\ m_OccCounter' = [m_OccCounter EXCEPT ![l] = m_OccCounterInit[l]]
  BY Zenon DEF RunsOut
<1>4. m_OccCounter' \in [Listeners -> 0..UINT_MAX]
  BY Zenon, <1>1, <1>3 DEF TypeOK
<1>5. m_FireList' \in Seq(Listeners) /\ Range(m_FireList') = Range(m_FireList) \cup {l}
  BY SMTT(40), <1>1, <1>3, AppendRange DEF TypeOK
<1>6. m_Loc[l] \in 1..Len(m_BufferList)
  <2>1. m_BufferList \in Seq(Listeners)
    BY Zenon, <1>1 DEF TypeOK
  <2> QED
    BY SMTT(40), <1>2, <2>1
<1> QED
  BY ZenonT(60), <1>1, <1>2, <1>3, <1>4, <1>5, <1>6, RemoveKeepsIndices, RemoveShrinks DEF INVALID_INDEX

(***************************************************************************)
(* Both outcomes of makeActive(): indices agree, no list leads to a        *)
(* destroyed listener, and nobody else enters or leaves m_BufferList.      *)
(***************************************************************************)
LEMMA MakeActiveEffect ==
    ASSUME Inv, NEW l \in Listeners, m_Loc[l] # 0, CountsDown(l) \/ RunsOut(l),
           alive' = alive, m_DeleteList' = m_DeleteList, res' \in Seq(Listeners),
           Range(res') \subseteq Range(res)
    PROVE  /\ m_OccCounter' \in [Listeners -> 0..UINT_MAX]
           /\ m_BufferList' \in Seq(Listeners)
           /\ m_BufList' \in [Buffers -> Seq(Nat \ {0})]
           /\ m_Loc' \in [Listeners -> Nat]
           /\ m_Home' \in [Listeners -> Buffers \cup {NoBuffer}]
           /\ m_FireList' \in Seq(Listeners)
           /\ IndicesAgree' /\ DestroyedUntouched'
           /\ \A x \in Listeners \ {l} : m_Loc'[x] = 0 <=> m_Loc[x] = 0
<1>0. /\ Range(m_BufferList) \subseteq alive /\ Range(res) \subseteq alive
      /\ Range(m_FireList) \subseteq alive \cup m_DeleteList
  BY Zenon DEF Inv, DestroyedUntouched
<1>1. CASE CountsDown(l)
  <2>1. /\ m_OccCounter' \in [Listeners -> 0..UINT_MAX]
        /\ UNCHANGED indexVars /\ m_FireList' = m_FireList
    BY Zenon, <1>1, CountsDownEffect
  <2>2. IndicesAgree'
    BY Zenon, <2>1, IndexFrame DEF Inv
  <2>3. m_BufferList' = m_BufferList /\ m_BufList' = m_BufList /\ m_Loc' = m_Loc /\ m_Home' = m_Home
    BY Zenon, <2>1 DEF indexVars
  <2>4. DestroyedUntouched'
    BY Zenon, <1>0, <2>1, <2>3 DEF DestroyedUntouched
  <2> QED
    BY Zenon, <2>1, <2>2, <2>3, <2>4 DEF Inv, TypeOK
<1>2. CASE RunsOut(l)
  <2>1. /\ Range(m_BufferList') \subseteq Range(m_BufferList)
        /\ Range(m_FireList') = Range(m_FireList) \cup {l}
        /\ m_Loc[l] \in 1..Len(m_BufferList)
        /\ \A x \in Listeners \ {l} :
                 \/ m_Loc'[x] = m_Loc[x]
                 \/ m_Loc[x] = Len(m_BufferList) /\ m_Loc'[x] = m_Loc[l]
    BY Zenon, <1>2, RunsOutEffect
  <2>2. \A x \in Listeners \ {l} : m_Loc'[x] = 0 <=> m_Loc[x] = 0
    BY <2>1
  <2>3. l \in Range(m_BufferList)
    BY Zenon, ListedKnowPlace DEF Inv
  <2>4. DestroyedUntouched'
    BY Zenon, <1>0, <2>1, <2>3 DEF DestroyedUntouched
  <2> QED
    BY Zenon, <1>2, <2>2, <2>4, RunsOutEffect
<1> QED
  BY Zenon, <1>1, <1>2

(***************************************************************************)
(* makeActive(iterator) keeps the invariant: the listener that moves into  *)
(* the slot is the one the iterator looks at next.                         *)
(***************************************************************************)
LEMMA SlowMakeActiveInv ==
    ASSUME Inv, SlowMakeActive
    PROVE  Inv'
<1> DEFINE l == m_BufferList[it]
<1>1. /\ pc = "slow" /\ pc' = pc /\ ret' = ret
      /\ it <= Len(m_BufferList) /\ l \in matching
      /\ hits' = [hits EXCEPT ![l] = @ + 1]
      /\ \/ CountsDown(l) /\ it' = it + 1
         \/ RunsOut(l) /\ it' = it
      /\ alive' = alive /\ m_DeleteList' = m_DeleteList /\ fired' = fired
      /\ cancelled' = cancelled /\ matching' = matching /\ gathering' = gathering
      /\ res' = res /\ due' = due /\ UNCHANGED clearVars
  BY Zenon DEF SlowMakeActive, Hit
<1>2. /\ it \in Nat \ {0} /\ m_BufferList \in Seq(Listeners) /\ matching \subseteq Listeners
      /\ hits \in [Listeners -> Nat] /\ m_Loc \in [Listeners -> Nat] /\ res \in Seq(Listeners)
  BY Zenon DEF Inv, TypeOK
<1>3. it \in DOMAIN m_BufferList /\ l \in Listeners /\ m_Loc[l] = it /\ m_Loc[l] # 0
  BY <1>1, <1>2 DEF Inv, IndicesAgree
<1>4. \A x \in Listeners : m_Loc[x] = it => x = l
  BY Zenon, <1>2 DEF Inv, IndicesAgree, INVALID_INDEX
<1> HIDE DEF l
<1>5. /\ m_OccCounter' \in [Listeners -> 0..UINT_MAX]
      /\ m_BufferList' \in Seq(Listeners)
      /\ m_BufList' \in [Buffers -> Seq(Nat \ {0})]
      /\ m_Loc' \in [Listeners -> Nat]
      /\ m_Home' \in [Listeners -> Buffers \cup {NoBuffer}]
      /\ m_FireList' \in Seq(Listeners)
      /\ IndicesAgree' /\ DestroyedUntouched'
  BY ZenonT(60), <1>1, <1>2, <1>3, MakeActiveEffect
<1>6. TypeOK'
  <2>1. it' \in Nat \ {0} /\ hits' \in [Listeners -> Nat]
    BY SMTT(40), <1>1, <1>2, <1>3
  <2> QED
    BY Zenon, <1>5, <2>1 DEF Inv, TypeOK, SlowMakeActive, clearVars
<1>7. ControlInv'
  <2>1. removeAll' = removeAll
    BY Zenon, <1>1 DEF clearVars
  <2> QED
    BY Zenon, <1>1, <2>1 DEF Inv, ControlInv
<1>8. FastInv' /\ TellInv' /\ FireInv'
  BY ZenonT(60), <1>1 DEF FastInv, TellInv, FireInv, Running
<1>9. SlowInv'
  <2>1. /\ due \subseteq matching
        /\ \A x \in Listeners :
              /\ hits[x] = IF x \in due /\ (m_Loc[x] = 0 \/ m_Loc[x] < it) THEN 1 ELSE 0
              /\ x \in matching /\ m_Loc[x] >= it => x \in due
    BY Zenon, <1>1 DEF Inv, SlowInv, INVALID_INDEX
  <2>2. l \in due /\ hits[l] = 0
    <3>1. m_Loc[l] >= it /\ ~(m_Loc[l] < it)
      BY SMTT(40), <1>2, <1>3
    <3> QED
      BY SMTT(40), <1>1, <1>3, <2>1, <3>1
  <2>3. \A x \in Listeners : hits'[x] = IF x = l THEN 1 ELSE hits[x]
    BY SMTT(40), <1>1, <1>2, <1>3, <2>2
  <2>4. CASE CountsDown(l) /\ it' = it + 1
    <3>1. m_Loc' = m_Loc
      BY Zenon, <1>3, <2>4, CountsDownEffect DEF indexVars
    <3>2. \A x \in Listeners \ {l} : m_Loc[x] < it + 1 <=> m_Loc[x] < it
      BY SMTT(40), <1>2, <1>4
    <3>3. \A x \in Listeners : m_Loc[x] >= it + 1 => m_Loc[x] >= it
      BY <1>2
    <3>4. m_Loc[l] < it + 1
      BY SMTT(40), <1>2, <1>3
    <3> QED
      BY SMTT(40), <1>1, <2>1, <2>2, <2>3, <2>4, <3>1, <3>2, <3>3, <3>4 DEF SlowInv, INVALID_INDEX
  <2>5. CASE RunsOut(l) /\ it' = it
    <3>1. /\ m_Loc'[l] = 0
          /\ \A x \in Listeners \ {l} :
                 \/ m_Loc'[x] = m_Loc[x]
                 \/ m_Loc[x] = Len(m_BufferList) /\ m_Loc'[x] = it
      BY Zenon, <1>3, <2>5, RunsOutEffect
    <3>2. \A x \in Listeners \ {l} : m_Loc'[x] = 0 \/ m_Loc'[x] < it <=> m_Loc[x] = 0 \/ m_Loc[x] < it
      BY SMTT(40), <1>1, <1>2, <3>1
    <3>3. \A x \in Listeners \ {l} : m_Loc'[x] >= it => m_Loc[x] >= it
      BY Zenon, <1>1, <1>2, <3>1
    <3> QED
      BY Zenon, <1>1, <1>2, <2>1, <2>2, <2>3, <2>5, <3>1, <3>2, <3>3 DEF SlowInv, INVALID_INDEX
  <2> QED
    BY Zenon, <1>1, <2>4, <2>5
<1> QED
  BY SMTT(40), <1>5, <1>6, <1>7, <1>8, <1>9 DEF Inv

(***************************************************************************)
(* At the end of the walk everybody has been told once.                    *)
(***************************************************************************)
LEMMA SlowEndInv ==
    ASSUME Inv, SlowEnd
    PROVE  Inv'
<1>1. /\ pc = "slow" /\ pc' = "trigger" /\ ret' = ret
      /\ it > Len(m_BufferList) /\ it' = 1
      /\ alive' = alive /\ UNCHANGED <<m_FireList, m_DeleteList, fired, cancelled>>
      /\ UNCHANGED eventVars /\ UNCHANGED clearVars /\ UNCHANGED indexVars
  BY Zenon DEF SlowEnd, listenerVars
<1>2. /\ m_BufferList' = m_BufferList /\ gathering' = gathering /\ res' = res /\ due' = due
      /\ hits' = hits /\ removeAll' = removeAll
  BY Zenon, <1>1 DEF indexVars, eventVars, clearVars
<1>3. /\ res = <<>> /\ gathering = <<>> /\ m_DeleteList = {} /\ fired = {} /\ cancelled = {}
      /\ (removeAll => UsesRemoveAll)
  BY Zenon, <1>1 DEF Inv, ControlInv
<1>4. IndicesAgree'
  BY Zenon, <1>1, IndexFrame DEF Inv
<1>5. TypeOK'
  <2>1. pc' \in Pcs /\ it' \in Nat \ {0}
    BY <1>1 DEF Pcs
  <2> QED
    BY Zenon, <2>1 DEF Inv, TypeOK, SlowEnd, listenerVars, indexVars, eventVars, clearVars
<1>6. DestroyedUntouched'
  BY Zenon, <1>1, <1>2 DEF Inv, DestroyedUntouched
<1>7. ControlInv'
  BY Zenon, <1>1, <1>2, <1>3 DEF ControlInv
<1>8. SlowInv' /\ FastInv'
  BY Zenon, <1>1 DEF SlowInv, FastInv
<1>9. TellInv'
  <2>1. \A l \in Listeners : m_Loc[l] = 0 \/ m_Loc[l] < it
    <3>1. m_BufferList \in Seq(Listeners) /\ it \in Nat
      BY Zenon DEF Inv, TypeOK
    <3>2. \A l \in Listeners : m_Loc[l] # 0 => m_Loc[l] \in 1..Len(m_BufferList)
      BY <3>1 DEF Inv, IndicesAgree, INVALID_INDEX
    <3> QED
      BY SMTT(40), <1>1, <3>1, <3>2
  <2> QED
    BY Zenon, <1>1, <1>2, <2>1 DEF Inv, SlowInv, TellInv, INVALID_INDEX
<1>10. FireInv'
  <2>1. \A k \in DOMAIN m_FireList : k \in Nat \ {0}
    <3>1. m_FireList \in Seq(Listeners)
      BY Zenon DEF Inv, TypeOK
    <3> QED
      BY <3>1
  <2> QED
    BY SMTT(40), <1>1, <1>3, <2>1 DEF FireInv, Running
<1> QED
  BY Zenon, <1>4, <1>5, <1>6, <1>7, <1>8, <1>9, <1>10 DEF Inv

(***************************************************************************)
(* A handler with fast path starts with nobody told and all its buffers    *)
(* ahead.                                                                  *)
(***************************************************************************)
LEMMA OnFastEventInv ==
    ASSUME Inv, NEW h \in FastHandlers, NEW M \in SUBSET Listeners, OnFastEvent(h, M)
    PROVE  Inv'
<1>1. /\ pc = "sim" /\ pc' = "fast" /\ it' = it /\ ret' = ret
      /\ \A l \in M : PerfBuffer[l] \in Range(h)
      /\ matching' = M /\ gathering' = h /\ due' = {l \in M : m_Loc[l] # INVALID_INDEX}
      /\ res' = res /\ hits' = hits
      /\ alive' = alive /\ UNCHANGED <<m_FireList, m_DeleteList, fired, cancelled>>
      /\ UNCHANGED clearVars /\ UNCHANGED indexVars
  BY Zenon DEF OnFastEvent, listenerVars
<1>2. m_BufferList' = m_BufferList /\ m_Loc' = m_Loc /\ removeAll' = removeAll
  BY Zenon, <1>1 DEF indexVars, clearVars
<1>3. /\ res = <<>> /\ m_FireList = <<>> /\ m_DeleteList = {} /\ due = {}
      /\ fired = {} /\ cancelled = {} /\ (removeAll => UsesRemoveAll)
  BY Zenon, <1>1 DEF Inv, ControlInv
<1>4. h \in Seq(Buffers) /\ IsInjective(h)
  BY Zenon, ListenerAssumption
<1>5. IndicesAgree'
  BY Zenon, <1>1, IndexFrame DEF Inv
<1>6. TypeOK'
  <2>1. /\ pc' \in Pcs /\ matching' \subseteq Listeners /\ due' \subseteq Listeners
        /\ gathering' \in Seq(Buffers)
    BY Zenon, <1>1, <1>4 DEF Pcs
  <2> QED
    BY Zenon, <2>1 DEF Inv, TypeOK, OnFastEvent, listenerVars, indexVars, clearVars
<1>7. DestroyedUntouched'
  BY Zenon, <1>1, <1>2 DEF Inv, DestroyedUntouched
<1>8. ControlInv'
  BY Zenon, <1>1, <1>2, <1>3 DEF ControlInv
<1>9. SlowInv' /\ TellInv' /\ FireInv'
  BY Zenon, <1>1 DEF SlowInv, TellInv, FireInv, Running
<1>10. FastInv'
  <2>1. \A l \in Listeners : hits[l] = 0
    BY Zenon, <1>1, <1>3 DEF Inv, TellInv
  <2>2. Range(h) \subseteq Buffers
    BY <1>4 DEF Range
  <2>3. IsInjective(<<>>) /\ Range(<<>>) = {}
    BY DEF IsInjective, Range
  <2> QED
    BY SMTT(40), <1>1, <1>2, <1>3, <1>4, <2>1, <2>2, <2>3 DEF FastInv, InBufferList
<1> QED
  BY Zenon, <1>5, <1>6, <1>7, <1>8, <1>9, <1>10 DEF Inv

(***************************************************************************)
(* gather() finds the listeners whose home is the performance buffer.      *)
(***************************************************************************)
LEMMA GatheredListeners ==
    ASSUME Inv, NEW b \in Buffers
    PROVE  /\ Gathered(b) \in Seq(Listeners)
           /\ IsInjective(Gathered(b))
           /\ \A x : x \in Range(Gathered(b)) <=> x \in Listeners /\ m_Home[x] = b
<1> DEFINE buf == m_BufList[b]
           g   == Gathered(b)
<1>1. buf \in Seq(Nat \ {0}) /\ m_BufferList \in Seq(Listeners)
  BY Zenon DEF Inv, TypeOK
<1>2. Holds(buf, b, m_Loc, m_Home)
  BY Zenon, BuffersHold DEF Inv
<1>3. NoBuffer \notin Buffers
  BY Zenon DEF Buffers
<1>4. \A x \in Listeners : m_Home[x] = b => /\ m_Loc[x] \in DOMAIN m_BufferList
                                            /\ m_BufferList[m_Loc[x]] = x
  BY SMTT(40), <1>3 DEF Inv, IndicesAgree
<1>5. g = [k \in DOMAIN buf |-> m_BufferList[buf[k]]]
  BY ZenonT(60) DEF Gathered
<1> HIDE DEF buf, g
<1>6. \A k \in DOMAIN buf : \E x \in Listeners : m_Home[x] = b /\ m_Loc[x] = buf[k] /\ g[k] = x
  <2> SUFFICES ASSUME NEW k \in DOMAIN buf
               PROVE  \E x \in Listeners : m_Home[x] = b /\ m_Loc[x] = buf[k] /\ g[k] = x
    BY Zenon
  <2>1. PICK x \in Listeners : m_Home[x] = b /\ m_Loc[x] = buf[k]
    BY Zenon, <1>2 DEF Holds, Range
  <2> QED
    BY ZenonT(60), <1>4, <1>5, <2>1
<1>7. g \in Seq(Listeners)
  <2>1. DOMAIN buf = 1..Len(buf) /\ Len(buf) \in Nat
    BY <1>1
  <2>2. \A k \in DOMAIN buf : m_BufferList[buf[k]] \in Listeners
    BY ZenonT(60), <1>5, <1>6
  <2> QED
    BY SMTT(40), <1>5, <2>1, <2>2, IsASeq
<1>8. IsInjective(g)
  BY SMTT(40), <1>2, <1>5, <1>6 DEF IsInjective, Holds
<1>9. ASSUME NEW x \in Range(g)
      PROVE  x \in Listeners /\ m_Home[x] = b
  BY SMTT(40), <1>5, <1>6 DEF Range
<1>10. ASSUME NEW x \in Listeners, m_Home[x] = b
       PROVE  x \in Range(g)
  <2>1. PICK k \in DOMAIN buf : buf[k] = m_Loc[x]
    BY Zenon, <1>2, <1>10 DEF Holds, Range
  <2>2. g[k] = x /\ k \in DOMAIN g
    BY Zenon, <1>4, <1>5, <1>10, <2>1
  <2> QED
    BY Zenon, <2>2 DEF Range
<1> QED
  BY SMTT(40), <1>7, <1>8, <1>9, <1>10 DEF g

(***************************************************************************)
(* gather() keeps the invariant: the matching listeners of the buffer move *)
(* from the buffers ahead to the result set.                               *)
(***************************************************************************)
LEMMA GatherInv ==
    ASSUME Inv, Gather
    PROVE  Inv'
<1> DEFINE b == Head(gathering)
<1>1. /\ pc = "fast" /\ pc' = pc /\ it' = it /\ ret' = ret
      /\ res = <<>> /\ gathering # <<>>
      /\ res' = Gathered(b) /\ gathering' = Tail(gathering)
      /\ matching' = matching /\ due' = due /\ hits' = hits
      /\ alive' = alive /\ UNCHANGED <<m_FireList, m_DeleteList, fired, cancelled>>
      /\ UNCHANGED clearVars /\ UNCHANGED indexVars
  BY Zenon DEF Gather, listenerVars
<1>2. m_BufferList' = m_BufferList /\ m_Loc' = m_Loc /\ removeAll' = removeAll
  BY Zenon, <1>1 DEF indexVars, clearVars
<1>3. /\ due \subseteq matching
      /\ IsInjective(gathering)
      /\ \A l \in matching : PerfBuffer[l] \in Buffers
      /\ \A l \in Listeners :
            /\ hits[l] = IF l \in due /\ PerfBuffer[l] \notin Range(gathering) THEN 1 ELSE 0
            /\ PerfBuffer[l] \in Range(gathering) /\ l \in due => m_Loc[l] # 0
            /\ PerfBuffer[l] \in Range(gathering) /\ l \in matching /\ m_Loc[l] # 0 => l \in due
  <2>1. Range(<<>>) = {}
    BY DEF Range
  <2> QED
    BY ZenonT(60), <1>1, <2>1 DEF Inv, FastInv, InBufferList, INVALID_INDEX
<1>4. gathering \in Seq(Buffers)
  BY Zenon DEF Inv, TypeOK
<1>5. /\ b \in Buffers /\ b \in Range(gathering)
      /\ gathering' \in Seq(Buffers) /\ IsInjective(gathering')
      /\ Range(gathering') = Range(gathering) \ {b}
  BY SMTT(40), <1>1, <1>3, <1>4, TailRange
<1>6. /\ res' \in Seq(Listeners)
      /\ IsInjective(res')
      /\ \A x : x \in Range(res') <=> x \in Listeners /\ m_Home[x] = b
  BY Zenon, <1>1, <1>5, GatheredListeners
<1> HIDE DEF b
<1>7. \A x \in Listeners : /\ m_Loc[x] = 0 => m_Home[x] = NoBuffer
                           /\ m_Loc[x] # 0 => m_Home[x] = PerfBuffer[x] /\ x \in Range(m_BufferList)
  BY Zenon, ListedKnowPlace DEF Inv, IndicesAgree, INVALID_INDEX
<1>8. b # NoBuffer
  BY Zenon, <1>5 DEF Buffers
<1>9. IndicesAgree'
  BY Zenon, <1>1, IndexFrame DEF Inv
<1>10. TypeOK'
  BY Zenon, <1>5, <1>6 DEF Inv, TypeOK, Gather, listenerVars, indexVars, clearVars
<1>11. DestroyedUntouched'
  <2>1. Range(res') \subseteq Range(m_BufferList)
    BY ZenonT(60), <1>6, <1>7, <1>8
  <2> QED
    BY Zenon, <1>1, <1>2, <2>1 DEF Inv, DestroyedUntouched
<1>12. ControlInv'
  BY Zenon, <1>1, <1>2 DEF Inv, ControlInv
<1>13. SlowInv' /\ TellInv' /\ FireInv'
  BY ZenonT(60), <1>1 DEF SlowInv, TellInv, FireInv, Running
<1>14. FastInv'
  <2>1. \A l \in Range(res') : m_Loc[l] # 0 /\ PerfBuffer[l] \notin Range(gathering')
    BY ZenonT(60), <1>5, <1>6, <1>7, <1>8
  <2>2. ASSUME NEW l \in Listeners
        PROVE  LET ahead == PerfBuffer[l] \in Range(gathering') \/ l \in Range(res')
               IN  /\ hits[l] = IF l \in due /\ ~ahead THEN 1 ELSE 0
                   /\ ahead /\ l \in due => m_Loc[l] # 0
                   /\ ahead /\ l \in matching /\ m_Loc[l] # 0 => l \in due
    <3>1. l \in Range(res') <=> m_Loc[l] # 0 /\ PerfBuffer[l] = b
      BY Zenon, <1>6, <1>7, <1>8
    <3>2. PerfBuffer[l] \in Range(gathering) <=> PerfBuffer[l] \in Range(gathering') \/ PerfBuffer[l] = b
      BY SMTT(40), <1>5
    <3> QED
      BY Zenon, <1>3, <3>1, <3>2
  <2> QED
    BY ZenonT(60), <1>1, <1>2, <1>3, <1>5, <1>6, <2>1, <2>2 DEF FastInv, InBufferList, INVALID_INDEX
<1> QED
  BY SMTT(40), <1>9, <1>10, <1>11, <1>12, <1>13, <1>14 DEF Inv

(***************************************************************************)
(* Passing a gathered listener keeps the invariant.                        *)
(***************************************************************************)
LEMMA FastSkipInv ==
    ASSUME Inv, FastSkip
    PROVE  Inv'
<1> DEFINE l == Last(res)
<1>1. /\ pc = "fast" /\ pc' = pc /\ it' = it /\ ret' = ret
      /\ res # <<>> /\ l \notin matching /\ res' = Front(res)
      /\ matching' = matching /\ gathering' = gathering /\ due' = due /\ hits' = hits
      /\ alive' = alive /\ UNCHANGED <<m_FireList, m_DeleteList, fired, cancelled>>
      /\ UNCHANGED clearVars /\ UNCHANGED indexVars
  BY Zenon DEF FastSkip, listenerVars
<1>2. m_BufferList' = m_BufferList /\ m_Loc' = m_Loc /\ removeAll' = removeAll
  BY Zenon, <1>1 DEF indexVars, clearVars
<1>3. IsInjective(res) /\ res \in Seq(Listeners)
  BY ZenonT(60), <1>1 DEF Inv, FastInv, TypeOK
<1>4. /\ res' \in Seq(Listeners) /\ IsInjective(res')
      /\ l \in Listeners /\ l \in Range(res) /\ l \notin Range(res')
      /\ \A x : x \in Range(res) <=> x \in Range(res') \/ x = l
  BY Zenon, <1>1, <1>3, FrontRange
<1> HIDE DEF l
<1>5. IndicesAgree'
  BY Zenon, <1>1, IndexFrame DEF Inv
<1>6. TypeOK'
  BY Zenon, <1>4 DEF Inv, TypeOK, FastSkip, listenerVars, indexVars, clearVars
<1>7. DestroyedUntouched'
  BY Zenon, <1>1, <1>2, <1>4 DEF Inv, DestroyedUntouched
<1>8. ControlInv'
  BY Zenon, <1>1, <1>2 DEF Inv, ControlInv
<1>9. SlowInv' /\ TellInv' /\ FireInv'
  BY Zenon, <1>1 DEF SlowInv, TellInv, FireInv, Running
<1>10. FastInv'
  <2>1. /\ due \subseteq matching /\ IsInjective(gathering)
        /\ \A x \in matching : PerfBuffer[x] \in Buffers
        /\ \A x \in Range(res) : m_Loc[x] # 0 /\ PerfBuffer[x] \notin Range(gathering)
    BY Zenon, <1>1 DEF Inv, FastInv, InBufferList, INVALID_INDEX
  <2>2. ASSUME NEW x \in Listeners
        PROVE  LET ahead == PerfBuffer[x] \in Range(gathering) \/ x \in Range(res')
               IN  /\ hits[x] = IF x \in due /\ ~ahead THEN 1 ELSE 0
                   /\ ahead /\ x \in due => m_Loc[x] # 0
                   /\ ahead /\ x \in matching /\ m_Loc[x] # 0 => x \in due
    <3>1. LET ahead == PerfBuffer[x] \in Range(gathering) \/ x \in Range(res)
          IN  /\ hits[x] = IF x \in due /\ ~ahead THEN 1 ELSE 0
              /\ ahead /\ x \in due => m_Loc[x] # 0
              /\ ahead /\ x \in matching /\ m_Loc[x] # 0 => x \in due
      BY ZenonT(60), <1>1 DEF Inv, FastInv, InBufferList, INVALID_INDEX
    <3> QED
      BY Zenon, <1>1, <1>4, <2>1, <3>1
  <2> QED
    BY ZenonT(60), <1>1, <1>2, <1>4, <2>1, <2>2 DEF FastInv, InBufferList, INVALID_INDEX
<1> QED
  BY Zenon, <1>5, <1>6, <1>7, <1>8, <1>9, <1>10 DEF Inv

(***************************************************************************)
(* makeActive(listener) keeps the invariant: renumbering changes no        *)
(* listener of the result set, which holds pointers.                       *)
(***************************************************************************)
LEMMA FastMakeActiveInv ==
    ASSUME Inv, FastMakeActive
    PROVE  Inv'
<1> DEFINE l == Last(res)
<1>1. /\ pc = "fast" /\ pc' = pc /\ it' = it /\ ret' = ret
      /\ res # <<>> /\ l \in matching /\ res' = Front(res)
      /\ m_Home[l] # NoBuffer => /\ hits' = [hits EXCEPT ![l] = @ + 1]
                                 /\ CountsDown(l) \/ RunsOut(l)
      /\ alive' = alive /\ m_DeleteList' = m_DeleteList /\ fired' = fired
      /\ cancelled' = cancelled /\ matching' = matching /\ gathering' = gathering
      /\ due' = due /\ UNCHANGED clearVars
  BY Zenon DEF FastMakeActive, Hit
<1>2. /\ IsInjective(res) /\ res \in Seq(Listeners) /\ hits \in [Listeners -> Nat]
      /\ m_Loc \in [Listeners -> Nat]
  BY ZenonT(60), <1>1 DEF Inv, FastInv, TypeOK
<1>3. /\ res' \in Seq(Listeners) /\ IsInjective(res')
      /\ l \in Listeners /\ l \in Range(res) /\ l \notin Range(res')
      /\ \A x : x \in Range(res) <=> x \in Range(res') \/ x = l
  BY ZenonT(60), <1>1, <1>2, FrontRange
<1> HIDE DEF l
<1>4. /\ due \subseteq matching /\ IsInjective(gathering)
      /\ \A x \in matching : PerfBuffer[x] \in Buffers
      /\ \A x \in Range(res) : m_Loc[x] # 0 /\ PerfBuffer[x] \notin Range(gathering)
  BY ZenonT(60), <1>1 DEF Inv, FastInv, InBufferList, INVALID_INDEX
<1>5. \A x \in Listeners :
          LET ahead == PerfBuffer[x] \in Range(gathering) \/ x \in Range(res)
          IN  /\ hits[x] = IF x \in due /\ ~ahead THEN 1 ELSE 0
              /\ ahead /\ x \in due => m_Loc[x] # 0
              /\ ahead /\ x \in matching /\ m_Loc[x] # 0 => x \in due
  BY Zenon, <1>1 DEF Inv, FastInv, InBufferList, INVALID_INDEX
<1>6. m_Loc[l] # 0 /\ l \in due /\ hits[l] = 0
  BY ZenonT(60), <1>1, <1>3, <1>4, <1>5
<1>7. m_Home[l] # NoBuffer
  <2>1. m_Home[l] = PerfBuffer[l]
    BY Zenon, <1>3, <1>6 DEF Inv, IndicesAgree, INVALID_INDEX
  <2> QED
    BY ZenonT(60), <1>1, <1>4, <2>1 DEF Buffers
<1>8. Range(res') \subseteq Range(res)
  BY Zenon, <1>3
<1>9. /\ m_OccCounter' \in [Listeners -> 0..UINT_MAX]
      /\ m_BufferList' \in Seq(Listeners)
      /\ m_BufList' \in [Buffers -> Seq(Nat \ {0})]
      /\ m_Loc' \in [Listeners -> Nat]
      /\ m_Home' \in [Listeners -> Buffers \cup {NoBuffer}]
      /\ m_FireList' \in Seq(Listeners)
      /\ IndicesAgree' /\ DestroyedUntouched'
      /\ \A x \in Listeners \ {l} : m_Loc'[x] = 0 <=> m_Loc[x] = 0
  BY SMTT(40), <1>1, <1>3, <1>6, <1>7, <1>8, MakeActiveEffect
<1>10. /\ hits' \in [Listeners -> Nat]
       /\ \A x \in Listeners : hits'[x] = IF x = l THEN 1 ELSE hits[x]
  <2>1. hits' = [hits EXCEPT ![l] = 1]
    BY SMTT(40), <1>1, <1>2, <1>3, <1>6, <1>7
  <2> QED
    BY Zenon, <1>2, <1>3, <2>1
<1>11. TypeOK'
  BY ZenonT(60), <1>3, <1>9, <1>10 DEF Inv, TypeOK, FastMakeActive, clearVars
<1>12. ControlInv'
  <2>1. removeAll' = removeAll
    BY Zenon, <1>1 DEF clearVars
  <2> QED
    BY Zenon, <1>1, <2>1 DEF Inv, ControlInv
<1>13. SlowInv' /\ TellInv' /\ FireInv'
  BY ZenonT(60), <1>1 DEF SlowInv, TellInv, FireInv, Running
<1>14. FastInv'
  <2>1. \A x \in Range(res') : m_Loc'[x] # 0 /\ PerfBuffer[x] \notin Range(gathering)
    <3>1. Range(res') \subseteq Listeners
      BY <1>3 DEF Range
    <3> QED
      BY ZenonT(60), <1>3, <1>4, <1>9, <3>1
  <2>2. ASSUME NEW x \in Listeners
        PROVE  LET ahead == PerfBuffer[x] \in Range(gathering) \/ x \in Range(res')
               IN  /\ hits'[x] = IF x \in due /\ ~ahead THEN 1 ELSE 0
                   /\ ahead /\ x \in due => m_Loc'[x] # 0
                   /\ ahead /\ x \in matching /\ m_Loc'[x] # 0 => x \in due
    <3>1. CASE x = l
      BY ZenonT(60), <1>3, <1>4, <1>6, <1>10, <3>1
    <3>2. CASE x # l
      BY ZenonT(60), <1>3, <1>5, <1>9, <1>10, <3>2
    <3> QED
      BY ZenonT(60), <3>1, <3>2
  <2> QED
    BY ZenonT(60), <1>1, <1>3, <1>4, <2>1, <2>2 DEF FastInv, InBufferList, INVALID_INDEX
<1> QED
  BY SMTT(40), <1>9, <1>11, <1>12, <1>13, <1>14 DEF Inv

(***************************************************************************)
(* At the end of the result sets everybody has been told once.             *)
(***************************************************************************)
LEMMA FastEndInv ==
    ASSUME Inv, FastEnd
    PROVE  Inv'
<1>1. /\ pc = "fast" /\ pc' = "trigger" /\ ret' = ret
      /\ res = <<>> /\ gathering = <<>> /\ it' = 1
      /\ alive' = alive /\ UNCHANGED <<m_FireList, m_DeleteList, fired, cancelled>>
      /\ UNCHANGED eventVars /\ UNCHANGED clearVars /\ UNCHANGED indexVars
  BY Zenon DEF FastEnd, listenerVars
<1>2. /\ m_BufferList' = m_BufferList /\ gathering' = gathering /\ res' = res /\ due' = due
      /\ hits' = hits /\ removeAll' = removeAll
  BY Zenon, <1>1 DEF indexVars, eventVars, clearVars
<1>3. /\ m_DeleteList = {} /\ fired = {} /\ cancelled = {} /\ (removeAll => UsesRemoveAll)
  BY Zenon, <1>1 DEF Inv, ControlInv
<1>4. IndicesAgree'
  BY Zenon, <1>1, IndexFrame DEF Inv
<1>5. TypeOK'
  <2>1. pc' \in Pcs /\ it' \in Nat \ {0}
    BY SMTT(40), <1>1 DEF Pcs
  <2> QED
    BY Zenon, <2>1 DEF Inv, TypeOK, FastEnd, listenerVars, indexVars, eventVars, clearVars
<1>6. DestroyedUntouched'
  BY Zenon, <1>1, <1>2 DEF Inv, DestroyedUntouched
<1>7. ControlInv'
  BY Zenon, <1>1, <1>2, <1>3 DEF ControlInv
<1>8. SlowInv' /\ FastInv'
  BY Zenon, <1>1 DEF SlowInv, FastInv
<1>9. TellInv'
  <2>1. Range(<<>>) = {}
    BY DEF Range
  <2> QED
    BY SMTT(40), <1>1, <1>2, <2>1 DEF Inv, FastInv, TellInv
<1>10. FireInv'
  <2>1. \A k \in DOMAIN m_FireList : k \in Nat \ {0}
    <3>1. m_FireList \in Seq(Listeners)
      BY Zenon DEF Inv, TypeOK
    <3> QED
      BY <3>1
  <2> QED
    BY SMTT(40), <1>1, <1>3, <2>1 DEF FireInv, Running
<1> QED
  BY Zenon, <1>4, <1>5, <1>6, <1>7, <1>8, <1>9, <1>10 DEF Inv

(***************************************************************************)
(* Triggering keeps the invariant: the position is recorded as fired, and  *)
(* the flow runs.                                                          *)
(***************************************************************************)
LEMMA TriggerInv ==
    ASSUME Inv, Trigger
    PROVE  Inv'
<1>1. /\ pc = "trigger" /\ pc' = "flow" /\ ret' = "trigger" /\ it' = it
      /\ it <= Len(m_FireList) /\ m_FireList[it] \notin m_DeleteList
      /\ m_pFired' = m_FireList[it] /\ current' = m_Parent[m_FireList[it]]
      /\ fired' = fired \cup {it}
      /\ alive' = alive /\ UNCHANGED <<m_FireList, m_DeleteList, cancelled>>
      /\ UNCHANGED eventVars /\ UNCHANGED clearVars /\ UNCHANGED indexVars
  BY ZenonT(60) DEF Trigger, listenerVars
<1>2. /\ m_BufferList' = m_BufferList /\ gathering' = gathering /\ res' = res /\ due' = due
      /\ hits' = hits /\ removeAll' = removeAll
  BY ZenonT(60), <1>1 DEF indexVars, eventVars, clearVars
<1>3. /\ m_FireList \in Seq(Listeners) /\ it \in Nat \ {0} /\ fired \subseteq Nat
      /\ m_Parent \in [Listeners -> Flows \cup {NoFlow}]
  BY Zenon DEF Inv, TypeOK
<1>4. it \in DOMAIN m_FireList /\ m_FireList[it] \in Listeners
  BY SMTT(40), <1>1, <1>3
<1>5. IndicesAgree'
  BY Zenon, <1>1, IndexFrame DEF Inv
<1>6. TypeOK'
  <2>1. /\ pc' \in Pcs /\ m_pFired' \in Listeners \cup {NoListener}
        /\ current' \in Flows \cup {NoFlow} /\ ret' \in {"sim", "trigger"} /\ fired' \subseteq Nat
    BY Zenon, <1>1, <1>3, <1>4 DEF Pcs
  <2> QED
    BY Zenon, <2>1 DEF Inv, TypeOK, Trigger, listenerVars, indexVars, eventVars, clearVars
<1>7. DestroyedUntouched'
  BY Zenon, <1>1, <1>2 DEF Inv, DestroyedUntouched
<1>8. ControlInv'
  BY Zenon, <1>1, <1>2 DEF Inv, ControlInv
<1>9. SlowInv' /\ FastInv'
  BY Zenon, <1>1 DEF SlowInv, FastInv
<1>10. TellInv'
  BY Zenon, <1>1, <1>2 DEF Inv, TellInv
<1>11. FireInv'
  <2> SUFFICES ASSUME ~UsesRemoveAll, NEW k \in DOMAIN m_FireList
               PROVE  /\ k < it => (k \in fired' <=> k \notin cancelled)
                      /\ k = it => k \in fired' /\ k \notin cancelled
                      /\ k > it => k \notin fired' /\
                                   (k \in cancelled <=> m_FireList[k] \in m_DeleteList)
    BY Zenon, <1>1 DEF FireInv, Running
  <2>1. /\ k < it => (k \in fired <=> k \notin cancelled)
        /\ k >= it => k \notin fired /\ (k \in cancelled <=> m_FireList[k] \in m_DeleteList)
    BY Zenon, <1>1 DEF Inv, FireInv
  <2>2. k \in Int /\ it \in Int
    BY SMTT(40), <1>3
  <2> QED
    BY SMTT(40), <1>1, <2>1, <2>2
<1> QED
  BY Zenon, <1>5, <1>6, <1>7, <1>8, <1>9, <1>10, <1>11 DEF Inv

(***************************************************************************)
(* A listener in the delete list is passed over, and it was cancelled.     *)
(***************************************************************************)
LEMMA TriggerSkipInv ==
    ASSUME Inv, TriggerSkip
    PROVE  Inv'
<1>1. /\ pc = "trigger" /\ pc' = pc /\ ret' = ret /\ it' = it + 1
      /\ m_FireList[it] \in m_DeleteList
      /\ alive' = alive /\ UNCHANGED <<m_FireList, m_DeleteList, fired, cancelled>>
      /\ UNCHANGED eventVars /\ UNCHANGED clearVars /\ UNCHANGED indexVars
  BY Zenon DEF TriggerSkip, listenerVars
<1>2. /\ m_BufferList' = m_BufferList /\ gathering' = gathering /\ res' = res /\ due' = due
      /\ hits' = hits /\ removeAll' = removeAll
  BY Zenon, <1>1 DEF indexVars, eventVars, clearVars
<1>3. m_FireList \in Seq(Listeners) /\ it \in Nat \ {0}
  BY Zenon DEF Inv, TypeOK
<1>4. IndicesAgree'
  BY Zenon, <1>1, IndexFrame DEF Inv
<1>5. TypeOK'
  <2>1. it' \in Nat \ {0}
    BY SMTT(40), <1>1, <1>3
  <2> QED
    BY Zenon, <2>1 DEF Inv, TypeOK, TriggerSkip, listenerVars, indexVars, eventVars, clearVars
<1>6. DestroyedUntouched'
  BY Zenon, <1>1, <1>2 DEF Inv, DestroyedUntouched
<1>7. ControlInv'
  BY Zenon, <1>1, <1>2 DEF Inv, ControlInv
<1>8. SlowInv' /\ FastInv'
  BY Zenon, <1>1 DEF SlowInv, FastInv
<1>9. TellInv'
  BY Zenon, <1>1, <1>2 DEF Inv, TellInv
<1>10. FireInv'
  <2> SUFFICES ASSUME ~UsesRemoveAll, NEW k \in DOMAIN m_FireList
               PROVE  /\ k < it + 1 => (k \in fired <=> k \notin cancelled)
                      /\ k >= it + 1 => k \notin fired /\
                                        (k \in cancelled <=> m_FireList[k] \in m_DeleteList)
    BY Zenon, <1>1 DEF FireInv, Running
  <2>1. /\ k < it => (k \in fired <=> k \notin cancelled)
        /\ k >= it => k \notin fired /\ (k \in cancelled <=> m_FireList[k] \in m_DeleteList)
    BY Zenon, <1>1 DEF Inv, FireInv
  <2>2. k \in Int /\ it \in Int
    BY <1>3
  <2> QED
    BY SMTT(40), <1>1, <2>1, <2>2
<1> QED
  BY Zenon, <1>4, <1>5, <1>6, <1>7, <1>8, <1>9, <1>10 DEF Inv

(***************************************************************************)
(* The end of the event leaves both lists empty.                           *)
(***************************************************************************)
LEMMA TriggerEndInv ==
    ASSUME Inv, TriggerEnd
    PROVE  Inv'
<1>1. /\ pc = "trigger" /\ pc' = "sim" /\ it' = 1 /\ ret' = ret
      /\ m_FireList' = <<>> /\ m_DeleteList' = {} /\ fired' = {} /\ cancelled' = {}
      /\ matching' = {} /\ due' = {} /\ hits' = [l \in Listeners |-> 0]
      /\ alive' = alive /\ gathering' = gathering /\ res' = res
      /\ UNCHANGED clearVars /\ UNCHANGED indexVars
  BY Zenon DEF TriggerEnd, listenerVars
<1>2. m_BufferList' = m_BufferList /\ removeAll' = removeAll
  BY Zenon, <1>1 DEF indexVars, clearVars
<1>3. IndicesAgree'
  BY Zenon, <1>1, IndexFrame DEF Inv
<1>4. TypeOK'
  <2>1. /\ pc' \in Pcs /\ it' \in Nat \ {0} /\ m_FireList' \in Seq(Listeners)
        /\ hits' \in [Listeners -> Nat]
    BY <1>1 DEF Pcs
  <2>2. /\ m_DeleteList' \subseteq Listeners /\ fired' \subseteq Nat /\ cancelled' \subseteq Nat
        /\ matching' \subseteq Listeners /\ due' \subseteq Listeners
    BY Zenon, <1>1
  <2> QED
    BY Zenon, <2>1, <2>2 DEF Inv, TypeOK, TriggerEnd, listenerVars, indexVars, clearVars
<1>5. DestroyedUntouched'
  <2>1. Range(m_FireList') = {}
    BY <1>1 DEF Range
  <2> QED
    BY Zenon, <1>1, <1>2, <2>1 DEF Inv, DestroyedUntouched
<1>6. ControlInv'
  BY Zenon, <1>1, <1>2 DEF Inv, ControlInv
<1>7. SlowInv' /\ FastInv' /\ FireInv'
  BY Zenon, <1>1 DEF SlowInv, FastInv, FireInv, Running
<1>8. TellInv'
  BY Zenon, <1>1 DEF TellInv
<1> QED
  BY SMTT(40), <1>3, <1>4, <1>5, <1>6, <1>7, <1>8 DEF Inv

-----------------------------------------------------------------------------
(***************************************************************************)
(* The invariant holds initially.                                          *)
(***************************************************************************)
LEMMA InitInv == Init => Inv
<1> SUFFICES ASSUME Init PROVE Inv
  BY Zenon
<1>1. DOMAIN <<>> = {} /\ \A S : <<>> \in Seq(S)
  OBVIOUS
<1>2. Range(<<>>) = {} /\ IsInjective(<<>>)
  BY Zenon, <1>1 DEF Range, IsInjective
<1>3. TypeOK
  <2>1. /\ m_OccCounter \in [Listeners -> 0..UINT_MAX]
        /\ m_OccCounterInit \in [Listeners -> 0..UINT_MAX]
    <3>1. 1 \in 0..UINT_MAX
      BY ListenerAssumption
    <3> QED
      BY Zenon, <3>1 DEF Init
  <2>2. /\ m_BufList \in [Buffers -> Seq(Nat \ {0})]
        /\ m_BufferList \in Seq(Listeners) /\ m_FireList \in Seq(Listeners)
        /\ gathering \in Seq(Buffers) /\ res \in Seq(Listeners)
    BY Zenon, <1>1 DEF Init
  <2>3. /\ m_Parent \in [Listeners -> Flows \cup {NoFlow}]
        /\ m_Loc \in [Listeners -> Nat]
        /\ m_Home \in [Listeners -> Buffers \cup {NoBuffer}]
        /\ hits \in [Listeners -> Nat] /\ it \in Nat \ {0} /\ pc \in Pcs
        /\ ret \in {"sim", "trigger"}
    BY DEF Init, INVALID_INDEX, Pcs
  <2>4. /\ m_DeleteList \subseteq Listeners /\ m_pFired \in Listeners \cup {NoListener}
        /\ alive \subseteq Listeners /\ matching \subseteq Listeners /\ due \subseteq Listeners
        /\ current \in Flows \cup {NoFlow} /\ clearing \in Flows \cup {NoFlow}
        /\ fired \subseteq Nat /\ cancelled \subseteq Nat
    BY Zenon DEF Init
  <2>5. removeAll \in BOOLEAN
    BY Zenon DEF Init
  <2> QED
    BY Zenon, <2>1, <2>2, <2>3, <2>4, <2>5 DEF TypeOK
<1>4. IndicesAgree
  <2>1. NoBuffer \notin Buffers
    BY Zenon DEF Buffers
  <2>2. \A b \in Buffers : m_BufList[b] = <<>>
        /\ {m_Loc[l] : l \in {x \in Listeners : m_Home[x] = b}} = {}
    BY Zenon, <2>1 DEF Init
  <2> QED
    BY Zenon, <1>1, <1>2, <2>2 DEF Init, IndicesAgree
<1>5. DestroyedUntouched
  BY Zenon, <1>2 DEF Init, DestroyedUntouched
<1>6. ControlInv /\ SlowInv /\ FastInv /\ TellInv /\ FireInv
  BY Zenon DEF Init, ControlInv, SlowInv, FastInv, TellInv, FireInv, Running
<1> QED
  BY SMTT(40), <1>3, <1>4, <1>5, <1>6 DEF Inv

(***************************************************************************)
(* The invariant depends on the variables only.                            *)
(***************************************************************************)
LEMMA StutterInv ==
    ASSUME Inv, UNCHANGED vars
    PROVE  Inv'
<1>1. /\ UNCHANGED indexVars /\ UNCHANGED listenerVars /\ UNCHANGED eventVars
      /\ UNCHANGED clearVars /\ UNCHANGED <<m_FireList, m_DeleteList, m_pFired, pc, it, current, ret>>
      /\ fired' = fired /\ cancelled' = cancelled
  BY Zenon DEF vars
<1>2. IndicesAgree'
  BY Zenon, <1>1, IndexFrame DEF Inv
<1>3. /\ m_BufferList' = m_BufferList /\ m_Loc' = m_Loc /\ matching' = matching
      /\ gathering' = gathering /\ res' = res /\ due' = due /\ hits' = hits
      /\ removeAll' = removeAll /\ alive' = alive
  BY Zenon, <1>1 DEF indexVars, eventVars, clearVars, listenerVars
<1>4. TypeOK'
  BY ZenonT(60), <1>1 DEF Inv, TypeOK, indexVars, listenerVars, eventVars, clearVars
<1>5. DestroyedUntouched' /\ ControlInv' /\ SlowInv' /\ FastInv' /\ TellInv' /\ FireInv'
  BY ZenonT(60), <1>1, <1>3 DEF Inv, DestroyedUntouched, ControlInv, SlowInv, FastInv, TellInv, FireInv,
     Running, InBufferList
<1> QED
  BY Zenon, <1>2, <1>4, <1>5 DEF Inv

(***************************************************************************)
(* Every step keeps the invariant.                                         *)
(***************************************************************************)
LEMMA NextInv ==
    ASSUME Inv, Next
    PROVE  Inv'
<1>1. CASE SimulatorStep
  BY SMTT(40), <1>1, SlowSkipInv, SlowMakeActiveInv, SlowEndInv, GatherInv, FastSkipInv, FastMakeActiveInv,
     FastEndInv, TriggerInv, TriggerSkipInv, TriggerEndInv, ClearOneInv, ClearEndInv
     DEF SimulatorStep
<1>2. CASE FlowStep
  <2>1. CASE \E l \in Listeners : \/ Construct(l) \/ Destroy(l) \/ RemoveListener(l)
                                  \/ AddListener(l) \/ AddListenerRefused(l)
    BY SMTT(40), <2>1, ConstructInv, DestroyInv, RemoveListenerInv, AddListenerInv, AddListenerRefusedInv
  <2>2. CASE \E l \in Listeners : \E n \in Counters : SetCounter(l, n)
    BY Zenon, <2>2, SetCounterInv
  <2>3. CASE ClearAllListeners
    BY Zenon, <2>3, ClearAllListenersInv
  <2>4. CASE RemoveAllListeners
    <3>1. UsesRemoveAll /\ BeginClear(current, TRUE) /\ current \in Flows \cup {NoFlow}
      BY ZenonT(60), <2>4 DEF RemoveAllListeners, Inv, TypeOK
    <3> QED
      BY Zenon, <3>1, BeginClearInv
  <2>5. CASE \E f \in Flows : ClearListeners(f)
    <3>1. PICK f \in Flows : BeginClear(f, FALSE)
      BY ZenonT(60), <2>5 DEF ClearListeners
    <3> QED
      BY Zenon, <3>1, BeginClearInv
  <2> QED
    BY SMTT(40), <1>2, <2>1, <2>2, <2>3, <2>4, <2>5 DEF FlowStep
<1>3. CASE Resume
  BY Zenon, <1>3, ResumeInv
<1>4. CASE \E f \in Flows : Toggle(f)
  BY Zenon, <1>4, ToggleInv
<1>5. CASE \E M \in SUBSET Listeners : OnEvent(M) \/ \E h \in FastHandlers : OnFastEvent(h, M)
  BY Zenon, <1>5, OnEventInv, OnFastEventInv
<1> QED
  BY SMTT(40), <1>1, <1>2, <1>3, <1>4, <1>5 DEF Next

(***************************************************************************)
(* The inductive invariant of the listener manager.                        *)
(***************************************************************************)
THEOREM Invariance == Spec => []Inv
<1>1. Init => Inv
  BY Zenon, InitInv
<1>2. Inv /\ [Next]_vars => Inv'
  BY Zenon, NextInv, StutterInv
<1> QED
  BY <1>1, <1>2, PTL DEF Spec

(***************************************************************************)
(* The manager, the performance buffers and the listeners keep their types.*)
(***************************************************************************)
THEOREM TypeCorrect == Spec => []TypeOK
<1>1. Inv => TypeOK
  BY Zenon DEF Inv
<1> QED
  BY <1>1, Invariance, PTL

(***************************************************************************)
(* Swap removal in m_remove(), the woven add() and remove(), and makeActive*)
(* never leave a wrong position in a performance buffer or a listener.     *)
(***************************************************************************)
THEOREM IndicesAlwaysAgree == Spec => []IndicesAgree
<1>1. Inv => IndicesAgree
  BY Zenon DEF Inv
<1> QED
  BY <1>1, Invariance, PTL

(***************************************************************************)
(* An event handler tells every matching listener exactly once, on both    *)
(* paths, however many of them leave m_BufferList on the way.              *)
(***************************************************************************)
THEOREM AlwaysToldOnce == Spec => []ToldOnce
<1>1. Inv => ToldOnce
  BY Zenon DEF Inv, TellInv, ToldOnce
<1> QED
  BY <1>1, Invariance, PTL

(***************************************************************************)
(* No list of the manager leads to a destroyed listener that is not marked *)
(* as deleted.                                                             *)
(***************************************************************************)
THEOREM DestroyedAlwaysUntouched == Spec => []DestroyedUntouched
<1>1. Inv => DestroyedUntouched
  BY Zenon DEF Inv
<1> QED
  BY <1>1, Invariance, PTL

(***************************************************************************)
(* As long as no flow calls removeListener(NULL), triggerActiveListeners() *)
(* triggers exactly the active listeners that nobody removed in time.      *)
(***************************************************************************)
THEOREM AlwaysFiresUnlessRemoved == ~UsesRemoveAll => (Spec => []FiresUnlessRemoved)
<1> SUFFICES ASSUME ~UsesRemoveAll PROVE Spec => []FiresUnlessRemoved
  BY Zenon
<1>1. Inv => FiresUnlessRemoved
  BY Zenon DEF Inv, FireInv, FiresUnlessRemoved
<1> QED
  BY <1>1, Invariance, PTL

=============================================================================
