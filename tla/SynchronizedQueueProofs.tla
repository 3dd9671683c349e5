----------------------- MODULE SynchronizedQueueProofs -----------------------
(***************************************************************************)
(* No wakeup of SynchronizedQueue is lost, for any number of threads and   *)
(* any capacity.                                                           *)
(***************************************************************************)
EXTENDS SynchronizedQueue, FiniteSetTheorems, TLAPS

(***************************************************************************)
(* The inductive invariant: in addition to the properties themselves, a    *)
(* thread inside Enqueue has an element to push.                           *)
(***************************************************************************)
HasArgument ==
    \A t \in Threads : pc[t] \in {"enqueue", "waitRoom"} => data[t] \in Items

QInv == TypeOK /\ HasArgument /\ NoLostWakeup /\ EndAndCapacity

(***************************************************************************)
(* A set of threads that gains members does not shrink, and loses at most  *)
(* one when one is taken away.                                             *)
(***************************************************************************)
LEMMA ThreadCounts ==
    ASSUME NEW S \in SUBSET Threads, NEW T \in SUBSET Threads, NEW t
    PROVE  /\ Cardinality(S) \in Nat
           /\ S \subseteq T => Cardinality(S) <= Cardinality(T)
           /\ S \ {t} \subseteq T => Cardinality(S) <= Cardinality(T) + 1
           /\ S \subseteq T /\ t \in T /\ t \notin S => Cardinality(S) + 1 <= Cardinality(T)
<1>1. IsFiniteSet(S) /\ IsFiniteSet(T)
  BY QueueAssumption, FS_Subset
<1>2. Cardinality(S) \in Nat /\ Cardinality(T) \in Nat
  BY <1>1, FS_CardinalityType
<1>3. S \subseteq T => Cardinality(S) <= Cardinality(T)
  BY <1>1, FS_Subset
<1>4. S \ {t} \subseteq T => Cardinality(S) <= Cardinality(T) + 1
  <2>1. Cardinality(S \ {t}) = IF t \in S THEN Cardinality(S) - 1 ELSE Cardinality(S)
    BY <1>1, FS_RemoveElement, Zenon
  <2>2. S \ {t} \subseteq T => Cardinality(S \ {t}) <= Cardinality(T)
    BY <1>1, FS_Subset
  <2>3. Cardinality(S \ {t}) \in Nat
    BY <1>1, FS_Subset, FS_CardinalityType
  <2> QED
    BY <1>2, <2>1, <2>2, <2>3
<1>5. S \subseteq T /\ t \in T /\ t \notin S => Cardinality(S) + 1 <= Cardinality(T)
  <2> SUFFICES ASSUME S \subseteq T, t \in T, t \notin S
               PROVE  Cardinality(S) + 1 <= Cardinality(T)
    OBVIOUS
  <2>1. Cardinality(S \cup {t}) = Cardinality(S) + 1
    BY Zenon, <1>1, FS_AddElement
  <2>2. Cardinality(S \cup {t}) <= Cardinality(T)
    BY <1>1, FS_Subset, S \cup {t} \subseteq T
  <2> QED
    BY <2>1, <2>2
<1> QED
  BY <1>2, <1>3, <1>4, <1>5

(***************************************************************************)
(* The invariant holds initially.                                          *)
(***************************************************************************)
LEMMA InitQInv == Init => QInv
<1> SUFFICES ASSUME Init PROVE QInv
  OBVIOUS
<1>1. TypeOK
  <2>1. finished \in BOOLEAN
    BY Zenon DEF Init
  <2> QED
    BY <2>1 DEF Init, TypeOK, Pcs
<1>4. HasArgument
  BY DEF Init, HasArgument
<1>2. ThreadsAt("waitData") = {} /\ ThreadsAt("waitRoom") = {}
  BY DEF Init, ThreadsAt
<1>3. Len(m_queue) = 0
  BY DEF Init
<1> QED
  BY <1>1, <1>2, <1>3, <1>4, QueueAssumption DEF QInv, NoLostWakeup, EndAndCapacity

(***************************************************************************)
(* notify_one moves t, and one sleeping thread if there is one.            *)
(***************************************************************************)
LEMMA Notified ==
    ASSUME TypeOK, NEW t \in Threads, NEW p, NEW from, NEW to, pc[t] # from, p # from, to # from,
           GotoAndNotifyOne(t, p, from, to)
    PROVE  \/ /\ ThreadsAt(from) = {}
              /\ pc' = [pc EXCEPT ![t] = p]
           \/ \E w \in ThreadsAt(from) :
                 /\ w # t
                 /\ pc'[w] = to
                 /\ pc'[t] = p
                 /\ \A u \in Threads \ {t, w} : pc'[u] = pc[u]
BY DEF GotoAndNotifyOne, ThreadsAt, TypeOK

(***************************************************************************)
(* Enqueue pushes an element and announces it.                             *)
(***************************************************************************)
LEMMA PushInv ==
    ASSUME QInv, NEW t \in Threads, Push(t)
    PROVE  QInv'
<1>1. /\ m_queue \in Seq(Items) /\ pc \in [Threads -> Pcs] /\ data[t] \in Items
      /\ capacity \in Nat
  BY QueueAssumption DEF QInv, TypeOK, HasArgument, Push
<1>2. m_queue' \in Seq(Items) /\ Len(m_queue') = Len(m_queue) + 1 /\ Len(m_queue) \in Nat
  BY <1>1 DEF Push
<1>3. pc' \in [Threads -> Pcs]
  BY <1>1 DEF Push, GotoAndNotifyOne, Pcs
<1>4. data' \in [Threads -> Items \cup {NoItem}]
  BY DEF Push, QInv, TypeOK
<1>5. TypeOK'
  BY <1>2, <1>3, <1>4 DEF Push, QInv, TypeOK
<1>6. PICK w : /\ pc'[t] = "idle"
               /\ \A u \in Threads \ {t, w} : pc'[u] = pc[u]
               /\ w \in ThreadsAt("waitData") => w # t /\ pc'[w] = "dequeue"
               /\ ThreadsAt("waitData") # {} => w \in ThreadsAt("waitData")
               /\ ThreadsAt("waitData") = {} => w = t
  <2>1. pc[t] = "enqueue"
    BY DEF Push
  <2>2. \/ /\ ThreadsAt("waitData") = {}
           /\ pc' = [pc EXCEPT ![t] = "idle"]
        \/ \E w \in ThreadsAt("waitData") :
              /\ w # t
              /\ pc'[w] = "dequeue"
              /\ pc'[t] = "idle"
              /\ \A u \in Threads \ {t, w} : pc'[u] = pc[u]
    BY <2>1, Notified DEF Push, QInv
  <2> QED
    BY <1>1, <2>2
<1>7. pc[t] = "enqueue" /\ ~Full
  BY DEF Push
<1>8. HasArgument'
  BY <1>1, <1>6, <1>7 DEF Push, QInv, HasArgument, ThreadsAt
<1>9. ThreadsAt("waitData")' # {} => Len(m_queue') <= Cardinality(ThreadsAt("dequeue")')
  <2> SUFFICES ASSUME ThreadsAt("waitData")' # {}
               PROVE  Len(m_queue') <= Cardinality(ThreadsAt("dequeue")')
    OBVIOUS
  <2>1. ThreadsAt("waitData") # {}
    BY <1>6, <1>7 DEF ThreadsAt
  <2>2. w \in ThreadsAt("waitData") /\ pc'[w] = "dequeue"
    BY <1>6, <2>1
  <2>3. /\ ThreadsAt("dequeue") \subseteq ThreadsAt("dequeue")'
        /\ w \in ThreadsAt("dequeue")'
        /\ w \notin ThreadsAt("dequeue")
    BY <1>6, <1>7, <2>2 DEF ThreadsAt
  <2>4. ThreadsAt("dequeue") \subseteq Threads /\ ThreadsAt("dequeue")' \subseteq Threads
    BY DEF ThreadsAt
  <2>5. Cardinality(ThreadsAt("dequeue")) + 1 <= Cardinality(ThreadsAt("dequeue")')
    BY <2>3, <2>4, ThreadCounts
  <2>6. Cardinality(ThreadsAt("dequeue")) \in Nat /\ Cardinality(ThreadsAt("dequeue")') \in Nat
    BY <2>4, ThreadCounts
  <2>7. Len(m_queue) <= Cardinality(ThreadsAt("dequeue"))
    BY <2>1 DEF QInv, NoLostWakeup
  <2> QED
    BY <1>2, <2>5, <2>6, <2>7
<1>10. ThreadsAt("waitRoom")' # {} =>
          capacity <= Len(m_queue') + Cardinality(ThreadsAt("enqueue")')
  <2> SUFFICES ASSUME ThreadsAt("waitRoom")' # {}
               PROVE  capacity <= Len(m_queue') + Cardinality(ThreadsAt("enqueue")')
    OBVIOUS
  <2>1. ThreadsAt("waitRoom") # {}
    BY <1>6, <1>7 DEF ThreadsAt
  <2>2. ThreadsAt("enqueue") \ {t} \subseteq ThreadsAt("enqueue")'
    BY <1>6, <1>7 DEF ThreadsAt
  <2>3. ThreadsAt("enqueue") \subseteq Threads /\ ThreadsAt("enqueue")' \subseteq Threads
    BY DEF ThreadsAt
  <2>4. Cardinality(ThreadsAt("enqueue")) <= Cardinality(ThreadsAt("enqueue")') + 1
    BY <2>2, <2>3, ThreadCounts
  <2>5. Cardinality(ThreadsAt("enqueue")) \in Nat /\ Cardinality(ThreadsAt("enqueue")') \in Nat
    BY <2>3, ThreadCounts
  <2>6. capacity <= Len(m_queue) + Cardinality(ThreadsAt("enqueue"))
    BY <2>1 DEF QInv, NoLostWakeup
  <2> QED
    BY <1>1, <1>2, <2>4, <2>5, <2>6
<1>11. EndAndCapacity'
  <2>1. finished' => ThreadsAt("waitData")' = {}
    BY <1>6, <1>7 DEF Push, QInv, EndAndCapacity, ThreadsAt
  <2>2. capacity # 0 => Len(m_queue') <= capacity
    BY <1>1, <1>2, <1>7 DEF Full
  <2> QED
    BY <2>1, <2>2 DEF EndAndCapacity
<1> QED
  BY <1>5, <1>8, <1>9, <1>10, <1>11 DEF QInv, NoLostWakeup

(***************************************************************************)
(* Dequeue or Dequeue_nb takes an element and announces the free slot.     *)
(***************************************************************************)
LEMMA PopInv ==
    ASSUME QInv, NEW t \in Threads, pc[t] \in {"idle", "dequeue"}, Pop(t)
    PROVE  QInv'
<1>1. m_queue \in Seq(Items) /\ pc \in [Threads -> Pcs] /\ capacity \in Nat /\ m_queue # <<>>
  BY QueueAssumption DEF QInv, TypeOK, Pop
<1>2. /\ m_queue' \in Seq(Items)
      /\ Len(m_queue') = Len(m_queue) - 1
      /\ Len(m_queue) \in Nat \ {0}
      /\ Head(m_queue) \in Items
  BY <1>1 DEF Pop
<1>3. pc' \in [Threads -> Pcs]
  BY <1>1 DEF Pop, GotoAndNotifyOne, Pcs
<1>4. data' \in [Threads -> Items \cup {NoItem}]
  BY <1>2 DEF Pop, QInv, TypeOK
<1>5. TypeOK'
  BY <1>2, <1>3, <1>4 DEF Pop, QInv, TypeOK
<1>6. capacity # 0 => Len(m_queue') < capacity
  BY <1>1, <1>2 DEF QInv, EndAndCapacity
<1>7. PICK w : /\ pc'[t] = "idle"
               /\ \A u \in Threads \ {t, w} : pc'[u] = pc[u]
               /\ w # t => w \in ThreadsAt("waitRoom") /\ pc'[w] = "enqueue"
               /\ capacity # 0 /\ ThreadsAt("waitRoom") # {} => w # t
  <2>1. CASE Len(m_queue') < capacity
    <3>1. GotoAndNotifyOne(t, "idle", "waitRoom", "enqueue")
      BY <2>1 DEF Pop
    <3>2. \/ /\ ThreadsAt("waitRoom") = {}
             /\ pc' = [pc EXCEPT ![t] = "idle"]
          \/ \E w \in ThreadsAt("waitRoom") :
                /\ w # t
                /\ pc'[w] = "enqueue"
                /\ pc'[t] = "idle"
                /\ \A u \in Threads \ {t, w} : pc'[u] = pc[u]
      BY <3>1, Notified DEF QInv
    <3>3. CASE ThreadsAt("waitRoom") = {} /\ pc' = [pc EXCEPT ![t] = "idle"]
      BY <1>1, <3>3
    <3> QED
      BY <3>2, <3>3
  <2>2. CASE ~(Len(m_queue') < capacity)
    <3>1. pc' = [pc EXCEPT ![t] = "idle"]
      BY <2>2 DEF Pop
    <3> QED
      BY <1>1, <1>6, <2>2, <3>1
  <2> QED
    BY <2>1, <2>2
<1>8. HasArgument'
  BY <1>1, <1>7 DEF Pop, QInv, HasArgument, ThreadsAt
<1>9. ThreadsAt("waitData")' # {} => Len(m_queue') <= Cardinality(ThreadsAt("dequeue")')
  <2> SUFFICES ASSUME ThreadsAt("waitData")' # {}
               PROVE  Len(m_queue') <= Cardinality(ThreadsAt("dequeue")')
    OBVIOUS
  <2>1. ThreadsAt("waitData") # {}
    BY <1>7 DEF ThreadsAt
  <2>2. ThreadsAt("dequeue") \ {t} \subseteq ThreadsAt("dequeue")'
    BY <1>7 DEF ThreadsAt
  <2>3. ThreadsAt("dequeue") \subseteq Threads /\ ThreadsAt("dequeue")' \subseteq Threads
    BY DEF ThreadsAt
  <2>4. Cardinality(ThreadsAt("dequeue")) <= Cardinality(ThreadsAt("dequeue")') + 1
    BY <2>2, <2>3, ThreadCounts
  <2>5. Cardinality(ThreadsAt("dequeue")) \in Nat /\ Cardinality(ThreadsAt("dequeue")') \in Nat
    BY <2>3, ThreadCounts
  <2>6. Len(m_queue) <= Cardinality(ThreadsAt("dequeue"))
    BY <2>1 DEF QInv, NoLostWakeup
  <2> QED
    BY <1>2, <2>4, <2>5, <2>6
<1>10. ThreadsAt("waitRoom")' # {} =>
          capacity <= Len(m_queue') + Cardinality(ThreadsAt("enqueue")')
  <2> SUFFICES ASSUME ThreadsAt("waitRoom")' # {}
               PROVE  capacity <= Len(m_queue') + Cardinality(ThreadsAt("enqueue")')
    OBVIOUS
  <2>1. ThreadsAt("waitRoom") # {}
    BY <1>7 DEF ThreadsAt
  <2>2. ThreadsAt("enqueue") \subseteq Threads /\ ThreadsAt("enqueue")' \subseteq Threads
    BY DEF ThreadsAt
  <2>3. Cardinality(ThreadsAt("enqueue")) \in Nat /\ Cardinality(ThreadsAt("enqueue")') \in Nat
    BY <2>2, ThreadCounts
  <2>4. capacity <= Len(m_queue) + Cardinality(ThreadsAt("enqueue"))
    BY <2>1 DEF QInv, NoLostWakeup
  <2>5. CASE capacity = 0
    BY <1>2, <2>3, <2>5
  <2>6. CASE capacity # 0
    <3>1. /\ ThreadsAt("enqueue") \subseteq ThreadsAt("enqueue")'
          /\ w \in ThreadsAt("enqueue")'
          /\ w \notin ThreadsAt("enqueue")
      BY <1>7, <2>1, <2>6 DEF ThreadsAt
    <3>2. Cardinality(ThreadsAt("enqueue")) + 1 <= Cardinality(ThreadsAt("enqueue")')
      BY <2>2, <3>1, ThreadCounts
    <3> QED
      BY <1>1, <1>2, <2>3, <2>4, <3>2
  <2> QED
    BY <2>5, <2>6
<1>11. EndAndCapacity'
  <2>1. finished' => ThreadsAt("waitData")' = {}
    BY <1>7 DEF Pop, QInv, EndAndCapacity, ThreadsAt
  <2>2. capacity # 0 => Len(m_queue') <= capacity
    BY <1>1, <1>2, <1>6
  <2> QED
    BY <2>1, <2>2 DEF EndAndCapacity
<1> QED
  BY <1>5, <1>8, <1>9, <1>10, <1>11 DEF QInv, NoLostWakeup

(***************************************************************************)
(* A step that leaves the queue alone keeps the invariant if a thread goes *)
(* to sleep only for a reason and no other thread does.                    *)
(***************************************************************************)
LEMMA QuietStep ==
    ASSUME QInv, TypeOK', HasArgument', UNCHANGED m_queue,
           ThreadsAt("waitData")' # {} =>
              \/ m_queue = <<>>
              \/ /\ ThreadsAt("waitData") # {}
                 /\ ThreadsAt("dequeue") \subseteq ThreadsAt("dequeue")',
           ThreadsAt("waitRoom")' # {} =>
              \/ Full
              \/ /\ ThreadsAt("waitRoom") # {}
                 /\ ThreadsAt("enqueue") \subseteq ThreadsAt("enqueue")',
           finished' => ThreadsAt("waitData")' = {}
    PROVE  QInv'
<1>1. m_queue \in Seq(Items) /\ capacity \in Nat /\ Len(m_queue) \in Nat
  BY QueueAssumption DEF QInv, TypeOK
<1>2. \A p : ThreadsAt(p) \subseteq Threads /\ ThreadsAt(p)' \subseteq Threads
  BY DEF ThreadsAt
<1>3. \A p : /\ Cardinality(ThreadsAt(p)) \in Nat
             /\ Cardinality(ThreadsAt(p)') \in Nat
             /\ ThreadsAt(p) \subseteq ThreadsAt(p)' =>
                   Cardinality(ThreadsAt(p)) <= Cardinality(ThreadsAt(p)')
  BY <1>2, ThreadCounts
<1>4. ThreadsAt("waitData")' # {} => Len(m_queue) <= Cardinality(ThreadsAt("dequeue")')
  <2>1. CASE m_queue = <<>>
    BY <1>3, <2>1
  <2>2. CASE /\ ThreadsAt("waitData") # {}
             /\ ThreadsAt("dequeue") \subseteq ThreadsAt("dequeue")'
    BY <1>1, <1>3, <2>2 DEF QInv, NoLostWakeup
  <2> QED
    BY <2>1, <2>2
<1>5. ThreadsAt("waitRoom")' # {} => capacity <= Len(m_queue) + Cardinality(ThreadsAt("enqueue")')
  <2>1. CASE Full
    BY <1>1, <1>3, <2>1 DEF Full
  <2>2. CASE /\ ThreadsAt("waitRoom") # {}
             /\ ThreadsAt("enqueue") \subseteq ThreadsAt("enqueue")'
    BY <1>1, <1>3, <2>2 DEF QInv, NoLostWakeup
  <2> QED
    BY <2>1, <2>2
<1>6. EndAndCapacity'
  BY DEF QInv, EndAndCapacity
<1> QED
  BY <1>4, <1>5, <1>6 DEF QInv, NoLostWakeup

(***************************************************************************)
(* Entering an operation, going to sleep, returning at the end of the      *)
(* stream, a spurious wakeup and setIsFinished.                            *)
(***************************************************************************)
LEMMA QuietActionsInv ==
    ASSUME QInv, NEW t \in Threads,
           \/ CallEnqueue(t) \/ EnqueueWait(t) \/ CallDequeue(t) \/ DequeueWait(t)
           \/ DequeueEnd(t) \/ setIsFinished(t) \/ SpuriousWakeup(t)
    PROVE  QInv'
<1>1. pc \in [Threads -> Pcs] /\ data \in [Threads -> Items \cup {NoItem}]
  BY DEF QInv, TypeOK
<1>2. CASE CallEnqueue(t)
  <2>1. TypeOK'
    BY <1>2 DEF CallEnqueue, QInv, TypeOK, Pcs
  <2>2. HasArgument'
    BY <1>1, <1>2 DEF CallEnqueue, QInv, TypeOK, HasArgument
  <2> QED
    BY <1>1, <1>2, <2>1, <2>2, QuietStep DEF CallEnqueue, QInv, EndAndCapacity, ThreadsAt
<1>3. CASE EnqueueWait(t)
  <2>1. TypeOK'
    BY <1>3 DEF EnqueueWait, QInv, TypeOK, Pcs
  <2>2. HasArgument'
    BY <1>1, <1>3 DEF EnqueueWait, QInv, HasArgument
  <2> QED
    BY <1>1, <1>3, <2>1, <2>2, QuietStep DEF EnqueueWait, QInv, EndAndCapacity, ThreadsAt
<1>4. CASE CallDequeue(t)
  <2>1. TypeOK'
    BY <1>4 DEF CallDequeue, QInv, TypeOK, Pcs
  <2>2. HasArgument'
    BY <1>1, <1>4 DEF CallDequeue, QInv, HasArgument
  <2> QED
    BY <1>1, <1>4, <2>1, <2>2, QuietStep DEF CallDequeue, QInv, EndAndCapacity, ThreadsAt
<1>5. CASE DequeueWait(t)
  <2>1. TypeOK'
    BY <1>5 DEF DequeueWait, QInv, TypeOK, Pcs
  <2>2. HasArgument'
    BY <1>1, <1>5 DEF DequeueWait, QInv, HasArgument
  <2> QED
    BY <1>1, <1>5, <2>1, <2>2, QuietStep DEF DequeueWait, QInv, EndAndCapacity, ThreadsAt
<1>6. CASE DequeueEnd(t)
  <2>1. TypeOK'
    BY <1>6 DEF DequeueEnd, QInv, TypeOK, Pcs
  <2>2. HasArgument'
    BY <1>1, <1>6 DEF DequeueEnd, QInv, HasArgument
  <2> QED
    BY <1>1, <1>6, <2>1, <2>2, QuietStep DEF DequeueEnd, QInv, EndAndCapacity, ThreadsAt
<1>7. CASE setIsFinished(t)
  <2>1. TypeOK'
    BY <1>7 DEF setIsFinished, QInv, TypeOK, Pcs
  <2>2. HasArgument'
    BY <1>1, <1>7 DEF setIsFinished, QInv, HasArgument
  <2> QED
    BY <1>1, <1>7, <2>1, <2>2, QuietStep DEF setIsFinished, ThreadsAt
<1>8. CASE SpuriousWakeup(t)
  <2>1. TypeOK'
    BY <1>8 DEF SpuriousWakeup, QInv, TypeOK, Pcs
  <2>2. HasArgument'
    BY <1>1, <1>8 DEF SpuriousWakeup, QInv, HasArgument
  <2> QED
    BY <1>1, <1>8, <2>1, <2>2, QuietStep DEF SpuriousWakeup, QInv, EndAndCapacity, ThreadsAt
<1> QED
  BY <1>2, <1>3, <1>4, <1>5, <1>6, <1>7, <1>8

(***************************************************************************)
(* Every step keeps the invariant.                                         *)
(***************************************************************************)
LEMMA NextQInv == QInv /\ [Next]_vars => QInv'
<1> SUFFICES ASSUME QInv, [Next]_vars PROVE QInv'
  OBVIOUS
<1>1. CASE Next
  <2>1. PICK t \in Threads :
           \/ CallEnqueue(t) \/ CallDequeue(t) \/ Dequeue_nb(t) \/ setIsFinished(t)
           \/ Locked(t)
           \/ SpuriousWakeup(t)
    BY <1>1 DEF Next
  <2>2. CASE Push(t)
    BY <2>2, PushInv
  <2>3. CASE Dequeue_nb(t) \/ DequeueData(t)
    BY <2>3, PopInv DEF Dequeue_nb, DequeueData
  <2> QED
    BY <2>1, <2>2, <2>3, QuietActionsInv DEF Locked
<1>2. CASE UNCHANGED vars
  BY <1>2 DEF vars, QInv, TypeOK, HasArgument, NoLostWakeup, EndAndCapacity, ThreadsAt
<1> QED
  BY <1>1, <1>2

(***************************************************************************)
(* The invariant holds always.                                             *)
(***************************************************************************)
THEOREM QInvAlways == Spec => []QInv
<1>1. Init => QInv
  BY InitQInv
<1>2. QInv /\ [Next]_vars => QInv'
  BY NextQInv
<1> QED
  BY <1>1, <1>2, PTL DEF Spec

(***************************************************************************)
(* Each element and each free slot is announced with a single notify_one,  *)
(* and this never leaves a thread asleep that nobody will make room for.   *)
(***************************************************************************)
THEOREM NoLostWakeupAlways == Spec => []NoLostWakeup
<1>1. QInv => NoLostWakeup
  BY DEF QInv
<1> QED
  BY <1>1, QInvAlways, PTL

(***************************************************************************)
(* Dequeue never sleeps after setIsFinished, and Enqueue never overfills.  *)
(***************************************************************************)
THEOREM EndAndCapacityAlways == Spec => []EndAndCapacity
<1>1. QInv => EndAndCapacity
  BY DEF QInv
<1> QED
  BY <1>1, QInvAlways, PTL

(***************************************************************************)
(* The queue never holds anything but the elements that Enqueue was given: *)
(* what a thread pushes after it slept is still its own argument.          *)
(***************************************************************************)
THEOREM QueueTypeCorrect == Spec => []TypeOK
<1>1. QInv => TypeOK
  BY DEF QInv
<1> QED
  BY <1>1, QInvAlways, PTL

=============================================================================
