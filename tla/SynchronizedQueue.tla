-------------------------- MODULE SynchronizedQueue --------------------------
(***************************************************************************)
(* The blocking queue between the threads of a campaign                    *)
(* (src/src/core/util/SynchronizedQueue.hpp): a FIFO queue with an         *)
(* optional capacity and an end-of-stream flag, one mutex and two          *)
(* condition variables.                                                    *)
(*                                                                         *)
(* The mutex is held from the beginning of an operation to its end, except *)
(* inside wait(), so what a thread does between acquiring the mutex and    *)
(* releasing or waiting is one step.  A thread that was notified competes  *)
(* for the mutex with all others and tests the loop condition again, which *)
(* is what a thread does that has just called the operation.               *)
(***************************************************************************)
EXTENDS Integers, Sequences, FiniteSets

CONSTANTS
    Threads,
    Items,      \* bound: values to enqueue, each at most once
    NoItem,     \* T(), the default-constructed value
    capacity    \* 0 = unlimited

ASSUME QueueAssumption ==
    /\ IsFiniteSet(Threads)
    /\ NoItem \notin Items
    /\ capacity \in Nat

VARIABLES
    m_queue,
    finished,
    pc,         \* where each thread is
    data,       \* the argument of Enqueue, or what Dequeue has returned
    unused      \* values not yet passed to Enqueue

vars == <<m_queue, finished, pc, data, unused>>

(***************************************************************************)
(* "enqueue" and "dequeue": inside the operation and about to acquire the  *)
(* mutex; "waitRoom": blocked on m_cond_capacity; "waitData": on m_cond.   *)
(***************************************************************************)
Pcs == {"idle", "enqueue", "waitRoom", "dequeue", "waitData"}

TypeOK ==
    /\ m_queue \in Seq(Items)
    /\ finished \in BOOLEAN
    /\ pc \in [Threads -> Pcs]
    /\ data \in [Threads -> Items \cup {NoItem}]
    /\ unused \subseteq Items

ThreadsAt(p) == {t \in Threads : pc[t] = p}

Init ==
    /\ m_queue = <<>>
    /\ finished = FALSE
    /\ pc = [t \in Threads |-> "idle"]
    /\ data = [t \in Threads |-> NoItem]
    /\ unused = Items

Full == capacity # 0 /\ Len(m_queue) >= capacity

(***************************************************************************)
(* Thread t goes to p, and one of the threads blocked at "from", if any,   *)
(* is made to test its condition again at "to" (notify_one).               *)
(***************************************************************************)
GotoAndNotifyOne(t, p, from, to) ==
    \/ /\ ThreadsAt(from) = {}
       /\ pc' = [pc EXCEPT ![t] = p]
    \/ \E w \in ThreadsAt(from) : pc' = [pc EXCEPT ![t] = p, ![w] = to]

-----------------------------------------------------------------------------
CallEnqueue(t) ==
    /\ pc[t] = "idle"
    /\ \E x \in unused :
          /\ unused' = unused \ {x}
          /\ data' = [data EXCEPT ![t] = x]
    /\ pc' = [pc EXCEPT ![t] = "enqueue"]
    /\ UNCHANGED <<m_queue, finished>>

EnqueueWait(t) ==
    /\ pc[t] = "enqueue"
    /\ Full
    /\ pc' = [pc EXCEPT ![t] = "waitRoom"]
    /\ UNCHANGED <<m_queue, finished, data, unused>>

\* mutant: only the first element of an empty queue is announced
MutPush(t) ==
    /\ pc[t] = "enqueue"
    /\ ~Full
    /\ m_queue' = Append(m_queue, data[t])
    /\ IF m_queue = <<>>
       THEN GotoAndNotifyOne(t, "idle", "waitData", "dequeue")
       ELSE pc' = [pc EXCEPT ![t] = "idle"]
    /\ data' = [data EXCEPT ![t] = NoItem]
    /\ UNCHANGED <<finished, unused>>

Push(t) ==
    /\ pc[t] = "enqueue"
    /\ ~Full
    /\ m_queue' = Append(m_queue, data[t])
    /\ GotoAndNotifyOne(t, "idle", "waitData", "dequeue")
    /\ data' = [data EXCEPT ![t] = NoItem]
    /\ UNCHANGED <<finished, unused>>

CallDequeue(t) ==
    /\ pc[t] = "idle"
    /\ pc' = [pc EXCEPT ![t] = "dequeue"]
    /\ UNCHANGED <<m_queue, finished, data, unused>>

DequeueWait(t) ==
    /\ pc[t] = "dequeue"
    /\ m_queue = <<>>
    /\ ~finished
    /\ pc' = [pc EXCEPT ![t] = "waitData"]
    /\ UNCHANGED <<m_queue, finished, data, unused>>

\* mutant: the end is looked for again instead of being reported
MutDequeueEnd(t) ==
    /\ pc[t] = "dequeue"
    /\ m_queue = <<>>
    /\ finished
    /\ UNCHANGED vars

DequeueEnd(t) ==
    /\ pc[t] = "dequeue"
    /\ m_queue = <<>>
    /\ finished
    /\ data' = [data EXCEPT ![t] = NoItem]
    /\ pc' = [pc EXCEPT ![t] = "idle"]
    /\ UNCHANGED <<m_queue, finished, unused>>

(***************************************************************************)
(* What Dequeue and Dequeue_nb do when there is data.                      *)
(***************************************************************************)
Pop(t) ==
    /\ m_queue # <<>>
    /\ m_queue' = Tail(m_queue)
    /\ data' = [data EXCEPT ![t] = Head(m_queue)]
    /\ IF Len(m_queue') < capacity
       THEN GotoAndNotifyOne(t, "idle", "waitRoom", "enqueue")
       ELSE pc' = [pc EXCEPT ![t] = "idle"]
    /\ UNCHANGED <<finished, unused>>

\* mutant: the last element is not seen
MutDequeueData(t) ==
    /\ pc[t] = "dequeue"
    /\ m_queue # <<>>
    /\ IF Len(m_queue) > 1 THEN Pop(t) ELSE UNCHANGED vars

DequeueData(t) == pc[t] = "dequeue" /\ Pop(t)

(***************************************************************************)
(* Dequeue_nb on an empty queue changes nothing.                           *)
(***************************************************************************)
Dequeue_nb(t) == pc[t] = "idle" /\ Pop(t)

\* mutant: only one of the blocked threads learns of the end
MutSetIsFinished(t) ==
    /\ pc[t] = "idle"
    /\ ~finished
    /\ finished' = TRUE
    /\ GotoAndNotifyOne(t, "idle", "waitData", "dequeue")
    /\ UNCHANGED <<m_queue, data, unused>>

setIsFinished(t) ==
    /\ pc[t] = "idle"
    /\ ~finished
    /\ finished' = TRUE
    /\ pc' = [u \in Threads |-> IF pc[u] = "waitData" THEN "dequeue" ELSE pc[u]]
    /\ UNCHANGED <<m_queue, data, unused>>

(***************************************************************************)
(* boost::condition_variable::wait may return without a notification.      *)
(***************************************************************************)
SpuriousWakeup(t) ==
    /\ \/ pc[t] = "waitData" /\ pc' = [pc EXCEPT ![t] = "dequeue"]
       \/ pc[t] = "waitRoom" /\ pc' = [pc EXCEPT ![t] = "enqueue"]
    /\ UNCHANGED <<m_queue, finished, data, unused>>

(***************************************************************************)
(* What a thread does once it has the mutex.                               *)
(***************************************************************************)
Locked(t) == EnqueueWait(t) \/ Push(t) \/ DequeueWait(t) \/ DequeueEnd(t) \/ DequeueData(t)

Next ==
    \E t \in Threads :
        \/ CallEnqueue(t) \/ CallDequeue(t) \/ Dequeue_nb(t) \/ setIsFinished(t)
        \/ Locked(t)
        \/ SpuriousWakeup(t)

Spec == Init /\ [][Next]_vars

(***************************************************************************)
(* A thread that competes for the mutex gets it in the end; nothing is     *)
(* assumed about when threads call the operations.                         *)
(***************************************************************************)
FairSpec == Spec /\ \A t \in Threads : SF_vars(Locked(t))

-----------------------------------------------------------------------------
(***************************************************************************)
(* No wakeup is lost although every element is announced with notify_one   *)
(* and notified threads can be overtaken: while a thread sleeps in         *)
(* Dequeue, there is a thread awake for every element in the queue, and    *)
(* while one sleeps in Enqueue, a thread awake for every free slot.        *)
(***************************************************************************)
NoLostWakeup ==
    /\ ThreadsAt("waitData") # {} => Len(m_queue) <= Cardinality(ThreadsAt("dequeue"))
    /\ ThreadsAt("waitRoom") # {} =>
          capacity <= Len(m_queue) + Cardinality(ThreadsAt("enqueue"))

(***************************************************************************)
(* Nobody sleeps in Dequeue once the end has been announced, and the queue *)
(* never outgrows its capacity, whoever is overtaken after a notification. *)
(***************************************************************************)
EndAndCapacity ==
    /\ finished => ThreadsAt("waitData") = {}
    /\ capacity # 0 => Len(m_queue) <= capacity

(***************************************************************************)
(* After setIsFinished every Dequeue returns.                              *)
(***************************************************************************)
DequeueReturns ==
    \A t \in Threads : finished /\ pc[t] \in {"dequeue", "waitData"} ~> pc[t] = "idle"

(***************************************************************************)
(* Nobody sleeps through what it waits for: if there is data while threads *)
(* sleep in Dequeue, the queue is emptied or they are woken, and the same  *)
(* for a free slot and the threads that sleep in Enqueue.                  *)
(***************************************************************************)
NoneSleepsOn ==
    /\ m_queue # <<>> /\ ThreadsAt("waitData") # {} ~>
          m_queue = <<>> \/ ThreadsAt("waitData") = {}
    /\ ~Full /\ ThreadsAt("waitRoom") # {} ~> Full \/ ThreadsAt("waitRoom") = {}

=============================================================================
