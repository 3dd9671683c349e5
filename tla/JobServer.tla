------------------------------ MODULE JobServer ------------------------------
(***************************************************************************)
(* The job server of a FAIL* campaign (src/src/core/cpn/JobServer.cc).     *)
(*                                                                         *)
(* Three threads share its queues: the campaign thread adds parameter sets *)
(* and finally declares that there are no more; the collector thread takes *)
(* results and deletes them; the communication thread runs one coroutine   *)
(* per client connection.  A coroutine gives the communication thread up   *)
(* only at a socket operation, so a step of connection c below is what the *)
(* coroutine does between two socket operations, except that the two loops *)
(* on the bounded queue and the step from the empty queue to the lock are  *)
(* cut further, since the campaign thread can run in between.              *)
(*                                                                         *)
(* Clients are any number of minions: each may ask for work at any time,   *)
(* vanish at any time, and answer any workload ever handed to it, late,    *)
(* more than once, or never.                                               *)
(***************************************************************************)
EXTENDS Integers, Sequences, FiniteSets

CONSTANTS
    Jobs,                   \* the ExperimentData objects of the campaign
    Conns,                  \* connections that can be open at the same time
    NoJob,                  \* the null pointer
    SERVER_OUT_QUEUE_SIZE,  \* capacity of m_undoneJobs, 0 = unlimited
    pick_window_size,       \* window of SynchronizedMap::pickone
    MaxJobSize,             \* bound: jobs per request, results per message
    MaxFaults               \* bound: socket operations that fail

(***************************************************************************)
(* Where a job can be besides in the hands of a coroutine.                 *)
(***************************************************************************)
Places == {"campaign", "skipped", "undone", "running", "done", "collected", "deleted", "leaked"}

ASSUME ConstAssumption ==
    /\ NoJob \notin Jobs
    /\ Conns \cap Places = {}
    /\ SERVER_OUT_QUEUE_SIZE \in Nat
    /\ pick_window_size \in Nat
    /\ MaxJobSize \in Nat
    /\ MaxFaults \in Nat

VARIABLES
    \* members of JobServer
    m_undoneJobs,   \* SynchronizedQueue: jobs not yet handed out
    m_runningJobs,  \* SynchronizedMap: workload ID -> job handed out
    nextpick,       \* cursor of m_runningJobs.pickone()
    m_doneJobs,     \* SynchronizedQueue: results for the campaign
    doneFinished,   \* m_doneJobs.finished
    noMoreExps,     \* also m_undoneJobs.finished, which nobody reads
    m_counter,      \* last workload ID
    m_DoneCount,    \* progress counter
    stopped,        \* done() has stopped the services
    \* members of the jobs
    workloadID,     \* 0 until the job is handed out
    content,        \* what the job's protobuf message holds
    home,           \* history variable: who holds the pointer to the job
    \* the coroutine of each connection
    pc,             \* the operation it is waiting for
    want,           \* jobs still to dequeue for this request
    exp,            \* deque of jobs being sent
    temp_exp,       \* job being sent again
    msgs,           \* results still to be read
    recvd,          \* jobs whose result has been read
    \* the collector thread of the campaign
    collected,      \* result being processed
    gotNull,        \* getDone() has returned NULL
    \* the clients and the network
    clientJobs,     \* everything the clients were ever sent
    faults          \* socket operations that have failed

queueVars     == <<m_undoneJobs, m_runningJobs, nextpick, m_doneJobs, doneFinished>>
counterVars   == <<m_counter, m_DoneCount>>
jobVars       == <<workloadID, content, home>>
coroutineVars == <<pc, want, exp, temp_exp, msgs, recvd>>
campaignVars  == <<noMoreExps, stopped, collected, gotNull>>
networkVars   == <<clientJobs, faults>>
vars == <<queueVars, counterVars, jobVars, coroutineVars, campaignVars, networkVars>>

Pcs == {"idle", "dequeue", "pick", "sendCtrl", "sendJob", "jobSent", "requeue",
        "resendCtrl", "comeAgain", "die", "rcvResult"}

Contents == {"param", "result", "wrong", "freed"}

(***************************************************************************)
(* A workload as a client receives it, and as its result is computed from  *)
(* it: intact means that the message was the job's parameter set.          *)
(***************************************************************************)
Workloads == [id : Nat, job : Jobs, intact : BOOLEAN]

PendingMsgs == [id : Nat, job : Jobs \cup {NoJob}, data : Workloads]

TypeOK ==
    /\ m_undoneJobs \in Seq(Jobs)
    /\ DOMAIN m_runningJobs \subseteq Nat
    /\ m_runningJobs \in [DOMAIN m_runningJobs -> Jobs]
    /\ nextpick \in Nat
    /\ m_doneJobs \in Seq(Jobs)
    /\ doneFinished \in BOOLEAN
    /\ noMoreExps \in BOOLEAN
    /\ m_counter \in Nat
    /\ m_DoneCount \in Nat
    /\ stopped \in BOOLEAN
    /\ workloadID \in [Jobs -> Nat]
    /\ content \in [Jobs -> Contents]
    /\ home \in [Jobs -> Places \cup Conns]
    /\ pc \in [Conns -> Pcs]
    /\ want \in [Conns -> Nat]
    /\ exp \in [Conns -> Seq(Jobs)]
    /\ temp_exp \in [Conns -> Jobs \cup {NoJob}]
    /\ msgs \in [Conns -> Seq(PendingMsgs)]
    /\ recvd \in [Conns -> Seq(Jobs)]
    /\ collected \in Jobs \cup {NoJob}
    /\ gotNull \in BOOLEAN
    /\ clientJobs \subseteq Workloads
    /\ faults \in Nat

Init ==
    /\ m_undoneJobs = <<>>
    /\ m_runningJobs = [id \in {} |-> NoJob]
    /\ nextpick = 0
    /\ m_doneJobs = <<>>
    /\ doneFinished = FALSE
    /\ noMoreExps = FALSE
    /\ m_counter = 0
    /\ m_DoneCount = 0
    /\ stopped = FALSE
    /\ workloadID = [j \in Jobs |-> 0]
    /\ content = [j \in Jobs |-> "param"]
    /\ home = [j \in Jobs |-> "campaign"]
    /\ pc = [c \in Conns |-> "idle"]
    /\ want = [c \in Conns |-> 0]
    /\ exp = [c \in Conns |-> <<>>]
    /\ temp_exp = [c \in Conns |-> NoJob]
    /\ msgs = [c \in Conns |-> <<>>]
    /\ recvd = [c \in Conns |-> <<>>]
    /\ collected = NoJob
    /\ gotNull = FALSE
    /\ clientJobs = {}
    /\ faults = 0

-----------------------------------------------------------------------------
(***************************************************************************)
(* SynchronizedQueue::Enqueue waits while the queue is full.               *)
(***************************************************************************)
HasRoom(q) == SERVER_OUT_QUEUE_SIZE = 0 \/ Len(q) < SERVER_OUT_QUEUE_SIZE

(***************************************************************************)
(* The communication thread can run the coroutine of c unless it is inside *)
(* a section of another coroutine that contains no socket operation; once  *)
(* the services are stopped no socket operation resumes a coroutine.       *)
(***************************************************************************)
Computing == {"dequeue", "pick", "requeue"}

CommThreadFree(c) ==
    /\ stopped => pc[c] \in Computing
    /\ \A d \in Conns \ {c} : pc[d] \notin Computing

At(c, p) == pc[c] = p /\ CommThreadFree(c)

Goto(c, p) == pc' = [pc EXCEPT ![c] = p]

(***************************************************************************)
(* A socket operation fails: the client is gone.                           *)
(***************************************************************************)
Fail == faults < MaxFaults /\ faults' = faults + 1

(***************************************************************************)
(* NEED_WORK is served for the current run ID and for run ID 0 ("possibly  *)
(* virgin client"); RESULT_FOLLOWS only for the current one.               *)
(***************************************************************************)
RunIds == {"virgin", "current", "other"}

ServesRun(run) == run \in {"virgin", "current"}

\* mutant: results are taken from every client
MutAcceptsResultsOf(run) == run \in RunIds

AcceptsResultsOf(run) == run = "current"

-----------------------------------------------------------------------------
(***************************************************************************)
(* The campaign thread and the collector thread.  (m_inOutCounter, which   *)
(* addParam and getDone maintain, is read nowhere and left out.)           *)
(***************************************************************************)
AddParam(j) ==
    /\ home[j] = "campaign"
    /\ ~noMoreExps
    /\ HasRoom(m_undoneJobs)
    /\ m_undoneJobs' = Append(m_undoneJobs, j)
    /\ home' = [home EXCEPT ![j] = "undone"]
    /\ UNCHANGED <<m_runningJobs, nextpick, m_doneJobs, doneFinished, m_counter, m_DoneCount,
                   workloadID, content, coroutineVars, campaignVars, networkVars>>

(***************************************************************************)
(* A parameter set whose results exist already is not added but skipped.   *)
(* The increment races with the one of the communication thread ("assume   *)
(* atomic"): it may start from any value the counter had before.           *)
(***************************************************************************)
SkipJobs(j) ==
    /\ home[j] = "campaign"
    /\ ~noMoreExps
    /\ \E stale \in 0..m_DoneCount : m_DoneCount' = stale + 1
    /\ home' = [home EXCEPT ![j] = "skipped"]
    /\ UNCHANGED <<queueVars, m_counter, workloadID, content, coroutineVars, campaignVars,
                   networkVars>>

\* mutant: the "all results complete?" check is missing here
MutSetNoMoreExperiments ==
    /\ ~noMoreExps
    /\ noMoreExps' = TRUE
    /\ UNCHANGED <<queueVars, counterVars, jobVars, coroutineVars, stopped, collected, gotNull,
                   networkVars>>

SetNoMoreExperiments ==
    /\ ~noMoreExps
    /\ noMoreExps' = TRUE
    /\ doneFinished' = (doneFinished \/ (m_undoneJobs = <<>> /\ DOMAIN m_runningJobs = {}))
    /\ UNCHANGED <<m_undoneJobs, m_runningJobs, nextpick, m_doneJobs, counterVars, jobVars,
                   coroutineVars, stopped, collected, gotNull, networkVars>>

GetDone ==
    /\ collected = NoJob
    /\ ~gotNull
    /\ m_doneJobs # <<>>
    /\ collected' = Head(m_doneJobs)
    /\ m_doneJobs' = Tail(m_doneJobs)
    /\ home' = [home EXCEPT ![Head(m_doneJobs)] = "collected"]
    /\ UNCHANGED <<m_undoneJobs, m_runningJobs, nextpick, doneFinished, m_counter, m_DoneCount,
                   workloadID, content, coroutineVars, noMoreExps, stopped, gotNull, networkVars>>

GetDoneNull ==
    /\ collected = NoJob
    /\ ~gotNull
    /\ m_doneJobs = <<>>
    /\ doneFinished
    /\ gotNull' = TRUE
    /\ UNCHANGED <<queueVars, counterVars, jobVars, coroutineVars, noMoreExps, stopped,
                   collected, networkVars>>

(***************************************************************************)
(* collect_result_thread stores the row and deletes the job.               *)
(***************************************************************************)
DeleteResult ==
    /\ collected # NoJob
    /\ content' = [content EXCEPT ![collected] = "freed"]
    /\ home' = [home EXCEPT ![collected] = "deleted"]
    /\ collected' = NoJob
    /\ UNCHANGED <<queueVars, counterVars, workloadID, coroutineVars, noMoreExps, stopped,
                   gotNull, networkVars>>

(***************************************************************************)
(* runCampaign calls done() when the campaign's run() has returned, after  *)
(* it has joined the collector: the coroutines are not resumed any more.   *)
(***************************************************************************)
Done ==
    /\ gotNull
    /\ ~stopped
    /\ stopped' = TRUE
    /\ UNCHANGED <<queueVars, counterVars, jobVars, coroutineVars, noMoreExps, collected,
                   gotNull, networkVars>>

-----------------------------------------------------------------------------
(***************************************************************************)
(* CommThread::operator() on NEED_WORK, and sendPendingExperimentData.  A  *)
(* connection is opened, used for one request, and closed.                 *)
(***************************************************************************)
NeedWork(c, run, n) ==
    /\ At(c, "idle")
    /\ IF ServesRun(run)
       THEN Goto(c, "dequeue") /\ want' = [want EXCEPT ![c] = n]
       ELSE Goto(c, "die") /\ UNCHANGED want
    /\ UNCHANGED <<queueVars, counterVars, jobVars, exp, temp_exp, msgs, recvd, campaignVars,
                   networkVars>>

\* mutant: one job more than the client asked for
MutDequeueUndone(c) ==
    LET j == Head(m_undoneJobs) IN
    /\ At(c, "dequeue")
    /\ m_undoneJobs # <<>>
    /\ m_undoneJobs' = Tail(m_undoneJobs)
    /\ m_counter' = m_counter + 1
    /\ workloadID' = [workloadID EXCEPT ![j] = m_counter']
    /\ exp' = [exp EXCEPT ![c] = Append(@, j)]
    /\ want' = [want EXCEPT ![c] = @ - 1]
    /\ home' = [home EXCEPT ![j] = c]
    /\ UNCHANGED <<m_runningJobs, nextpick, m_doneJobs, doneFinished, m_DoneCount, content,
                   pc, temp_exp, msgs, recvd, campaignVars, networkVars>>

\* mutant: a workload ID is used again once its job is no longer running
MutReuseId(c) ==
    LET j == Head(m_undoneJobs) IN
    /\ At(c, "dequeue")
    /\ want[c] > 0
    /\ m_undoneJobs # <<>>
    /\ m_undoneJobs' = Tail(m_undoneJobs)
    /\ m_counter' = Cardinality(DOMAIN m_runningJobs) + 1
    /\ workloadID' = [workloadID EXCEPT ![j] = m_counter']
    /\ exp' = [exp EXCEPT ![c] = Append(@, j)]
    /\ want' = [want EXCEPT ![c] = @ - 1]
    /\ home' = [home EXCEPT ![j] = c]
    /\ UNCHANGED <<m_runningJobs, nextpick, m_doneJobs, doneFinished, m_DoneCount, content,
                   pc, temp_exp, msgs, recvd, campaignVars, networkVars>>

DequeueUndone(c) ==
    LET j == Head(m_undoneJobs) IN
    /\ At(c, "dequeue")
    /\ want[c] > 0
    /\ m_undoneJobs # <<>>
    /\ m_undoneJobs' = Tail(m_undoneJobs)
    /\ m_counter' = m_counter + 1
    /\ workloadID' = [workloadID EXCEPT ![j] = m_counter']
    /\ exp' = [exp EXCEPT ![c] = Append(@, j)]
    /\ want' = [want EXCEPT ![c] = @ - 1]
    /\ home' = [home EXCEPT ![j] = c]
    /\ UNCHANGED <<m_runningJobs, nextpick, m_doneJobs, doneFinished, m_DoneCount, content,
                   pc, temp_exp, msgs, recvd, campaignVars, networkVars>>

DequeueEnd(c) ==
    /\ At(c, "dequeue")
    /\ want[c] = 0 \/ m_undoneJobs = <<>>
    /\ Goto(c, IF exp[c] # <<>> THEN "sendCtrl" ELSE "pick")
    /\ want' = [want EXCEPT ![c] = 0]
    /\ UNCHANGED <<queueVars, counterVars, jobVars, exp, temp_exp, msgs, recvd, campaignVars,
                   networkVars>>

CtrlSent(c) ==
    /\ At(c, "sendCtrl")
    /\ Goto(c, "sendJob")
    /\ UNCHANGED <<queueVars, counterVars, jobVars, want, exp, temp_exp, msgs, recvd,
                   campaignVars, networkVars>>

(***************************************************************************)
(* The WORK_FOLLOWS message cannot be sent: the function returns, and exp, *)
(* which holds the only pointers to the jobs, is destroyed.                *)
(***************************************************************************)
CtrlFailed(c) ==
    /\ At(c, "sendCtrl")
    /\ Fail
    /\ Goto(c, "idle")
    /\ home' = [j \in Jobs |-> IF home[j] = c THEN "leaked" ELSE home[j]]
    /\ exp' = [exp EXCEPT ![c] = <<>>]
    /\ UNCHANGED <<queueVars, counterVars, workloadID, content, want, temp_exp, msgs, recvd,
                   campaignVars, clientJobs>>

WorkloadOf(j) == [id |-> workloadID[j], job |-> j, intact |-> content[j] = "param"]

(***************************************************************************)
(* The network delivers the job; the coroutine learns of it later.         *)
(***************************************************************************)
DeliverJob(c) ==
    /\ pc[c] = "sendJob"
    /\ ~stopped
    /\ Goto(c, "jobSent")
    /\ clientJobs' = clientJobs \cup {WorkloadOf(Head(exp[c]))}
    /\ UNCHANGED <<queueVars, counterVars, jobVars, want, exp, temp_exp, msgs, recvd,
                   campaignVars, faults>>

(***************************************************************************)
(* SynchronizedMap::insert keeps the old entry if the key is present.      *)
(***************************************************************************)
Inserted(map, id, j) ==
    [k \in DOMAIN map \cup {id} |-> IF k \in DOMAIN map THEN map[k] ELSE j]

JobSent(c) ==
    LET j == Head(exp[c]) IN
    /\ At(c, "jobSent")
    /\ m_runningJobs' = Inserted(m_runningJobs, workloadID[j], j)
    /\ home' = [home EXCEPT ![j] = "running"]
    /\ exp' = [exp EXCEPT ![c] = Tail(@)]
    /\ Goto(c, IF Tail(exp[c]) = <<>> THEN "idle" ELSE "sendJob")
    /\ UNCHANGED <<m_undoneJobs, nextpick, m_doneJobs, doneFinished, counterVars, workloadID,
                   content, want, temp_exp, msgs, recvd, campaignVars, networkVars>>

JobFailed(c) ==
    /\ At(c, "sendJob")
    /\ Fail
    /\ Goto(c, "requeue")
    /\ UNCHANGED <<queueVars, counterVars, jobVars, want, exp, temp_exp, msgs, recvd,
                   campaignVars, clientJobs>>

(***************************************************************************)
(* "add remaining jobs back to the queue": Enqueue blocks the whole        *)
(* communication thread while the queue is full.                           *)
(***************************************************************************)
Requeue(c) ==
    LET j == Head(exp[c]) IN
    /\ At(c, "requeue")
    /\ HasRoom(m_undoneJobs)
    /\ m_undoneJobs' = Append(m_undoneJobs, j)
    /\ home' = [home EXCEPT ![j] = "undone"]
    /\ exp' = [exp EXCEPT ![c] = Tail(@)]
    /\ Goto(c, IF Tail(exp[c]) = <<>> THEN "idle" ELSE "requeue")
    /\ UNCHANGED <<m_runningJobs, nextpick, m_doneJobs, doneFinished, counterVars, workloadID,
                   content, want, temp_exp, msgs, recvd, campaignVars, networkVars>>

\* mutant: pickone() does not start over at the end of the map
MutPickPosition == nextpick

(***************************************************************************)
(* SynchronizedMap::pickone walks nextpick entries from the smallest key   *)
(* and starts over when it falls off the end.                              *)
(***************************************************************************)
PickPosition == IF nextpick < Cardinality(DOMAIN m_runningJobs) THEN nextpick ELSE 0

IsPicked(id) == Cardinality({k \in DOMAIN m_runningJobs : k < id}) = PickPosition

(***************************************************************************)
(* Nothing is undone: send a running job again ("2nd priority").           *)
(***************************************************************************)
PickRunning(c) ==
    /\ At(c, "pick")
    /\ \E id \in DOMAIN m_runningJobs :
          /\ IsPicked(id)
          /\ temp_exp' = [temp_exp EXCEPT ![c] = m_runningJobs[id]]
    /\ nextpick' = IF PickPosition + 1 >= pick_window_size THEN 0 ELSE PickPosition + 1
    /\ Goto(c, "resendCtrl")
    /\ UNCHANGED <<m_undoneJobs, m_runningJobs, m_doneJobs, doneFinished, counterVars, jobVars,
                   want, exp, msgs, recvd, campaignVars, networkVars>>

PickNothing(c) ==
    /\ At(c, "pick")
    /\ DOMAIN m_runningJobs = {}
    /\ Goto(c, IF noMoreExps THEN "die" ELSE "comeAgain")
    /\ UNCHANGED <<queueVars, counterVars, jobVars, want, exp, temp_exp, msgs, recvd,
                   campaignVars, networkVars>>

(***************************************************************************)
(* Once WORK_FOLLOWS is out, temp_exp is dereferenced and serialised: what *)
(* the client gets is what the job holds now.  Whether the job itself then *)
(* arrives is of no consequence to the server.                             *)
(***************************************************************************)
Resend(c) ==
    /\ At(c, "resendCtrl")
    /\ clientJobs' = clientJobs \cup {WorkloadOf(temp_exp[c])}
    /\ temp_exp' = [temp_exp EXCEPT ![c] = NoJob]
    /\ Goto(c, "idle")
    /\ UNCHANGED <<queueVars, counterVars, jobVars, want, exp, msgs, recvd, campaignVars, faults>>

ResendFailed(c) ==
    /\ At(c, "resendCtrl")
    /\ Fail
    /\ temp_exp' = [temp_exp EXCEPT ![c] = NoJob]
    /\ Goto(c, "idle")
    /\ UNCHANGED <<queueVars, counterVars, jobVars, want, exp, msgs, recvd, campaignVars,
                   clientJobs>>

(***************************************************************************)
(* COME_AGAIN or DIE has been sent (or not): the coroutine ends.           *)
(***************************************************************************)
Replied(c) ==
    /\ At(c, "comeAgain") \/ At(c, "die")
    /\ Goto(c, "idle")
    /\ UNCHANGED <<queueVars, counterVars, jobVars, want, exp, temp_exp, msgs, recvd,
                   campaignVars, networkVars>>

-----------------------------------------------------------------------------
(***************************************************************************)
(* CommThread::operator() on RESULT_FOLLOWS, and receiveExperimentResults. *)
(* A message announces a sequence of results.  A client of this run sends  *)
(* results for workloads it was given; a client left over from another run *)
(* can send any workload ID.                                               *)
(***************************************************************************)
SeqsUpTo(S, n) == UNION {[1..k -> S] : k \in 1..n}

ForeignWorkloads == [id : 1..m_counter, job : Jobs, intact : {FALSE}]

ResultsOf(run) == IF run = "current" THEN clientJobs ELSE ForeignWorkloads

\* mutant: all announced jobs are looked up before any is taken out
MutRemoved(results) ==
    [i \in DOMAIN results |->
        [id   |-> results[i].id,
         job  |-> IF results[i].id \in DOMAIN m_runningJobs
                  THEN m_runningJobs[results[i].id]
                  ELSE NoJob,
         data |-> results[i]]]

(***************************************************************************)
(* remove() takes each announced job out of m_runningJobs; an ID that is   *)
(* not there (any more) yields the null pointer.                           *)
(***************************************************************************)
Removed(results) ==
    [i \in DOMAIN results |->
        [id   |-> results[i].id,
         job  |-> IF /\ results[i].id \in DOMAIN m_runningJobs
                     /\ \A k \in 1..(i - 1) : results[k].id # results[i].id
                  THEN m_runningJobs[results[i].id]
                  ELSE NoJob,
         data |-> results[i]]]

\* mutant: remove() leaves the entry in the map
MutWithout(map, results) == map

Without(map, results) ==
    [k \in DOMAIN map \ {results[i].id : i \in DOMAIN results} |-> map[k]]

ResultFollows(c, run, results) ==
    /\ At(c, "idle")
    /\ AcceptsResultsOf(run)
    /\ Goto(c, "rcvResult")
    /\ msgs' = [msgs EXCEPT ![c] = Removed(results)]
    /\ m_runningJobs' = Without(m_runningJobs, results)
    /\ home' = [j \in Jobs |-> IF \E i \in DOMAIN results : Removed(results)[i].job = j
                               THEN c ELSE home[j]]
    /\ UNCHANGED <<m_undoneJobs, nextpick, m_doneJobs, doneFinished, counterVars, workloadID,
                   content, want, exp, temp_exp, recvd, campaignVars, networkVars>>

(***************************************************************************)
(* The job's message is overwritten with the result the client computed.   *)
(***************************************************************************)
ResultFor(m) == IF m.data.job = m.job /\ m.data.intact THEN "result" ELSE "wrong"

ReadResult(m) ==
    IF m.job # NoJob
    THEN /\ content' = [content EXCEPT ![m.job] = ResultFor(m)]
         /\ m_DoneCount' = m_DoneCount + 1
    ELSE UNCHANGED <<content, m_DoneCount>>   \* dropMsg

ReceivedWith(c, m) == IF m.job # NoJob THEN Append(recvd[c], m.job) ELSE recvd[c]

(***************************************************************************)
(* The second locked section: results that were read go to the campaign,   *)
(* jobs whose result could not be read are running again, and if nothing   *)
(* is undone or running any more the results are complete.                 *)
(***************************************************************************)
FailedJobs(failed) == {i \in DOMAIN failed : failed[i].job # NoJob}

Reinserted(map, failed) ==
    [k \in DOMAIN map \cup {failed[i].id : i \in FailedJobs(failed)} |->
        IF k \in DOMAIN map THEN map[k]
        ELSE failed[CHOOSE i \in FailedJobs(failed) : failed[i].id = k].job]

StoreResults(c, received, failed) ==
    /\ m_doneJobs' = m_doneJobs \o received
    /\ m_runningJobs' = Reinserted(m_runningJobs, failed)
    /\ doneFinished' = (doneFinished \/ (/\ m_undoneJobs = <<>>
                                         /\ noMoreExps
                                         /\ DOMAIN m_runningJobs' = {}))
    /\ home' = [j \in Jobs |->
                  IF \E i \in DOMAIN received : received[i] = j THEN "done"
                  ELSE IF \E i \in FailedJobs(failed) : failed[i].job = j THEN "running"
                  ELSE home[j]]
    /\ msgs' = [msgs EXCEPT ![c] = <<>>]
    /\ recvd' = [recvd EXCEPT ![c] = <<>>]
    /\ Goto(c, "idle")

RcvResult(c) ==
    /\ At(c, "rcvResult")
    /\ Tail(msgs[c]) # <<>>
    /\ ReadResult(Head(msgs[c]))
    /\ recvd' = [recvd EXCEPT ![c] = ReceivedWith(c, Head(msgs[c]))]
    /\ msgs' = [msgs EXCEPT ![c] = Tail(@)]
    /\ UNCHANGED <<queueVars, m_counter, workloadID, home, pc, want, exp,
                   temp_exp, campaignVars, networkVars>>

RcvLastResult(c) ==
    /\ At(c, "rcvResult")
    /\ Tail(msgs[c]) = <<>>
    /\ ReadResult(Head(msgs[c]))
    /\ StoreResults(c, ReceivedWith(c, Head(msgs[c])), <<>>)
    /\ UNCHANGED <<m_undoneJobs, nextpick, m_counter, workloadID, want, exp,
                   temp_exp, campaignVars, networkVars>>

(***************************************************************************)
(* The client is gone before everything is read: every later read of the   *)
(* same socket fails as well.                                              *)
(***************************************************************************)
RcvFailed(c) ==
    /\ At(c, "rcvResult")
    /\ Fail
    /\ m_DoneCount' = m_DoneCount + Cardinality(FailedJobs(msgs[c]))
    /\ StoreResults(c, recvd[c], msgs[c])
    /\ UNCHANGED <<m_undoneJobs, nextpick, m_counter, workloadID, content, want,
                   exp, temp_exp, campaignVars, clientJobs>>

-----------------------------------------------------------------------------
CampaignStep ==
    \/ \E j \in Jobs : AddParam(j) \/ SkipJobs(j)
    \/ SetNoMoreExperiments
    \/ Done

CollectorStep == GetDone \/ GetDoneNull \/ DeleteResult

(***************************************************************************)
(* A client connects and its control message is read.                      *)
(***************************************************************************)
ClientStep(c) ==
    \/ \E run \in RunIds, n \in 1..MaxJobSize : NeedWork(c, run, n)
    \/ \E run \in RunIds : \E results \in SeqsUpTo(ResultsOf(run), MaxJobSize) :
          ResultFollows(c, run, results)

CoroutineStep(c) ==
    \/ DequeueUndone(c) \/ DequeueEnd(c)
    \/ CtrlSent(c) \/ CtrlFailed(c)
    \/ DeliverJob(c) \/ JobSent(c) \/ JobFailed(c) \/ Requeue(c)
    \/ PickRunning(c) \/ PickNothing(c) \/ Resend(c) \/ ResendFailed(c) \/ Replied(c)
    \/ RcvResult(c) \/ RcvLastResult(c) \/ RcvFailed(c)

(***************************************************************************)
(* The campaign program is over.                                           *)
(***************************************************************************)
Terminated == stopped /\ UNCHANGED vars

Next ==
    \/ CampaignStep
    \/ CollectorStep
    \/ \E c \in Conns : ClientStep(c) \/ CoroutineStep(c)
    \/ Terminated

Spec == Init /\ [][Next]_vars

(***************************************************************************)
(* Fairness.  The operating system runs all three threads; a socket        *)
(* operation completes or fails, and io_service resumes the coroutines     *)
(* whose operation is complete in turn, so none is passed over forever     *)
(* (strong fairness, since another one may occupy the thread in between).  *)
(* Minions keep asking for work and answering what they were given: one    *)
(* that dies is replaced.                                                  *)
(***************************************************************************)
CoroutineProgress(c) ==
    \/ DequeueUndone(c) \/ DequeueEnd(c) \/ CtrlSent(c) \/ DeliverJob(c) \/ JobSent(c)
    \/ Requeue(c) \/ PickRunning(c) \/ PickNothing(c) \/ Resend(c) \/ Replied(c)
    \/ RcvResult(c) \/ RcvLastResult(c)

SomeoneAsks == \E c \in Conns : NeedWork(c, "current", 1)

SomeoneAnswers(j) ==
    \E c \in Conns : \E w \in clientJobs :
        w.job = j /\ ResultFollows(c, "current", <<w>>)

Fairness ==
    /\ WF_vars(SetNoMoreExperiments)
    /\ WF_vars(CollectorStep)
    /\ \A c \in Conns : SF_vars(CoroutineProgress(c))
    /\ SF_vars(SomeoneAsks)
    /\ \A j \in Jobs : SF_vars(SomeoneAnswers(j))

FairSpec == Spec /\ Fairness

-----------------------------------------------------------------------------
(***************************************************************************)
(* Where pointers to job j are kept, temp_exp aside: one element for every *)
(* occurrence in a container of the server, a coroutine or the collector.  *)
(***************************************************************************)
Positions(place, s, j) == {<<place, i>> : i \in {k \in DOMAIN s : s[k] = j}}

JobsIn(ms) == [i \in DOMAIN ms |-> ms[i].job]

HeldByConn(c, j) ==
         Positions(<<"exp", c>>, exp[c], j)
    \cup Positions(<<"recvd", c>>, recvd[c], j)
    \cup Positions(<<"msgs", c>>, JobsIn(msgs[c]), j)

Occurrences(j) ==
         Positions(<<"undone">>, m_undoneJobs, j)
    \cup Positions(<<"running">>, m_runningJobs, j)
    \cup Positions(<<"done">>, m_doneJobs, j)
    \cup Positions(<<"collected">>, <<collected>>, j)
    \cup UNION {HeldByConn(c, j) : c \in Conns}

(***************************************************************************)
(* Across all the moves between undone, running, done and the local        *)
(* variables of the coroutines, no pointer is ever duplicated, and none is *)
(* dropped except by the failing send counted as "leaked": a job that the  *)
(* campaign has added and not got back is in exactly one place.            *)
(* (JobServer.cc:384-420, 493-530)                                         *)
(***************************************************************************)
JobInOnePlace ==
    \A j \in Jobs :
        Cardinality(Occurrences(j)) =
            IF home[j] \in {"campaign", "skipped", "deleted", "leaked"} THEN 0 ELSE 1

(***************************************************************************)
(* Every job that can still be handed out, or whose result is still to be  *)
(* read, holds its parameters, and every job on its way to the campaign    *)
(* holds the result a client computed from exactly those parameters: a     *)
(* late, repeated or foreign result, or one computed from a resent job     *)
(* that was no longer intact, never gets there.  In particular nothing     *)
(* reachable has been freed.  (JobServer.cc:352-358, 485-517)              *)
(***************************************************************************)
ContentMatchesPlace ==
    /\ \A i \in DOMAIN m_undoneJobs : content[m_undoneJobs[i]] = "param"
    /\ \A id \in DOMAIN m_runningJobs : content[m_runningJobs[id]] = "param"
    /\ \A i \in DOMAIN m_doneJobs : content[m_doneJobs[i]] = "result"
    /\ collected # NoJob => content[collected] = "result"
    /\ \A c \in Conns :
          /\ \A i \in DOMAIN exp[c] : content[exp[c][i]] = "param"
          /\ \A i \in DOMAIN recvd[c] : content[recvd[c][i]] = "result"
          /\ \A i \in DOMAIN msgs[c] :
                msgs[c][i].job # NoJob => content[msgs[c][i].job] = "param"

(***************************************************************************)
(* "could not insert workload id ... double entry?" is never printed, and  *)
(* re-inserting a job whose result could not be read, where a refusal      *)
(* would go unnoticed and lose the job, is never refused either.           *)
(* (JobServer.cc:408-409, 529)                                             *)
(***************************************************************************)
InsertNeverRefused ==
    \A c \in Conns :
        /\ pc[c] = "jobSent" => workloadID[Head(exp[c])] \notin DOMAIN m_runningJobs
        /\ \A i \in DOMAIN msgs[c] :
              msgs[c][i].job # NoJob => msgs[c][i].id \notin DOMAIN m_runningJobs

(***************************************************************************)
(* To the campaign all of this looks like a queue that completes each job  *)
(* at most once and returns the results in order.                          *)
(***************************************************************************)
StatusOf(j) ==
    CASE home[j] = "campaign" -> "new"
      [] home[j] = "skipped" -> "skipped"
      [] home[j] = "done" -> "complete"
      [] home[j] \in {"collected", "deleted"} -> "returned"
      [] OTHER -> "open"

Distribution ==
    INSTANCE JobDistribution
    WITH Batches <- SeqsUpTo(Jobs, MaxJobSize),
         status  <- [j \in Jobs |-> StatusOf(j)],
         results <- m_doneJobs,
         closed  <- noMoreExps,
         ended   <- gotNull

(***************************************************************************)
(* The job server implements JobDistribution: addParam, skipJobs,          *)
(* setNoMoreExperiments and getDone are its Submit, Skip, Close and Return *)
(* (End when getDone returns NULL), the end of receiveExperimentResults    *)
(* (JobServer.cc:520-531) is its Complete, and no other step changes what  *)
(* the campaign can see.                                                   *)
(***************************************************************************)
DistributionSpec == Distribution!Spec

(***************************************************************************)
(* A job that was added comes back to the campaign, unless it is leaked or *)
(* the campaign has been told that no more results are to be expected.     *)
(***************************************************************************)
JobReturned ==
    \A j \in Jobs :
        home[j] = "undone" ~> (home[j] \in {"deleted", "leaked"} \/ gotNull)

(***************************************************************************)
(* After setNoMoreExperiments() the collector thread gets its NULL: it is  *)
(* not left waiting for a result that nobody will deliver, whichever of    *)
(* the two places in the code makes the last "all results complete?" check *)
(* (JobServer.cc:200-203, 533-538).                                        *)
(***************************************************************************)
CollectorEnds == noMoreExps ~> (gotNull \/ \E j \in Jobs : home[j] = "leaked")

-----------------------------------------------------------------------------
(***************************************************************************)
(* What a comment in the code says, and the code does not keep.            *)
(***************************************************************************)

(***************************************************************************)
(* Running jobs are sent again "to prevent result loss due to (unexpected) *)
(* termination of experiment clients" (JobServer.cc:442-444): whenever a   *)
(* client is gone, the server still has a pointer to the job.              *)
(***************************************************************************)
NoJobLeaked == \A j \in Jobs : home[j] # "leaked"

=============================================================================
