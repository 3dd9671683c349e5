-------------------------- MODULE JobServerInvariant --------------------------
(***************************************************************************)
(* The inductive invariant behind the safety properties of JobServer.      *)
(***************************************************************************)
EXTENDS JobServer, Functions

HeldBy(p) == {j \in Jobs : home[j] = p}

JobsOf(ms) == {ms[i].job : i \in DOMAIN ms} \ {NoJob}

DistinctJobs(ms) ==
    \A i, k \in DOMAIN ms : ms[i].job = ms[k].job /\ ms[i].job # NoJob => i = k

Sending == {"sendCtrl", "sendJob", "jobSent", "requeue"}

(***************************************************************************)
(* What a coroutine holds, depending on where it is.                       *)
(***************************************************************************)
PcInv ==
    \A c \in Conns :
        /\ pc[c] \in Sending => exp[c] # <<>>
        /\ exp[c] # <<>> => pc[c] \in Sending \cup {"dequeue"}
        /\ pc[c] = "rcvResult" <=> msgs[c] # <<>>
        /\ recvd[c] # <<>> => pc[c] = "rcvResult"
        /\ Len(msgs[c]) + Len(recvd[c]) <= MaxJobSize
        /\ pc[c] = "resendCtrl" <=> temp_exp[c] # NoJob

(***************************************************************************)
(* home says where the one pointer to each job is, for every container.    *)
(***************************************************************************)
HomeInv ==
    /\ Range(m_undoneJobs) = HeldBy("undone")
    /\ IsInjective(m_undoneJobs)
    /\ Range(m_runningJobs) = HeldBy("running")
    /\ Range(m_doneJobs) = HeldBy("done")
    /\ IsInjective(m_doneJobs)
    /\ HeldBy("collected") = {collected} \ {NoJob}
    /\ \A c \in Conns :
          /\ HeldBy(c) = Range(exp[c]) \cup Range(recvd[c]) \cup JobsOf(msgs[c])
          /\ IsInjective(exp[c])
          /\ IsInjective(recvd[c])
          /\ JobsOf(msgs[c]) \cap Range(recvd[c]) = {}
          /\ DistinctJobs(msgs[c])

(***************************************************************************)
(* Workload IDs: fresh, unique, and the key of the job in m_runningJobs.   *)
(***************************************************************************)
NotSentYet == {"campaign", "skipped", "undone"}

IdInv ==
    /\ \A j \in Jobs : workloadID[j] <= m_counter
    /\ \A j, k \in Jobs : workloadID[j] = workloadID[k] /\ workloadID[j] # 0 => j = k
    /\ \A j \in Jobs : home[j] \notin NotSentYet => workloadID[j] # 0
    /\ \A id \in DOMAIN m_runningJobs : workloadID[m_runningJobs[id]] = id
    /\ \A c \in Conns : \A i \in DOMAIN msgs[c] :
          msgs[c][i].job # NoJob => workloadID[msgs[c][i].job] = msgs[c][i].id

(***************************************************************************)
(* What the jobs hold.                                                     *)
(***************************************************************************)
ContentInv ==
    /\ \A j \in Jobs : home[j] \in NotSentYet \cup {"running"} => content[j] = "param"
    /\ \A j \in Jobs : home[j] \in {"done", "collected"} => content[j] = "result"
    /\ \A c \in Conns :
          /\ \A j \in Range(exp[c]) \cup JobsOf(msgs[c]) : content[j] = "param"
          /\ \A j \in Range(recvd[c]) : content[j] = "result"

(***************************************************************************)
(* A job that has been sent, or is about to be sent again, keeps its ID:   *)
(* it is out of reach of the code that requeues and renumbers.             *)
(***************************************************************************)
Sent(j) ==
    /\ home[j] \notin NotSentYet
    /\ \A c \in Conns : j \in Range(exp[c]) => pc[c] = "jobSent" /\ j = Head(exp[c])

ClientInv ==
    /\ \A w \in clientJobs :
          /\ w.id = workloadID[w.job]
          /\ Sent(w.job)
          /\ w.intact \/ content[w.job] # "param"
    /\ \A c \in Conns : temp_exp[c] # NoJob => Sent(temp_exp[c])
    /\ \A c \in Conns : \A i \in DOMAIN msgs[c] :
          msgs[c][i].job # NoJob =>
              msgs[c][i].data.job = msgs[c][i].job /\ msgs[c][i].data.intact

Inv ==
    /\ TypeOK
    /\ PcInv
    /\ HomeInv
    /\ IdInv
    /\ ContentInv
    /\ ClientInv
    /\ doneFinished => noMoreExps

=============================================================================
