------------------------------ MODULE JobClient ------------------------------
(***************************************************************************)
(* The job client of a minion (core/efw/JobClient.cc) under the loop of    *)
(* DatabaseExperiment::run, and the job servers it meets: a server can end *)
(* or crash at any time, and another run of it can be started at the same  *)
(* address.                                                                *)
(*                                                                         *)
(* The client is sequential and its socket operations block; a step is one *)
(* socket operation or the code between two of them.  Of the server only   *)
(* the two tests of the run ID and the answers are modelled here; JobServer*)
(* has the rest.                                                           *)
(***************************************************************************)
EXTENDS Integers, Sequences

CONSTANTS
    CLIENT_RETRY_COUNT,
    CLIENT_JOB_INITIAL,
    CLIENT_JOB_LIMIT,
    MaxExperiments,     \* experiments after which a minion ends (25)
    Destroyed,          \* whether the owner of the client ever destroys it
    MaxRuns,            \* bound: runs of the server
    MaxID,              \* bound: workload IDs of a run
    MaxFaults           \* bound: socket operations that fail with a live server

ASSUME ClientAssumption ==
    /\ CLIENT_RETRY_COUNT \in Nat
    /\ CLIENT_JOB_LIMIT \in Nat \ {0}
    /\ CLIENT_JOB_INITIAL \in 1..CLIENT_JOB_LIMIT
    /\ MaxExperiments \in Nat \ {0}
    /\ Destroyed \in BOOLEAN
    /\ MaxRuns \in Nat \ {0}
    /\ MaxID \in Nat \ {0}
    /\ MaxFaults \in Nat

VARIABLES
    \* members of JobClient
    m_server_runid,
    m_parameters,       \* jobs fetched and not yet handed to the experiment
    m_results,          \* results not yet sent
    m_job_throughput,   \* jobs to ask for
    m_connect_failed,
    socket,             \* run of the server it is connected to, or Closed
    \* the call in progress
    pc,
    cont,               \* what connectToServer() was called for
    tries,              \* attempts left
    param,              \* the job the experiment works on
    executed,           \* executed_jobs of the experiment's loop
    dying,              \* inside ~JobClient
    \* the server
    up,                 \* a server is running
    run,                \* its m_runid (the time at which it was started)
    running,            \* IDs of its jobs that are given out and have no result
    reply,              \* its answer on the connection
    accepted,           \* results it has taken, with the run that took them
    faults,
    \* history variables
    refused,            \* attempts of this connectToServer() that met no server
    fetched,            \* number of jobs received
    sent                \* number of results sent

memberVars  == <<m_server_runid, m_parameters, m_results, m_job_throughput, m_connect_failed>>
serverVars  == <<up, run, running, accepted>>
historyVars == <<refused, fetched, sent>>
vars == <<memberVars, socket, pc, cont, tries, param, executed, dying, serverVars, reply, faults,
          historyVars>>

Closed == 0
NoReply == [cmd |-> "none", run |-> 0, jobs |-> <<>>]
NoJob == [run |-> 0, id |-> 0]

Works == [run : 0..MaxRuns, id : 0..MaxID]

SeqsUpTo(S, n) == UNION {[1..k -> S] : k \in 1..n}

Pcs == {"loop", "getParam", "connect", "needWork", "await", "rcvJob", "run", "sendCtrl",
        "sendResult", "flush", "dead"}

TypeOK ==
    /\ m_server_runid \in 0..MaxRuns
    /\ m_parameters \in Seq(Works)
    /\ m_results \in Seq(Works)
    /\ m_job_throughput \in 1..CLIENT_JOB_LIMIT
    /\ m_connect_failed \in BOOLEAN
    /\ socket \in 0..MaxRuns
    /\ pc \in Pcs
    /\ cont \in {"needWork", "sendCtrl"}
    /\ tries \in 0..(CLIENT_RETRY_COUNT + 1)
    /\ param \in Works
    /\ executed \in 0..MaxExperiments
    /\ dying \in BOOLEAN
    /\ up \in BOOLEAN
    /\ run \in 1..MaxRuns
    /\ running \subseteq 1..MaxID
    /\ reply \in [cmd : {"none", "WORK_FOLLOWS", "COME_AGAIN", "DIE"}, run : 0..MaxRuns,
                  jobs : Seq(Works)]
    /\ accepted \subseteq [by : 1..MaxRuns, work : Works]
    /\ faults \in 0..MaxFaults
    /\ refused \in 0..(CLIENT_RETRY_COUNT + 1)
    /\ fetched \in Nat
    /\ sent \in Nat

Init ==
    /\ m_server_runid = 0
    /\ m_parameters = <<>>
    /\ m_results = <<>>
    /\ m_job_throughput = CLIENT_JOB_INITIAL
    /\ m_connect_failed = FALSE
    /\ socket = Closed
    /\ pc = "loop"
    /\ cont = "needWork"
    /\ tries = 0
    /\ param = NoJob
    /\ executed = 0
    /\ dying = FALSE
    /\ up \in BOOLEAN
    /\ run = 1
    /\ running = {}
    /\ reply = NoReply
    /\ accepted = {}
    /\ faults = 0
    /\ refused = 0
    /\ fetched = 0
    /\ sent = 0

-----------------------------------------------------------------------------
(***************************************************************************)
(* The server at the other end of the socket is alive.                     *)
(***************************************************************************)
PeerAlive == up /\ socket = run

(***************************************************************************)
(* A socket operation fails because the server is gone, or by bad luck.    *)
(***************************************************************************)
SocketFails ==
    \/ ~PeerAlive /\ UNCHANGED faults
    \/ PeerAlive /\ faults < MaxFaults /\ faults' = faults + 1

(***************************************************************************)
(* getParam() returns false, or the loop ends: simulator.terminate() calls *)
(* exit(), and only if the client has an owner that is destroyed then does *)
(* its destructor run.                                                     *)
(***************************************************************************)
Terminate ==
    /\ pc' = IF Destroyed THEN "flush" ELSE "dead"
    /\ dying' = Destroyed

(***************************************************************************)
(* sendResultsToServer() returns to sendResult() or to the destructor.     *)
(***************************************************************************)
ReturnFromSending == pc' = (IF dying THEN "dead" ELSE "loop")

(***************************************************************************)
(* connectToServer() is entered with m_connect_failed = FALSE.             *)
(***************************************************************************)
Connect(next) ==
    /\ pc' = "connect"
    /\ cont' = next
    /\ tries' = CLIENT_RETRY_COUNT + 1
    /\ refused' = 0

(***************************************************************************)
(* sendResultsToServer() up to the first attempt to connect.               *)
(***************************************************************************)
SendResultsToServer(results) ==
    IF results # <<>> /\ ~m_connect_failed
    THEN Connect("sendCtrl") /\ m_results' = results
    ELSE ReturnFromSending /\ m_results' = <<>> /\ UNCHANGED <<cont, tries, refused>>

-----------------------------------------------------------------------------
(***************************************************************************)
(* The loop of the experiment: a minion ends after some experiments, but   *)
(* not while it still has jobs.                                            *)
(***************************************************************************)
Loop ==
    /\ pc = "loop"
    /\ IF executed < MaxExperiments \/ m_parameters # <<>>
       THEN pc' = "getParam" /\ UNCHANGED dying
       ELSE Terminate
    /\ UNCHANGED <<memberVars, socket, cont, tries, param, executed, serverVars, reply, faults,
                   historyVars>>

GetParamDies ==
    /\ pc = "getParam"
    /\ m_connect_failed
    /\ Terminate
    /\ UNCHANGED <<memberVars, socket, cont, tries, param, executed, serverVars, reply, faults,
                   historyVars>>

GetParamFromBuffer ==
    /\ pc = "getParam"
    /\ ~m_connect_failed
    /\ m_parameters # <<>>
    /\ param' = Head(m_parameters)
    /\ m_parameters' = Tail(m_parameters)
    /\ pc' = "run"
    /\ UNCHANGED <<m_server_runid, m_results, m_job_throughput, m_connect_failed, socket, cont,
                   tries, executed, dying, serverVars, reply, faults, historyVars>>

GetParamFromServer ==
    /\ pc = "getParam"
    /\ ~m_connect_failed
    /\ m_parameters = <<>>
    /\ Connect("needWork")
    /\ UNCHANGED <<memberVars, socket, param, executed, dying, serverVars, reply, faults, fetched,
                   sent>>

ConnectSucceeds ==
    /\ pc = "connect"
    /\ socket = Closed
    /\ up
    /\ socket' = run
    /\ pc' = cont
    /\ UNCHANGED <<memberVars, cont, tries, param, executed, dying, serverVars, reply, faults,
                   historyVars>>

\* mutant: a socket that could not be connected is not closed
MutConnectFails ==
    /\ pc = "connect"
    /\ socket # Closed \/ ~up
    /\ tries > 1
    /\ tries' = tries - 1
    /\ refused' = IF socket = Closed THEN refused + 1 ELSE refused
    /\ UNCHANGED <<memberVars, socket, pc, cont, param, executed, dying, serverVars, reply, faults,
                   fetched, sent>>

(***************************************************************************)
(* connect() fails if there is no server, and on a socket that was left    *)
(* open; it is closed, and after a random delay there is another attempt.  *)
(***************************************************************************)
ConnectFails ==
    /\ pc = "connect"
    /\ socket # Closed \/ ~up
    /\ tries > 1
    /\ tries' = tries - 1
    /\ socket' = Closed
    /\ refused' = IF socket = Closed THEN refused + 1 ELSE refused
    /\ UNCHANGED <<memberVars, pc, cont, param, executed, dying, serverVars, reply, faults,
                   fetched, sent>>

\* mutant: an unreachable server is treated like one that has no work
MutGiveUp ==
    /\ pc = "connect"
    /\ socket # Closed \/ ~up
    /\ tries = 1
    /\ socket' = Closed
    /\ pc' = IF cont = "needWork" THEN "getParam" ELSE IF dying THEN "dead" ELSE "loop"
    /\ UNCHANGED <<memberVars, tries, cont, param, executed, dying, serverVars, reply, faults,
                   historyVars>>

(***************************************************************************)
(* The last attempt fails: getParam() returns false; a sending client      *)
(* forgets its results.                                                    *)
(***************************************************************************)
GiveUp ==
    /\ pc = "connect"
    /\ socket # Closed \/ ~up
    /\ tries = 1
    /\ tries' = 0
    /\ socket' = Closed
    /\ refused' = IF socket = Closed THEN refused + 1 ELSE refused
    /\ m_connect_failed' = TRUE
    /\ IF cont = "needWork"
       THEN Terminate /\ UNCHANGED m_results
       ELSE ReturnFromSending /\ m_results' = <<>> /\ UNCHANGED dying
    /\ UNCHANGED <<m_server_runid, m_parameters, m_job_throughput, cont, param, executed,
                   serverVars, reply, faults, fetched, sent>>

-----------------------------------------------------------------------------
(***************************************************************************)
(* tryToGetExperimentData() on a fresh connection.                         *)
(***************************************************************************)
SendNeedWork ==
    /\ pc = "needWork"
    /\ pc' = "await"
    /\ UNCHANGED <<memberVars, socket, cont, tries, param, executed, dying, serverVars, reply,
                   faults, historyVars>>

(***************************************************************************)
(* NEED_WORK cannot be sent or is not answered: COME_AGAIN.                *)
(***************************************************************************)
NeedWorkFails ==
    /\ pc \in {"needWork", "await"}
    /\ SocketFails
    /\ socket' = Closed
    /\ reply' = NoReply
    /\ pc' = "getParam"
    /\ UNCHANGED <<memberVars, cont, tries, param, executed, dying, serverVars, historyVars>>

\* mutant: old clients are served
MutServesRun(runid) == TRUE

ServesRun(runid) == runid \in {0, run}

(***************************************************************************)
(* The answer to an old client has no run ID, which reads as 0.            *)
(***************************************************************************)
OldClientAnswer == [cmd |-> "DIE", run |-> 0, jobs |-> <<>>]

(***************************************************************************)
(* There are jobs to give out, at least those that are given out already.  *)
(***************************************************************************)
ServerSendsWork ==
    /\ pc = "await"
    /\ reply = NoReply
    /\ PeerAlive
    /\ ServesRun(m_server_runid)
    /\ \E ids \in SeqsUpTo(1..MaxID, m_job_throughput) :
          /\ reply' = [cmd  |-> "WORK_FOLLOWS", run |-> run,
                       jobs |-> [i \in DOMAIN ids |-> [run |-> run, id |-> ids[i]]]]
          /\ running' = running \cup {ids[i] : i \in DOMAIN ids}
    /\ UNCHANGED <<memberVars, socket, pc, cont, tries, param, executed, dying, up, run, accepted,
                   faults, historyVars>>

ServerHasNoWork ==
    /\ pc = "await"
    /\ reply = NoReply
    /\ PeerAlive
    /\ \/ /\ ServesRun(m_server_runid)
          /\ running = {}
          /\ \E cmd \in {"COME_AGAIN", "DIE"} : reply' = [cmd |-> cmd, run |-> run, jobs |-> <<>>]
       \/ /\ ~ServesRun(m_server_runid)
          /\ reply' = OldClientAnswer
    /\ UNCHANGED <<memberVars, socket, pc, cont, tries, param, executed, dying, serverVars, faults,
                   historyVars>>

ReadAnswer ==
    /\ pc = "await"
    /\ reply # NoReply
    /\ m_server_runid' = reply.run
    /\ \/ reply.cmd = "WORK_FOLLOWS" /\ pc' = "rcvJob" /\ UNCHANGED <<socket, reply, dying>>
       \/ /\ reply.cmd # "WORK_FOLLOWS"
          /\ socket' = Closed
          /\ reply' = NoReply
          /\ IF reply.cmd = "COME_AGAIN" THEN pc' = "getParam" /\ UNCHANGED dying ELSE Terminate
    /\ UNCHANGED <<m_parameters, m_results, m_job_throughput, m_connect_failed, cont, tries, param,
                   executed, serverVars, faults, historyVars>>

RcvJob ==
    /\ pc = "rcvJob"
    /\ m_parameters' = Append(m_parameters, Head(reply.jobs))
    /\ fetched' = fetched + 1
    /\ IF Tail(reply.jobs) = <<>>
       THEN socket' = Closed /\ pc' = "getParam" /\ reply' = NoReply
       ELSE UNCHANGED <<socket, pc>> /\ reply' = [reply EXCEPT !.jobs = Tail(@)]
    /\ UNCHANGED <<m_server_runid, m_results, m_job_throughput, m_connect_failed, cont, tries,
                   param, executed, dying, serverVars, faults, refused, sent>>

(***************************************************************************)
(* "did a previous loop iteration succeed?"  If not, the function returns  *)
(* without closing the socket.                                             *)
(***************************************************************************)
RcvJobFails ==
    /\ pc = "rcvJob"
    /\ SocketFails
    /\ socket' = IF m_parameters # <<>> THEN Closed ELSE socket
    /\ reply' = NoReply
    /\ pc' = "getParam"
    /\ UNCHANGED <<memberVars, cont, tries, param, executed, dying, serverVars, historyVars>>

-----------------------------------------------------------------------------
\* mutant: the request size is only bounded above
MutClamped(n) == IF n > CLIENT_JOB_LIMIT THEN CLIENT_JOB_LIMIT ELSE n

(***************************************************************************)
(* The new request size depends on the time the jobs took.                 *)
(***************************************************************************)
Clamped(n) == IF n > CLIENT_JOB_LIMIT THEN CLIENT_JOB_LIMIT ELSE IF n < 1 THEN 1 ELSE n

(***************************************************************************)
(* A job consists of several experiments.  The counter is only compared    *)
(* with MaxExperiments.                                                    *)
(***************************************************************************)
Executed(n) == IF executed + n < MaxExperiments THEN executed + n ELSE MaxExperiments

(***************************************************************************)
(* The experiments of a job are over: sendResult().  While there are jobs  *)
(* left, results are sent only when CLIENT_JOB_REQUEST_SEC is over.        *)
(***************************************************************************)
SendResult ==
    /\ pc = "run"
    /\ \E n \in 1..MaxExperiments : executed' = Executed(n)
    /\ param' = NoJob
    /\ \/ /\ m_parameters # <<>>
          /\ m_results' = Append(m_results, param)
          /\ pc' = "loop"
          /\ UNCHANGED <<m_job_throughput, cont, tries, refused>>
       \/ /\ m_parameters # <<>>
          /\ SendResultsToServer(Append(m_results, param))
          /\ UNCHANGED m_job_throughput
       \/ /\ m_parameters = <<>>
          /\ \E n \in 0..(CLIENT_JOB_LIMIT + 1) : m_job_throughput' = Clamped(n)
          /\ SendResultsToServer(Append(m_results, param))
    /\ UNCHANGED <<m_server_runid, m_parameters, m_connect_failed, socket, dying, serverVars, reply,
                   faults, fetched, sent>>

(***************************************************************************)
(* ~JobClient() sends what is left.                                        *)
(***************************************************************************)
Flush ==
    /\ pc = "flush"
    /\ SendResultsToServer(m_results)
    /\ UNCHANGED <<m_server_runid, m_parameters, m_job_throughput, m_connect_failed, socket, param,
                   executed, dying, serverVars, reply, faults, fetched, sent>>

SendCtrl ==
    /\ pc = "sendCtrl"
    /\ pc' = "sendResult"
    /\ UNCHANGED <<memberVars, socket, cont, tries, param, executed, dying, serverVars, reply,
                   faults, historyVars>>

(***************************************************************************)
(* "ignore old client's results"                                           *)
(***************************************************************************)
AcceptsResultsOf(runid) == runid = run

\* mutant: a result is forgotten before it is known whether it was sent
MutSendingFails ==
    /\ pc \in {"sendCtrl", "sendResult"}
    /\ SocketFails
    /\ socket' = Closed
    /\ m_results' = Tail(m_results)
    /\ ReturnFromSending
    /\ UNCHANGED <<m_server_runid, m_parameters, m_job_throughput, m_connect_failed, cont, tries,
                   param, executed, dying, serverVars, reply, historyVars>>

(***************************************************************************)
(* The rest of the results is kept for the next call.                      *)
(***************************************************************************)
SendingFails ==
    /\ pc \in {"sendCtrl", "sendResult"}
    /\ SocketFails
    /\ socket' = Closed
    /\ ReturnFromSending
    /\ UNCHANGED <<memberVars, cont, tries, param, executed, dying, serverVars, reply, historyVars>>

(***************************************************************************)
(* A result is written to the socket.  A live server takes it, unless it   *)
(* has had another client's result of the same job.                        *)
(***************************************************************************)
ResultSent ==
    /\ pc = "sendResult"
    /\ IF PeerAlive /\ AcceptsResultsOf(m_server_runid) /\ Head(m_results).id \in running
       THEN /\ accepted' = accepted \cup {[by |-> run, work |-> Head(m_results)]}
            /\ running' = running \ {Head(m_results).id}
       ELSE UNCHANGED <<accepted, running>>
    /\ m_results' = Tail(m_results)
    /\ sent' = sent + 1
    /\ IF Tail(m_results) = <<>>
       THEN socket' = Closed /\ ReturnFromSending
       ELSE UNCHANGED <<socket, pc>>
    /\ UNCHANGED <<m_server_runid, m_parameters, m_job_throughput, m_connect_failed, cont, tries,
                   param, executed, dying, up, run, reply, faults, refused,
                   fetched>>

-----------------------------------------------------------------------------
(***************************************************************************)
(* The server ends or crashes, and may be started again.                   *)
(***************************************************************************)
ServerEnds ==
    /\ up
    /\ up' = FALSE
    /\ UNCHANGED <<memberVars, socket, pc, cont, tries, param, executed, dying, run, running,
                   reply, accepted, faults, historyVars>>

ServerStarts ==
    /\ ~up
    /\ run < MaxRuns
    /\ up' = TRUE
    /\ run' = run + 1
    /\ running' = {}
    /\ UNCHANGED <<memberVars, socket, pc, cont, tries, param, executed, dying, reply, accepted,
                   faults, historyVars>>

(***************************************************************************)
(* Another minion gets a job, perhaps one that this one has as well, or is *)
(* done with it.                                                           *)
(***************************************************************************)
OtherMinion ==
    /\ up
    /\ \E id \in 1..MaxID : running' = running \cup {id} \/ running' = running \ {id}
    /\ UNCHANGED <<memberVars, socket, pc, cont, tries, param, executed, dying, up, run, reply,
                   accepted, faults, historyVars>>

ClientStep ==
    \/ Loop \/ GetParamDies \/ GetParamFromBuffer \/ GetParamFromServer
    \/ ConnectSucceeds \/ ConnectFails \/ GiveUp
    \/ SendNeedWork \/ NeedWorkFails \/ ReadAnswer \/ RcvJob \/ RcvJobFails
    \/ SendResult \/ Flush \/ SendCtrl \/ SendingFails \/ ResultSent

Terminated == pc = "dead" /\ UNCHANGED vars

ServerAnswers == ServerSendsWork \/ ServerHasNoWork

Next ==
    \/ ClientStep \/ Terminated
    \/ ServerAnswers \/ ServerEnds \/ ServerStarts \/ OtherMinion

Spec == Init /\ [][Next]_vars

(***************************************************************************)
(* The client's thread runs, and a live server answers.                    *)
(***************************************************************************)
FairSpec == Spec /\ WF_vars(ClientStep) /\ WF_vars(ServerAnswers)

-----------------------------------------------------------------------------
(***************************************************************************)
(* Whatever is lost, repeated or restarted, a server takes only results of *)
(* jobs that the same run of it has given out: workload IDs start anew in  *)
(* every run, so a result of an earlier run would be stored for another    *)
(* job ("prevents old clients talking to new servers").                    *)
(***************************************************************************)
ResultsOfOwnRun == \A a \in accepted : a.by = a.work.run

(***************************************************************************)
(* Every job that was received is waiting, being worked on, finished and   *)
(* kept, or its result was sent, until the client gives up: sendResult()   *)
(* and the failing exits of sendResultsToServer() drop and repeat nothing. *)
(***************************************************************************)
Busy == IF pc = "run" THEN 1 ELSE 0

JobsAccountedFor ==
    ~m_connect_failed => fetched = Len(m_parameters) + Busy + Len(m_results) + sent

(***************************************************************************)
(* The client gives up for good only after CLIENT_RETRY_COUNT attempts     *)
(* that really met no server: an attempt that fails because the socket was *)
(* left open after an incomplete answer costs one try, no more.            *)
(***************************************************************************)
GivesUpLate == m_connect_failed => refused >= CLIENT_RETRY_COUNT

(***************************************************************************)
(* When the campaign is over and the server gone, every minion ends.       *)
(***************************************************************************)
MinionEnds == <>[]~up => <>(pc = "dead")

(***************************************************************************)
(* A job that is being worked on gets its result, if the server stays,     *)
(* even if sending the result fails at first; unless the client ends with  *)
(* the result in hand.                                                     *)
(***************************************************************************)
JobAnswered ==
    \A w \in [run : 1..MaxRuns, id : 1..MaxID] :
        (pc = "run" /\ param = w) ~>
            \/ ~up \/ run # w.run \/ w.id \notin running
            \/ pc = "dead" /\ \E i \in DOMAIN m_results : m_results[i] = w

=============================================================================
