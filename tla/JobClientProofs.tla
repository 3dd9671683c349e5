--------------------------- MODULE JobClientProofs ---------------------------
(***************************************************************************)
(* The safety properties of JobClient, for any retry count, request size,  *)
(* number of server runs, jobs and failing socket operations.              *)
(***************************************************************************)
EXTENDS JobClient, TLAPS

(***************************************************************************)
(* Facts about sequences in a form in which the elements are kept apart    *)
(* from the lengths.                                                       *)
(***************************************************************************)
LEMMA AppendFacts ==
    ASSUME NEW S, NEW s \in Seq(S), NEW x \in S
    PROVE  /\ Append(s, x) \in Seq(S)
           /\ Append(s, x) # <<>>
           /\ Len(s) \in Nat
           /\ Len(Append(s, x)) = Len(s) + 1
           /\ \A i \in DOMAIN Append(s, x) :
                 Append(s, x)[i] = x \/ (i \in DOMAIN s /\ Append(s, x)[i] = s[i])
OBVIOUS

(***************************************************************************)
(* The same for what is left when the first element is taken.              *)
(***************************************************************************)
LEMMA TailFacts ==
    ASSUME NEW S, NEW s \in Seq(S), s # <<>>
    PROVE  /\ Tail(s) \in Seq(S)
           /\ Head(s) \in S
           /\ 1 \in DOMAIN s /\ s[1] = Head(s)
           /\ Len(s) \in Nat
           /\ Len(Tail(s)) = Len(s) - 1
           /\ \A i \in DOMAIN Tail(s) : i + 1 \in DOMAIN s /\ Tail(s)[i] = s[i + 1]
OBVIOUS

-----------------------------------------------------------------------------
(***************************************************************************)
(* The inductive invariant.  The control state: what is known where.       *)
(***************************************************************************)
Dying == dying \/ pc = "dead"

PcInv ==
    /\ pc = "connect" => ~m_connect_failed /\ tries >= 1
    /\ pc = "connect" /\ cont = "sendCtrl" => m_results # <<>>
    /\ pc \in {"sendCtrl", "sendResult"} => m_results # <<>>
    /\ pc = "rcvJob" => reply.jobs # <<>>
    /\ reply.cmd = "WORK_FOLLOWS" => reply.jobs # <<>>
    /\ dying => pc \in {"flush", "connect", "sendCtrl", "sendResult", "dead"}
    /\ dying /\ pc = "connect" => cont = "sendCtrl"
    /\ pc \notin {"await", "rcvJob"} => reply = NoReply

(***************************************************************************)
(* All jobs of the client come from the run that it remembers, and this is *)
(* no longer so only when it has been told to die.                         *)
(***************************************************************************)
OfRun(s, r) == \A i \in DOMAIN s : s[i].run = r

RunInv ==
    /\ pc = "run" => param.run # 0
    /\ \A i \in DOMAIN m_parameters : m_parameters[i].run # 0
    /\ \A i \in DOMAIN m_results : m_results[i].run # 0
    /\ m_server_runid # 0 \/ ~Dying =>
          /\ OfRun(m_parameters, m_server_runid)
          /\ OfRun(m_results, m_server_runid)
          /\ pc = "run" => param.run = m_server_runid
    /\ \A i \in DOMAIN reply.jobs : reply.jobs[i].run = reply.run /\ reply.run # 0
    /\ pc = "rcvJob" => reply.run = m_server_runid
    /\ pc = "await" /\ reply # NoReply =>
          \/ reply.run = 0 /\ reply.cmd = "DIE"
          \/ reply.run # 0 /\ m_server_runid \in {0, reply.run}

(***************************************************************************)
(* How many attempts to connect are left.                                  *)
(***************************************************************************)
TriesInv ==
    pc = "connect" =>
        /\ tries + refused >= CLIENT_RETRY_COUNT
        /\ tries + refused <= CLIENT_RETRY_COUNT + 1
        /\ socket # Closed => tries = CLIENT_RETRY_COUNT + 1 /\ refused = 0

ClientInv ==
    TypeOK /\ PcInv /\ RunInv /\ TriesInv /\ ResultsOfOwnRun /\ JobsAccountedFor /\ GivesUpLate

-----------------------------------------------------------------------------
(***************************************************************************)
(* The invariant holds initially.                                          *)
(***************************************************************************)
LEMMA InitClientInv == Init => ClientInv
<1> SUFFICES ASSUME Init PROVE ClientInv
  OBVIOUS
<1>1. /\ m_connect_failed \in BOOLEAN
      /\ dying \in BOOLEAN
      /\ up \in BOOLEAN
  BY Zenon DEF Init
<1>2. reply \in [cmd : {"none", "WORK_FOLLOWS", "COME_AGAIN", "DIE"}, run : 0..MaxRuns,
                 jobs : Seq(Works)]
  BY ClientAssumption DEF Init, NoReply
<1>3. TypeOK
  BY <1>1, <1>2, ClientAssumption DEF Init, TypeOK, Works, Pcs, NoJob, Closed
<1>4. PcInv /\ RunInv /\ TriesInv
  BY DEF Init, PcInv, RunInv, TriesInv, OfRun, NoReply, Closed
<1>5. ResultsOfOwnRun /\ JobsAccountedFor /\ GivesUpLate
  BY DEF Init, ResultsOfOwnRun, JobsAccountedFor, GivesUpLate, Busy
<1> QED
  BY <1>3, <1>4, <1>5 DEF ClientInv

(***************************************************************************)
(* Steps that move no job.                                                 *)
(***************************************************************************)
LEMMA NothingMoved ==
    ASSUME ClientInv,
           UNCHANGED <<m_server_runid, m_parameters, m_results, m_connect_failed, param, accepted,
                       fetched, sent>>,
           pc' = "run" <=> pc = "run",
           Dying => Dying',
           reply' \in {reply, NoReply},
           pc' = "rcvJob" => pc = "rcvJob" /\ reply' = reply,
           pc' = "await" => reply' = NoReply \/ (pc = "await" /\ reply' = reply)
    PROVE  RunInv' /\ ResultsOfOwnRun' /\ JobsAccountedFor'
<1>1. RunInv'
  BY DEF ClientInv, RunInv, OfRun, NoReply
<1>2. ResultsOfOwnRun'
  BY DEF ClientInv, ResultsOfOwnRun
<1>3. JobsAccountedFor'
  BY DEF ClientInv, JobsAccountedFor, Busy
<1> QED
  BY <1>1, <1>2, <1>3

(***************************************************************************)
(* Steps of the loop, of getParam() and of connectToServer() that move no  *)
(* job.                                                                    *)
(***************************************************************************)
LEMMA LoopInv == ASSUME ClientInv, Loop PROVE ClientInv'
<1>1. TypeOK'
  BY ClientAssumption DEF ClientInv, PcInv, TypeOK, Pcs, TriesInv, NoReply, Closed, Loop, Terminate,
     memberVars, serverVars, historyVars
<1>2. PcInv' /\ TriesInv' /\ GivesUpLate'
  BY ClientAssumption DEF ClientInv, TypeOK, PcInv, TriesInv, GivesUpLate, NoReply, Closed, Loop,
     Terminate, memberVars, serverVars, historyVars
<1>3. RunInv' /\ ResultsOfOwnRun' /\ JobsAccountedFor'
  BY NothingMoved DEF ClientInv, PcInv, Dying, Loop, Terminate, memberVars, serverVars, historyVars
<1> QED
  BY <1>1, <1>2, <1>3 DEF ClientInv

(***************************************************************************)
(* getParam() returns false after a failed connection.                     *)
(***************************************************************************)
LEMMA GetParamDiesInv == ASSUME ClientInv, GetParamDies PROVE ClientInv'
<1>1. TypeOK'
  BY ClientAssumption DEF ClientInv, PcInv, TypeOK, Pcs, TriesInv, NoReply, Closed, GetParamDies,
     Terminate, memberVars, serverVars, historyVars
<1>2. PcInv' /\ TriesInv' /\ GivesUpLate'
  BY ClientAssumption DEF ClientInv, TypeOK, PcInv, TriesInv, GivesUpLate, NoReply, Closed,
     GetParamDies, Terminate, memberVars, serverVars, historyVars
<1>3. RunInv' /\ ResultsOfOwnRun' /\ JobsAccountedFor'
  BY NothingMoved DEF ClientInv, PcInv, Dying, GetParamDies, Terminate, memberVars, serverVars,
     historyVars
<1> QED
  BY <1>1, <1>2, <1>3 DEF ClientInv

(***************************************************************************)
(* The server is asked for jobs.                                           *)
(***************************************************************************)
LEMMA GetParamFromServerInv == ASSUME ClientInv, GetParamFromServer PROVE ClientInv'
<1>1. TypeOK'
  BY ClientAssumption DEF ClientInv, PcInv, TypeOK, Pcs, TriesInv, NoReply, Closed,
     GetParamFromServer, Connect, memberVars, serverVars, historyVars
<1>2. PcInv' /\ TriesInv' /\ GivesUpLate'
  BY ClientAssumption DEF ClientInv, TypeOK, PcInv, TriesInv, GivesUpLate, NoReply, Closed,
     GetParamFromServer, Connect, memberVars, serverVars, historyVars
<1>3. RunInv' /\ ResultsOfOwnRun' /\ JobsAccountedFor'
  BY NothingMoved DEF ClientInv, PcInv, Dying, GetParamFromServer, Connect, memberVars, serverVars,
     historyVars
<1> QED
  BY <1>1, <1>2, <1>3 DEF ClientInv

(***************************************************************************)
(* connectToServer() succeeds.                                             *)
(***************************************************************************)
LEMMA ConnectSucceedsInv == ASSUME ClientInv, ConnectSucceeds PROVE ClientInv'
<1>1. TypeOK'
  BY ClientAssumption DEF ClientInv, PcInv, TypeOK, Pcs, TriesInv, NoReply, Closed, ConnectSucceeds,
     memberVars, serverVars, historyVars
<1>2. PcInv' /\ TriesInv' /\ GivesUpLate'
  BY ClientAssumption DEF ClientInv, TypeOK, PcInv, TriesInv, GivesUpLate, NoReply, Closed,
     ConnectSucceeds, memberVars, serverVars, historyVars
<1>3. RunInv' /\ ResultsOfOwnRun' /\ JobsAccountedFor'
  BY NothingMoved DEF ClientInv, PcInv, Dying, TypeOK, ConnectSucceeds, memberVars, serverVars,
     historyVars
<1> QED
  BY <1>1, <1>2, <1>3 DEF ClientInv

(***************************************************************************)
(* connectToServer() goes on trying.                                       *)
(***************************************************************************)
LEMMA ConnectFailsInv == ASSUME ClientInv, ConnectFails PROVE ClientInv'
<1>1. TypeOK'
  BY ClientAssumption DEF ClientInv, PcInv, TypeOK, Pcs, TriesInv, NoReply, Closed, ConnectFails,
     memberVars, serverVars, historyVars
<1>2. PcInv' /\ TriesInv' /\ GivesUpLate'
  BY ClientAssumption DEF ClientInv, TypeOK, PcInv, TriesInv, GivesUpLate, NoReply, Closed,
     ConnectFails, memberVars, serverVars, historyVars
<1>3. RunInv' /\ ResultsOfOwnRun' /\ JobsAccountedFor'
  BY NothingMoved DEF ClientInv, PcInv, Dying, ConnectFails, memberVars, serverVars, historyVars
<1> QED
  BY <1>1, <1>2, <1>3 DEF ClientInv

(***************************************************************************)
(* NEED_WORK is sent.                                                      *)
(***************************************************************************)
LEMMA SendNeedWorkInv == ASSUME ClientInv, SendNeedWork PROVE ClientInv'
<1>1. TypeOK'
  BY ClientAssumption DEF ClientInv, PcInv, TypeOK, Pcs, TriesInv, NoReply, Closed, SendNeedWork,
     memberVars, serverVars, historyVars
<1>2. PcInv' /\ TriesInv' /\ GivesUpLate'
  BY ClientAssumption DEF ClientInv, TypeOK, PcInv, TriesInv, GivesUpLate, NoReply, Closed,
     SendNeedWork, memberVars, serverVars, historyVars
<1>3. RunInv' /\ ResultsOfOwnRun' /\ JobsAccountedFor'
  BY NothingMoved DEF ClientInv, PcInv, Dying, SendNeedWork, memberVars, serverVars, historyVars
<1> QED
  BY <1>1, <1>2, <1>3 DEF ClientInv

(***************************************************************************)
(* NEED_WORK is not answered.                                              *)
(***************************************************************************)
LEMMA NeedWorkFailsInv == ASSUME ClientInv, NeedWorkFails PROVE ClientInv'
<1>1. TypeOK'
  BY ClientAssumption DEF ClientInv, PcInv, TypeOK, Pcs, TriesInv, NoReply, Closed, NeedWorkFails,
     SocketFails, memberVars, serverVars, historyVars
<1>2. PcInv' /\ TriesInv' /\ GivesUpLate'
  BY ClientAssumption DEF ClientInv, TypeOK, PcInv, TriesInv, GivesUpLate, NoReply, Closed,
     NeedWorkFails, SocketFails, memberVars, serverVars, historyVars
<1>3. RunInv' /\ ResultsOfOwnRun' /\ JobsAccountedFor'
  BY NothingMoved DEF ClientInv, PcInv, Dying, NeedWorkFails, SocketFails, memberVars, serverVars,
     historyVars
<1> QED
  BY <1>1, <1>2, <1>3 DEF ClientInv

(***************************************************************************)
(* A job does not arrive.                                                  *)
(***************************************************************************)
LEMMA RcvJobFailsInv == ASSUME ClientInv, RcvJobFails PROVE ClientInv'
<1>1. TypeOK'
  BY ClientAssumption DEF ClientInv, PcInv, TypeOK, Pcs, TriesInv, NoReply, Closed, RcvJobFails,
     SocketFails, memberVars, serverVars, historyVars
<1>2. PcInv' /\ TriesInv' /\ GivesUpLate'
  BY ClientAssumption DEF ClientInv, TypeOK, PcInv, TriesInv, GivesUpLate, NoReply, Closed,
     RcvJobFails, SocketFails, memberVars, serverVars, historyVars
<1>3. RunInv' /\ ResultsOfOwnRun' /\ JobsAccountedFor'
  BY NothingMoved DEF ClientInv, PcInv, Dying, RcvJobFails, SocketFails, memberVars, serverVars,
     historyVars
<1> QED
  BY <1>1, <1>2, <1>3 DEF ClientInv

(***************************************************************************)
(* RESULT_FOLLOWS is sent.                                                 *)
(***************************************************************************)
LEMMA SendCtrlInv == ASSUME ClientInv, SendCtrl PROVE ClientInv'
<1>1. TypeOK'
  BY ClientAssumption DEF ClientInv, PcInv, TypeOK, Pcs, TriesInv, NoReply, Closed, SendCtrl,
     memberVars, serverVars, historyVars
<1>2. PcInv' /\ TriesInv' /\ GivesUpLate'
  BY ClientAssumption DEF ClientInv, TypeOK, PcInv, TriesInv, GivesUpLate, NoReply, Closed,
     SendCtrl, memberVars, serverVars, historyVars
<1>3. RunInv' /\ ResultsOfOwnRun' /\ JobsAccountedFor'
  BY NothingMoved DEF ClientInv, PcInv, Dying, SendCtrl, memberVars, serverVars, historyVars
<1> QED
  BY <1>1, <1>2, <1>3 DEF ClientInv

(***************************************************************************)
(* Sending fails; the results are kept.                                    *)
(***************************************************************************)
LEMMA SendingFailsInv == ASSUME ClientInv, SendingFails PROVE ClientInv'
<1>1. TypeOK'
  BY ClientAssumption DEF ClientInv, PcInv, TypeOK, Pcs, TriesInv, NoReply, Closed, SendingFails,
     SocketFails, ReturnFromSending, memberVars, serverVars, historyVars
<1>2. PcInv' /\ TriesInv' /\ GivesUpLate'
  BY ClientAssumption DEF ClientInv, TypeOK, PcInv, TriesInv, GivesUpLate, NoReply, Closed,
     SendingFails, SocketFails, ReturnFromSending, memberVars, serverVars, historyVars
<1>3. RunInv' /\ ResultsOfOwnRun' /\ JobsAccountedFor'
  BY NothingMoved DEF ClientInv, PcInv, Dying, SendingFails, SocketFails, ReturnFromSending,
     memberVars, serverVars, historyVars
<1> QED
  BY <1>1, <1>2, <1>3 DEF ClientInv

(***************************************************************************)
(* A server ends.                                                          *)
(***************************************************************************)
LEMMA ServerEndsInv == ASSUME ClientInv, ServerEnds PROVE ClientInv'
<1>1. TypeOK'
  BY Zenon, ClientAssumption DEF ClientInv, PcInv, TypeOK, Pcs, TriesInv, NoReply, Closed, ServerEnds,
     memberVars, serverVars, historyVars
<1>2. PcInv' /\ TriesInv' /\ GivesUpLate'
  BY ClientAssumption DEF ClientInv, TypeOK, PcInv, TriesInv, GivesUpLate, NoReply, Closed,
     ServerEnds, memberVars, serverVars, historyVars
<1>3. RunInv' /\ ResultsOfOwnRun' /\ JobsAccountedFor'
  BY NothingMoved DEF ClientInv, PcInv, Dying, ServerEnds, memberVars, serverVars, historyVars
<1> QED
  BY <1>1, <1>2, <1>3 DEF ClientInv

(***************************************************************************)
(* A server is started.                                                    *)
(***************************************************************************)
LEMMA ServerStartsInv == ASSUME ClientInv, ServerStarts PROVE ClientInv'
<1>1. TypeOK'
  BY ClientAssumption DEF ClientInv, PcInv, TypeOK, Pcs, TriesInv, NoReply, Closed, ServerStarts,
     memberVars, serverVars, historyVars
<1>2. PcInv' /\ TriesInv' /\ GivesUpLate'
  BY ClientAssumption DEF ClientInv, TypeOK, PcInv, TriesInv, GivesUpLate, NoReply, Closed,
     ServerStarts, memberVars, serverVars, historyVars
<1>3. RunInv' /\ ResultsOfOwnRun' /\ JobsAccountedFor'
  BY NothingMoved DEF ClientInv, PcInv, Dying, ServerStarts, memberVars, serverVars, historyVars
<1> QED
  BY <1>1, <1>2, <1>3 DEF ClientInv

(***************************************************************************)
(* Other minions get jobs and return results.                              *)
(***************************************************************************)
LEMMA OtherMinionInv == ASSUME ClientInv, OtherMinion PROVE ClientInv'
<1>1. TypeOK'
  BY Zenon, ClientAssumption DEF ClientInv, PcInv, TypeOK, Pcs, TriesInv, NoReply, Closed, OtherMinion,
     memberVars, serverVars, historyVars
<1>2. PcInv' /\ TriesInv' /\ GivesUpLate'
  BY ClientAssumption DEF ClientInv, TypeOK, PcInv, TriesInv, GivesUpLate, NoReply, Closed,
     OtherMinion, memberVars, serverVars, historyVars
<1>3. RunInv' /\ ResultsOfOwnRun' /\ JobsAccountedFor'
  BY NothingMoved DEF ClientInv, PcInv, Dying, OtherMinion, memberVars, serverVars, historyVars
<1> QED
  BY <1>1, <1>2, <1>3 DEF ClientInv

(***************************************************************************)
(* Nothing happens.                                                        *)
(***************************************************************************)
LEMMA Stuttering == ASSUME ClientInv, UNCHANGED vars PROVE ClientInv'
<1>1. TypeOK' /\ PcInv' /\ TriesInv' /\ GivesUpLate'
  BY DEF ClientInv, TypeOK, PcInv, TriesInv, GivesUpLate, vars, memberVars, serverVars, historyVars
<1>2. RunInv' /\ ResultsOfOwnRun' /\ JobsAccountedFor'
  BY DEF ClientInv, RunInv, OfRun, Dying, ResultsOfOwnRun, JobsAccountedFor, Busy, vars, memberVars,
     serverVars, historyVars
<1> QED
  BY <1>1, <1>2 DEF ClientInv

(***************************************************************************)
(* A job is taken from the buffer.                                         *)
(***************************************************************************)
LEMMA GetParamFromBufferInv == ASSUME ClientInv, GetParamFromBuffer PROVE ClientInv'
<1>1. /\ pc = "getParam" /\ pc' = "run" /\ param' = Head(m_parameters)
      /\ m_parameters' = Tail(m_parameters)
      /\ UNCHANGED <<m_server_runid, m_results, m_connect_failed, accepted, fetched, sent, reply,
                     dying>>
  BY DEF GetParamFromBuffer, serverVars, historyVars
<1>2. /\ m_parameters \in Seq(Works) /\ m_parameters # <<>>
      /\ m_results \in Seq(Works) /\ fetched \in Nat /\ sent \in Nat
  BY DEF ClientInv, TypeOK, GetParamFromBuffer
<1>3. /\ Tail(m_parameters) \in Seq(Works) /\ Head(m_parameters) \in Works
      /\ 1 \in DOMAIN m_parameters /\ m_parameters[1] = Head(m_parameters)
      /\ Len(m_parameters) \in Nat /\ Len(Tail(m_parameters)) = Len(m_parameters) - 1
      /\ \A i \in DOMAIN Tail(m_parameters) :
            i + 1 \in DOMAIN m_parameters /\ Tail(m_parameters)[i] = m_parameters[i + 1]
  BY <1>2, TailFacts
<1>4. TypeOK'
  BY <1>1, <1>3 DEF ClientInv, TypeOK, Pcs, GetParamFromBuffer, serverVars, historyVars
<1>5. PcInv' /\ TriesInv' /\ GivesUpLate'
  BY DEF ClientInv, PcInv, TriesInv, GivesUpLate, GetParamFromBuffer, historyVars
<1>6. RunInv'
  BY <1>1, <1>3 DEF ClientInv, PcInv, RunInv, OfRun, Dying, NoReply
<1>7. JobsAccountedFor'
  <2>1. Len(m_results) \in Nat
    BY <1>2
  <2> QED
    BY <1>1, <1>2, <1>3, <2>1 DEF ClientInv, JobsAccountedFor, Busy
<1>8. ResultsOfOwnRun'
  BY <1>1 DEF ClientInv, ResultsOfOwnRun
<1> QED
  BY <1>4, <1>5, <1>6, <1>7, <1>8 DEF ClientInv

(***************************************************************************)
(* connectToServer() fails for good.                                       *)
(***************************************************************************)
LEMMA GiveUpInv == ASSUME ClientInv, GiveUp PROVE ClientInv'
<1>1. /\ pc = "connect" /\ tries = 1 /\ tries' = 0 /\ socket' = Closed
      /\ refused' = IF socket = Closed THEN refused + 1 ELSE refused
      /\ m_connect_failed' = TRUE
      /\ m_results' \in {m_results, <<>>}
      /\ pc' \in {"flush", "dead", "loop"}
      /\ UNCHANGED <<m_server_runid, m_parameters, param, accepted, reply, cont>>
  BY DEF GiveUp, Terminate, ReturnFromSending, serverVars
<1>2. /\ dying' \in BOOLEAN
      /\ dying' => pc' \in {"flush", "dead"}
      /\ Dying => Dying'
  BY ClientAssumption DEF ClientInv, TypeOK, PcInv, Dying, GiveUp, Terminate, ReturnFromSending
<1>3. TypeOK'
  <2>1. m_results' \in Seq(Works)
    <3>1. m_results \in Seq(Works) /\ <<>> \in Seq(Works)
      BY DEF ClientInv, TypeOK
    <3> QED
      BY <1>1, <3>1, Zenon
  <2>3. m_connect_failed' \in BOOLEAN
    BY <1>1, Zenon
  <2>2. refused' \in 0..(CLIENT_RETRY_COUNT + 1) /\ tries' \in 0..(CLIENT_RETRY_COUNT + 1)
    BY <1>1, ClientAssumption DEF ClientInv, TypeOK, TriesInv
  <2> QED
    BY <1>1, <1>2, <2>1, <2>2, <2>3, ClientAssumption
       DEF ClientInv, TypeOK, Pcs, Closed, GiveUp, serverVars
<1>4. PcInv' /\ TriesInv'
  BY <1>1, <1>2 DEF ClientInv, PcInv, TriesInv
<1>5. GivesUpLate'
  BY <1>1, ClientAssumption DEF ClientInv, TypeOK, TriesInv, GivesUpLate
<1>6. RunInv'
  BY <1>1, <1>2 DEF ClientInv, PcInv, RunInv, OfRun, NoReply
<1>7. ResultsOfOwnRun' /\ JobsAccountedFor'
  BY <1>1 DEF ClientInv, ResultsOfOwnRun, JobsAccountedFor
<1> QED
  BY <1>3, <1>4, <1>5, <1>6, <1>7 DEF ClientInv

(***************************************************************************)
(* The client reads the control message and remembers its run ID.  Holding *)
(* jobs, it has been answered by the run they come from, or told to die.   *)
(***************************************************************************)
LEMMA ReadAnswerInv == ASSUME ClientInv, ReadAnswer PROVE ClientInv'
<1>1. /\ pc = "await" /\ reply # NoReply /\ m_server_runid' = reply.run
      /\ UNCHANGED <<m_parameters, m_results, m_connect_failed, param, accepted, fetched, sent,
                     tries, refused, cont>>
      /\ \/ reply.cmd = "WORK_FOLLOWS" /\ pc' = "rcvJob" /\ UNCHANGED <<reply, dying>>
         \/ reply.cmd = "COME_AGAIN" /\ pc' = "getParam" /\ reply' = NoReply /\ UNCHANGED dying
         \/ reply.cmd # "COME_AGAIN" /\ reply' = NoReply /\ Terminate
  BY DEF ReadAnswer, serverVars, historyVars
<1>2. TypeOK'
  <2>1. m_server_runid' \in 0..MaxRuns
    BY <1>1 DEF ClientInv, TypeOK
  <2>2. NoReply \in [cmd : {"none", "WORK_FOLLOWS", "COME_AGAIN", "DIE"}, run : 0..MaxRuns,
                     jobs : Seq(Works)]
    BY ClientAssumption DEF NoReply
  <2>3. reply' \in [cmd : {"none", "WORK_FOLLOWS", "COME_AGAIN", "DIE"}, run : 0..MaxRuns,
                    jobs : Seq(Works)]
    BY <1>1, <2>2 DEF ClientInv, TypeOK
  <2>4. pc' \in Pcs /\ dying' \in BOOLEAN
    BY <1>1, ClientAssumption DEF ClientInv, TypeOK, Terminate, Pcs
  <2>5. socket' \in 0..MaxRuns
    BY ClientAssumption DEF ReadAnswer, ClientInv, TypeOK, Closed
  <2> QED
    BY <1>1, <2>1, <2>3, <2>4, <2>5 DEF ClientInv, TypeOK, ReadAnswer, serverVars, historyVars
<1>3. PcInv' /\ TriesInv' /\ GivesUpLate'
  BY <1>1 DEF ClientInv, PcInv, TriesInv, GivesUpLate, Terminate, NoReply
<1>4. ~Dying /\ pc' # "run" /\ pc' # "await"
  BY <1>1 DEF ClientInv, PcInv, Dying, Terminate
<1>5. RunInv'
  <2>1. CASE reply.run = 0 /\ reply.cmd = "DIE"
    <3>1. Dying' /\ m_server_runid' = 0 /\ reply' = NoReply /\ pc' # "rcvJob"
      BY <1>1, <2>1 DEF Dying, Terminate
    <3> QED
      BY <1>1, <1>4, <3>1 DEF ClientInv, RunInv, NoReply
  <2>2. CASE reply.run # 0 /\ m_server_runid \in {0, reply.run}
    <3>1. OfRun(m_parameters, reply.run) /\ OfRun(m_results, reply.run)
      BY <1>4, <2>2 DEF ClientInv, RunInv, OfRun
    <3> QED
      BY <1>1, <1>4, <2>2, <3>1 DEF ClientInv, RunInv, OfRun, NoReply, Terminate
  <2> QED
    BY <1>1, <2>1, <2>2 DEF ClientInv, RunInv
<1>6. ResultsOfOwnRun' /\ JobsAccountedFor'
  BY <1>1, <1>4 DEF ClientInv, ResultsOfOwnRun, JobsAccountedFor, Busy
<1> QED
  BY <1>2, <1>3, <1>5, <1>6 DEF ClientInv

(***************************************************************************)
(* A job arrives.                                                          *)
(***************************************************************************)
LEMMA RcvJobInv == ASSUME ClientInv, RcvJob PROVE ClientInv'
<1>1. /\ pc = "rcvJob" /\ m_parameters' = Append(m_parameters, Head(reply.jobs))
      /\ fetched' = fetched + 1
      /\ UNCHANGED <<m_server_runid, m_results, m_connect_failed, param, accepted, sent, tries,
                     refused, cont, dying>>
      /\ \/ pc' = "getParam" /\ reply' = NoReply
         \/ /\ Tail(reply.jobs) # <<>> /\ pc' = "rcvJob"
            /\ reply' = [reply EXCEPT !.jobs = Tail(reply.jobs)]
  BY DEF RcvJob, serverVars
<1>2. /\ m_parameters \in Seq(Works) /\ m_results \in Seq(Works)
      /\ fetched \in Nat /\ sent \in Nat
      /\ reply \in [cmd : {"none", "WORK_FOLLOWS", "COME_AGAIN", "DIE"}, run : 0..MaxRuns,
                    jobs : Seq(Works)]
      /\ reply.jobs \in Seq(Works) /\ reply.jobs # <<>>
  BY <1>1 DEF ClientInv, TypeOK, PcInv
<1>3. /\ Tail(reply.jobs) \in Seq(Works) /\ Head(reply.jobs) \in Works
      /\ 1 \in DOMAIN reply.jobs /\ reply.jobs[1] = Head(reply.jobs)
      /\ \A i \in DOMAIN Tail(reply.jobs) :
            i + 1 \in DOMAIN reply.jobs /\ Tail(reply.jobs)[i] = reply.jobs[i + 1]
  BY <1>2, TailFacts
<1>4. /\ m_parameters' \in Seq(Works) /\ m_parameters' # <<>>
      /\ Len(m_parameters) \in Nat /\ Len(m_parameters') = Len(m_parameters) + 1
      /\ \A i \in DOMAIN m_parameters' :
            \/ m_parameters'[i] = Head(reply.jobs)
            \/ i \in DOMAIN m_parameters /\ m_parameters'[i] = m_parameters[i]
  BY <1>1, <1>2, <1>3, AppendFacts
<1>5. reply' \in [cmd : {"none", "WORK_FOLLOWS", "COME_AGAIN", "DIE"}, run : 0..MaxRuns,
                  jobs : Seq(Works)]
  <2>1. CASE reply' = NoReply
    BY <2>1, ClientAssumption DEF NoReply
  <2>2. CASE reply' = [reply EXCEPT !.jobs = Tail(reply.jobs)]
    BY Zenon, <1>2, <1>3, <2>2
  <2> QED
    BY <1>1, <2>1, <2>2
<1>6. TypeOK'
  <2>1. socket' \in {socket, Closed}
    BY DEF RcvJob
  <2>2. socket' \in 0..MaxRuns
    BY <2>1, ClientAssumption DEF ClientInv, TypeOK, Closed
  <2>3. pc' \in Pcs
    BY <1>1 DEF Pcs
  <2>4. fetched' \in Nat
    BY <1>1, <1>2
  <2>5. UNCHANGED <<m_job_throughput, executed, up, run, running, faults>>
    BY DEF RcvJob, serverVars
  <2> QED
    BY Zenon, <1>1, <1>4, <1>5, <2>2, <2>3, <2>4, <2>5 DEF ClientInv, TypeOK
<1>7. PcInv' /\ TriesInv' /\ GivesUpLate'
  BY SMTT(40), <1>1, <1>2 DEF ClientInv, PcInv, TriesInv, GivesUpLate, NoReply
<1>8. Head(reply.jobs).run = m_server_runid /\ m_server_runid # 0 /\ reply.run = m_server_runid
  BY <1>1, <1>3 DEF ClientInv, RunInv
<1>9. RunInv'
  <2>1. /\ \A i \in DOMAIN m_parameters' : m_parameters'[i].run = m_server_runid
        /\ OfRun(m_results, m_server_runid)
    BY <1>4, <1>8 DEF ClientInv, RunInv, OfRun
  <2>2. /\ \A i \in DOMAIN reply'.jobs : reply'.jobs[i].run = reply'.run /\ reply'.run # 0
        /\ pc' = "rcvJob" => reply'.run = m_server_runid
    <3>1. CASE pc' = "getParam" /\ reply' = NoReply
      BY <3>1 DEF NoReply
    <3>2. CASE reply' = [reply EXCEPT !.jobs = Tail(reply.jobs)]
      <4>1. reply'.jobs = Tail(reply.jobs) /\ reply'.run = reply.run
        BY <1>2, <3>2
      <4>2. \A i \in DOMAIN reply.jobs : reply.jobs[i].run = reply.run
        BY DEF ClientInv, RunInv
      <4> QED
        BY <1>3, <1>8, <4>1, <4>2
    <3> QED
      BY <1>1, <3>1, <3>2
  <2> QED
    BY <1>1, <1>8, <2>1, <2>2 DEF ClientInv, RunInv, OfRun
<1>10. JobsAccountedFor'
  <2>1. Len(m_results) \in Nat
    BY <1>2
  <2>2. Busy = 0 /\ Busy' = 0
    BY <1>1 DEF Busy
  <2>3. m_connect_failed \/ fetched = Len(m_parameters) + Len(m_results) + sent
    BY <1>2, <1>4, <2>1, <2>2 DEF ClientInv, JobsAccountedFor
  <2> QED
    BY <1>1, <1>2, <1>4, <2>1, <2>2, <2>3 DEF JobsAccountedFor
<1>11. ResultsOfOwnRun'
  BY <1>1 DEF ClientInv, ResultsOfOwnRun
<1> QED
  BY <1>6, <1>7, <1>9, <1>10, <1>11 DEF ClientInv

(***************************************************************************)
(* sendResultsToServer() is called with the results.                       *)
(***************************************************************************)
LEMMA SendResultsFacts ==
    ASSUME NEW s, SendResultsToServer(s)
    PROVE  \/ /\ s # <<>> /\ ~m_connect_failed /\ m_results' = s
              /\ pc' = "connect" /\ cont' = "sendCtrl"
              /\ tries' = CLIENT_RETRY_COUNT + 1 /\ refused' = 0
           \/ /\ s = <<>> \/ m_connect_failed
              /\ m_results' = <<>>
              /\ pc' = IF dying THEN "dead" ELSE "loop"
              /\ UNCHANGED <<cont, tries, refused>>
BY DEF SendResultsToServer, Connect, ReturnFromSending

(***************************************************************************)
(* A result joins the others.                                              *)
(***************************************************************************)
LEMMA SendResultInv == ASSUME ClientInv, SendResult PROVE ClientInv'
<1> DEFINE s == Append(m_results, param)
<1>1. /\ pc = "run" /\ param' = NoJob
      /\ UNCHANGED <<m_server_runid, m_parameters, m_connect_failed, accepted, fetched, sent,
                     reply, dying, socket>>
      /\ \/ m_results' = s /\ pc' = "loop" /\ UNCHANGED <<cont, tries, refused>>
         \/ SendResultsToServer(s)
  BY DEF SendResult, serverVars
<1>2. /\ m_parameters \in Seq(Works) /\ m_results \in Seq(Works) /\ param \in Works
      /\ fetched \in Nat /\ sent \in Nat
  BY DEF ClientInv, TypeOK
<1>3. /\ s \in Seq(Works) /\ s # <<>>
      /\ Len(m_results) \in Nat /\ Len(s) = Len(m_results) + 1
      /\ \A i \in DOMAIN s : s[i] = param \/ (i \in DOMAIN m_results /\ s[i] = m_results[i])
  BY <1>2, AppendFacts
<1> HIDE DEF s
<1>4. ~dying /\ reply = NoReply
  BY <1>1 DEF ClientInv, PcInv
<1>5. \/ m_results' = s /\ pc' = "loop" /\ UNCHANGED <<cont, tries, refused>>
      \/ /\ m_results' = s /\ ~m_connect_failed /\ pc' = "connect" /\ cont' = "sendCtrl"
         /\ tries' = CLIENT_RETRY_COUNT + 1 /\ refused' = 0
      \/ /\ m_results' = <<>> /\ m_connect_failed /\ pc' = "loop"
         /\ UNCHANGED <<cont, tries, refused>>
  BY <1>1, <1>3, <1>4, SendResultsFacts
<1>6. TypeOK'
  <2>1. executed' \in 0..MaxExperiments
    BY ClientAssumption DEF SendResult, Executed, ClientInv, TypeOK
  <2>2. m_job_throughput' \in 1..CLIENT_JOB_LIMIT
    BY ClientAssumption DEF SendResult, Clamped, ClientInv, TypeOK
  <2>3. NoJob \in Works
    BY ClientAssumption DEF NoJob, Works
  <2>4. pc' \in Pcs /\ m_results' \in Seq(Works) /\ cont' \in {"needWork", "sendCtrl"}
    <3>1. pc' \in Pcs
      BY <1>5 DEF Pcs
    <3>2. m_results' \in Seq(Works)
      <4>1. <<>> \in Seq(Works)
        OBVIOUS
      <4> QED
        BY <1>3, <1>5, <4>1, Zenon
    <3>3. cont' \in {"needWork", "sendCtrl"}
      BY <1>5 DEF ClientInv, TypeOK
    <3> QED
      BY <3>1, <3>2, <3>3
  <2>5. tries' \in 0..(CLIENT_RETRY_COUNT + 1) /\ refused' \in 0..(CLIENT_RETRY_COUNT + 1)
    BY <1>5, ClientAssumption DEF ClientInv, TypeOK
  <2> QED
    <3>1. UNCHANGED <<up, run, running, faults>>
      BY DEF SendResult, serverVars
    <3> QED
      BY Zenon, <1>1, <2>1, <2>2, <2>3, <2>4, <2>5, <3>1 DEF ClientInv, TypeOK
<1>7. PcInv' /\ TriesInv' /\ GivesUpLate'
  BY <1>1, <1>3, <1>4, <1>5, ClientAssumption
     DEF ClientInv, PcInv, TriesInv, GivesUpLate, NoReply
<1>8. RunInv'
  <2>1. /\ ~Dying
        /\ \A i \in DOMAIN m_results' : m_results'[i].run # 0 /\ m_results'[i].run = m_server_runid
    BY <1>1, <1>3, <1>4, <1>5 DEF ClientInv, RunInv, OfRun, Dying
  <2> QED
    BY <1>1, <1>4, <1>5, <2>1 DEF ClientInv, RunInv, OfRun, NoReply
<1>9. JobsAccountedFor'
  <2>1. Len(m_parameters) \in Nat
    BY <1>2
  <2> QED
    BY SMTT(40), <1>1, <1>2, <1>3, <1>5, <2>1 DEF ClientInv, JobsAccountedFor, Busy
<1>10. ResultsOfOwnRun'
  BY <1>1 DEF ClientInv, ResultsOfOwnRun
<1> QED
  BY <1>6, <1>7, <1>8, <1>9, <1>10 DEF ClientInv

(***************************************************************************)
(* The destructor.                                                         *)
(***************************************************************************)
LEMMA FlushInv == ASSUME ClientInv, Flush PROVE ClientInv'
<1>1. /\ pc = "flush" /\ SendResultsToServer(m_results)
      /\ UNCHANGED <<m_server_runid, m_parameters, m_connect_failed, param, accepted, fetched,
                     sent, reply, dying, socket>>
      /\ UNCHANGED <<m_job_throughput, executed, up, run, running, faults>>
  BY DEF Flush, serverVars
<1>2. reply = NoReply /\ m_results \in Seq(Works)
  BY <1>1 DEF ClientInv, PcInv, TypeOK
<1>3. \/ /\ m_results # <<>> /\ ~m_connect_failed /\ m_results' = m_results
         /\ pc' = "connect" /\ cont' = "sendCtrl"
         /\ tries' = CLIENT_RETRY_COUNT + 1 /\ refused' = 0
      \/ /\ m_results = <<>> \/ m_connect_failed
         /\ m_results' = <<>>
         /\ pc' = IF dying THEN "dead" ELSE "loop"
         /\ UNCHANGED <<cont, tries, refused>>
  BY <1>1, SendResultsFacts
<1>4. TypeOK'
  <2>1. pc' \in Pcs
    BY <1>3 DEF Pcs
  <2>2. m_results' \in Seq(Works)
    <3>1. <<>> \in Seq(Works)
      OBVIOUS
    <3> QED
      BY <1>2, <1>3, <3>1, Zenon
  <2>3. /\ cont' \in {"needWork", "sendCtrl"}
        /\ tries' \in 0..(CLIENT_RETRY_COUNT + 1)
        /\ refused' \in 0..(CLIENT_RETRY_COUNT + 1)
    BY <1>3, ClientAssumption DEF ClientInv, TypeOK
  <2> QED
    BY SMTT(40), <1>1, <2>1, <2>2, <2>3 DEF ClientInv, TypeOK
<1>5. PcInv' /\ TriesInv' /\ GivesUpLate'
  BY <1>1, <1>2, <1>3, ClientAssumption DEF ClientInv, PcInv, TriesInv, GivesUpLate, NoReply
<1>6. RunInv'
  BY <1>1, <1>2, <1>3 DEF ClientInv, RunInv, OfRun, Dying, NoReply
<1>7. JobsAccountedFor' /\ ResultsOfOwnRun'
  BY <1>1, <1>3 DEF ClientInv, JobsAccountedFor, Busy, ResultsOfOwnRun
<1> QED
  BY <1>4, <1>5, <1>6, <1>7 DEF ClientInv

(***************************************************************************)
(* A result is sent.  The server takes it only from a client that names    *)
(* its run ID, and then it is a result of this run.                        *)
(***************************************************************************)
LEMMA ResultSentInv == ASSUME ClientInv, ResultSent PROVE ClientInv'
<1>1. /\ pc = "sendResult" /\ m_results' = Tail(m_results) /\ sent' = sent + 1
      /\ UNCHANGED <<m_server_runid, m_parameters, m_connect_failed, param, fetched, reply, dying,
                     cont, tries, refused>>
      /\ UNCHANGED <<m_job_throughput, executed, up, run, faults>>
      /\ \/ pc' = IF dying THEN "dead" ELSE "loop"
         \/ Tail(m_results) # <<>> /\ pc' = "sendResult"
      /\ socket' \in {socket, Closed}
      /\ running' \in {running, running \ {Head(m_results).id}}
      /\ \/ accepted' = accepted
         \/ /\ accepted' = accepted \cup {[by |-> run, work |-> Head(m_results)]}
            /\ m_server_runid = run
  BY DEF ResultSent, ReturnFromSending, AcceptsResultsOf
<1>2. /\ m_results \in Seq(Works) /\ m_results # <<>> /\ reply = NoReply
      /\ fetched \in Nat /\ sent \in Nat /\ m_parameters \in Seq(Works)
      /\ run \in 1..MaxRuns
  BY <1>1 DEF ClientInv, TypeOK, PcInv
<1>3. /\ Tail(m_results) \in Seq(Works) /\ Head(m_results) \in Works
      /\ 1 \in DOMAIN m_results /\ m_results[1] = Head(m_results)
      /\ Len(m_results) \in Nat /\ Len(Tail(m_results)) = Len(m_results) - 1
      /\ \A i \in DOMAIN Tail(m_results) :
            i + 1 \in DOMAIN m_results /\ Tail(m_results)[i] = m_results[i + 1]
  BY <1>2, TailFacts
<1>4. TypeOK'
  <2>1. pc' \in Pcs
    BY <1>1 DEF Pcs
  <2>2. socket' \in 0..MaxRuns /\ running' \subseteq 1..MaxID /\ sent' \in Nat
    BY <1>1, <1>2, ClientAssumption DEF ClientInv, TypeOK, Closed
  <2>3. [by |-> run, work |-> Head(m_results)] \in [by : 1..MaxRuns, work : Works]
    BY <1>2, <1>3
  <2>4. accepted' \subseteq [by : 1..MaxRuns, work : Works]
    BY SMTT(40), <1>1, <2>3 DEF ClientInv, TypeOK
  <2> QED
    BY <1>1, <1>3, <2>1, <2>2, <2>4 DEF ClientInv, TypeOK
<1>5. PcInv' /\ TriesInv' /\ GivesUpLate'
  BY <1>1, <1>2 DEF ClientInv, PcInv, TriesInv, GivesUpLate, NoReply
<1>6. RunInv'
  BY <1>1, <1>2, <1>3 DEF ClientInv, RunInv, OfRun, Dying, NoReply
<1>7. JobsAccountedFor'
  <2>1. Len(m_parameters) \in Nat /\ Busy = 0 /\ Busy' = 0
    BY <1>1, <1>2 DEF Busy
  <2>2. m_connect_failed \/ fetched = Len(m_parameters) + Len(m_results) + sent
    BY <1>2, <1>3, <2>1 DEF ClientInv, JobsAccountedFor
  <2> QED
    BY <1>1, <1>2, <1>3, <2>1, <2>2 DEF JobsAccountedFor
<1>8. ResultsOfOwnRun'
  <2>1. m_server_runid = run => Head(m_results).run = run
    BY <1>2, <1>3 DEF ClientInv, RunInv, OfRun
  <2>2. CASE accepted' = accepted
    BY <2>2 DEF ClientInv, ResultsOfOwnRun
  <2>3. CASE /\ accepted' = accepted \cup {[by |-> run, work |-> Head(m_results)]}
             /\ m_server_runid = run
    BY <2>1, <2>3 DEF ClientInv, ResultsOfOwnRun
  <2> QED
    BY <1>1, <2>2, <2>3
<1> QED
  BY <1>4, <1>5, <1>6, <1>7, <1>8 DEF ClientInv

(***************************************************************************)
(* The server answers.                                                     *)
(***************************************************************************)
LEMMA ServerSendsWorkInv == ASSUME ClientInv, ServerSendsWork PROVE ClientInv'
<1>1. PICK ids \in SeqsUpTo(1..MaxID, m_job_throughput) :
         /\ reply' = [cmd  |-> "WORK_FOLLOWS", run |-> run,
                      jobs |-> [i \in DOMAIN ids |-> [run |-> run, id |-> ids[i]]]]
         /\ running' = running \cup {ids[i] : i \in DOMAIN ids}
  BY Zenon DEF ServerSendsWork
<1>2. /\ pc = "await" /\ m_server_runid \in {0, run}
      /\ UNCHANGED <<m_server_runid, m_parameters, m_results, m_connect_failed, param, fetched,
                     sent, accepted, dying, cont, tries, refused, pc, socket>>
      /\ UNCHANGED <<m_job_throughput, executed, up, run, faults>>
  BY DEF ServerSendsWork, ServesRun, memberVars, historyVars
<1>3. run \in 1..MaxRuns /\ m_job_throughput \in 1..CLIENT_JOB_LIMIT /\ running \subseteq 1..MaxID
  BY DEF ClientInv, TypeOK
<1> DEFINE jobs == [i \in DOMAIN ids |-> [run |-> run, id |-> ids[i]]]
<1>4. PICK k \in 1..m_job_throughput : ids \in [1..k -> 1..MaxID]
  BY <1>1, Zenon DEF SeqsUpTo
<1>5. /\ jobs \in [1..k -> Works]
      /\ \A i \in DOMAIN jobs : jobs[i].run = run
  BY <1>3, <1>4, ClientAssumption DEF Works
<1>6. jobs \in Seq(Works) /\ jobs # <<>>
  <2>1. k \in Nat /\ k >= 1
    BY <1>3, <1>4, ClientAssumption
  <2>2. jobs \in Seq(Works)
    BY <1>5, <2>1
  <2>3. 1 \in DOMAIN jobs
    BY <1>5, <2>1
  <2> QED
    BY <2>2, <2>3
<1>7. reply' = [cmd |-> "WORK_FOLLOWS", run |-> run, jobs |-> jobs]
  BY <1>1
<1> HIDE DEF jobs
<1>8. TypeOK'
  <2>1. reply' \in [cmd : {"none", "WORK_FOLLOWS", "COME_AGAIN", "DIE"}, run : 0..MaxRuns,
                    jobs : Seq(Works)]
    BY <1>3, <1>6, <1>7, ClientAssumption
  <2>2. {ids[i] : i \in DOMAIN ids} \subseteq 1..MaxID
    BY <1>4
  <2>3. running' \subseteq 1..MaxID
    BY Zenon, <1>1, <1>3, <2>2
  <2> QED
    BY <1>2, <2>1, <2>3 DEF ClientInv, TypeOK
<1>9. PcInv' /\ TriesInv' /\ GivesUpLate'
  BY <1>2, <1>6, <1>7 DEF ClientInv, PcInv, TriesInv, GivesUpLate
<1>10. RunInv'
  <2>1. run # 0
    BY <1>3
  <2> QED
    BY <1>2, <1>5, <1>7, <2>1 DEF ClientInv, RunInv, OfRun, Dying
<1>11. JobsAccountedFor' /\ ResultsOfOwnRun'
  BY <1>2 DEF ClientInv, JobsAccountedFor, Busy, ResultsOfOwnRun
<1> QED
  BY <1>8, <1>9, <1>10, <1>11 DEF ClientInv

(***************************************************************************)
(* COME_AGAIN, DIE, or the answer to an old client.                        *)
(***************************************************************************)
LEMMA ServerHasNoWorkInv == ASSUME ClientInv, ServerHasNoWork PROVE ClientInv'
<1>1. PICK cmd \in {"COME_AGAIN", "DIE"}, r \in {0, run} :
         /\ reply' = [cmd |-> cmd, run |-> r, jobs |-> <<>>]
         /\ \/ r = 0 /\ cmd = "DIE"
            \/ r = run /\ m_server_runid \in {0, run}
  BY DEF ServerHasNoWork, OldClientAnswer, ServesRun
<1>2. /\ pc = "await"
      /\ UNCHANGED <<m_server_runid, m_parameters, m_results, m_connect_failed, param, fetched,
                     sent, accepted, dying, cont, tries, refused, pc, socket>>
      /\ UNCHANGED <<m_job_throughput, executed, up, run, running, faults>>
  BY DEF ServerHasNoWork, memberVars, serverVars, historyVars
<1>3. run \in 1..MaxRuns
  BY DEF ClientInv, TypeOK
<1>4. reply' \in [cmd : {"none", "WORK_FOLLOWS", "COME_AGAIN", "DIE"}, run : 0..MaxRuns,
                  jobs : Seq(Works)]
  BY <1>1, <1>3, ClientAssumption
<1>5. TypeOK'
  BY <1>2, <1>4 DEF ClientInv, TypeOK
<1>6. PcInv' /\ TriesInv' /\ GivesUpLate'
  BY <1>1, <1>2 DEF ClientInv, PcInv, TriesInv, GivesUpLate
<1>7. RunInv'
  BY <1>1, <1>2, <1>3 DEF ClientInv, RunInv, OfRun, Dying
<1>8. JobsAccountedFor' /\ ResultsOfOwnRun'
  BY <1>2 DEF ClientInv, JobsAccountedFor, Busy, ResultsOfOwnRun
<1> QED
  BY <1>5, <1>6, <1>7, <1>8 DEF ClientInv

-----------------------------------------------------------------------------
(***************************************************************************)
(* Every step keeps the invariant.                                         *)
(***************************************************************************)
LEMMA NextClientInv == ClientInv /\ [Next]_vars => ClientInv'
<1> SUFFICES ASSUME ClientInv, [Next]_vars PROVE ClientInv'
  OBVIOUS
<1>1. CASE Loop \/ GetParamDies \/ GetParamFromBuffer \/ GetParamFromServer
  BY Zenon, <1>1, LoopInv, GetParamDiesInv, GetParamFromBufferInv, GetParamFromServerInv
<1>2. CASE ConnectSucceeds \/ ConnectFails \/ GiveUp
  BY Zenon, <1>2, ConnectSucceedsInv, ConnectFailsInv, GiveUpInv
<1>3. CASE SendNeedWork \/ NeedWorkFails \/ ReadAnswer \/ RcvJob \/ RcvJobFails
  BY Zenon, <1>3, SendNeedWorkInv, NeedWorkFailsInv, ReadAnswerInv, RcvJobInv, RcvJobFailsInv
<1>4. CASE SendResult \/ Flush \/ SendCtrl \/ SendingFails \/ ResultSent
  BY Zenon, <1>4, SendResultInv, FlushInv, SendCtrlInv, SendingFailsInv, ResultSentInv
<1>5. CASE ServerAnswers
  BY Zenon, <1>5, ServerSendsWorkInv, ServerHasNoWorkInv DEF ServerAnswers
<1>6. CASE ServerEnds \/ ServerStarts \/ OtherMinion
  BY Zenon, <1>6, ServerEndsInv, ServerStartsInv, OtherMinionInv
<1>7. CASE Terminated \/ UNCHANGED vars
  BY <1>7, Stuttering DEF Terminated
<1> QED
  BY Zenon, <1>1, <1>2, <1>3, <1>4, <1>5, <1>6, <1>7 DEF Next, ClientStep

(***************************************************************************)
(* The invariant holds always.                                             *)
(***************************************************************************)
THEOREM ClientInvAlways == Spec => []ClientInv
<1>1. Init => ClientInv
  BY InitClientInv
<1>2. ClientInv /\ [Next]_vars => ClientInv'
  BY NextClientInv
<1> QED
  BY <1>1, <1>2, PTL DEF Spec

(***************************************************************************)
(* The client keeps its types; in particular it always asks for between    *)
(* one and CLIENT_JOB_LIMIT jobs.                                          *)
(***************************************************************************)
THEOREM ClientTypeCorrect == Spec => []TypeOK
<1>1. ClientInv => TypeOK
  BY DEF ClientInv
<1> QED
  BY <1>1, ClientInvAlways, PTL

(***************************************************************************)
(* No run of the server ever takes a result of a job of another run,       *)
(* whenever servers crash and restart and whichever messages are lost.     *)
(***************************************************************************)
THEOREM ResultsOfOwnRunAlways == Spec => []ResultsOfOwnRun
<1>1. ClientInv => ResultsOfOwnRun
  BY DEF ClientInv
<1> QED
  BY <1>1, ClientInvAlways, PTL

(***************************************************************************)
(* Until the client gives up, no job or result is dropped or repeated.     *)
(***************************************************************************)
THEOREM JobsAccountedForAlways == Spec => []JobsAccountedFor
<1>1. ClientInv => JobsAccountedFor
  BY DEF ClientInv
<1> QED
  BY <1>1, ClientInvAlways, PTL

(***************************************************************************)
(* The client gives up only after CLIENT_RETRY_COUNT attempts that met no  *)
(* server.                                                                 *)
(***************************************************************************)
THEOREM GivesUpLateAlways == Spec => []GivesUpLate
<1>1. ClientInv => GivesUpLate
  BY DEF ClientInv
<1> QED
  BY <1>1, ClientInvAlways, PTL

=============================================================================
