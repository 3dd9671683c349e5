-------------------------- MODULE DatabaseCampaign --------------------------
(***************************************************************************)
(* A campaign whose pilots and results are tables of a database            *)
(* (cpn/DatabaseCampaign, util/DatabaseProtobufAdapter), composed with the *)
(* job server as JobDistribution describes it.  The campaign thread skips  *)
(* the pilots that have all their results and submits the others; the      *)
(* collector thread inserts the rows of every result one by one.  The      *)
(* process may die at any point, and the campaign is started again until   *)
(* the table is complete; only the table survives.                         *)
(***************************************************************************)
EXTENDS Integers, Sequences, FiniteSets, Functions

CONSTANTS
  PilotList,     \* fsppilot JOIN trace ... ORDER BY t.instr1, a sequence of pilots
  KeyList,       \* primary keys of the rows of one result (the bits of the injected byte)
  MaxMishaps     \* bound: deaths of the process, early ends of the results, failed insertions

Pilots == Range(PilotList)
Keys == Range(KeyList)

ASSUME CampaignAssumption ==
  /\ PilotList \in Seq(Pilots) /\ KeyList \in Seq(Keys)
  /\ IsInjective(PilotList) /\ IsInjective(KeyList) /\ KeyList # <<>>
  /\ MaxMishaps \in Nat

VARIABLES
  rows,               \* the result table: how many rows a pilot has with a key
  pc,                 \* the campaign thread: down, load, send, join, finished
  pilots,             \* the part of the query's result that is not fetched yet
  completed_pilots,
  status, results, closed, ended,   \* the job server
  inserting,          \* the collector: rows it has still to insert
  mishaps,
  failed              \* history: an insertion of this run failed

server == <<status, results, closed, ended>>
vars == <<rows, pc, pilots, completed_pilots, server, inserting, mishaps, failed>>

JobServer == INSTANCE JobDistribution WITH Jobs <- Pilots, Batches <- {<<p>> : p \in Pilots}

expected_number_of_results == Len(KeyList)

\* COUNT(*) of the result rows of a pilot; rows with the same key are numbered
ResultRows(p) == UNION {{k} \X (1..rows[p][k]) : k \in Keys}
Count(p) == Cardinality(ResultRows(p))

Mishap == mishaps < MaxMishaps /\ mishaps' = mishaps + 1

NewProcess ==
  /\ pilots' = <<>> /\ completed_pilots' = [p \in Pilots |-> 0]
  /\ status' = [p \in Pilots |-> "new"] /\ results' = <<>> /\ closed' = FALSE /\ ended' = FALSE
  /\ inserting' = <<>> /\ failed' = FALSE

Init ==
  /\ rows = [p \in Pilots |-> [k \in Keys |-> 0]]
  /\ pc = "down"
  /\ pilots = <<>> /\ completed_pilots = [p \in Pilots |-> 0]
  /\ JobServer!Init
  /\ inserting = <<>> /\ failed = FALSE
  /\ mishaps = 0

-----------------------------------------------------------------------------
(***************************************************************************)
(* The campaign thread                                                     *)
(***************************************************************************)
Complete(p) == \A k \in Keys : rows[p][k] > 0

\* somebody starts the campaign, again while results are missing
Start ==
  /\ pc \in {"down", "finished"} /\ \E p \in Pilots : ~Complete(p)
  /\ pc' = "load"
  /\ NewProcess
  /\ UNCHANGED <<rows, mishaps>>

LoadCompletedPilots ==
  /\ pc = "load"
  /\ completed_pilots' = [p \in Pilots |-> Count(p)]
  /\ pilots' = PilotList
  /\ pc' = "send"
  /\ UNCHANGED <<rows, server, inserting, mishaps, failed>>

\* mutant: some results pass for all
MutExistingResults(p) == IF completed_pilots[p] > 0 THEN expected_number_of_results ELSE 0

existing_results_for_pilot(p) == completed_pilots[p]

RunVariant ==
  /\ pc = "send" /\ pilots # <<>>
  /\ IF existing_results_for_pilot(Head(pilots)) = expected_number_of_results
       THEN JobServer!Skip(Head(pilots))
       ELSE JobServer!Submit(Head(pilots))
  /\ pilots' = Tail(pilots)
  /\ UNCHANGED <<rows, pc, completed_pilots, inserting, mishaps, failed>>

\* mutant: the job server is not told
MutNoMoreParameters ==
  /\ pc = "send" /\ pilots = <<>>
  /\ pc' = "join"
  /\ UNCHANGED <<rows, pilots, completed_pilots, server, inserting, mishaps, failed>>

NoMoreParameters ==
  /\ pc = "send" /\ pilots = <<>>
  /\ JobServer!Close
  /\ pc' = "join"
  /\ UNCHANGED <<rows, pilots, completed_pilots, inserting, mishaps, failed>>

\* mutant: the collector is not waited for
MutJoin ==
  /\ pc = "join"
  /\ pc' = "finished"
  /\ UNCHANGED <<rows, pilots, completed_pilots, server, inserting, mishaps, failed>>

Join ==
  /\ pc = "join" /\ ended
  /\ pc' = "finished"
  /\ UNCHANGED <<rows, pilots, completed_pilots, server, inserting, mishaps, failed>>

\* the process is killed, or a query of the campaign thread fails and run() gives up
Crash ==
  /\ pc \notin {"down", "finished"} /\ Mishap
  /\ pc' = "down"
  /\ NewProcess
  /\ UNCHANGED rows

(***************************************************************************)
(* The collector thread and the clients                                    *)
(***************************************************************************)
Alive == pc \in {"load", "send", "join"}

GetDone ==
  /\ Alive /\ inserting = <<>>
  /\ \/ /\ JobServer!Return
        /\ inserting' = [i \in DOMAIN KeyList |-> <<Head(results), KeyList[i]>>]
        /\ UNCHANGED mishaps
     \/ /\ ~ended /\ JobServer!End
        /\ IF \E p \in Pilots : status[p] = "open" THEN Mishap ELSE UNCHANGED mishaps
        /\ UNCHANGED inserting
  /\ UNCHANGED <<rows, pc, pilots, completed_pilots, failed>>

\* mysql_stmt_execute: the PRIMARY KEY refuses a row that exists, an error is only logged
InsertRow(p, k) ==
  IF rows[p][k] = 0
    THEN \/ rows' = [rows EXCEPT ![p][k] = @ + 1] /\ UNCHANGED <<mishaps, failed>>
         \/ Mishap /\ failed' = TRUE /\ UNCHANGED rows
    ELSE UNCHANGED <<rows, mishaps, failed>>

Insert ==
  /\ Alive /\ inserting # <<>>
  /\ \/ /\ InsertRow(Head(inserting)[1], Head(inserting)[2])
        /\ inserting' = Tail(inserting)
     \/ /\ Mishap /\ failed' = TRUE      \* the row cannot be bound: insert_row returns
        /\ inserting' = <<>>
        /\ UNCHANGED rows
  /\ UNCHANGED <<pc, pilots, completed_pilots, server>>

ClientCompletes(p) ==
  /\ Alive /\ JobServer!Complete(<<p>>)
  /\ UNCHANGED <<rows, pc, pilots, completed_pilots, inserting, mishaps, failed>>

Next ==
  \/ Start \/ LoadCompletedPilots \/ RunVariant \/ NoMoreParameters \/ Join \/ Crash
  \/ GetDone \/ Insert
  \/ \E p \in Pilots : ClientCompletes(p)

Spec == Init /\ [][Next]_vars

\* Both threads run, the campaign is started again, and clients answer: a job that
\* is submitted again and again is completed in the end.
Fairness ==
  /\ WF_vars(Start) /\ WF_vars(LoadCompletedPilots) /\ WF_vars(RunVariant)
  /\ WF_vars(NoMoreParameters) /\ WF_vars(Join) /\ WF_vars(GetDone) /\ WF_vars(Insert)
  /\ \A p \in Pilots : SF_vars(ClientCompletes(p))

LiveSpec == Spec /\ Fairness

-----------------------------------------------------------------------------
(***************************************************************************)
(* Properties                                                              *)
(***************************************************************************)
\* Every variable has its type; no pilot has two rows with the same key.
TypeOK ==
  /\ rows \in [Pilots -> [Keys -> {0, 1}]]
  /\ pc \in {"down", "load", "send", "join", "finished"}
  /\ pilots \in Seq(Pilots)
  /\ completed_pilots \in [Pilots -> 0..expected_number_of_results]
  /\ status \in [Pilots -> {"new", "skipped", "open", "complete", "returned"}]
  /\ results \in Seq(Pilots)
  /\ closed \in BOOLEAN /\ ended \in BOOLEAN /\ failed \in BOOLEAN
  /\ inserting \in Seq(Pilots \X Keys)
  /\ mishaps \in 0..MaxMishaps

\* run_variant skips a pilot exactly when all its results are in the table, and
\* sends it again otherwise ("If there are less result rows, the pilot will be
\* again sent to the clients"): after a crash between the rows of a result, after
\* a failed insertion, and after a result that came twice.
SkipsExactlyCompleted ==
  [][\A p \in Pilots : status[p] = "new" =>
       /\ status'[p] = "skipped" => Complete(p)
       /\ status'[p] = "open" => ~Complete(p)]_vars

\* When run() returns, every result that the job server handed out is in the
\* table with all its rows, unless an insertion failed.
FinishedMeansStored ==
  pc = "finished" /\ ~failed =>
    \A p \in Pilots : status[p] \in {"skipped", "returned"} => Complete(p)

\* Started again after every crash and every early end, the campaign fills the
\* table; nothing is left out for good.
CampaignCompletes == <>[](\A p \in Pilots : Complete(p))
=============================================================================
