--------------------------- MODULE JobDistribution ---------------------------
(***************************************************************************)
(* What a campaign may rely on when it uses the job server, without any    *)
(* clients, connections, resending or retries: parameter sets go in,       *)
(* results come out, each at most once, in the order in which they were    *)
(* completed; the end of the results is reported only when no completed    *)
(* result is waiting, and is final.                                        *)
(***************************************************************************)
EXTENDS Integers, Sequences

CONSTANTS
    Jobs,
    Batches   \* sequences of jobs that can be completed together

VARIABLES
    status,   \* what has become of each job
    results,  \* completed jobs, oldest first
    closed,   \* the campaign has announced its last parameter set
    ended     \* the campaign has been told that no results are to be expected

absVars == <<status, results, closed, ended>>

Statuses == {"new", "skipped", "open", "complete", "returned"}

Init ==
    /\ status = [j \in Jobs |-> "new"]
    /\ results = <<>>
    /\ closed = FALSE
    /\ ended = FALSE

Submit(j) ==
    /\ status[j] = "new"
    /\ ~closed
    /\ status' = [status EXCEPT ![j] = "open"]
    /\ UNCHANGED <<results, closed, ended>>

Skip(j) ==
    /\ status[j] = "new"
    /\ ~closed
    /\ status' = [status EXCEPT ![j] = "skipped"]
    /\ UNCHANGED <<results, closed, ended>>

Close ==
    /\ ~closed
    /\ closed' = TRUE
    /\ UNCHANGED <<status, results, ended>>

(***************************************************************************)
(* Some open jobs are completed, each once.                                *)
(***************************************************************************)
Complete(batch) ==
    /\ \A i \in DOMAIN batch : status[batch[i]] = "open"
    /\ \A i, k \in DOMAIN batch : batch[i] = batch[k] => i = k
    /\ results' = results \o batch
    /\ status' = [j \in Jobs |-> IF \E i \in DOMAIN batch : batch[i] = j
                                 THEN "complete" ELSE status[j]]
    /\ UNCHANGED <<closed, ended>>

Return ==
    /\ ~ended
    /\ results # <<>>
    /\ status' = [status EXCEPT ![Head(results)] = "returned"]
    /\ results' = Tail(results)
    /\ UNCHANGED <<closed, ended>>

End ==
    /\ closed
    /\ results = <<>>
    /\ ended' = TRUE
    /\ UNCHANGED <<status, results, closed>>

Next ==
    \/ \E j \in Jobs : Submit(j) \/ Skip(j)
    \/ Close
    \/ \E batch \in Batches : Complete(batch)
    \/ Return
    \/ End

Spec == Init /\ [][Next]_absVars

=============================================================================
