----------------------- MODULE DatabaseCampaignProofs -----------------------
(***************************************************************************)
(* Proofs about DatabaseCampaign: a pilot is skipped exactly when its      *)
(* results are complete, and a campaign that has finished has stored what  *)
(* it was given, for any number of pilots, rows, crashes and failures.     *)
(***************************************************************************)
EXTENDS DatabaseCampaign, FiniteSetTheorems, TLAPS

\* What load_completed_pilots has read stays true for the pilots that are not
\* looked at yet: rows are inserted for returned jobs only.
CountsInv ==
  pc = "send" => \A p \in Pilots : status[p] = "new" => completed_pilots[p] = Count(p)

\* The collector inserts rows of jobs that were returned to it.
InsertingInv ==
  \A i \in DOMAIN inserting : status[inserting[i][1]] = "returned"

\* What is skipped is complete; what was returned is in the table or in the
\* hands of the collector.
StoredInv ==
  /\ \A p \in Pilots : status[p] = "skipped" => Complete(p)
  /\ ~failed => \A p \in Pilots : status[p] = "returned" =>
       \A k \in Keys : rows[p][k] > 0 \/ \E i \in DOMAIN inserting : inserting[i] = <<p, k>>

\* The campaign thread leaves after the collector.
EndInv == (pc = "finished" => ended) /\ (ended => inserting = <<>>)

Inv == TypeOK /\ CountsInv /\ InsertingInv /\ StoredInv /\ EndInv

-----------------------------------------------------------------------------
\* A result has as many rows as there are keys.
LEMMA KeysCounted ==
  /\ IsFiniteSet(Keys) /\ Cardinality(Keys) = expected_number_of_results
  /\ expected_number_of_results \in Nat
<1>1. /\ Len(KeyList) \in Nat /\ DOMAIN KeyList = 1..Len(KeyList)
      /\ KeyList \in [1..Len(KeyList) -> Keys]
  BY CampaignAssumption DEF Keys
<1>2. KeyList \in Bijection(1..Len(KeyList), Keys)
  <2>1. \A k \in Keys : \E i \in 1..Len(KeyList) : KeyList[i] = k
    BY Zenon, <1>1 DEF Keys, Range
  <2>2. \A i, j \in 1..Len(KeyList) : KeyList[i] = KeyList[j] => i = j
    BY Zenon, <1>1, CampaignAssumption DEF IsInjective
  <2> QED
    BY Zenon, <1>1, <2>1, <2>2 DEF Bijection, Injection, Surjection, IsInjective
<1>3. ExistsBijection(1..Len(KeyList), Keys)
  BY Zenon, <1>2 DEF ExistsBijection
<1>4. IsFiniteSet(Keys)
  BY Zenon, <1>1, <1>3, FS_NatBijection
<1>5. Cardinality(Keys) = Len(KeyList)
  BY Zenon, <1>1, <1>3, FS_CountingElements
<1> QED
  BY Zenon, <1>1, <1>4, <1>5 DEF expected_number_of_results

\* The number of rows tells whether a result is complete.
LEMMA CountTellsComplete ==
  ASSUME TypeOK, NEW p \in Pilots
  PROVE  /\ Count(p) \in 0..expected_number_of_results
         /\ Count(p) = expected_number_of_results <=> Complete(p)
<1> DEFINE All == Keys \X {1}
<1>1. /\ IsFiniteSet(All) /\ Cardinality(All) = expected_number_of_results
      /\ expected_number_of_results \in Nat
  <2>1. IsFiniteSet({1}) /\ Cardinality({1}) = 1
    BY Zenon, FS_Singleton
  <2>2. IsFiniteSet(All) /\ Cardinality(All) = Cardinality(Keys) * Cardinality({1})
    BY Zenon, <2>1, KeysCounted, FS_Product
  <2> QED
    BY <2>1, <2>2, KeysCounted
<1>2. \A k \in Keys : rows[p][k] \in {0, 1}
  BY Zenon DEF TypeOK
<1>3. \A k \in Keys : \A n : n \in 1..rows[p][k] <=> rows[p][k] = 1 /\ n = 1
  BY <1>2
<1>4. \A r : r \in ResultRows(p) <=> \E k \in Keys : rows[p][k] = 1 /\ r = <<k, 1>>
  BY <1>2, <1>3 DEF ResultRows
<1>5. ResultRows(p) \in SUBSET All
  BY <1>4
<1>6. /\ IsFiniteSet(ResultRows(p)) /\ Cardinality(ResultRows(p)) <= Cardinality(All)
      /\ Cardinality(All) = Cardinality(ResultRows(p)) => All = ResultRows(p)
  BY Zenon, <1>1, <1>5, FS_Subset
<1>7. Cardinality(ResultRows(p)) \in Nat
  BY Zenon, <1>6, FS_CardinalityType
<1>8. All = ResultRows(p) <=> Complete(p)
  <2>1. ASSUME All = ResultRows(p), NEW k \in Keys
        PROVE  rows[p][k] > 0
    <3>1. <<k, 1>> \in ResultRows(p)
      BY Zenon, <2>1
    <3>2. rows[p][k] = 1
      BY <3>1, <1>4
    <3> QED
      BY <3>2
  <2>2. ASSUME Complete(p)
        PROVE  All = ResultRows(p)
    <3>1. \A k \in Keys : rows[p][k] = 1
      BY <2>2, <1>2 DEF Complete
    <3> QED
      BY <3>1, <1>4, <1>5
  <2> QED
    BY Zenon, <2>1, <2>2 DEF Complete
<1> QED
  BY <1>1, <1>6, <1>7, <1>8 DEF Count

-----------------------------------------------------------------------------
\* An empty table and no process satisfy the invariant.
LEMMA InitInv == Init => Inv
<1> SUFFICES ASSUME Init PROVE Inv
  BY Zenon
<1> USE DEF Init, JobServer!Init
<1>1. TypeOK
  <2>1. rows \in [Pilots -> [Keys -> {0, 1}]]
    BY Zenon
  <2>2. completed_pilots \in [Pilots -> 0..expected_number_of_results]
    BY KeysCounted
  <2>3. mishaps \in 0..MaxMishaps
    BY CampaignAssumption
  <2>4. status \in [Pilots -> {"new", "skipped", "open", "complete", "returned"}]
    BY Zenon
  <2>5. closed \in BOOLEAN /\ ended \in BOOLEAN /\ failed \in BOOLEAN
    BY Zenon
  <2>6. pilots \in Seq(Pilots) /\ results \in Seq(Pilots) /\ inserting \in Seq(Pilots \X Keys)
    OBVIOUS
  <2> QED
    BY Zenon, <2>1, <2>2, <2>3, <2>4, <2>5, <2>6 DEF TypeOK
<1>2. InsertingInv
  BY DEF InsertingInv
<1> QED
  BY Zenon, <1>1, <1>2 DEF Inv, CountsInv, StoredInv, EndInv

\* A new process, and one that dies, hold nothing but the table.
LEMMA StartInv ==
  ASSUME Inv, Start \/ Crash
  PROVE  Inv'
<1> USE DEF Inv, NewProcess
<1>1. UNCHANGED rows /\ mishaps' \in 0..MaxMishaps
  BY CampaignAssumption DEF Start, Crash, Mishap, TypeOK
<1>2. pc' \in {"down", "load"} /\ NewProcess
  BY Zenon DEF Start, Crash
<1>3. TypeOK'
  <2>1. completed_pilots' \in [Pilots -> 0..expected_number_of_results]
    BY <1>2, KeysCounted
  <2>2. status' \in [Pilots -> {"new", "skipped", "open", "complete", "returned"}]
    BY Zenon, <1>2
  <2>3. closed' \in BOOLEAN /\ ended' \in BOOLEAN /\ failed' \in BOOLEAN
    BY Zenon, <1>2
  <2>4. pilots' \in Seq(Pilots) /\ results' \in Seq(Pilots) /\ inserting' \in Seq(Pilots \X Keys)
    BY <1>2
  <2> QED
    BY Zenon, <1>1, <1>2, <2>1, <2>2, <2>3, <2>4 DEF TypeOK
<1>4. InsertingInv'
  BY <1>2 DEF InsertingInv
<1> QED
  BY Zenon, <1>2, <1>3, <1>4 DEF CountsInv, StoredInv, EndInv

\* load_completed_pilots counts the rows of every pilot.
LEMMA LoadInv ==
  ASSUME Inv, LoadCompletedPilots
  PROVE  Inv'
<1> USE DEF Inv, LoadCompletedPilots, server
<1>1. \A p \in Pilots : Count(p) \in 0..expected_number_of_results
  BY Zenon, CountTellsComplete
<1>2. TypeOK'
  BY Zenon, <1>1, CampaignAssumption DEF TypeOK
<1>3. \A p \in Pilots : completed_pilots'[p] = Count(p)' /\ Complete(p)' = Complete(p)
  BY Zenon DEF Count, ResultRows, Complete
<1> QED
  BY Zenon, <1>2, <1>3 DEF CountsInv, InsertingInv, StoredInv, EndInv

\* run_variant: the count that was loaded decides as the table would.
LEMMA RunVariantInv ==
  ASSUME Inv, RunVariant
  PROVE  /\ Inv'
         /\ \A p \in Pilots : status[p] = "new" =>
              /\ status'[p] = "skipped" => Complete(p)
              /\ status'[p] = "open" => ~Complete(p)
<1> USE DEF Inv
<1> DEFINE q == Head(pilots)
<1>1. pc = "send" /\ pilots # <<>> /\ pilots \in Seq(Pilots)
  BY Zenon DEF RunVariant, TypeOK
<1>2. q \in Pilots /\ Tail(pilots) \in Seq(Pilots)
  BY <1>1
<1>3. UNCHANGED <<rows, pc, completed_pilots, inserting, mishaps, failed, results, closed, ended>>
  BY Zenon DEF RunVariant, JobServer!Skip, JobServer!Submit
<1>4. /\ status[q] = "new" /\ status' = [status EXCEPT ![q] = status'[q]]
      /\ status'[q] \in {"skipped", "open"}
      /\ status'[q] = "skipped" <=> completed_pilots[q] = expected_number_of_results
  BY Zenon, <1>2 DEF RunVariant, JobServer!Skip, JobServer!Submit, existing_results_for_pilot, TypeOK
<1>5. completed_pilots[q] = Count(q)
  BY Zenon, <1>1, <1>2, <1>4 DEF CountsInv
<1>6. status'[q] = "skipped" <=> Complete(q)
  BY Zenon, <1>2, <1>4, <1>5, CountTellsComplete
<1>7. \A p \in Pilots : p # q => status'[p] = status[p]
  BY Zenon, <1>2, <1>4 DEF TypeOK
<1>8. \A p \in Pilots : Count(p)' = Count(p) /\ Complete(p)' = Complete(p)
  BY Zenon, <1>3 DEF Count, ResultRows, Complete
<1>9. TypeOK'
  <2>1. status' \in [Pilots -> {"new", "skipped", "open", "complete", "returned"}]
    BY Zenon, <1>2, <1>4 DEF TypeOK
  <2>2. pilots' \in Seq(Pilots)
    BY Zenon, <1>2 DEF RunVariant
  <2> QED
    BY Zenon, <1>3, <2>1, <2>2 DEF TypeOK
<1>10. CountsInv'
  BY Zenon, <1>3, <1>4, <1>7, <1>8 DEF CountsInv
<1>11. InsertingInv'
  <2>1. \A i \in DOMAIN inserting : inserting[i][1] \in Pilots
    BY DEF TypeOK
  <2> QED
    BY Zenon, <2>1, <1>3, <1>4, <1>7 DEF InsertingInv
<1>12. StoredInv'
  BY Zenon, <1>3, <1>4, <1>6, <1>7, <1>8 DEF StoredInv
<1>13. EndInv'
  BY Zenon, <1>3 DEF EndInv
<1> QED
  BY Zenon, <1>4, <1>6, <1>7, <1>9, <1>10, <1>11, <1>12, <1>13

\* noMoreParameters and the join with the collector store nothing.
LEMMA ThreadEndsInv ==
  ASSUME Inv, NoMoreParameters \/ Join
  PROVE  Inv' /\ UNCHANGED status
<1> USE DEF Inv
<1>1. /\ UNCHANGED <<rows, pilots, completed_pilots, status, results, ended, inserting, mishaps, failed>>
      /\ closed' \in BOOLEAN /\ pc' \in {"join", "finished"} /\ (pc' = "finished" => ended)
  BY Zenon DEF NoMoreParameters, Join, JobServer!Close, server, TypeOK
<1>2. TypeOK'
  BY Zenon, <1>1 DEF TypeOK
<1> QED
  BY Zenon, <1>1, <1>2 DEF CountsInv, InsertingInv, StoredInv, EndInv, Complete

-----------------------------------------------------------------------------
\* getDone: the collector has all rows of the result it is handed.
LEMMA GetDoneInv ==
  ASSUME Inv, GetDone
  PROVE  /\ Inv'
         /\ \A p \in Pilots : status'[p] \in {status[p], "returned"}
<1> USE DEF Inv
<1>1. UNCHANGED <<rows, pc, pilots, completed_pilots, failed, closed>> /\ inserting = <<>>
  BY Zenon DEF GetDone, JobServer!Return, JobServer!End
<1>2. \A p \in Pilots : Count(p)' = Count(p) /\ Complete(p)' = Complete(p)
  BY Zenon, <1>1 DEF Count, ResultRows, Complete
<1>3. CASE /\ JobServer!Return
           /\ inserting' = [i \in DOMAIN KeyList |-> <<Head(results), KeyList[i]>>]
           /\ UNCHANGED mishaps
  <2> DEFINE q == Head(results)
  <2>1. q \in Pilots /\ Tail(results) \in Seq(Pilots)
    BY <1>3 DEF JobServer!Return, TypeOK
  <2>2. /\ status' = [status EXCEPT ![q] = "returned"] /\ results' = Tail(results)
        /\ ~ended /\ UNCHANGED ended
    BY Zenon, <1>3 DEF JobServer!Return
  <2>3. inserting' \in Seq(Pilots \X Keys)
    <3>1. DOMAIN KeyList = 1..Len(KeyList) /\ Len(KeyList) \in Nat
          /\ \A i \in 1..Len(KeyList) : KeyList[i] \in Keys
      BY CampaignAssumption
    <3> QED
      BY <1>3, <2>1, <3>1
  <2>4. \A k \in Keys : \E i \in DOMAIN inserting' : inserting'[i] = <<q, k>>
    BY Zenon, <1>3 DEF Keys, Range
  <2>5. \A i \in DOMAIN inserting' : inserting'[i][1] = q
    BY Zenon, <1>3
  <2>6. status'[q] = "returned" /\ \A p \in Pilots : p # q => status'[p] = status[p]
    BY Zenon, <2>1, <2>2 DEF TypeOK
  <2>7. TypeOK'
    BY Zenon, <1>1, <1>3, <2>1, <2>2, <2>3 DEF TypeOK
  <2>8. CountsInv'
    BY Zenon, <1>1, <1>2, <2>6 DEF CountsInv
  <2>9. InsertingInv'
    BY Zenon, <2>5, <2>6 DEF InsertingInv
  <2>10. StoredInv'
    BY <1>1, <1>2, <2>4, <2>6 DEF StoredInv
  <2>11. EndInv'
    BY Zenon, <1>1, <2>2 DEF EndInv
  <2> QED
    BY Zenon, <2>6, <2>7, <2>8, <2>9, <2>10, <2>11
<1>4. CASE /\ JobServer!End
           /\ IF \E p \in Pilots : status[p] = "open" THEN Mishap ELSE UNCHANGED mishaps
           /\ UNCHANGED inserting
  <2>1. UNCHANGED <<status, results>> /\ ended' = TRUE
    BY Zenon, <1>4 DEF JobServer!End
  <2>2. mishaps' \in 0..MaxMishaps
    BY <1>4, CampaignAssumption DEF Mishap, TypeOK
  <2>3. TypeOK'
    BY Zenon, <1>1, <1>4, <2>1, <2>2 DEF TypeOK
  <2> QED
    BY Zenon, <1>1, <1>2, <1>4, <2>1, <2>3 DEF CountsInv, InsertingInv, StoredInv, EndInv
<1> QED
  BY Zenon, <1>3, <1>4 DEF GetDone

\* insert_row: what leaves the collector's hands is in the table, or an
\* insertion failed.
LEMMA InsertInv ==
  ASSUME Inv, Insert
  PROVE  Inv' /\ UNCHANGED status
<1> USE DEF Inv
<1>1. UNCHANGED <<pc, pilots, completed_pilots, status, results, closed, ended>> /\ inserting # <<>>
  BY Zenon DEF Insert, server
<1> DEFINE q == Head(inserting)[1]
           key == Head(inserting)[2]
<1>2. /\ q \in Pilots /\ key \in Keys /\ Head(inserting) = <<q, key>>
      /\ Head(inserting) = inserting[1] /\ 1 \in DOMAIN inserting
      /\ Tail(inserting) \in Seq(Pilots \X Keys)
      /\ \A i \in DOMAIN Tail(inserting) : i + 1 \in DOMAIN inserting /\ Tail(inserting)[i] = inserting[i + 1]
      /\ \A i \in DOMAIN inserting : i # 1 =>
           \E j \in DOMAIN Tail(inserting) : Tail(inserting)[j] = inserting[i]
  <2>1. inserting \in Seq(Pilots \X Keys) /\ Head(inserting) \in Pilots \X Keys
    BY <1>1 DEF TypeOK
  <2>2. \A i \in DOMAIN inserting : i # 1 =>
          i - 1 \in DOMAIN Tail(inserting) /\ Tail(inserting)[i - 1] = inserting[i]
    BY <1>1, <2>1
  <2>3. q \in Pilots /\ key \in Keys /\ Head(inserting) = <<q, key>>
    BY <2>1
  <2>4. /\ Head(inserting) = inserting[1] /\ 1 \in DOMAIN inserting
        /\ Tail(inserting) \in Seq(Pilots \X Keys)
    BY <1>1, <2>1
  <2>5. \A i \in DOMAIN Tail(inserting) : i + 1 \in DOMAIN inserting /\ Tail(inserting)[i] = inserting[i + 1]
    BY <1>1, <2>1
  <2> QED
    BY Zenon, <2>2, <2>3, <2>4, <2>5
<1>3. status[q] = "returned"
  BY Zenon, <1>2 DEF InsertingInv
<1>4. ~ended
  BY Zenon, <1>1 DEF EndInv
<1>5. CASE InsertRow(q, key) /\ inserting' = Tail(inserting)
  <2>1. \/ rows[q][key] = 0 /\ rows' = [rows EXCEPT ![q][key] = 1] /\ UNCHANGED <<mishaps, failed>>
        \/ rows[q][key] = 1 /\ UNCHANGED <<rows, mishaps, failed>>
        \/ rows[q][key] = 0 /\ Mishap /\ failed' = TRUE /\ UNCHANGED rows
    <3>1. rows[q][key] \in {0, 1} /\ rows[q] \in [Keys -> {0, 1}] /\ rows \in [Pilots -> [Keys -> {0, 1}]]
      BY Zenon, <1>2 DEF TypeOK
    <3>2. rows[q][key] = 0 => [rows EXCEPT ![q][key] = @ + 1] = [rows EXCEPT ![q][key] = 1]
      BY <1>2, <3>1
    <3> QED
      BY Zenon, <1>5, <3>1, <3>2 DEF InsertRow
  <2>2. mishaps' \in 0..MaxMishaps /\ failed' \in BOOLEAN
    <3>1. mishaps' \in 0..MaxMishaps
      BY <2>1, CampaignAssumption DEF Mishap, TypeOK
    <3>2. failed' \in BOOLEAN
      BY Zenon, <2>1 DEF TypeOK
    <3> QED
      BY Zenon, <3>1, <3>2
  <2>3. rows' \in [Pilots -> [Keys -> {0, 1}]]
    <3>1. rows \in [Pilots -> [Keys -> {0, 1}]]
      BY Zenon DEF TypeOK
    <3>2. [rows[q] EXCEPT ![key] = 1] \in [Keys -> {0, 1}]
      BY Zenon, <1>2, <3>1
    <3>3. [rows EXCEPT ![q] = [rows[q] EXCEPT ![key] = 1]] \in [Pilots -> [Keys -> {0, 1}]]
      BY Zenon, <1>2, <3>1, <3>2
    <3> QED
      BY Zenon, <2>1, <3>1, <3>3
  <2>4. /\ \A p \in Pilots : p # q => rows'[p] = rows[p]
        /\ \A p \in Pilots : \A k \in Keys : rows[p][k] > 0 => rows'[p][k] > 0
        /\ ~failed' => rows'[q][key] > 0 /\ ~failed
    <3>1. rows \in [Pilots -> [Keys -> {0, 1}]]
      BY Zenon DEF TypeOK
    <3>2. CASE rows' = [rows EXCEPT ![q][key] = 1] /\ UNCHANGED failed
      BY <1>2, <3>1, <3>2
    <3>3. CASE rows[q][key] = 1 /\ UNCHANGED <<rows, failed>>
      BY <1>2, <3>1, <3>3
    <3>4. CASE failed' = TRUE /\ UNCHANGED rows
      BY Zenon, <3>4
    <3> QED
      BY Zenon, <2>1, <3>2, <3>3, <3>4
  <2>5. TypeOK'
    BY Zenon, <1>1, <1>2, <1>5, <2>2, <2>3 DEF TypeOK
  <2>6. CountsInv'
    <3>1. \A p \in Pilots : p # q => Count(p)' = Count(p)
      BY Zenon, <2>4 DEF Count, ResultRows
    <3> QED
      BY Zenon, <1>1, <1>3, <3>1 DEF CountsInv
  <2>7. InsertingInv'
    BY <1>1, <1>2, <1>5 DEF InsertingInv
  <2>8. \A p \in Pilots : Complete(p) => Complete(p)'
    BY Zenon, <2>4 DEF Complete
  <2>9. StoredInv'
    <3>1. ASSUME ~failed', NEW p \in Pilots, status[p] = "returned", NEW k \in Keys
          PROVE  rows'[p][k] > 0 \/ \E i \in DOMAIN inserting' : inserting'[i] = <<p, k>>
      <4>1. rows[p][k] > 0 \/ \E i \in DOMAIN inserting : inserting[i] = <<p, k>>
        BY Zenon, <2>4, <3>1 DEF StoredInv
      <4>2. CASE rows[p][k] > 0
        BY Zenon, <4>2, <2>4
      <4>3. CASE \E i \in DOMAIN inserting : inserting[i] = <<p, k>>
        <5>1. PICK i \in DOMAIN inserting : inserting[i] = <<p, k>>
          BY Zenon, <4>3
        <5>2. CASE i = 1
          BY <5>1, <5>2, <1>2, <2>4, <3>1
        <5>3. CASE i # 1
          BY <5>1, <5>3, <1>2, <1>5
        <5> QED
          BY Zenon, <5>2, <5>3
      <4> QED
        BY Zenon, <4>1, <4>2, <4>3
    <3> QED
      BY Zenon, <1>1, <2>8, <3>1 DEF StoredInv
  <2> QED
    BY Zenon, <1>1, <1>4, <2>5, <2>6, <2>7, <2>9 DEF EndInv
<1>6. CASE Mishap /\ failed' = TRUE /\ inserting' = <<>> /\ UNCHANGED rows
  <2>1. mishaps' \in 0..MaxMishaps
    BY <1>6, CampaignAssumption DEF Mishap, TypeOK
  <2>2. TypeOK'
    BY <1>1, <1>6, <2>1 DEF TypeOK
  <2>3. \A p \in Pilots : Count(p)' = Count(p) /\ Complete(p)' = Complete(p)
    BY Zenon, <1>6 DEF Count, ResultRows, Complete
  <2>4. InsertingInv'
    BY <1>6 DEF InsertingInv
  <2> QED
    BY Zenon, <1>1, <1>6, <2>2, <2>3, <2>4 DEF CountsInv, StoredInv, EndInv
<1> QED
  BY Zenon, <1>1, <1>5, <1>6 DEF Insert

\* A client's result only changes the state of its job.
LEMMA ClientCompletesInv ==
  ASSUME Inv, NEW q \in Pilots, ClientCompletes(q)
  PROVE  /\ Inv'
         /\ \A p \in Pilots : status'[p] \in {status[p], "complete"}
<1> USE DEF Inv
<1>1. /\ UNCHANGED <<rows, pc, pilots, completed_pilots, inserting, mishaps, failed, closed, ended>>
      /\ status[q] = "open" /\ results' = results \o <<q>>
      /\ status' = [p \in Pilots |-> IF p = q THEN "complete" ELSE status[p]]
  BY DEF ClientCompletes, JobServer!Complete
<1>2. results' \in Seq(Pilots)
  BY <1>1 DEF TypeOK
<1>3. TypeOK'
  BY Zenon, <1>1, <1>2 DEF TypeOK
<1>4. \A p \in Pilots : Count(p)' = Count(p) /\ Complete(p)' = Complete(p)
  BY Zenon, <1>1 DEF Count, ResultRows, Complete
<1>5. InsertingInv'
  <2>1. \A i \in DOMAIN inserting : inserting[i][1] \in Pilots
    BY DEF TypeOK
  <2> QED
    BY Zenon, <2>1, <1>1 DEF InsertingInv
<1> QED
  BY Zenon, <1>1, <1>3, <1>4, <1>5 DEF CountsInv, StoredInv, EndInv

-----------------------------------------------------------------------------
\* Every step of the campaign preserves the invariant.
LEMMA NextInv == Inv /\ [Next]_vars => Inv'
<1> SUFFICES ASSUME Inv, [Next]_vars PROVE Inv'
  BY Zenon
<1>1. CASE UNCHANGED vars
  BY <1>1 DEF vars, server, Inv, TypeOK, CountsInv, InsertingInv, StoredInv, EndInv, Count, ResultRows, Complete
<1>2. CASE Next
  BY Zenon, <1>2, StartInv, LoadInv, RunVariantInv, ThreadEndsInv, GetDoneInv, InsertInv, ClientCompletesInv DEF Next
<1> QED
  BY Zenon, <1>1, <1>2

\* The inductive invariant holds in every state of DatabaseCampaign.
THEOREM CampaignInvariant == Spec => []Inv
  BY InitInv, NextInv, PTL DEF Spec

\* Every variable of the campaign keeps its type, and the PRIMARY KEY keeps
\* one row per pilot and key.
THEOREM CampaignTypeCorrect == Spec => []TypeOK
<1>1. Inv => TypeOK
  BY Zenon DEF Inv
<1> QED
  BY <1>1, CampaignInvariant, PTL

\* When DatabaseCampaign::run returns, the results it was given are stored,
\* for any number of pilots, rows and mishaps.
THEOREM FinishedMeansStoredAlways == Spec => []FinishedMeansStored
<1>1. Inv => FinishedMeansStored
  BY DEF Inv, StoredInv, EndInv, FinishedMeansStored, Complete
<1> QED
  BY <1>1, CampaignInvariant, PTL

\* run_variant skips exactly the pilots whose results are complete, whatever
\* crashes and failures have left in the table.
THEOREM SkipsExactlyCompletedAlways == Spec => SkipsExactlyCompleted
<1> DEFINE Exactly == \A p \in Pilots : status[p] = "new" =>
                        /\ status'[p] = "skipped" => Complete(p)
                        /\ status'[p] = "open" => ~Complete(p)
<1>1. Inv /\ [Next]_vars => [Exactly]_vars
  <2> SUFFICES ASSUME Inv, Next PROVE Exactly
    BY Zenon
  <2>1. CASE Start \/ Crash
    BY Zenon, <2>1 DEF Start, Crash, NewProcess
  <2>2. CASE LoadCompletedPilots
    BY Zenon, <2>2 DEF LoadCompletedPilots, server
  <2>3. CASE RunVariant
    BY Zenon, <2>3, RunVariantInv
  <2>4. CASE NoMoreParameters \/ Join
    BY Zenon, <2>4, ThreadEndsInv
  <2>5. CASE GetDone
    BY Zenon, <2>5, GetDoneInv
  <2>6. CASE Insert
    BY Zenon, <2>6, InsertInv
  <2>7. CASE \E p \in Pilots : ClientCompletes(p)
    BY Zenon, <2>7, ClientCompletesInv
  <2> QED
    BY Zenon, <2>1, <2>2, <2>3, <2>4, <2>5, <2>6, <2>7 DEF Next
<1> QED
  BY <1>1, CampaignInvariant, PTL DEF Spec, SkipsExactlyCompleted
=============================================================================
