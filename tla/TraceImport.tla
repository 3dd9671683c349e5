----------------------------- MODULE TraceImport -----------------------------
(***************************************************************************)
(* The import of a recorded trace into the table "trace"                   *)
(* (tools/import-trace): Importer::copy_to_database and the handlers of    *)
(* MemoryImporter, InstructionImporter, RegisterImporter (without a memory *)
(* map) and AdvancedMemoryImporter.  Every access to an address closes the *)
(* equivalence class (EC) that is open for it and opens the next one; at   *)
(* the end of the trace the ECs still open are closed with a fake access.  *)
(*                                                                         *)
(* A trace is a sequence of IP events (a new dynamic instruction) and MEM  *)
(* events; both may access several addresses, byte by byte.  The           *)
(* instruction and register importers take their accesses from the IP      *)
(* event, the memory importers from the MEM events.  The advanced importer *)
(* keeps MEM events back until enough conditional branches are known.      *)
(* Rows go to the database in batches; any query may fail.                 *)
(***************************************************************************)
EXTENDS Integers, Sequences, FiniteSets, FiniteSetsExt

CONSTANTS
  Address,        \* bytes of memory, or registers
  Options,        \* the sets of command line options to be looked at
  IpAccesses,     \* what the importer takes from an IP event: sequences of accesses
  MemAccesses,    \* what it takes from a MEM event
  IpDeltas,       \* time deltas of IP events; MEM events have the time of theirs
  MaxInstr,       \* (1LL << 32) - 1: the largest instruction_count_t
  BatchSize,      \* 2048 rows: insert_multiple sends the batch
  Window,         \* BRANCH_WINDOW_SIZE
  MaxAccesses     \* bound: accesses of a trace

Importers == {"memory", "advanced", "instruction"}   \* the latter also for registers

Access == [addr: Address, type: {"R", "W"}]

ASSUME ImportAssumption ==
  /\ Options \subseteq [has_mm: BOOLEAN, mm: SUBSET Address, import_write_ecs: BOOLEAN,
                        rightmargin: {"R", "W"}, importer: Importers, sanitychecks: BOOLEAN]
  /\ IpAccesses \subseteq Seq(Access) /\ MemAccesses \subseteq Seq(Access)
  /\ IpDeltas \subseteq Nat \ {0}
  /\ MaxInstr \in Nat \ {0} /\ BatchSize \in Nat \ {0} /\ Window \in Nat
  /\ MaxAccesses \in Nat

VARIABLES
  opt,                \* the options of this import
  pc,                 \* read, handle, close, done or failed
  ending,             \* trace_end_reached() was called
  curtime, instr, m_time_trace_start,
  delayed_entries,    \* MEM (or IP) events whose accesses are not handled yet
  branches_taken, m_last_was_conditional_branch,
  m_open_ecs,         \* address -> left margin of its open EC; "open" is membership in the map
  m_row_count, m_last_instr, m_last_time,
  cache, trace,       \* m_insertquery_values and the table
  closing,            \* addresses close_ec_intervals has still to visit
  lost,               \* history: a query failed
  accesses            \* history: the accesses of the recorded trace, in order

vars == <<opt, pc, ending, curtime, instr, m_time_trace_start, delayed_entries, branches_taken,
          m_last_was_conditional_branch, m_open_ecs, m_row_count, m_last_instr, m_last_time,
          cache, trace, closing, lost, accesses>>

readvars  == <<curtime, instr, m_time_trace_start, branches_taken, m_last_was_conditional_branch, accesses>>
endvars   == <<ending, m_last_instr, m_last_time, closing>>
tablevars == <<m_open_ecs, m_row_count, cache, trace, lost>>

Init ==
  /\ opt \in Options
  /\ pc = "read" /\ ending = FALSE
  /\ curtime = 0 /\ instr = 0 /\ m_time_trace_start = 0
  /\ delayed_entries = <<>> /\ branches_taken = <<>> /\ m_last_was_conditional_branch = FALSE
  /\ m_open_ecs = [a \in Address |-> [open |-> FALSE, dyninstr |-> 0, time |-> 0]]
  /\ m_row_count = 0 /\ m_last_instr = 0 /\ m_last_time = 0
  /\ cache = {} /\ trace = {} /\ closing = {} /\ lost = FALSE
  /\ accesses = <<>>

Delayed == opt.importer = "advanced"

Matching(a) == opt.has_mm => a \in opt.mm

(***************************************************************************)
(* Database::insert_multiple and Importer::add_trace_event                 *)
(***************************************************************************)
KeysDistinct(rows) ==
  \A r, s \in rows : r.addr = s.addr /\ r.instr2 = s.instr2 => r = s

Send(rows) == KeysDistinct(trace \cup rows) /\ trace' = trace \cup rows /\ cache' = {}
SendFails  == trace' = trace /\ cache' = {}

InsertMultiple(row) ==
  IF Cardinality(cache) + 1 >= BatchSize
    THEN Send(cache \cup {row})
    ELSE cache' = cache \cup {row} /\ trace' = trace

InsertMultipleFails == Cardinality(cache) + 1 >= BatchSize /\ SendFails

\* mutant: --no-write-ecs is always on
MutImported(type) == type = "R"

Imported(type) == opt.import_write_ecs \/ type = "R"

AddTraceEvent(row) ==
  IF Imported(row.type)
    THEN InsertMultiple(row) /\ m_row_count' = m_row_count + 1
    ELSE UNCHANGED <<cache, trace, m_row_count>>

AddTraceEventFails(row) ==
  Imported(row.type) /\ InsertMultipleFails /\ UNCHANGED m_row_count

(***************************************************************************)
(* The handlers of an event                                                *)
(***************************************************************************)
BranchMask(before) ==
  {pos \in (-Window)..(Window - 1) :
     before + pos + 1 \in DOMAIN branches_taken /\ branches_taken[before + pos + 1]}

OpenEC(a) ==
  [m_open_ecs[a] EXCEPT !.time = IF @ = 0 THEN m_time_trace_start ELSE @]

Row(a, left, right, type, mask) ==
  [addr |-> a, instr1 |-> left.dyninstr, instr2 |-> right.dyninstr,
   time1 |-> left.time, time2 |-> right.time, type |-> type, jumphistory |-> mask]

\* mutant: the window ends one branch too early
MutReady(entry) ==
  ~Delayed \/ ending \/ entry.branches_before + Window <= Len(branches_taken) + 1

Ready(entry) ==
  ~Delayed \/ ending \/ entry.branches_before + Window <= Len(branches_taken)

AnyReady == delayed_entries # <<>> /\ Ready(Head(delayed_entries))

\* the entry loses its first access, and leaves the queue after its last one
NextAccess(entries) ==
  IF Len(Head(entries).accs) = 1
    THEN Tail(entries)
    ELSE <<[Head(entries) EXCEPT !.accs = Tail(@)]>> \o Tail(entries)

CloseAt(entry, a, type) ==
  Row(a, OpenEC(a), [dyninstr |-> entry.dyninstr, time |-> entry.time], type,
      IF Delayed THEN BranchMask(entry.branches_before) ELSE {})

\* mutant: a second access of the same instruction opens an EC of its own
MutSkipped(entry, a) == ~Matching(a)

Skipped(entry, a) == ~Matching(a) \/ OpenEC(a).dyninstr > entry.dyninstr

HandleAccess ==
  /\ pc = "handle" /\ AnyReady
  /\ LET entry == Head(delayed_entries)
         a == Head(entry.accs).addr
         type == Head(entry.accs).type
     IN \/ /\ Skipped(entry, a)
           /\ delayed_entries' = NextAccess(delayed_entries)
           /\ UNCHANGED <<pc, tablevars>>
        \/ /\ ~Skipped(entry, a)
           /\ AddTraceEvent(CloseAt(entry, a, type))
           /\ m_open_ecs' = [m_open_ecs EXCEPT ![a] =
                [open |-> TRUE, dyninstr |-> entry.dyninstr + 1, time |-> entry.time + 1]]
           /\ delayed_entries' = NextAccess(delayed_entries)
           /\ UNCHANGED <<pc, lost>>
        \/ /\ ~Skipped(entry, a)      \* insert_delayed_entries ignores the failure
           /\ AddTraceEventFails(CloseAt(entry, a, type))
           /\ m_open_ecs' = [m_open_ecs EXCEPT ![a].open = TRUE]
           /\ delayed_entries' = Tail(delayed_entries)
           /\ pc' = IF Delayed THEN pc ELSE "failed"
           /\ lost' = TRUE
  /\ UNCHANGED <<opt, readvars, endvars>>

(***************************************************************************)
(* Importer::copy_to_database                                              *)
(***************************************************************************)
AccessesOf(entry) ==
  [k \in DOMAIN entry.accs |->
     [addr |-> entry.accs[k].addr, type |-> entry.accs[k].type, dyninstr |-> entry.dyninstr,
      time |-> entry.time, branches_before |-> entry.branches_before]]

Enqueue(entry) ==
  /\ Len(accesses) + Len(entry.accs) <= MaxAccesses
  /\ delayed_entries' = IF entry.accs = <<>> THEN delayed_entries ELSE Append(delayed_entries, entry)
  /\ accesses' = accesses \o AccessesOf(entry)

\* mutant: the counter is not guarded
MutOverflow == FALSE

Overflow == instr = MaxInstr

IpEvent ==
  /\ pc = "read"
  /\ UNCHANGED <<opt, endvars, tablevars>>
  /\ \/ /\ Overflow
        /\ pc' = "failed"
        /\ UNCHANGED <<readvars, delayed_entries>>
     \/ /\ ~Overflow
        /\ \E delta \in IpDeltas, taken, branch \in BOOLEAN,
              accs \in IF opt.importer = "instruction" THEN IpAccesses ELSE {<<>>} :
             /\ ~Delayed => ~branch
             /\ ~m_last_was_conditional_branch => ~taken
             /\ m_time_trace_start' = IF m_time_trace_start = 0 THEN delta ELSE m_time_trace_start
             /\ curtime' = curtime + delta
             /\ branches_taken' = IF m_last_was_conditional_branch THEN Append(branches_taken, taken)
                                                                   ELSE branches_taken
             /\ m_last_was_conditional_branch' = branch
             /\ Enqueue([dyninstr |-> instr, time |-> curtime + delta, accs |-> accs,
                         branches_before |-> Len(branches_taken')])
        /\ instr' = instr + 1
        /\ pc' = "handle"

\* a recorded trace starts with an IP event (TracingPlugin::run), so
\* instr_memaccess is instr - 1; the instruction importer ignores MEM events
MemEvent ==
  /\ pc = "read" /\ instr > 0 /\ opt.importer # "instruction"
  /\ \E accs \in MemAccesses :
       Enqueue([dyninstr |-> instr - 1, time |-> curtime, accs |-> accs,
                branches_before |-> Len(branches_taken)])
  /\ pc' = IF Delayed THEN pc ELSE "handle"
  /\ UNCHANGED <<opt, endvars, tablevars, curtime, instr, m_time_trace_start, branches_taken,
                 m_last_was_conditional_branch>>

TraceEnd ==
  /\ pc = "read"
  /\ pc' = "handle" /\ ending' = TRUE
  /\ UNCHANGED <<opt, readvars, tablevars, delayed_entries, m_last_instr, m_last_time, closing>>

\* the end of the loops over the entries, and what follows trace_end_reached()
Handled ==
  /\ pc = "handle" /\ ~AnyReady
  /\ IF ending
       THEN /\ pc' = "close"
            /\ m_last_time' = curtime
            /\ m_last_instr' = (instr + MaxInstr) % (MaxInstr + 1)
            /\ m_open_ecs' = [a \in Address |->
                 IF ~m_open_ecs[a].open /\ opt.has_mm /\ a \in opt.mm
                   THEN [open |-> TRUE, dyninstr |-> 0, time |-> m_time_trace_start]
                   ELSE m_open_ecs[a]]
            /\ closing' = {a \in Address : m_open_ecs'[a].open}
       ELSE /\ pc' = "read"
            /\ UNCHANGED <<m_last_time, m_last_instr, m_open_ecs, closing>>
  /\ UNCHANGED <<opt, ending, readvars, delayed_entries, m_row_count, cache, trace, lost>>

NothingLeft(a) == m_open_ecs[a].dyninstr > m_last_instr

CloseEC ==
  /\ pc = "close"
  /\ \E a \in closing :
       LET row == Row(a, m_open_ecs[a], [dyninstr |-> m_last_instr, time |-> m_last_time],
                      opt.rightmargin, {})
       IN \/ /\ IF NothingLeft(a)
                  THEN UNCHANGED <<cache, trace, m_row_count>>
                  ELSE AddTraceEvent(row)
             /\ UNCHANGED <<pc, lost>>
          \/ /\ ~NothingLeft(a)
             /\ AddTraceEventFails(row)
             /\ pc' = "failed" /\ lost' = TRUE
       /\ closing' = closing \ {a}
  /\ UNCHANGED <<opt, ending, readvars, delayed_entries, m_open_ecs, m_last_instr, m_last_time>>

(***************************************************************************)
(* The sanity checks on the table, as the queries state them (the second   *)
(* half of the condition of the overlap queries compares t2 with itself)   *)
(***************************************************************************)
RowsOf(rows, a) == {r \in rows : r.addr = a}

Overlap(t1, t2, lo, hi) ==
  /\ t1.addr = t2.addr
  /\ t1[lo] # t2[lo]
  /\ \/ t1[lo] >= t2[lo] /\ t1[lo] <= t2[hi]
     \/ t1[hi] >= t2[lo] /\ t1[hi] <= t2[hi]
     \/ t1[lo] < t2[lo] /\ t1[hi] > t2[hi]

Lowest(rows, lo) == Min({r[lo] : r \in rows})
Highest(rows, hi) == Max({r[hi] : r \in rows})

\* SUM(hi - lo + 1): the points of the rows, counted once for every row they are in
RowSum(rows, lo, hi) == Cardinality(UNION {{r} \X (r[lo]..r[hi]) : r \in rows})

FaultSpaceOK(rows, lo, hi) ==
  /\ \A t1, t2 \in rows : ~Overlap(t1, t2, lo, hi)
  /\ \A a \in {r.addr : r \in rows} :
       LET R == RowsOf(rows, a)
       IN /\ Highest(rows, hi) - Lowest(rows, lo) + 1 = RowSum(R, lo, hi)
          /\ Lowest(R, lo) = Lowest(rows, lo) /\ Highest(R, hi) = Highest(rows, hi)

\* mutant: overlaps only
MutSanityChecks(rows) ==
  \A t1, t2 \in rows : ~Overlap(t1, t2, "instr1", "instr2") /\ ~Overlap(t1, t2, "time1", "time2")

SanityChecks(rows) == FaultSpaceOK(rows, "instr1", "instr2") /\ FaultSpaceOK(rows, "time1", "time2")

\* the last, incomplete batch is sent and the result is not looked at
FlushAndCheck ==
  /\ pc = "close" /\ closing = {}
  /\ \/ Send(cache) /\ lost' = lost
     \/ cache # {} /\ SendFails /\ lost' = TRUE
  /\ pc' = IF opt.sanitychecks /\ ~SanityChecks(trace') THEN "failed" ELSE "done"
  /\ UNCHANGED <<opt, readvars, endvars, delayed_entries, m_open_ecs, m_row_count>>

\* a query of the sanity checks fails
CheckFails ==
  /\ pc = "close" /\ closing = {} /\ opt.sanitychecks
  /\ Send(cache) \/ SendFails
  /\ pc' = "failed" /\ lost' = TRUE
  /\ UNCHANGED <<opt, readvars, endvars, delayed_entries, m_open_ecs, m_row_count>>

Finished == pc \in {"done", "failed"} /\ UNCHANGED vars

Next == IpEvent \/ MemEvent \/ TraceEnd \/ HandleAccess \/ Handled \/ CloseEC
        \/ FlushAndCheck \/ CheckFails \/ Finished

Spec == Init /\ [][Next]_vars

-----------------------------------------------------------------------------
(***************************************************************************)
(* Properties                                                              *)
(***************************************************************************)
Margin == [dyninstr: 0..MaxInstr, time: Nat]

\* Every variable has its type; in particular the instruction counter and the
\* margins derived from it stay within instruction_count_t.
TypeOK ==
  /\ opt \in Options
  /\ pc \in {"read", "handle", "close", "done", "failed"}
  /\ ending \in BOOLEAN /\ lost \in BOOLEAN /\ m_last_was_conditional_branch \in BOOLEAN
  /\ curtime \in Nat /\ m_time_trace_start \in Nat /\ m_last_time \in Nat
  /\ instr \in 0..MaxInstr /\ m_last_instr \in 0..MaxInstr
  /\ branches_taken \in Seq(BOOLEAN)
  /\ delayed_entries \in Seq([dyninstr: 0..(MaxInstr - 1), time: Nat, accs: Seq(Access) \ {<<>>},
                              branches_before: Nat])
  /\ m_open_ecs \in [Address -> [open: BOOLEAN, dyninstr: 0..MaxInstr, time: Nat]]
  /\ m_row_count \in Nat
  /\ \A r \in cache \cup trace :
       r \in [addr: Address, instr1: 0..MaxInstr, instr2: 0..MaxInstr, time1: Nat, time2: Nat,
              type: {"R", "W"}, jumphistory: SUBSET ((-Window)..(Window - 1))]
  /\ closing \subseteq Address
  /\ accesses \in Seq([addr: Address, type: {"R", "W"}, dyninstr: 0..(MaxInstr - 1), time: Nat,
                       branches_before: Nat])

\* The PRIMARY KEY (variant_id, data_address, instr2) never refuses a row: no
\* two rows handed to the database share a key, and each was counted once.
NoRowRefused ==
  /\ KeysDistinct(trace \cup cache)
  /\ ~lost => m_row_count = Cardinality(trace \cup cache)

\* The rows a faultless import of this trace must produce, from the trace alone:
\* per address one EC for every instruction that accesses it, reaching back to
\* the instruction after the previous access, with the type of the first access;
\* and one for the rest of the trace.
AccessedAt(a) == {accesses[k].dyninstr : k \in {j \in DOMAIN accesses : accesses[j].addr = a}}

FirstAccess(a, i) ==
  accesses[Min({k \in DOMAIN accesses : accesses[k].addr = a /\ accesses[k].dyninstr = i})]

LeftMargin(a, i) ==
  LET before == {j \in AccessedAt(a) : j < i}
  IN IF before = {} THEN [dyninstr |-> 0, time |-> m_time_trace_start]
                    ELSE [dyninstr |-> Max(before) + 1, time |-> FirstAccess(a, Max(before)).time + 1]

RealClass(a, acc) ==
  Row(a, LeftMargin(a, acc.dyninstr), acc, acc.type,
      IF Delayed THEN BranchMask(acc.branches_before) ELSE {})

RealClasses ==
  UNION {{RealClass(a, FirstAccess(a, i)) : i \in AccessedAt(a)} : a \in {b \in Address : Matching(b)}}

FakeClasses ==
  {Row(a, LeftMargin(a, MaxInstr + 1), [dyninstr |-> m_last_instr, time |-> m_last_time], opt.rightmargin, {})
     : a \in {b \in Address : /\ Matching(b)
                              /\ opt.has_mm \/ AccessedAt(b) # {}
                              /\ LeftMargin(b, MaxInstr + 1).dyninstr <= m_last_instr}}

\* An import that ends well and lost no query has put exactly the equivalence
\* classes of the trace into the table, whatever the order of accesses within an
\* instruction and however long the advanced importer kept events back; the
\* branch history of every row is the one of the complete trace.
TraceImported ==
  pc = "done" /\ ~lost =>
    trace = {r \in RealClasses \cup FakeClasses : Imported(r.type)}

\* With write ECs imported, the classes of every address partition the
\* instructions of the trace, and its time: each point lies in exactly one.
Partition(rows, lo, hi, points) ==
  \A p \in points : \E r \in rows : /\ r[lo] <= p /\ p <= r[hi]
                                    /\ \A s \in rows \ {r} : ~(s[lo] <= p /\ p <= s[hi])

FaultSpacePartitioned ==
  pc = "done" /\ ~lost /\ opt.import_write_ecs =>
    \A a \in {r.addr : r \in trace} :
      /\ Partition(RowsOf(trace, a), "instr1", "instr2", 0..m_last_instr)
      /\ Partition(RowsOf(trace, a), "time1", "time2", m_time_trace_start..m_last_time)

\* The sanity checks find what they are there for: a table they accept has no
\* gap and no overlap in any row of the fault space, even when a batch was lost
\* without a word.  And they never refuse the table of a faultless import.
SanityChecksDecide ==
  opt.import_write_ecs /\ opt.sanitychecks =>
    /\ pc = "done" =>
         \A a \in {r.addr : r \in trace} :
           Partition(RowsOf(trace, a), "instr1", "instr2", Lowest(trace, "instr1")..Highest(trace, "instr2"))
    /\ pc = "failed" /\ ~lost => instr = MaxInstr
=============================================================================
