-------------------------- MODULE TraceImportProofs --------------------------
(***************************************************************************)
(* Proofs about TraceImport, for every trace, importer and set of options: *)
(* no row is refused by the primary key; the rows of an address partition  *)
(* the instructions and the time of the trace; the sanity checks refuse    *)
(* every table with a gap and no table of a faultless import; and the rows *)
(* are exactly the equivalence classes of the trace.                       *)
(***************************************************************************)
EXTENDS TraceImport, FiniteSetTheorems, WellFoundedInduction, TLAPS

Entry == [dyninstr: 0..(MaxInstr - 1), time: Nat, accs: Seq(Access) \ {<<>>}, branches_before: Nat]

RowType == [addr: Address, instr1: 0..MaxInstr, instr2: 0..MaxInstr, time1: Nat, time2: Nat,
            type: {"R", "W"}, jumphistory: SUBSET ((-Window)..(Window - 1))]

Rows == trace \cup cache

\* addresses to which rows may still be added
Before(a) == pc \in {"read", "handle"} \/ (pc = "close" /\ a \in closing)

\* The open class of an address begins behind all its rows; rows differ in their keys.
KeyInv ==
  /\ \A r \in Rows : Before(r.addr) => r.instr2 < m_open_ecs[r.addr].dyninstr
  /\ KeysDistinct(Rows) /\ IsFiniteSet(Rows)
  /\ ~lost => m_row_count = Cardinality(Rows)

\* Nothing is known of a trace before its first instruction.
StartInv ==
  /\ instr = 0 => /\ curtime = 0 /\ delayed_entries = <<>>
                  /\ \A a \in Address : m_open_ecs[a].dyninstr = 0
  /\ m_time_trace_start <= curtime
  /\ instr = 0 <=> m_time_trace_start = 0

\* Time grows with the instructions: from the entries kept back to the last
\* instruction read, and from one entry to the other.
EntryInv ==
  /\ \A i \in 1..Len(delayed_entries) :
       /\ delayed_entries[i].dyninstr < instr
       /\ m_time_trace_start <= delayed_entries[i].time
       /\ delayed_entries[i].dyninstr < instr - 1 => delayed_entries[i].time < curtime
       /\ delayed_entries[i].dyninstr = instr - 1 => delayed_entries[i].time = curtime
  /\ \A i, j \in 1..Len(delayed_entries) :
       delayed_entries[i].dyninstr < delayed_entries[j].dyninstr =>
         delayed_entries[i].time < delayed_entries[j].time

\* ... and from the left margin of an open class to the entries and to the end.
MarginInv ==
  \A a \in Address : m_open_ecs[a].dyninstr > 0 =>
    /\ m_open_ecs[a].dyninstr <= instr /\ m_open_ecs[a].time > m_time_trace_start
    /\ m_open_ecs[a].dyninstr < instr => m_open_ecs[a].time <= curtime
    /\ m_open_ecs[a].dyninstr = instr => m_open_ecs[a].time = curtime + 1
    /\ \A i \in 1..Len(delayed_entries) :
         m_open_ecs[a].dyninstr <= delayed_entries[i].dyninstr =>
           m_open_ecs[a].time <= delayed_entries[i].time

\* A class that begins with the trace has no time of its own before the end.
FreshInv ==
  \A a \in Address : m_open_ecs[a].dyninstr = 0 /\ Before(a) /\ ~lost =>
    m_open_ecs[a].time = IF pc = "close" THEN m_time_trace_start ELSE 0

TimeInv == StartInv /\ EntryInv /\ MarginInv /\ FreshInv

\* A class begins behind an access, unless an insertion failed.
OpenInv ==
  \A a \in Address :
    /\ m_open_ecs[a].dyninstr > 0 => m_open_ecs[a].open
    /\ m_open_ecs[a].open /\ ~lost /\ pc \in {"read", "handle"} => m_open_ecs[a].dyninstr > 0

EndInv ==
  pc \in {"close", "done"} => m_last_time = curtime /\ (instr > 0 => m_last_instr = instr - 1)

\* The rows lie between two points and cover each point in between once.
TilesInstr(R, first, last) ==
  /\ \A r \in R : first <= r.instr1 /\ r.instr1 <= r.instr2 /\ r.instr2 <= last
  /\ \A p \in first..last :
       \E r \in R : /\ r.instr1 <= p /\ p <= r.instr2
                    /\ \A s \in R : s.instr1 <= p /\ p <= s.instr2 => s = r

TilesTime(R, first, last) ==
  /\ \A r \in R : first <= r.time1 /\ r.time1 <= r.time2 /\ r.time2 <= last
  /\ \A p \in first..last :
       \E r \in R : /\ r.time1 <= p /\ p <= r.time2
                    /\ \A s \in R : s.time1 <= p /\ p <= s.time2 => s = r

LeftTime(a) == IF m_open_ecs[a].dyninstr = 0 THEN m_time_trace_start ELSE m_open_ecs[a].time

\* The rows of an address cover the trace up to its open class; in the end, all of it.
TileInv ==
  ~lost /\ opt.import_write_ecs =>
    \A a \in Address :
      /\ Before(a) => /\ TilesInstr(RowsOf(Rows, a), 0, m_open_ecs[a].dyninstr - 1)
                      /\ TilesTime(RowsOf(Rows, a), m_time_trace_start, LeftTime(a) - 1)
      /\ ~Before(a) /\ pc \in {"close", "done"} /\ RowsOf(Rows, a) # {} =>
           /\ TilesInstr(RowsOf(Rows, a), 0, m_last_instr)
           /\ TilesTime(RowsOf(Rows, a), m_time_trace_start, m_last_time)

CacheInv == pc = "done" => cache = {}

Inv == TypeOK /\ KeyInv /\ TimeInv /\ OpenInv /\ EndInv /\ TileInv /\ CacheInv
-----------------------------------------------------------------------------
(***************************************************************************)
(* Rows next to each other                                                 *)
(***************************************************************************)

\* A class that begins where the others end extends what they cover (instructions).
LEMMA TilesInstrExtend ==
  ASSUME NEW R, NEW row, NEW f \in Int, NEW l \in Int, NEW h \in Int, f <= l, l <= h,
         \A r \in R : r.instr1 \in Int /\ r.instr2 \in Int,
         TilesInstr(R, f, l - 1), row.instr1 = l, row.instr2 = h
  PROVE  TilesInstr(R \cup {row}, f, h)
<1>1. \A r \in R \cup {row} : f <= r.instr1 /\ r.instr1 <= r.instr2 /\ r.instr2 <= h
  BY DEF TilesInstr
<1>2. ASSUME NEW p \in f..h
      PROVE  \E r \in R \cup {row} : /\ r.instr1 <= p /\ p <= r.instr2
               /\ \A s \in R \cup {row} : s.instr1 <= p /\ p <= s.instr2 => s = r
  <2>1. CASE p < l
    BY <2>1 DEF TilesInstr
  <2>2. CASE p >= l
    <3>1. \A s \in R : ~(p <= s.instr2)
      BY <2>2 DEF TilesInstr
    <3>. QED BY <2>2, <3>1
  <2>. QED BY <2>1, <2>2
<1>. QED BY Zenon, <1>1, <1>2 DEF TilesInstr

\* No row covers a range that is empty.
LEMMA NothingTiled ==
  ASSUME NEW f \in Int
  PROVE  TilesTime({}, f, f - 1)
BY DEF TilesTime

\* The same for the time.
LEMMA TilesTimeExtend ==
  ASSUME NEW R, NEW row, NEW f \in Int, NEW l \in Int, NEW h \in Int, f <= l, l <= h,
         \A r \in R : r.time1 \in Int /\ r.time2 \in Int,
         TilesTime(R, f, l - 1), row.time1 = l, row.time2 = h
  PROVE  TilesTime(R \cup {row}, f, h)
<1>1. \A r \in R \cup {row} : f <= r.time1 /\ r.time1 <= r.time2 /\ r.time2 <= h
  BY DEF TilesTime
<1>2. ASSUME NEW p \in f..h
      PROVE  \E r \in R \cup {row} : /\ r.time1 <= p /\ p <= r.time2
               /\ \A s \in R \cup {row} : s.time1 <= p /\ p <= s.time2 => s = r
  <2>1. CASE p < l
    BY <2>1 DEF TilesTime
  <2>2. CASE p >= l
    <3>1. \A s \in R : ~(p <= s.time2)
      BY <2>2 DEF TilesTime
    <3>. QED BY <2>2, <3>1
  <2>. QED BY <2>1, <2>2
<1>. QED BY Zenon, <1>1, <1>2 DEF TilesTime

-----------------------------------------------------------------------------
(***************************************************************************)
(* Handing a row to the database                                           *)
(***************************************************************************)

\* add_trace_event: the row joins the others, or is not one to be imported.
LEMMA RowAdded ==
  ASSUME KeyInv, m_row_count \in Nat, NEW row, Before(row.addr),
         \A r \in Rows : r.instr2 \in Int, row.instr2 \in Int,
         m_open_ecs[row.addr].dyninstr \in Int,
         m_open_ecs[row.addr].dyninstr <= row.instr2,
         AddTraceEvent(row)
  PROVE  /\ Rows' = IF Imported(row.type) THEN Rows \cup {row} ELSE Rows
         /\ KeysDistinct(Rows') /\ IsFiniteSet(Rows')
         /\ m_row_count' \in Nat
         /\ ~lost => m_row_count' = Cardinality(Rows')
<1>1. CASE Imported(row.type)
  <2>1. Rows' = Rows \cup {row} /\ m_row_count' = m_row_count + 1
    BY Zenon, <1>1 DEF AddTraceEvent, InsertMultiple, Send, Rows
  <2>2. \A r \in Rows : r.addr = row.addr => r.instr2 # row.instr2
    BY DEF KeyInv
  <2>3. KeysDistinct(Rows')
    BY Zenon, <2>1, <2>2 DEF KeyInv, KeysDistinct
  <2>4. row \notin Rows
    BY Zenon, <2>2
  <2>5. IsFiniteSet(Rows') /\ Cardinality(Rows') = Cardinality(Rows) + 1
    BY Zenon, <2>1, <2>4, FS_AddElement DEF KeyInv
  <2>. QED BY <1>1, <2>1, <2>3, <2>5 DEF KeyInv
<1>2. CASE ~Imported(row.type)
  BY Zenon, <1>2 DEF AddTraceEvent, Rows, KeyInv
<1>. QED BY Zenon, <1>1, <1>2

\* A batch that is lost takes rows away.
LEMMA RowsLost ==
  ASSUME KeyInv, NEW row, AddTraceEventFails(row)
  PROVE  /\ Rows' \subseteq Rows /\ m_row_count' = m_row_count
         /\ KeysDistinct(Rows') /\ IsFiniteSet(Rows')
<1>1. Rows' \subseteq Rows /\ m_row_count' = m_row_count
  BY Zenon DEF AddTraceEventFails, InsertMultipleFails, SendFails, Rows
<1>. QED BY Zenon, <1>1, FS_Subset DEF KeyInv, KeysDistinct

-----------------------------------------------------------------------------
(***************************************************************************)
(* The entries kept back                                                   *)
(***************************************************************************)

\* What is left of the queue has the instructions and times it had before.
LEMMA TailEntries ==
  ASSUME NEW q \in Seq(Entry), q # <<>>
  PROVE  /\ Tail(q) \in Seq(Entry)
         /\ \A i \in 1..Len(Tail(q)) : i + 1 \in 1..Len(q) /\ Tail(q)[i] = q[i + 1]
OBVIOUS

(***************************************************************************)
(* What advancing the iterator over the events of one instruction leaves   *)
(* of the list.                                                            *)
(***************************************************************************)
LEMMA NextEntries ==
  ASSUME NEW q \in Seq(Entry), q # <<>>
  PROVE  /\ NextAccess(q) \in Seq(Entry)
         /\ \A i \in 1..Len(NextAccess(q)) : \E j \in 1..Len(q) :
              /\ NextAccess(q)[i].dyninstr = q[j].dyninstr
              /\ NextAccess(q)[i].time = q[j].time
<1>1. Head(q) \in Entry /\ Head(q) = q[1] /\ 1 \in 1..Len(q)
  OBVIOUS
<1>2. CASE Len(Head(q).accs) = 1
  BY Zenon, <1>2, TailEntries DEF NextAccess
<1>3. CASE Len(Head(q).accs) # 1
  <2> DEFINE e == [Head(q) EXCEPT !.accs = Tail(@)]
  <2>1. Tail(Head(q).accs) \in Seq(Access) \ {<<>>}
    <3> DEFINE m == Head(q).accs
    <3>1. m \in Seq(Access) /\ m # <<>>
      BY Zenon, <1>1 DEF Entry
    <3>2. Len(m) # 1
      BY Zenon, <1>3
    <3> HIDE DEF m
    <3>3. Tail(m) \in Seq(Access) /\ Len(Tail(m)) # 0
      BY <3>1, <3>2
    <3>4. Tail(m) # <<>>
      <4> DEFINE t == Tail(m)
      <4>1. t \in Seq(Access) /\ Len(t) # 0
        BY Zenon, <3>3
      <4> HIDE DEF t
      <4>2. t # <<>>
        BY <4>1
      <4>. QED BY Zenon, <4>2 DEF t
    <3>. QED BY Zenon, <3>3, <3>4 DEF m
  <2>2. e \in Entry /\ e.dyninstr = q[1].dyninstr /\ e.time = q[1].time
    BY Zenon, <1>1, <2>1 DEF Entry
  <2> HIDE DEF e
  <2>3. NextAccess(q) = <<e>> \o Tail(q)
    BY Zenon, <1>3 DEF NextAccess, e
  <2>4. NextAccess(q) \in Seq(Entry) /\ Len(NextAccess(q)) = Len(q)
    BY <2>2, <2>3
  <2>5. ASSUME NEW i \in 1..Len(NextAccess(q))
        PROVE  /\ NextAccess(q)[i].dyninstr = q[i].dyninstr
               /\ NextAccess(q)[i].time = q[i].time
    BY <2>2, <2>3, <2>4
  <2>. QED BY Zenon, <2>4, <2>5
<1>. QED BY Zenon, <1>2, <1>3

-----------------------------------------------------------------------------
(***************************************************************************)
(* The first entry of the queue and the row it closes                      *)
(***************************************************************************)

LEMMA FirstEntry ==
  ASSUME TypeOK, delayed_entries # <<>>
  PROVE  /\ Head(delayed_entries) \in Entry
         /\ Head(delayed_entries) = delayed_entries[1] /\ 1 \in 1..Len(delayed_entries)
         /\ Head(Head(delayed_entries).accs) \in Access
<1>1. delayed_entries \in Seq(Entry)
  BY Zenon DEF TypeOK, Entry
<1>2. /\ Head(delayed_entries) \in Entry
      /\ Head(delayed_entries) = delayed_entries[1] /\ 1 \in 1..Len(delayed_entries)
  BY <1>1
<1>3. Head(delayed_entries).accs \in Seq(Access) \ {<<>>}
  BY Zenon, <1>2 DEF Entry
<1>4. Head(Head(delayed_entries).accs) \in Access
  <2> DEFINE m == Head(delayed_entries).accs
  <2>1. m \in Seq(Access) /\ m # <<>>
    BY Zenon, <1>3
  <2> HIDE DEF m
  <2>2. Head(m) \in Access
    BY <2>1
  <2>. QED BY Zenon, <2>2 DEF m
<1>. QED BY Zenon, <1>2, <1>4

\* The row of an access that is not skipped begins at the open class.
LEMMA ClosedRow ==
  ASSUME TypeOK, NEW entry \in Entry, NEW a \in Address, NEW type \in {"R", "W"},
         ~Skipped(entry, a)
  PROVE  /\ CloseAt(entry, a, type) \in RowType
         /\ CloseAt(entry, a, type).addr = a /\ CloseAt(entry, a, type).type = type
         /\ CloseAt(entry, a, type).instr1 = m_open_ecs[a].dyninstr
         /\ CloseAt(entry, a, type).instr2 = entry.dyninstr
         /\ CloseAt(entry, a, type).time2 = entry.time
         /\ CloseAt(entry, a, type).time1 = IF m_open_ecs[a].time = 0 THEN m_time_trace_start
                                                                      ELSE m_open_ecs[a].time
         /\ m_open_ecs[a].dyninstr <= entry.dyninstr
<1> DEFINE mask == IF Delayed THEN BranchMask(entry.branches_before) ELSE {}
<1>1. mask \in SUBSET ((-Window)..(Window - 1))
  BY Zenon DEF BranchMask
<1> HIDE DEF mask
<1>2. m_open_ecs[a] \in [open: BOOLEAN, dyninstr: 0..MaxInstr, time: Nat] /\ m_time_trace_start \in Nat
  BY Zenon DEF TypeOK
<1>3. /\ OpenEC(a).dyninstr = m_open_ecs[a].dyninstr
      /\ OpenEC(a).time = IF m_open_ecs[a].time = 0 THEN m_time_trace_start ELSE m_open_ecs[a].time
  BY Zenon, <1>2 DEF OpenEC
<1>4. /\ entry.dyninstr \in 0..(MaxInstr - 1) /\ entry.time \in Nat
      /\ MaxInstr \in Nat
  BY Zenon, ImportAssumption DEF Entry
<1>5. m_open_ecs[a].dyninstr <= entry.dyninstr
  BY <1>2, <1>3, <1>4 DEF Skipped
<1>6. CloseAt(entry, a, type) =
        [addr |-> a, instr1 |-> m_open_ecs[a].dyninstr, instr2 |-> entry.dyninstr,
         time1 |-> OpenEC(a).time, time2 |-> entry.time, type |-> type, jumphistory |-> mask]
  BY Zenon, <1>3 DEF CloseAt, Row, mask
<1>7. OpenEC(a).time \in Nat
  BY Zenon, <1>2, <1>3
<1>. QED BY <1>1, <1>2, <1>3, <1>4, <1>5, <1>6, <1>7 DEF RowType

\* The row that close_ec_intervals adds begins at the open class and ends with the trace.
LEMMA LastRow ==
  ASSUME TypeOK, NEW a \in Address, ~NothingLeft(a),
         NEW row, row = Row(a, m_open_ecs[a], [dyninstr |-> m_last_instr, time |-> m_last_time],
                            opt.rightmargin, {})
  PROVE  /\ row \in RowType /\ row.addr = a
         /\ row.instr1 = m_open_ecs[a].dyninstr /\ row.instr2 = m_last_instr
         /\ row.time1 = m_open_ecs[a].time /\ row.time2 = m_last_time
         /\ m_open_ecs[a].dyninstr <= m_last_instr
<1>1. /\ m_open_ecs[a] \in [open: BOOLEAN, dyninstr: 0..MaxInstr, time: Nat]
      /\ m_last_instr \in 0..MaxInstr /\ m_last_time \in Nat /\ MaxInstr \in Nat
  BY Zenon, ImportAssumption DEF TypeOK
<1>2. opt.rightmargin \in {"R", "W"}
  BY Zenon, ImportAssumption DEF TypeOK
<1>3. m_open_ecs[a].dyninstr <= m_last_instr
  BY <1>1 DEF NothingLeft
<1>. QED BY Zenon, <1>1, <1>2, <1>3 DEF Row, RowType

-----------------------------------------------------------------------------
(***************************************************************************)
(* The steps                                                               *)
(***************************************************************************)

LEMMA InitInv == Init => Inv
<1> SUFFICES ASSUME Init PROVE Inv
  BY Zenon
<1>1. TypeOK
  <2>1. ending \in BOOLEAN /\ lost \in BOOLEAN /\ m_last_was_conditional_branch \in BOOLEAN
    BY Zenon DEF Init
  <2>2. m_open_ecs \in [Address -> [open: BOOLEAN, dyninstr: 0..MaxInstr, time: Nat]]
    BY ImportAssumption DEF Init
  <2>3. /\ opt \in Options
        /\ pc \in {"read", "handle", "close", "done", "failed"}
        /\ curtime \in Nat /\ m_time_trace_start \in Nat /\ m_last_time \in Nat
        /\ instr \in 0..MaxInstr /\ m_last_instr \in 0..MaxInstr /\ m_row_count \in Nat
        /\ cache \cup trace = {} /\ closing \subseteq Address
    BY ImportAssumption DEF Init
  <2>4. /\ branches_taken \in Seq(BOOLEAN)
        /\ delayed_entries \in Seq([dyninstr: 0..(MaxInstr - 1), time: Nat, accs: Seq(Access) \ {<<>>},
                                    branches_before: Nat])
        /\ accesses \in Seq([addr: Address, type: {"R", "W"}, dyninstr: 0..(MaxInstr - 1), time: Nat,
                             branches_before: Nat])
    BY DEF Init
  <2>. QED BY Zenon, <2>1, <2>2, <2>3, <2>4 DEF TypeOK
<1>2. Rows = {} /\ \A a \in Address : RowsOf(Rows, a) = {}
  BY Zenon DEF Init, Rows, RowsOf
<1>3. KeyInv
  BY Zenon, <1>2, FS_EmptySet DEF Init, KeyInv, KeysDistinct
<1>4. TimeInv /\ OpenInv
  BY DEF Init, TimeInv, OpenInv, StartInv, EntryInv, MarginInv, FreshInv, Before
<1>5. TileInv
  BY <1>2 DEF Init, TileInv, TilesInstr, TilesTime, LeftTime, Before
<1>6. EndInv /\ CacheInv
  BY Zenon DEF Init, EndInv, CacheInv
<1>. QED BY Zenon, <1>1, <1>3, <1>4, <1>5, <1>6 DEF Inv

\* What Enqueue does to the queue and to the history.
LEMMA Enqueued ==
  ASSUME TypeOK, NEW accs \in Seq(Access), NEW i \in 0..(MaxInstr - 1), NEW t \in Nat, NEW b \in Nat,
         Enqueue([dyninstr |-> i, time |-> t, accs |-> accs, branches_before |-> b])
  PROVE  /\ delayed_entries' \in Seq(Entry)
         /\ accesses' \in Seq([addr: Address, type: {"R", "W"}, dyninstr: 0..(MaxInstr - 1), time: Nat,
                               branches_before: Nat])
         /\ \A k \in 1..Len(delayed_entries') :
              \/ k \in 1..Len(delayed_entries) /\ delayed_entries'[k] = delayed_entries[k]
              \/ delayed_entries'[k].dyninstr = i /\ delayed_entries'[k].time = t
<1> DEFINE e == [dyninstr |-> i, time |-> t, accs |-> accs, branches_before |-> b]
<1>1. delayed_entries \in Seq(Entry)
  BY Zenon DEF TypeOK, Entry
<1>2. e.dyninstr = i /\ e.time = t /\ e.accs = accs /\ e.branches_before = b
      /\ (accs # <<>> => e \in Entry)
  BY Zenon DEF Entry
<1>3. AccessesOf(e) \in Seq([addr: Address, type: {"R", "W"}, dyninstr: 0..(MaxInstr - 1), time: Nat,
                             branches_before: Nat])
  <2>1. \A k \in 1..Len(accs) : accs[k] \in Access
    OBVIOUS
  <2>2. AccessesOf(e) =
          [k \in 1..Len(accs) |->
             [addr |-> accs[k].addr, type |-> accs[k].type, dyninstr |-> i, time |-> t, branches_before |-> b]]
    BY <1>2 DEF AccessesOf
  <2>3. \A k \in 1..Len(accs) :
          [addr |-> accs[k].addr, type |-> accs[k].type, dyninstr |-> i, time |-> t, branches_before |-> b]
            \in [addr: Address, type: {"R", "W"}, dyninstr: 0..(MaxInstr - 1), time: Nat, branches_before: Nat]
    BY Zenon, <2>1 DEF Access
  <2> DEFINE S == [addr: Address, type: {"R", "W"}, dyninstr: 0..(MaxInstr - 1), time: Nat, branches_before: Nat]
             f == AccessesOf(e)
             n == Len(accs)
  <2>4. n \in Nat /\ f \in [1..n -> S]
    BY <2>2, <2>3
  <2> HIDE DEF S, f, n
  <2>5. f \in Seq(S)
    BY <2>4
  <2>. QED BY Zenon, <2>5 DEF S, f
<1>4. /\ delayed_entries' = IF accs = <<>> THEN delayed_entries ELSE Append(delayed_entries, e)
      /\ accesses' = accesses \o AccessesOf(e)
  BY Zenon DEF Enqueue
<1> HIDE DEF e
<1>5. CASE accs = <<>>
  BY <1>1, <1>3, <1>4, <1>5 DEF TypeOK
<1>6. CASE accs # <<>>
  <2>1. delayed_entries' \in Seq(Entry) /\ Len(delayed_entries') = Len(delayed_entries) + 1
    BY <1>1, <1>2, <1>4, <1>6
  <2>2. \A k \in 1..Len(delayed_entries') :
          \/ k \in 1..Len(delayed_entries) /\ delayed_entries'[k] = delayed_entries[k]
          \/ delayed_entries'[k] = e
    BY <1>1, <1>2, <1>4, <1>6
  <2>. QED BY SMTT(20), <1>2, <1>3, <1>4, <2>1, <2>2 DEF TypeOK
<1>. QED BY Zenon, <1>5, <1>6

\* Entries, margins and rows have numbers.
LEMMA Typed ==
  ASSUME TypeOK
  PROVE  /\ delayed_entries \in Seq(Entry)
         /\ \A k \in 1..Len(delayed_entries) :
              delayed_entries[k].dyninstr \in Int /\ delayed_entries[k].time \in Int
         /\ \A a \in Address : m_open_ecs[a].dyninstr \in Nat /\ m_open_ecs[a].time \in Nat
         /\ \A r \in Rows : /\ r \in RowType /\ r.instr1 \in Nat /\ r.instr2 \in Nat
                            /\ r.time1 \in Nat /\ r.time2 \in Nat
<1>1. delayed_entries \in Seq(Entry)
  BY Zenon DEF TypeOK, Entry
<1>2. \A k \in 1..Len(delayed_entries) : delayed_entries[k] \in Entry
  BY <1>1
<1>3. \A k \in 1..Len(delayed_entries) :
        delayed_entries[k].dyninstr \in Int /\ delayed_entries[k].time \in Int
  BY <1>2, ImportAssumption DEF Entry
<1>4. \A a \in Address : m_open_ecs[a].dyninstr \in Nat /\ m_open_ecs[a].time \in Nat
  BY ImportAssumption DEF TypeOK
<1>5. \A r \in Rows : r \in RowType
  BY Zenon DEF TypeOK, Rows, RowType
<1>6. \A r \in Rows : /\ r.instr1 \in Nat /\ r.instr2 \in Nat
                     /\ r.time1 \in Nat /\ r.time2 \in Nat
  BY <1>5, ImportAssumption DEF RowType
<1>. QED BY Zenon, <1>1, <1>3, <1>4, <1>5, <1>6

\* Nothing is claimed of a failed import but the keys of its rows.
LEMMA FailedInv ==
  ASSUME Inv, TypeOK', pc' = "failed", StartInv', EntryInv', MarginInv',
         KeysDistinct(Rows'), IsFiniteSet(Rows'), ~lost' => m_row_count' = Cardinality(Rows'),
         \A a \in Address : m_open_ecs'[a].dyninstr > 0 => m_open_ecs'[a].open
  PROVE  Inv'
<1>1. \A a : ~Before(a)'
  BY Zenon DEF Before
<1>2. KeyInv'
  BY Zenon, <1>1 DEF KeyInv
<1>3. FreshInv'
  BY Zenon, <1>1 DEF FreshInv
<1>4. OpenInv'
  BY Zenon DEF OpenInv
<1>5. TileInv' /\ EndInv' /\ CacheInv'
  BY Zenon, <1>1 DEF TileInv, EndInv, CacheInv
<1>. QED BY Zenon, <1>2, <1>3, <1>4, <1>5 DEF Inv, TimeInv

(***************************************************************************)
(* An instruction event numbers the next instruction and, once enough      *)
(* branches are known, lets the events kept back be handled.               *)
(***************************************************************************)
LEMMA IpEventInv == Inv /\ IpEvent => Inv'
<1> SUFFICES ASSUME Inv, IpEvent PROVE Inv'
  BY Zenon
<1> USE ImportAssumption
<1>1. TypeOK /\ KeyInv /\ StartInv /\ EntryInv /\ MarginInv /\ FreshInv /\ OpenInv /\ TileInv
  BY Zenon DEF Inv, TimeInv
<1>2. pc = "read" /\ UNCHANGED <<opt, endvars, tablevars>>
  BY Zenon DEF IpEvent
<1>3. CASE Overflow /\ pc' = "failed" /\ UNCHANGED <<readvars, delayed_entries>>
  <2>1. UNCHANGED <<opt, ending, curtime, instr, m_time_trace_start, delayed_entries, branches_taken,
                    m_last_was_conditional_branch, m_open_ecs, m_row_count, m_last_instr, m_last_time,
                    cache, trace, closing, lost, accesses>>
    BY Zenon, <1>2, <1>3 DEF readvars, endvars, tablevars
  <2>2. TypeOK'
    BY Zenon, <1>1, <1>3, <2>1 DEF TypeOK
  <2>3. StartInv' /\ EntryInv' /\ MarginInv' /\ Rows' = Rows
    BY Zenon, <1>1, <2>1 DEF StartInv, EntryInv, MarginInv, Rows
  <2>4. KeysDistinct(Rows') /\ IsFiniteSet(Rows') /\ (~lost' => m_row_count' = Cardinality(Rows'))
    BY Zenon, <1>1, <2>1, <2>3 DEF KeyInv
  <2>5. \A a \in Address : m_open_ecs'[a].dyninstr > 0 => m_open_ecs'[a].open
    BY Zenon, <1>1, <2>1 DEF OpenInv
  <2>. QED BY Zenon, <1>3, <2>2, <2>3, <2>4, <2>5, FailedInv
<1>4. CASE ~Overflow /\ pc' = "handle"
  <2>1. PICK delta \in IpDeltas, taken \in BOOLEAN, branch \in BOOLEAN,
             accs \in IF opt.importer = "instruction" THEN IpAccesses ELSE {<<>>} :
          /\ m_time_trace_start' = IF m_time_trace_start = 0 THEN delta ELSE m_time_trace_start
          /\ curtime' = curtime + delta
          /\ branches_taken' = IF m_last_was_conditional_branch THEN Append(branches_taken, taken)
                                                                ELSE branches_taken
          /\ m_last_was_conditional_branch' = branch
          /\ Enqueue([dyninstr |-> instr, time |-> curtime + delta, accs |-> accs,
                      branches_before |-> Len(branches_taken')])
    BY Zenon, <1>4 DEF IpEvent
  <2>2. instr' = instr + 1
    BY Zenon, <1>4 DEF IpEvent
  <2>3. /\ delta \in Nat \ {0} /\ curtime \in Nat /\ m_time_trace_start \in Nat
        /\ instr \in 0..(MaxInstr - 1) /\ MaxInstr \in Nat
    BY <1>1, <1>4 DEF TypeOK, Overflow
  <2>4. accs \in Seq(Access)
    <3>1. <<>> \in Seq(Access)
      OBVIOUS
    <3>. QED BY Zenon, <3>1
  <2>5. branches_taken' \in Seq(BOOLEAN) /\ Len(branches_taken') \in Nat
    <3> DEFINE B == BOOLEAN
    <3>1. branches_taken \in Seq(B) /\ taken \in B
      BY Zenon, <1>1 DEF TypeOK
    <3> HIDE DEF B
    <3>2. Append(branches_taken, taken) \in Seq(B)
      BY <3>1
    <3>3. branches_taken' \in Seq(B)
      BY Zenon, <2>1, <3>1, <3>2
    <3>4. Len(branches_taken') \in Nat
      BY <3>3
    <3>. QED BY Zenon, <3>3, <3>4 DEF B
  <2>6. /\ delayed_entries' \in Seq(Entry)
        /\ accesses' \in Seq([addr: Address, type: {"R", "W"}, dyninstr: 0..(MaxInstr - 1), time: Nat,
                              branches_before: Nat])
        /\ \A k \in 1..Len(delayed_entries') :
             \/ k \in 1..Len(delayed_entries) /\ delayed_entries'[k] = delayed_entries[k]
             \/ delayed_entries'[k].dyninstr = instr /\ delayed_entries'[k].time = curtime + delta
    <3>1. curtime + delta \in Nat
      BY <2>3
    <3>. QED BY Zenon, <1>1, <2>1, <2>3, <2>4, <2>5, <3>1, Enqueued
  <2>7. UNCHANGED <<opt, ending, m_open_ecs, m_row_count, m_last_instr, m_last_time,
                    cache, trace, closing, lost>>
    BY Zenon, <1>2 DEF endvars, tablevars
  <2>9. \A k \in 1..Len(delayed_entries) :
          delayed_entries[k].dyninstr \in Int /\ delayed_entries[k].time \in Int
    BY Zenon, <1>1, Typed
  <2>10. \A a \in Address : m_open_ecs[a].dyninstr \in Nat /\ m_open_ecs[a].time \in Nat
    BY Zenon, <1>1, Typed
  <2>11. TypeOK'
    <3>1. /\ ending' \in BOOLEAN /\ lost' \in BOOLEAN
      BY Zenon, <1>1, <2>7 DEF TypeOK
    <3>2. m_last_was_conditional_branch' \in BOOLEAN
      BY Zenon, <2>1
    <3>3. /\ curtime' \in Nat /\ m_time_trace_start' \in Nat /\ instr' \in 0..MaxInstr
      BY <2>1, <2>2, <2>3
    <3>4. /\ opt' \in Options /\ m_last_time' \in Nat /\ m_last_instr' \in 0..MaxInstr
          /\ m_open_ecs' \in [Address -> [open: BOOLEAN, dyninstr: 0..MaxInstr, time: Nat]]
          /\ m_row_count' \in Nat /\ closing' \subseteq Address
      BY Zenon, <1>1, <2>7 DEF TypeOK
    <3>5. \A r \in cache' \cup trace' :
             r \in [addr: Address, instr1: 0..MaxInstr, instr2: 0..MaxInstr, time1: Nat, time2: Nat,
                    type: {"R", "W"}, jumphistory: SUBSET ((-Window)..(Window - 1))]
      BY Zenon, <1>1, <2>7 DEF TypeOK
    <3>. QED BY Zenon, <1>4, <2>5, <2>6, <3>1, <3>2, <3>3, <3>4, <3>5 DEF TypeOK, Entry
  <2>12. Rows' = Rows /\ (\A a : Before(a) /\ Before(a)')
    BY Zenon, <1>2, <1>4, <2>7 DEF Rows, Before
  <2>13. KeyInv'
    BY Zenon, <1>1, <2>7, <2>12 DEF KeyInv
  <2>14. StartInv'
    BY <1>1, <2>1, <2>2, <2>3 DEF StartInv
  <2>15. m_time_trace_start' <= curtime' /\ m_time_trace_start' <= curtime + delta
         /\ (m_time_trace_start' # m_time_trace_start => instr = 0)
    BY <1>1, <2>1, <2>3 DEF StartInv
  <2>16. instr = 0 => delayed_entries = <<>> /\ Len(delayed_entries) = 0
    BY Zenon, <1>1 DEF StartInv
  <2>17. EntryInv'
    <3>1. ASSUME NEW i \in 1..Len(delayed_entries')
          PROVE  /\ delayed_entries'[i].dyninstr < instr'
                 /\ m_time_trace_start' <= delayed_entries'[i].time
                 /\ delayed_entries'[i].dyninstr < instr' - 1 => delayed_entries'[i].time < curtime'
                 /\ delayed_entries'[i].dyninstr = instr' - 1 => delayed_entries'[i].time = curtime'
      <4>1. CASE i \in 1..Len(delayed_entries) /\ delayed_entries'[i] = delayed_entries[i]
        <5>1. m_time_trace_start' = m_time_trace_start
          BY <2>15, <2>16, <4>1
        <5>2. /\ delayed_entries[i].dyninstr < instr
              /\ m_time_trace_start <= delayed_entries[i].time
              /\ delayed_entries[i].dyninstr < instr - 1 => delayed_entries[i].time < curtime
              /\ delayed_entries[i].dyninstr = instr - 1 => delayed_entries[i].time = curtime
          BY Zenon, <1>1, <4>1 DEF EntryInv
        <5>3. delayed_entries[i].dyninstr \in Int /\ delayed_entries[i].time \in Int
          BY Zenon, <2>9, <4>1
        <5>4. delayed_entries[i].time < curtime + delta
          BY <2>3, <5>2, <5>3
        <5>5. delayed_entries[i].dyninstr < instr' /\ delayed_entries[i].dyninstr # instr' - 1
          BY <2>2, <2>3, <5>2, <5>3
        <5>. QED BY Zenon, <2>1, <4>1, <5>1, <5>2, <5>4, <5>5
      <4>2. CASE delayed_entries'[i].dyninstr = instr /\ delayed_entries'[i].time = curtime + delta
        BY <2>1, <2>2, <2>3, <2>15, <4>2
      <4>. QED BY Zenon, <2>6, <4>1, <4>2
    <3>2. ASSUME NEW i \in 1..Len(delayed_entries'), NEW j \in 1..Len(delayed_entries'),
                 delayed_entries'[i].dyninstr < delayed_entries'[j].dyninstr
          PROVE  delayed_entries'[i].time < delayed_entries'[j].time
      <4>1. CASE i \in 1..Len(delayed_entries) /\ delayed_entries'[i] = delayed_entries[i]
        <5>1. CASE j \in 1..Len(delayed_entries) /\ delayed_entries'[j] = delayed_entries[j]
          BY Zenon, <1>1, <3>2, <4>1, <5>1 DEF EntryInv
        <5>2. CASE delayed_entries'[j].dyninstr = instr /\ delayed_entries'[j].time = curtime + delta
          <6>1. /\ delayed_entries[i].dyninstr < instr
                /\ delayed_entries[i].dyninstr < instr - 1 => delayed_entries[i].time < curtime
                /\ delayed_entries[i].dyninstr = instr - 1 => delayed_entries[i].time = curtime
            BY Zenon, <1>1, <4>1 DEF EntryInv
          <6>2. delayed_entries[i].dyninstr \in Int /\ delayed_entries[i].time \in Int
            BY Zenon, <2>9, <4>1
          <6>3. delayed_entries[i].time < curtime + delta
            BY <2>3, <6>1, <6>2
          <6>. QED BY Zenon, <4>1, <5>2, <6>3
        <5>. QED BY Zenon, <2>6, <5>1, <5>2
      <4>2. CASE delayed_entries'[i].dyninstr = instr
        <5>1. delayed_entries'[j].dyninstr < instr'
          BY Zenon, <3>1
        <5>2. delayed_entries'[j].dyninstr \in Int
          <6>1. CASE j \in 1..Len(delayed_entries) /\ delayed_entries'[j] = delayed_entries[j]
            BY Zenon, <2>9, <6>1
          <6>2. CASE delayed_entries'[j].dyninstr = instr
            BY <2>3, <6>2
          <6>. QED BY Zenon, <2>6, <6>1, <6>2
        <5>. QED BY <2>2, <2>3, <3>2, <4>2, <5>1, <5>2
      <4>. QED BY Zenon, <2>6, <4>1, <4>2
    <3>. QED BY Zenon, <3>1, <3>2 DEF EntryInv
  <2>18. MarginInv'
    <3> SUFFICES ASSUME NEW a \in Address, m_open_ecs[a].dyninstr > 0
                 PROVE  /\ m_open_ecs[a].dyninstr <= instr' /\ m_open_ecs[a].time > m_time_trace_start'
                        /\ m_open_ecs[a].dyninstr < instr' => m_open_ecs[a].time <= curtime'
                        /\ m_open_ecs[a].dyninstr = instr' => m_open_ecs[a].time = curtime' + 1
                        /\ \A i \in 1..Len(delayed_entries') :
                             m_open_ecs[a].dyninstr <= delayed_entries'[i].dyninstr =>
                               m_open_ecs[a].time <= delayed_entries'[i].time
      BY Zenon, <2>7 DEF MarginInv
    <3>1. instr # 0
      BY <1>1 DEF StartInv
    <3>2. /\ m_open_ecs[a].dyninstr <= instr /\ m_open_ecs[a].time > m_time_trace_start
          /\ m_open_ecs[a].dyninstr < instr => m_open_ecs[a].time <= curtime
          /\ m_open_ecs[a].dyninstr = instr => m_open_ecs[a].time = curtime + 1
          /\ \A i \in 1..Len(delayed_entries) :
               m_open_ecs[a].dyninstr <= delayed_entries[i].dyninstr =>
                 m_open_ecs[a].time <= delayed_entries[i].time
      BY Zenon, <1>1 DEF MarginInv
    <3>3. m_open_ecs[a].time <= curtime + delta
      BY <2>3, <2>10, <3>2
    <3>4. ASSUME NEW i \in 1..Len(delayed_entries'), m_open_ecs[a].dyninstr <= delayed_entries'[i].dyninstr
          PROVE  m_open_ecs[a].time <= delayed_entries'[i].time
      <4>1. CASE i \in 1..Len(delayed_entries) /\ delayed_entries'[i] = delayed_entries[i]
        BY Zenon, <3>2, <3>4, <4>1
      <4>2. CASE delayed_entries'[i].time = curtime + delta
        BY Zenon, <3>3, <4>2
      <4>. QED BY Zenon, <2>6, <4>1, <4>2
    <3>5. m_time_trace_start' = m_time_trace_start
      BY Zenon, <2>15, <3>1
    <3>6. /\ m_open_ecs[a].dyninstr <= instr'
          /\ m_open_ecs[a].dyninstr < instr' => m_open_ecs[a].time <= curtime'
          /\ m_open_ecs[a].dyninstr = instr' => m_open_ecs[a].time = curtime' + 1
      BY <2>1, <2>2, <2>3, <2>10, <3>2, <3>3
    <3>. QED BY Zenon, <3>2, <3>4, <3>5, <3>6
  <2>19. FreshInv' /\ OpenInv'
    BY Zenon, <1>1, <1>2, <1>4, <2>7 DEF FreshInv, OpenInv, Before
  <2>20. TileInv'
    <3> SUFFICES ASSUME ~lost, opt.import_write_ecs, NEW a \in Address
                 PROVE  /\ TilesInstr(RowsOf(Rows', a), 0, m_open_ecs'[a].dyninstr - 1)
                        /\ TilesTime(RowsOf(Rows', a), m_time_trace_start', LeftTime(a)' - 1)
      BY Zenon, <2>7, <2>12 DEF TileInv
    <3>1. /\ TilesInstr(RowsOf(Rows, a), 0, m_open_ecs[a].dyninstr - 1)
          /\ TilesTime(RowsOf(Rows, a), m_time_trace_start, LeftTime(a) - 1)
      BY Zenon, <1>1, <2>12 DEF TileInv
    <3>2. CASE m_time_trace_start' = m_time_trace_start
      BY Zenon, <2>7, <2>12, <3>1, <3>2 DEF LeftTime
    <3>3. CASE m_time_trace_start' # m_time_trace_start
      <4>1. m_open_ecs[a].dyninstr = 0 /\ LeftTime(a)' = m_time_trace_start'
        BY Zenon, <1>1, <2>7, <2>15, <3>3 DEF StartInv, LeftTime
      <4>2. \A r \in RowsOf(Rows, a) : r.instr1 \in Int /\ r.instr2 \in Int
        BY <1>1 DEF TypeOK, RowsOf, Rows
      <4>3. RowsOf(Rows, a) = {}
        BY <3>1, <4>1, <4>2 DEF TilesInstr
      <4>4. m_time_trace_start' \in Int
        BY <2>11 DEF TypeOK
      <4>5. TilesTime({}, m_time_trace_start', m_time_trace_start' - 1)
        BY Zenon, <4>4, NothingTiled
      <4>. QED BY Zenon, <2>7, <2>12, <3>1, <4>1, <4>3, <4>5
    <3>. QED BY Zenon, <3>2, <3>3
  <2>21. EndInv' /\ CacheInv'
    BY Zenon, <1>4 DEF EndInv, CacheInv
  <2>. QED BY Zenon, <2>11, <2>13, <2>14, <2>17, <2>18, <2>19, <2>20, <2>21 DEF Inv, TimeInv
<1>. QED BY Zenon, <1>3, <1>4 DEF IpEvent

(***************************************************************************)
(* A memory event is handled at once or kept back; no row is added yet.    *)
(***************************************************************************)
LEMMA MemEventInv == Inv /\ MemEvent => Inv'
<1> SUFFICES ASSUME Inv, MemEvent PROVE Inv'
  BY Zenon
<1> USE ImportAssumption
<1>1. TypeOK /\ KeyInv /\ StartInv /\ EntryInv /\ MarginInv /\ FreshInv /\ OpenInv /\ TileInv
  BY Zenon DEF Inv, TimeInv
<1>2. pc = "read" /\ instr > 0 /\ pc' \in {"read", "handle"}
  BY Zenon DEF MemEvent
<1>3. UNCHANGED <<opt, ending, m_last_instr, m_last_time, closing, m_open_ecs, m_row_count, cache, trace,
                  lost, curtime, instr, m_time_trace_start, branches_taken, m_last_was_conditional_branch>>
  BY Zenon DEF MemEvent, endvars, tablevars
<1>4. PICK accs \in MemAccesses :
        Enqueue([dyninstr |-> instr - 1, time |-> curtime, accs |-> accs,
                 branches_before |-> Len(branches_taken)])
  BY Zenon DEF MemEvent
<1>5. /\ instr - 1 \in 0..(MaxInstr - 1) /\ curtime \in Nat /\ Len(branches_taken) \in Nat
      /\ instr \in Nat /\ m_time_trace_start \in Nat
  <2>1. branches_taken \in Seq(BOOLEAN)
    BY Zenon, <1>1 DEF TypeOK
  <2>2. Len(branches_taken) \in Nat
    BY <2>1
  <2>. QED BY <1>1, <1>2, <2>2 DEF TypeOK
<1>6. /\ delayed_entries' \in Seq(Entry)
      /\ accesses' \in Seq([addr: Address, type: {"R", "W"}, dyninstr: 0..(MaxInstr - 1), time: Nat,
                            branches_before: Nat])
      /\ \A k \in 1..Len(delayed_entries') :
           \/ k \in 1..Len(delayed_entries) /\ delayed_entries'[k] = delayed_entries[k]
           \/ delayed_entries'[k].dyninstr = instr - 1 /\ delayed_entries'[k].time = curtime
  <2>1. accs \in Seq(Access)
    BY Zenon
  <2>. QED BY Zenon, <1>1, <1>4, <1>5, <2>1, Enqueued
<1>7. TypeOK'
  <2>1. ending' \in BOOLEAN /\ lost' \in BOOLEAN /\ m_last_was_conditional_branch' \in BOOLEAN
    BY Zenon, <1>1, <1>3 DEF TypeOK
  <2>2. /\ opt' \in Options
        /\ curtime' \in Nat /\ m_time_trace_start' \in Nat /\ m_last_time' \in Nat
        /\ instr' \in 0..MaxInstr /\ m_last_instr' \in 0..MaxInstr
        /\ branches_taken' \in Seq(BOOLEAN)
        /\ m_open_ecs' \in [Address -> [open: BOOLEAN, dyninstr: 0..MaxInstr, time: Nat]]
        /\ m_row_count' \in Nat /\ closing' \subseteq Address
    BY Zenon, <1>1, <1>3 DEF TypeOK
  <2>3. \A r \in cache' \cup trace' :
          r \in [addr: Address, instr1: 0..MaxInstr, instr2: 0..MaxInstr, time1: Nat, time2: Nat,
                 type: {"R", "W"}, jumphistory: SUBSET ((-Window)..(Window - 1))]
    BY Zenon, <1>1, <1>3 DEF TypeOK
  <2>. QED BY Zenon, <1>2, <1>6, <2>1, <2>2, <2>3 DEF TypeOK, Entry
<1>8. Rows' = Rows /\ (\A a : Before(a) /\ Before(a)')
  BY Zenon, <1>2, <1>3 DEF Rows, Before
<1>9. KeyInv'
  BY Zenon, <1>1, <1>3, <1>8 DEF KeyInv
<1>10. StartInv' /\ m_time_trace_start <= curtime
  BY <1>1, <1>2, <1>3 DEF StartInv
<1>11. \A k \in 1..Len(delayed_entries) :
         delayed_entries[k].dyninstr \in Int /\ delayed_entries[k].time \in Int
  BY Zenon, <1>1, Typed
<1>12. \A a \in Address : m_open_ecs[a].dyninstr \in Nat /\ m_open_ecs[a].time \in Nat
  BY Zenon, <1>1, Typed
<1>13. EntryInv'
  <2>1. ASSUME NEW i \in 1..Len(delayed_entries')
        PROVE  /\ delayed_entries'[i].dyninstr < instr
               /\ m_time_trace_start <= delayed_entries'[i].time
               /\ delayed_entries'[i].dyninstr < instr - 1 => delayed_entries'[i].time < curtime
               /\ delayed_entries'[i].dyninstr = instr - 1 => delayed_entries'[i].time = curtime
    <3>1. CASE i \in 1..Len(delayed_entries) /\ delayed_entries'[i] = delayed_entries[i]
      BY Zenon, <1>1, <3>1 DEF EntryInv
    <3>2. CASE delayed_entries'[i].dyninstr = instr - 1 /\ delayed_entries'[i].time = curtime
      BY <1>5, <1>10, <3>2
    <3>. QED BY Zenon, <1>6, <3>1, <3>2
  <2>2. ASSUME NEW i \in 1..Len(delayed_entries'), NEW j \in 1..Len(delayed_entries'),
               delayed_entries'[i].dyninstr < delayed_entries'[j].dyninstr
        PROVE  delayed_entries'[i].time < delayed_entries'[j].time
    <3>1. CASE i \in 1..Len(delayed_entries) /\ delayed_entries'[i] = delayed_entries[i]
      <4>1. CASE j \in 1..Len(delayed_entries) /\ delayed_entries'[j] = delayed_entries[j]
        BY Zenon, <1>1, <2>2, <3>1, <4>1 DEF EntryInv
      <4>2. CASE delayed_entries'[j].dyninstr = instr - 1 /\ delayed_entries'[j].time = curtime
        BY Zenon, <2>1, <2>2, <4>2
      <4>. QED BY Zenon, <1>6, <4>1, <4>2
    <3>2. CASE delayed_entries'[i].dyninstr = instr - 1
      <4>1. delayed_entries'[j].dyninstr < instr
        BY Zenon, <2>1
      <4>2. delayed_entries'[j].dyninstr \in Int
        <5>1. CASE j \in 1..Len(delayed_entries) /\ delayed_entries'[j] = delayed_entries[j]
          BY Zenon, <1>11, <5>1
        <5>2. CASE delayed_entries'[j].dyninstr = instr - 1
          BY <1>5, <5>2
        <5>. QED BY Zenon, <1>6, <5>1, <5>2
      <4>. QED BY <1>5, <2>2, <3>2, <4>1, <4>2
    <3>. QED BY Zenon, <1>6, <3>1, <3>2
  <2>. QED BY Zenon, <1>3, <2>1, <2>2 DEF EntryInv
<1>14. MarginInv'
  <2> SUFFICES ASSUME NEW a \in Address, m_open_ecs[a].dyninstr > 0, NEW i \in 1..Len(delayed_entries'),
                      m_open_ecs[a].dyninstr <= delayed_entries'[i].dyninstr
               PROVE  m_open_ecs[a].time <= delayed_entries'[i].time
    BY Zenon, <1>1, <1>3 DEF MarginInv
  <2>1. CASE i \in 1..Len(delayed_entries) /\ delayed_entries'[i] = delayed_entries[i]
    BY Zenon, <1>1, <2>1 DEF MarginInv
  <2>2. CASE delayed_entries'[i].dyninstr = instr - 1 /\ delayed_entries'[i].time = curtime
    <3>1. m_open_ecs[a].dyninstr < instr
      BY <1>5, <1>12, <2>2
    <3>. QED BY Zenon, <1>1, <2>2, <3>1 DEF MarginInv
  <2>. QED BY Zenon, <1>6, <2>1, <2>2
<1>15. FreshInv' /\ OpenInv'
  BY Zenon, <1>1, <1>2, <1>3 DEF FreshInv, OpenInv, Before
<1>16. TileInv'
  BY Zenon, <1>1, <1>2, <1>3, <1>8 DEF TileInv, LeftTime
<1>17. EndInv' /\ CacheInv'
  BY Zenon, <1>2 DEF EndInv, CacheInv
<1>. QED BY Zenon, <1>7, <1>9, <1>10, <1>13, <1>14, <1>15, <1>16, <1>17 DEF Inv, TimeInv

(***************************************************************************)
(* At the end of the trace the events still kept back are handled.         *)
(***************************************************************************)
LEMMA TraceEndInv == Inv /\ TraceEnd => Inv'
<1> SUFFICES ASSUME Inv, TraceEnd PROVE Inv'
  BY Zenon
<1>1. TypeOK /\ KeyInv /\ StartInv /\ EntryInv /\ MarginInv /\ FreshInv /\ OpenInv /\ TileInv
  BY Zenon DEF Inv, TimeInv
<1>2. pc = "read" /\ pc' = "handle" /\ ending' = TRUE
  BY Zenon DEF TraceEnd
<1>3. UNCHANGED <<opt, m_last_instr, m_last_time, closing, m_open_ecs, m_row_count, cache, trace,
                  lost, curtime, instr, m_time_trace_start, branches_taken, m_last_was_conditional_branch,
                  accesses, delayed_entries>>
  BY Zenon DEF TraceEnd, readvars, tablevars
<1>4. TypeOK'
  <2>1. ending' \in BOOLEAN
    BY Zenon, <1>2
  <2>. QED BY Zenon, <1>1, <1>2, <1>3, <2>1 DEF TypeOK
<1>5. Rows' = Rows /\ (\A a : Before(a) /\ Before(a)')
  BY Zenon, <1>2, <1>3 DEF Rows, Before
<1>6. KeyInv'
  BY Zenon, <1>1, <1>3, <1>5 DEF KeyInv
<1>7. StartInv' /\ EntryInv' /\ MarginInv'
  BY Zenon, <1>1, <1>3 DEF StartInv, EntryInv, MarginInv
<1>8. FreshInv' /\ OpenInv'
  BY Zenon, <1>1, <1>2, <1>3 DEF FreshInv, OpenInv, Before
<1>9. TileInv'
  BY Zenon, <1>1, <1>2, <1>3, <1>5 DEF TileInv, LeftTime
<1>10. EndInv' /\ CacheInv'
  BY Zenon, <1>2 DEF EndInv, CacheInv
<1>. QED BY Zenon, <1>4, <1>6, <1>7, <1>8, <1>9, <1>10 DEF Inv, TimeInv

\* instr - 1 in unsigned arithmetic
LEMMA Decrement ==
  ASSUME NEW n \in Nat, NEW k \in 0..n
  PROVE  /\ (k + n) % (n + 1) \in 0..n
         /\ k > 0 => (k + n) % (n + 1) = k - 1
<1>1. (k + n) % (n + 1) \in 0..n
  OBVIOUS
<1>2. ASSUME k > 0 PROVE (k + n) % (n + 1) = k - 1
  <2>1. k - 1 \in 0..n /\ k + n = (n + 1) + (k - 1)
    BY <1>2
  <2>2. (k + n) % (n + 1) = (k - 1) % (n + 1)
    BY <2>1
  <2>. QED BY <2>1, <2>2
<1>. QED BY Zenon, <1>1, <1>2

\* Without rows there is nothing to cover.
LEMMA NoRows ==
  ASSUME NEW R, NEW f \in Int, \A r \in R : r.instr1 \in Int /\ r.instr2 \in Int
  PROVE  /\ TilesInstr(R, f, f - 1) => R = {}
         /\ R = {} => TilesInstr(R, f, f - 1) /\ TilesTime(R, f, f - 1)
BY DEF TilesInstr, TilesTime

(***************************************************************************)
(* When all accesses of an event are handled, the next event is read.      *)
(***************************************************************************)
LEMMA HandledInv == Inv /\ Handled => Inv'
<1> SUFFICES ASSUME Inv, Handled PROVE Inv'
  BY Zenon
<1> USE ImportAssumption
<1>1. TypeOK /\ KeyInv /\ StartInv /\ EntryInv /\ MarginInv /\ FreshInv /\ OpenInv /\ TileInv
  BY Zenon DEF Inv, TimeInv
<1>2. pc = "handle" /\ (\A a : Before(a))
  BY Zenon DEF Handled, Before
<1>3. UNCHANGED <<opt, ending, m_row_count, cache, trace, lost, curtime, instr, m_time_trace_start,
                  branches_taken, m_last_was_conditional_branch, accesses, delayed_entries>>
  BY Zenon DEF Handled, readvars
<1>4. Rows' = Rows
  BY Zenon, <1>3 DEF Rows
<1>5. CASE ~ending
  <2>1. pc' = "read" /\ UNCHANGED <<m_last_time, m_last_instr, m_open_ecs, closing>>
    BY Zenon, <1>5 DEF Handled
  <2>2. TypeOK'
    BY Zenon, <1>1, <1>3, <2>1 DEF TypeOK
  <2>3. \A a : Before(a)'
    BY Zenon, <2>1 DEF Before
  <2>4. KeyInv'
    BY Zenon, <1>1, <1>2, <1>3, <1>4, <2>1 DEF KeyInv
  <2>5. StartInv' /\ EntryInv' /\ MarginInv'
    BY Zenon, <1>1, <1>3, <2>1 DEF StartInv, EntryInv, MarginInv
  <2>6. FreshInv' /\ OpenInv'
    BY Zenon, <1>1, <1>2, <1>3, <2>1 DEF FreshInv, OpenInv, Before
  <2>7. TileInv'
    BY Zenon, <1>1, <1>2, <1>3, <1>4, <2>1, <2>3 DEF TileInv, LeftTime
  <2>8. EndInv' /\ CacheInv'
    BY Zenon, <2>1 DEF EndInv, CacheInv
  <2>. QED BY Zenon, <2>2, <2>4, <2>5, <2>6, <2>7, <2>8 DEF Inv, TimeInv
<1>6. CASE ending
  <2>1. /\ pc' = "close" /\ m_last_time' = curtime
        /\ m_last_instr' = (instr + MaxInstr) % (MaxInstr + 1)
        /\ m_open_ecs' = [a \in Address |->
             IF ~m_open_ecs[a].open /\ opt.has_mm /\ a \in opt.mm
               THEN [open |-> TRUE, dyninstr |-> 0, time |-> m_time_trace_start]
               ELSE m_open_ecs[a]]
        /\ closing' = {a \in Address : m_open_ecs'[a].open}
    BY Zenon, <1>6 DEF Handled
  <2>2. /\ m_last_instr' \in 0..MaxInstr /\ (instr > 0 => m_last_instr' = instr - 1)
        /\ instr \in 0..MaxInstr /\ m_time_trace_start \in Nat
    BY Zenon, <1>1, <2>1, Decrement DEF TypeOK
  <2>3. ASSUME NEW a \in Address
        PROVE  /\ m_open_ecs'[a].dyninstr = m_open_ecs[a].dyninstr
               /\ m_open_ecs'[a] = m_open_ecs[a]
                  \/ /\ m_open_ecs[a].dyninstr = 0 /\ m_open_ecs'[a].open
                     /\ m_open_ecs'[a].time = m_time_trace_start
    <3>1. m_open_ecs[a].dyninstr \in Nat /\ (m_open_ecs[a].dyninstr > 0 => m_open_ecs[a].open)
      BY Zenon, <1>1, Typed DEF OpenInv
    <3>2. CASE ~m_open_ecs[a].open /\ opt.has_mm /\ a \in opt.mm
      BY <2>1, <3>1, <3>2
    <3>3. CASE ~(~m_open_ecs[a].open /\ opt.has_mm /\ a \in opt.mm)
      BY Zenon, <2>1, <3>3
    <3>. QED BY Zenon, <3>2, <3>3
  <2>4. TypeOK'
    <3>1. m_open_ecs' \in [Address -> [open: BOOLEAN, dyninstr: 0..MaxInstr, time: Nat]]
      <4>1. \A a \in Address : m_open_ecs[a] \in [open: BOOLEAN, dyninstr: 0..MaxInstr, time: Nat]
        BY Zenon, <1>1 DEF TypeOK
      <4>2. [open |-> TRUE, dyninstr |-> 0, time |-> m_time_trace_start]
              \in [open: BOOLEAN, dyninstr: 0..MaxInstr, time: Nat]
        BY <2>2
      <4>. QED BY Zenon, <2>1, <4>1, <4>2
    <3>2. closing' \subseteq Address /\ m_last_time' \in Nat
      BY Zenon, <1>1, <2>1 DEF TypeOK
    <3>3. ending' \in BOOLEAN /\ lost' \in BOOLEAN /\ m_last_was_conditional_branch' \in BOOLEAN
      BY Zenon, <1>1, <1>3 DEF TypeOK
    <3>. QED BY Zenon, <1>1, <1>3, <2>1, <2>2, <3>1, <3>2, <3>3 DEF TypeOK
  <2>5. \A r \in Rows : r \in RowType /\ r.addr \in Address
                       /\ r.instr1 \in Int /\ r.instr2 \in Int
    BY <1>1, Typed DEF RowType
  <2>6. KeyInv'
    BY Zenon, <1>1, <1>2, <1>3, <1>4, <2>3, <2>5 DEF KeyInv
  <2>7. StartInv' /\ EntryInv'
    BY Zenon, <1>1, <1>3, <2>3 DEF StartInv, EntryInv
  <2>8. MarginInv'
    BY <1>1, <1>3, <2>3 DEF MarginInv
  <2>9. \A a \in Address : m_open_ecs'[a].dyninstr > 0 => m_open_ecs'[a].open
    BY Zenon, <1>1, <2>3 DEF OpenInv
  <2>10. OpenInv'
    BY Zenon, <2>1, <2>9 DEF OpenInv
  <2>11. FreshInv'
    <3> SUFFICES ASSUME NEW a \in Address, m_open_ecs'[a].dyninstr = 0, m_open_ecs'[a].open, ~lost
                 PROVE  m_open_ecs'[a].time = m_time_trace_start
      BY Zenon, <1>3, <2>1 DEF FreshInv, Before
    <3>1. m_open_ecs'[a] # m_open_ecs[a]
      BY <1>1, <1>2 DEF OpenInv
    <3>. QED BY Zenon, <2>3, <3>1
  <2>12. TileInv'
    <3> SUFFICES ASSUME ~lost, opt.import_write_ecs, NEW a \in Address
                 PROVE  /\ Before(a)' => /\ TilesInstr(RowsOf(Rows', a), 0, m_open_ecs'[a].dyninstr - 1)
                                         /\ TilesTime(RowsOf(Rows', a), m_time_trace_start', LeftTime(a)' - 1)
                        /\ Before(a)' \/ RowsOf(Rows', a) = {}
      BY Zenon, <1>3 DEF TileInv
    <3>1. /\ TilesInstr(RowsOf(Rows, a), 0, m_open_ecs[a].dyninstr - 1)
          /\ TilesTime(RowsOf(Rows, a), m_time_trace_start, LeftTime(a) - 1)
      BY Zenon, <1>1, <1>2 DEF TileInv
    <3>2. LeftTime(a)' = LeftTime(a)
      <4>1. CASE m_open_ecs[a].dyninstr = 0
        BY Zenon, <1>3, <2>3, <4>1 DEF LeftTime
      <4>2. CASE m_open_ecs[a].dyninstr # 0
        BY Zenon, <1>3, <2>3, <4>2 DEF LeftTime
      <4>. QED BY Zenon, <4>1, <4>2
    <3>3. ASSUME ~Before(a)' PROVE RowsOf(Rows', a) = {}
      <4>1. ~m_open_ecs'[a].open
        BY Zenon, <2>1, <3>3 DEF Before
      <4>2. m_open_ecs'[a].dyninstr \in Nat
        BY Zenon, <2>4, <2>3, <1>1, Typed
      <4>3. m_open_ecs[a].dyninstr = 0
        BY <2>3, <2>9, <4>1, <4>2
      <4>4. TilesInstr(RowsOf(Rows, a), 0, 0 - 1)
        BY Zenon, <3>1, <4>3
      <4>5. \A r \in RowsOf(Rows, a) : r.instr1 \in Int /\ r.instr2 \in Int
        BY Zenon, <2>5 DEF RowsOf
      <4>. QED BY <1>4, <4>4, <4>5, NoRows
    <3>. QED BY Zenon, <1>3, <1>4, <2>3, <3>1, <3>2, <3>3
  <2>13. EndInv' /\ CacheInv'
    BY Zenon, <1>3, <2>1, <2>2 DEF EndInv, CacheInv
  <2>. QED BY Zenon, <2>4, <2>6, <2>7, <2>8, <2>10, <2>11, <2>12, <2>13 DEF Inv, TimeInv
<1>. QED BY Zenon, <1>5, <1>6

\* An access is handled; the queue keeps the instructions and times of its entries.
LEMMA HandleAccessTypes ==
  ASSUME Inv, HandleAccess, delayed_entries' \in Seq(Entry), m_row_count' \in Nat,
         pc' \in {"handle", "failed"}, lost' \in BOOLEAN,
         m_open_ecs' \in [Address -> [open: BOOLEAN, dyninstr: 0..MaxInstr, time: Nat]],
         \A r \in Rows' : r \in RowType
  PROVE  TypeOK'
<1>1. TypeOK
  BY Zenon DEF Inv
<1>2. UNCHANGED <<opt, ending, m_last_instr, m_last_time, closing, curtime, instr, m_time_trace_start,
                  branches_taken, m_last_was_conditional_branch, accesses>>
  BY Zenon DEF HandleAccess, readvars, endvars
<1>3. ending' \in BOOLEAN /\ m_last_was_conditional_branch' \in BOOLEAN
  BY Zenon, <1>1, <1>2 DEF TypeOK
<1>4. \A r \in cache' \cup trace' :
        r \in [addr: Address, instr1: 0..MaxInstr, instr2: 0..MaxInstr, time1: Nat, time2: Nat,
               type: {"R", "W"}, jumphistory: SUBSET ((-Window)..(Window - 1))]
  BY Zenon DEF Rows, RowType
<1>. QED BY Zenon, <1>1, <1>2, <1>3, <1>4 DEF TypeOK, Entry

(***************************************************************************)
(* The accesses that remain are among those there were before.             *)
(***************************************************************************)
LEMMA EntriesShrink ==
  ASSUME EntryInv, UNCHANGED <<instr, curtime, m_time_trace_start>>,
         \A i \in 1..Len(delayed_entries') : \E j \in 1..Len(delayed_entries) :
           /\ delayed_entries'[i].dyninstr = delayed_entries[j].dyninstr
           /\ delayed_entries'[i].time = delayed_entries[j].time
  PROVE  EntryInv'
<1>1. ASSUME NEW i \in 1..Len(delayed_entries')
      PROVE  /\ delayed_entries'[i].dyninstr < instr
             /\ m_time_trace_start <= delayed_entries'[i].time
             /\ delayed_entries'[i].dyninstr < instr - 1 => delayed_entries'[i].time < curtime
             /\ delayed_entries'[i].dyninstr = instr - 1 => delayed_entries'[i].time = curtime
  <2>1. PICK j \in 1..Len(delayed_entries) :
          /\ delayed_entries'[i].dyninstr = delayed_entries[j].dyninstr
          /\ delayed_entries'[i].time = delayed_entries[j].time
    BY Zenon
  <2>. QED BY Zenon, <2>1 DEF EntryInv
<1>2. ASSUME NEW i \in 1..Len(delayed_entries'), NEW k \in 1..Len(delayed_entries'),
             delayed_entries'[i].dyninstr < delayed_entries'[k].dyninstr
      PROVE  delayed_entries'[i].time < delayed_entries'[k].time
  <2>1. PICK j \in 1..Len(delayed_entries) :
          /\ delayed_entries'[i].dyninstr = delayed_entries[j].dyninstr
          /\ delayed_entries'[i].time = delayed_entries[j].time
    BY Zenon
  <2>2. PICK l \in 1..Len(delayed_entries) :
          /\ delayed_entries'[k].dyninstr = delayed_entries[l].dyninstr
          /\ delayed_entries'[k].time = delayed_entries[l].time
    BY Zenon
  <2>. QED BY Zenon, <1>2, <2>1, <2>2 DEF EntryInv
<1>. QED BY Zenon, <1>1, <1>2 DEF EntryInv

(***************************************************************************)
(* An access of a byte closes the class open for that byte and opens the   *)
(* next one at the following instruction: the row it adds is the next      *)
(* tile.                                                                   *)
(***************************************************************************)
LEMMA HandleAccessInv == Inv /\ HandleAccess => Inv'
<1> SUFFICES ASSUME Inv, HandleAccess PROVE Inv'
  BY Zenon
<1> USE ImportAssumption
<1>1. TypeOK /\ KeyInv /\ StartInv /\ EntryInv /\ MarginInv /\ FreshInv /\ OpenInv /\ TileInv
  BY Zenon DEF Inv, TimeInv
<1>2. pc = "handle" /\ delayed_entries # <<>> /\ (\A a : Before(a))
  BY Zenon DEF HandleAccess, AnyReady, Before
<1>3. UNCHANGED <<opt, ending, m_last_instr, m_last_time, closing, curtime, instr, m_time_trace_start,
                  branches_taken, m_last_was_conditional_branch, accesses>>
  BY Zenon DEF HandleAccess, readvars, endvars
<1> DEFINE entry == Head(delayed_entries)
           a == Head(entry.accs).addr
           type == Head(entry.accs).type
           row == CloseAt(entry, a, type)
<1>4. /\ entry \in Entry /\ entry = delayed_entries[1] /\ 1 \in 1..Len(delayed_entries)
      /\ a \in Address /\ type \in {"R", "W"}
  BY Zenon, <1>1, <1>2, FirstEntry DEF Access
<1>5. entry.dyninstr \in 0..(MaxInstr - 1) /\ entry.time \in Nat
  BY Zenon, <1>4 DEF Entry
<1>6. \/ /\ Skipped(entry, a)
         /\ delayed_entries' = NextAccess(delayed_entries)
         /\ UNCHANGED <<pc, tablevars>>
      \/ /\ ~Skipped(entry, a)
         /\ AddTraceEvent(row)
         /\ m_open_ecs' = [m_open_ecs EXCEPT ![a] =
              [open |-> TRUE, dyninstr |-> entry.dyninstr + 1, time |-> entry.time + 1]]
         /\ delayed_entries' = NextAccess(delayed_entries)
         /\ UNCHANGED <<pc, lost>>
      \/ /\ ~Skipped(entry, a)
         /\ AddTraceEventFails(row)
         /\ m_open_ecs' = [m_open_ecs EXCEPT ![a].open = TRUE]
         /\ delayed_entries' = Tail(delayed_entries)
         /\ pc' = IF Delayed THEN pc ELSE "failed"
         /\ lost' = TRUE
  BY Zenon DEF HandleAccess
<1> HIDE DEF entry, a, type, row
<1>7. /\ delayed_entries' \in Seq(Entry)
      /\ \A i \in 1..Len(delayed_entries') : \E j \in 1..Len(delayed_entries) :
           /\ delayed_entries'[i].dyninstr = delayed_entries[j].dyninstr
           /\ delayed_entries'[i].time = delayed_entries[j].time
  <2>1. delayed_entries \in Seq(Entry)
    BY Zenon, <1>1, Typed
  <2>2. CASE delayed_entries' = NextAccess(delayed_entries)
    BY Zenon, <1>2, <2>1, <2>2, NextEntries
  <2>3. CASE delayed_entries' = Tail(delayed_entries)
    <3>1. \A i \in 1..Len(Tail(delayed_entries)) :
            i + 1 \in 1..Len(delayed_entries) /\ Tail(delayed_entries)[i] = delayed_entries[i + 1]
      BY Zenon, <1>2, <2>1, TailEntries
    <3>. QED BY Zenon, <1>2, <2>1, <2>3, <3>1, TailEntries
  <2>. QED BY Zenon, <1>6, <2>2, <2>3
<1>8. EntryInv'
  BY Zenon, <1>1, <1>3, <1>7, EntriesShrink
<1>9. instr # 0 /\ instr \in Nat /\ curtime \in Nat /\ m_time_trace_start \in Nat
  BY <1>1, <1>2 DEF StartInv, TypeOK
<1>10. StartInv'
  BY Zenon, <1>1, <1>3, <1>9 DEF StartInv
<1>11. ASSUME NEW b \in Address, m_open_ecs[b].dyninstr > 0
       PROVE  /\ m_open_ecs[b].dyninstr <= instr /\ m_open_ecs[b].time > m_time_trace_start
              /\ m_open_ecs[b].dyninstr < instr => m_open_ecs[b].time <= curtime
              /\ m_open_ecs[b].dyninstr = instr => m_open_ecs[b].time = curtime + 1
              /\ \A i \in 1..Len(delayed_entries') :
                   m_open_ecs[b].dyninstr <= delayed_entries'[i].dyninstr =>
                     m_open_ecs[b].time <= delayed_entries'[i].time
  <2>1. \A i \in 1..Len(delayed_entries) :
          m_open_ecs[b].dyninstr <= delayed_entries[i].dyninstr =>
            m_open_ecs[b].time <= delayed_entries[i].time
    BY Zenon, <1>1, <1>11 DEF MarginInv
  <2>2. \A i \in 1..Len(delayed_entries') :
          m_open_ecs[b].dyninstr <= delayed_entries'[i].dyninstr =>
            m_open_ecs[b].time <= delayed_entries'[i].time
    BY Zenon, <1>7, <2>1
  <2>. QED BY Zenon, <1>1, <1>11, <2>2 DEF MarginInv
<1>12. \A b \in Address : m_open_ecs[b] \in [open: BOOLEAN, dyninstr: 0..MaxInstr, time: Nat]
  BY Zenon, <1>1 DEF TypeOK
<1>13. \A r \in Rows : /\ r \in RowType /\ r.instr1 \in Int /\ r.instr2 \in Int
                      /\ r.time1 \in Int /\ r.time2 \in Int
  BY <1>1, Typed
<1>14. CASE /\ delayed_entries' = NextAccess(delayed_entries)
            /\ UNCHANGED <<pc, tablevars>>
  <2>1. UNCHANGED <<pc, m_open_ecs, m_row_count, cache, trace, lost>> /\ Rows' = Rows
    BY Zenon, <1>14 DEF tablevars, Rows
  <2>2. TypeOK'
    <3>1. lost' \in BOOLEAN
      BY Zenon, <1>1, <2>1 DEF TypeOK
    <3>2. m_row_count' \in Nat /\ m_open_ecs' \in [Address -> [open: BOOLEAN, dyninstr: 0..MaxInstr, time: Nat]]
      BY Zenon, <1>1, <2>1 DEF TypeOK
    <3>3. pc' \in {"handle", "failed"} /\ (\A r \in Rows' : r \in RowType)
      BY Zenon, <1>2, <1>13, <2>1
    <3>. QED BY Zenon, <1>7, <3>1, <3>2, <3>3, HandleAccessTypes
  <2>3. MarginInv'
    BY Zenon, <1>3, <1>11, <2>1 DEF MarginInv
  <2>4. \A b : Before(b)'
    BY Zenon, <1>2, <2>1 DEF Before
  <2>5. KeyInv'
    BY Zenon, <1>1, <1>2, <2>1 DEF KeyInv
  <2>6. FreshInv' /\ OpenInv'
    BY Zenon, <1>1, <1>2, <1>3, <2>1, <2>4 DEF FreshInv, OpenInv
  <2>7. TileInv'
    BY Zenon, <1>1, <1>2, <1>3, <2>1, <2>4 DEF TileInv, LeftTime
  <2>8. EndInv' /\ CacheInv'
    BY Zenon, <1>2, <2>1 DEF EndInv, CacheInv
  <2>. QED BY Zenon, <1>8, <1>10, <2>2, <2>3, <2>5, <2>6, <2>7, <2>8 DEF Inv, TimeInv
<1>15. CASE /\ ~Skipped(entry, a)
            /\ AddTraceEvent(row)
            /\ m_open_ecs' = [m_open_ecs EXCEPT ![a] =
                 [open |-> TRUE, dyninstr |-> entry.dyninstr + 1, time |-> entry.time + 1]]
            /\ UNCHANGED <<pc, lost>>
  <2>1. /\ row \in RowType /\ row.addr = a /\ row.type = type
        /\ row.instr1 = m_open_ecs[a].dyninstr /\ row.instr2 = entry.dyninstr
        /\ row.time2 = entry.time
        /\ row.time1 = IF m_open_ecs[a].time = 0 THEN m_time_trace_start ELSE m_open_ecs[a].time
        /\ m_open_ecs[a].dyninstr <= entry.dyninstr
    BY <1>1, <1>4, <1>15, ClosedRow DEF row
  <2>2. m_open_ecs[a].dyninstr \in Nat /\ m_open_ecs[a].time \in Nat
    BY <1>4, <1>12
  <2>3. /\ Rows' = IF Imported(row.type) THEN Rows \cup {row} ELSE Rows
        /\ KeysDistinct(Rows') /\ IsFiniteSet(Rows') /\ m_row_count' \in Nat
        /\ ~lost => m_row_count' = Cardinality(Rows')
    <3>1. m_row_count \in Nat /\ Before(row.addr)
      BY Zenon, <1>1, <1>2 DEF TypeOK
    <3>2. row.instr2 \in Int /\ m_open_ecs[row.addr].dyninstr \in Int
          /\ m_open_ecs[row.addr].dyninstr <= row.instr2
      BY SMTT(40), <1>5, <2>1, <2>2
    <3>. QED BY Zenon, <1>1, <1>13, <1>15, <3>1, <3>2, RowAdded
  <2>4. \A b \in Address : m_open_ecs'[b] = IF b = a
          THEN [open |-> TRUE, dyninstr |-> entry.dyninstr + 1, time |-> entry.time + 1]
          ELSE m_open_ecs[b]
    BY Zenon, <1>1, <1>15 DEF TypeOK
  <2>5. m_open_ecs'[a].open /\ m_open_ecs'[a].dyninstr = entry.dyninstr + 1 /\ m_open_ecs'[a].time = entry.time + 1
    BY <1>4, <2>4
  <2>6. TypeOK'
    <3>1. [open |-> TRUE, dyninstr |-> entry.dyninstr + 1, time |-> entry.time + 1]
            \in [open: BOOLEAN, dyninstr: 0..MaxInstr, time: Nat]
      BY <1>5
    <3>2. m_open_ecs' \in [Address -> [open: BOOLEAN, dyninstr: 0..MaxInstr, time: Nat]]
      BY Zenon, <1>1, <1>15, <3>1 DEF TypeOK
    <3>3. lost' \in BOOLEAN
      BY Zenon, <1>1, <1>15 DEF TypeOK
    <3>4. pc' \in {"handle", "failed"}
      BY Zenon, <1>2, <1>15
    <3>5. \A r \in Rows' : r \in RowType
      BY Zenon, <1>13, <2>1, <2>3
    <3>. QED BY Zenon, <1>7, <2>3, <3>2, <3>3, <3>4, <3>5, HandleAccessTypes
  <2>7. \A b : Before(b)'
    BY Zenon, <1>2, <1>15 DEF Before
  <2>8. \A b \in Address : b # a => m_open_ecs'[b] = m_open_ecs[b]
    BY Zenon, <2>4
  <2>9. KeyInv'
    <3>1. ASSUME NEW r \in Rows' PROVE r.instr2 < m_open_ecs'[r.addr].dyninstr
      <4>1. CASE r = row
        BY <1>5, <2>1, <2>5, <4>1
      <4>2. CASE r \in Rows
        <5>1. r.addr \in Address /\ r.instr2 < m_open_ecs[r.addr].dyninstr
          BY Zenon, <1>1, <1>2, <1>13, <4>2 DEF KeyInv, RowType
        <5>2. CASE r.addr = a
          BY <1>5, <1>13, <2>1, <2>2, <2>5, <4>2, <5>1, <5>2
        <5>3. CASE r.addr # a
          BY Zenon, <2>8, <5>1, <5>3
        <5>. QED BY Zenon, <5>2, <5>3
      <4>. QED BY Zenon, <2>3, <4>1, <4>2
    <3>. QED BY Zenon, <1>15, <2>3, <3>1 DEF KeyInv
  <2>10. /\ entry.dyninstr < instr /\ m_time_trace_start <= entry.time
         /\ entry.dyninstr < instr - 1 => entry.time < curtime
         /\ entry.dyninstr = instr - 1 => entry.time = curtime
         /\ \A i \in 1..Len(delayed_entries') :
              entry.dyninstr < delayed_entries'[i].dyninstr => entry.time < delayed_entries'[i].time
    BY Zenon, <1>1, <1>4, <1>7 DEF EntryInv
  <2>11. MarginInv'
    <3> SUFFICES ASSUME NEW b \in Address, m_open_ecs'[b].dyninstr > 0
                 PROVE  /\ m_open_ecs'[b].dyninstr <= instr /\ m_open_ecs'[b].time > m_time_trace_start
                        /\ m_open_ecs'[b].dyninstr < instr => m_open_ecs'[b].time <= curtime
                        /\ m_open_ecs'[b].dyninstr = instr => m_open_ecs'[b].time = curtime + 1
                        /\ \A i \in 1..Len(delayed_entries') :
                             m_open_ecs'[b].dyninstr <= delayed_entries'[i].dyninstr =>
                               m_open_ecs'[b].time <= delayed_entries'[i].time
      BY Zenon, <1>3 DEF MarginInv
    <3>1. CASE b = a
      <4>1. /\ entry.dyninstr + 1 <= instr /\ entry.time + 1 > m_time_trace_start
            /\ entry.dyninstr + 1 < instr => entry.time + 1 <= curtime
            /\ entry.dyninstr + 1 = instr => entry.time + 1 = curtime + 1
        BY SMTT(20), <1>5, <1>9, <2>10
      <4>2. \A i \in 1..Len(delayed_entries') :
              delayed_entries'[i].dyninstr \in Int /\ delayed_entries'[i].time \in Int
        <5>1. \A i \in 1..Len(delayed_entries) :
                delayed_entries[i].dyninstr \in Int /\ delayed_entries[i].time \in Int
          BY Zenon, <1>1, Typed
        <5>. QED BY Zenon, <1>7, <5>1
      <4>3. ASSUME NEW i \in 1..Len(delayed_entries'), entry.dyninstr + 1 <= delayed_entries'[i].dyninstr
            PROVE  entry.time + 1 <= delayed_entries'[i].time
        <5>1. delayed_entries'[i].dyninstr \in Int /\ delayed_entries'[i].time \in Int
          BY Zenon, <4>2
        <5>2. entry.dyninstr < delayed_entries'[i].dyninstr
          BY <1>5, <4>3, <5>1
        <5>3. entry.time < delayed_entries'[i].time
          BY Zenon, <2>10, <5>2
        <5>. QED BY <1>5, <5>1, <5>3
      <4>. QED BY Zenon, <2>5, <3>1, <4>1, <4>3
    <3>2. CASE b # a
      BY Zenon, <1>11, <2>8, <3>2
    <3>. QED BY Zenon, <3>1, <3>2
  <2>12. FreshInv' /\ OpenInv'
    <3>1. m_open_ecs'[a].dyninstr > 0
      BY <1>5, <2>5
    <3>2. OpenInv'
      BY Zenon, <1>1, <1>15, <2>5, <2>8, <3>1 DEF OpenInv
    <3>3. FreshInv'
      BY <1>1, <1>2, <1>3, <1>15, <2>5, <2>8, <3>1, <1>5 DEF FreshInv
    <3>. QED BY Zenon, <3>2, <3>3
  <2>13. TileInv'
    <3> SUFFICES ASSUME ~lost, opt.import_write_ecs, NEW b \in Address
                 PROVE  /\ TilesInstr(RowsOf(Rows', b), 0, m_open_ecs'[b].dyninstr - 1)
                        /\ TilesTime(RowsOf(Rows', b), m_time_trace_start, LeftTime(b)' - 1)
      BY Zenon, <1>3, <1>15, <2>7 DEF TileInv
    <3>1. Rows' = Rows \cup {row}
      BY Zenon, <2>3 DEF Imported
    <3>2. /\ TilesInstr(RowsOf(Rows, b), 0, m_open_ecs[b].dyninstr - 1)
          /\ TilesTime(RowsOf(Rows, b), m_time_trace_start, LeftTime(b) - 1)
      BY Zenon, <1>1, <1>2 DEF TileInv
    <3>3. CASE b # a
      <4>1. RowsOf(Rows', b) = RowsOf(Rows, b)
        BY Zenon, <2>1, <3>1, <3>3 DEF RowsOf
      <4>. QED BY Zenon, <1>3, <2>8, <3>2, <3>3, <4>1 DEF LeftTime
    <3>4. CASE b = a
      <4>1. RowsOf(Rows', b) = RowsOf(Rows, b) \cup {row}
        BY Zenon, <2>1, <3>1, <3>4 DEF RowsOf
      <4>2. \A r \in RowsOf(Rows, b) : /\ r.instr1 \in Int /\ r.instr2 \in Int
                                      /\ r.time1 \in Int /\ r.time2 \in Int
        BY Zenon, <1>13 DEF RowsOf
      <4>3. TilesInstr(RowsOf(Rows', b), 0, entry.dyninstr)
        <5>1. /\ entry.dyninstr \in Int /\ m_open_ecs[a].dyninstr \in Int
              /\ 0 \in Int /\ 0 <= m_open_ecs[a].dyninstr
          BY <1>5, <2>2
        <5>2. /\ TilesInstr(RowsOf(Rows, a), 0, m_open_ecs[a].dyninstr - 1)
              /\ \A r \in RowsOf(Rows, a) : r.instr1 \in Int /\ r.instr2 \in Int
          BY Zenon, <3>2, <3>4, <4>2
        <5>3. TilesInstr(RowsOf(Rows, a) \cup {row}, 0, entry.dyninstr)
          BY Zenon, <2>1, <5>1, <5>2, TilesInstrExtend
        <5>. QED BY Zenon, <3>4, <4>1, <5>3
      <4>4. /\ row.time1 = LeftTime(a) /\ m_time_trace_start <= LeftTime(a) /\ LeftTime(a) <= entry.time
            /\ LeftTime(a) \in Int
        <5>1. CASE m_open_ecs[a].dyninstr = 0
          <6>1. m_open_ecs[a].time = 0
            BY Zenon, <1>1, <1>2, <1>4, <5>1 DEF FreshInv
          <6>. QED BY <1>9, <2>1, <2>10, <5>1, <6>1 DEF LeftTime
        <5>2. CASE m_open_ecs[a].dyninstr > 0
          <6>1. m_open_ecs[a].time > m_time_trace_start /\ m_open_ecs[a].time <= entry.time
            BY Zenon, <1>1, <1>4, <2>1, <5>2 DEF MarginInv
          <6>. QED BY <1>9, <2>1, <2>2, <5>2, <6>1 DEF LeftTime
        <5>. QED BY <2>2, <5>1, <5>2
      <4>5. TilesTime(RowsOf(Rows', b), m_time_trace_start, entry.time)
        <5>1. entry.time \in Int /\ m_time_trace_start \in Int
          BY <1>5, <1>9
        <5>2. /\ TilesTime(RowsOf(Rows, a), m_time_trace_start, LeftTime(a) - 1)
              /\ \A r \in RowsOf(Rows, a) : r.time1 \in Int /\ r.time2 \in Int
          BY Zenon, <3>2, <3>4, <4>2
        <5>3. TilesTime(RowsOf(Rows, a) \cup {row}, m_time_trace_start, entry.time)
          BY Zenon, <2>1, <4>4, <5>1, <5>2, TilesTimeExtend
        <5>. QED BY Zenon, <3>4, <4>1, <5>3
      <4>6. m_open_ecs'[b].dyninstr - 1 = entry.dyninstr /\ LeftTime(b)' - 1 = entry.time
        BY <1>5, <2>5, <3>4 DEF LeftTime
      <4>. QED BY Zenon, <4>3, <4>5, <4>6
    <3>. QED BY Zenon, <3>3, <3>4
  <2>14. EndInv' /\ CacheInv'
    BY Zenon, <1>2, <1>15 DEF EndInv, CacheInv
  <2>. QED BY Zenon, <1>8, <1>10, <2>6, <2>9, <2>11, <2>12, <2>13, <2>14 DEF Inv, TimeInv
<1>16. CASE /\ AddTraceEventFails(row)
            /\ m_open_ecs' = [m_open_ecs EXCEPT ![a].open = TRUE]
            /\ pc' = IF Delayed THEN pc ELSE "failed"
            /\ lost' = TRUE
  <2>1. /\ Rows' \subseteq Rows /\ m_row_count' = m_row_count
        /\ KeysDistinct(Rows') /\ IsFiniteSet(Rows')
    BY Zenon, <1>1, <1>16, RowsLost
  <2>2. ASSUME NEW b \in Address
        PROVE  /\ m_open_ecs'[b].dyninstr = m_open_ecs[b].dyninstr /\ m_open_ecs'[b].time = m_open_ecs[b].time
               /\ m_open_ecs[b].open => m_open_ecs'[b].open
    BY Zenon, <1>1, <1>4, <1>12, <1>16 DEF TypeOK
  <2>3. TypeOK'
    <3>1. m_open_ecs' \in [Address -> [open: BOOLEAN, dyninstr: 0..MaxInstr, time: Nat]]
      BY Zenon, <1>1, <1>4, <1>16 DEF TypeOK
    <3>2. lost' \in BOOLEAN
      BY Zenon, <1>16
    <3>3. pc' \in {"handle", "failed"} /\ m_row_count' \in Nat /\ (\A r \in Rows' : r \in RowType)
      BY Zenon, <1>1, <1>2, <1>13, <1>16, <2>1 DEF TypeOK
    <3>. QED BY Zenon, <1>7, <3>1, <3>2, <3>3, HandleAccessTypes
  <2>4. MarginInv'
    BY Zenon, <1>3, <1>11, <2>2 DEF MarginInv
  <2>5. KeyInv'
    <3>1. ASSUME NEW r \in Rows' PROVE r.instr2 < m_open_ecs'[r.addr].dyninstr
      <4>1. r.addr \in Address /\ r.instr2 < m_open_ecs[r.addr].dyninstr
        BY Zenon, <1>1, <1>2, <1>13, <2>1 DEF KeyInv, RowType
      <4>. QED BY Zenon, <2>2, <4>1
    <3>. QED BY Zenon, <1>16, <2>1, <3>1 DEF KeyInv
  <2>6. FreshInv' /\ TileInv'
    BY Zenon, <1>16 DEF FreshInv, TileInv
  <2>7. OpenInv'
    BY Zenon, <1>1, <1>16, <2>2 DEF OpenInv
  <2>8. EndInv' /\ CacheInv'
    BY Zenon, <1>2, <1>16 DEF EndInv, CacheInv
  <2>. QED BY Zenon, <1>8, <1>10, <2>3, <2>4, <2>5, <2>6, <2>7, <2>8 DEF Inv, TimeInv
<1>. QED BY Zenon, <1>6, <1>14, <1>15, <1>16

(***************************************************************************)
(* At the end of the trace the classes still open are closed at the last   *)
(* instruction.                                                            *)
(***************************************************************************)
LEMMA CloseECInv == Inv /\ CloseEC => Inv'
<1> SUFFICES ASSUME Inv, CloseEC PROVE Inv'
  BY Zenon
<1> USE ImportAssumption
<1>1. TypeOK /\ KeyInv /\ StartInv /\ EntryInv /\ MarginInv /\ FreshInv /\ OpenInv /\ TileInv /\ EndInv
  BY Zenon DEF Inv, TimeInv
<1>2. pc = "close"
      /\ UNCHANGED <<opt, ending, curtime, instr, m_time_trace_start, branches_taken,
                     m_last_was_conditional_branch, accesses, delayed_entries, m_open_ecs,
                     m_last_instr, m_last_time>>
  BY Zenon DEF CloseEC, readvars
<1>3. PICK a \in closing :
        /\ LET row == Row(a, m_open_ecs[a], [dyninstr |-> m_last_instr, time |-> m_last_time],
                          opt.rightmargin, {})
           IN \/ /\ IF NothingLeft(a)
                      THEN UNCHANGED <<cache, trace, m_row_count>>
                      ELSE AddTraceEvent(row)
                 /\ UNCHANGED <<pc, lost>>
              \/ /\ ~NothingLeft(a)
                 /\ AddTraceEventFails(row)
                 /\ pc' = "failed" /\ lost' = TRUE
        /\ closing' = closing \ {a}
  BY Zenon DEF CloseEC
<1> DEFINE row == Row(a, m_open_ecs[a], [dyninstr |-> m_last_instr, time |-> m_last_time],
                      opt.rightmargin, {})
<1>4. \/ NothingLeft(a) /\ UNCHANGED <<cache, trace, m_row_count, pc, lost>>
      \/ ~NothingLeft(a) /\ AddTraceEvent(row) /\ UNCHANGED <<pc, lost>>
      \/ AddTraceEventFails(row) /\ pc' = "failed" /\ lost' = TRUE
  BY Zenon, <1>3
<1>5. ~NothingLeft(a) =>
        /\ row \in RowType /\ row.addr = a
        /\ row.instr1 = m_open_ecs[a].dyninstr /\ row.instr2 = m_last_instr
        /\ row.time1 = m_open_ecs[a].time /\ row.time2 = m_last_time
        /\ m_open_ecs[a].dyninstr <= m_last_instr
  <2>1. a \in Address
    BY Zenon, <1>1, <1>3 DEF TypeOK
  <2>. QED BY Zenon, <1>1, <2>1, LastRow
<1> HIDE DEF row
<1>6. a \in Address /\ a \in closing /\ Before(a) /\ closing' = closing \ {a} /\ closing' \subseteq Address
  BY Zenon, <1>1, <1>2, <1>3 DEF TypeOK, Before
<1>7. /\ m_open_ecs[a].dyninstr \in Nat /\ m_open_ecs[a].time \in Nat /\ m_last_instr \in 0..MaxInstr
      /\ m_last_time \in Nat /\ curtime \in Nat /\ instr \in 0..MaxInstr /\ m_time_trace_start \in Nat
  BY Zenon, <1>1, <1>6, Typed DEF TypeOK
<1>8. \A r \in Rows : /\ r \in RowType /\ r.addr \in Address /\ r.instr1 \in Int /\ r.instr2 \in Int
                     /\ r.time1 \in Int /\ r.time2 \in Int
  BY SMTT(30), <1>1, Typed DEF RowType
<1>9. StartInv' /\ EntryInv' /\ MarginInv'
  BY Zenon, <1>1, <1>2 DEF StartInv, EntryInv, MarginInv
<1>10. ASSUME pc' \in {"close", "failed"}, lost' \in BOOLEAN, m_row_count' \in Nat,
              \A r \in Rows' : r \in RowType
       PROVE  TypeOK'
  <2>1. ending' \in BOOLEAN /\ m_last_was_conditional_branch' \in BOOLEAN
    BY Zenon, <1>1, <1>2 DEF TypeOK
  <2>2. \A r \in cache' \cup trace' :
          r \in [addr: Address, instr1: 0..MaxInstr, instr2: 0..MaxInstr, time1: Nat, time2: Nat,
                 type: {"R", "W"}, jumphistory: SUBSET ((-Window)..(Window - 1))]
    BY Zenon, <1>10 DEF Rows, RowType
  <2>. QED BY Zenon, <1>1, <1>2, <1>6, <1>10, <2>1, <2>2 DEF TypeOK
<1>11. CASE AddTraceEventFails(row) /\ pc' = "failed" /\ lost' = TRUE
  <2>1. /\ Rows' \subseteq Rows /\ m_row_count' = m_row_count
        /\ KeysDistinct(Rows') /\ IsFiniteSet(Rows')
    BY Zenon, <1>1, <1>11, RowsLost
  <2>2. lost' \in BOOLEAN
    BY Zenon, <1>11
  <2>3. m_row_count' \in Nat /\ (\A r \in Rows' : r \in RowType)
    BY Zenon, <1>1, <1>8, <2>1 DEF TypeOK
  <2>4. TypeOK'
    BY Zenon, <1>10, <1>11, <2>2, <2>3
  <2>5. \A b \in Address : m_open_ecs'[b].dyninstr > 0 => m_open_ecs'[b].open
    BY Zenon, <1>1, <1>2 DEF OpenInv
  <2>. QED BY Zenon, <1>9, <1>11, <2>1, <2>4, <2>5, FailedInv
<1>12. CASE /\ UNCHANGED <<pc, lost>>
            /\ \/ NothingLeft(a) /\ UNCHANGED <<cache, trace, m_row_count>>
               \/ ~NothingLeft(a) /\ AddTraceEvent(row)
  <2>1. /\ Rows' = IF ~NothingLeft(a) /\ Imported(row.type) THEN Rows \cup {row} ELSE Rows
        /\ KeysDistinct(Rows') /\ IsFiniteSet(Rows') /\ m_row_count' \in Nat
        /\ ~lost => m_row_count' = Cardinality(Rows')
    <3>1. CASE NothingLeft(a) /\ UNCHANGED <<cache, trace, m_row_count>>
      BY Zenon, <1>1, <3>1 DEF KeyInv, Rows, TypeOK
    <3>2. CASE ~NothingLeft(a) /\ AddTraceEvent(row)
      <4>1. m_row_count \in Nat /\ Before(row.addr)
        BY Zenon, <1>1, <1>5, <1>6, <3>2 DEF TypeOK
      <4>2. row.instr2 \in Int /\ m_open_ecs[row.addr].dyninstr \in Int
            /\ m_open_ecs[row.addr].dyninstr <= row.instr2
        BY SMTT(30), <1>5, <1>7, <3>2
      <4>3. /\ Rows' = IF Imported(row.type) THEN Rows \cup {row} ELSE Rows
            /\ KeysDistinct(Rows') /\ IsFiniteSet(Rows') /\ m_row_count' \in Nat
            /\ ~lost => m_row_count' = Cardinality(Rows')
        BY Zenon, <1>1, <1>8, <3>2, <4>1, <4>2, RowAdded
      <4>. QED BY Zenon, <3>2, <4>3
    <3>. QED BY Zenon, <1>12, <3>1, <3>2
  <2>2. TypeOK'
    <3>1. lost' \in BOOLEAN
      BY Zenon, <1>1, <1>12 DEF TypeOK
    <3>2. pc' \in {"close", "failed"} /\ (\A r \in Rows' : r \in RowType)
      BY Zenon, <1>2, <1>5, <1>8, <1>12, <2>1
    <3>. QED BY Zenon, <1>10, <2>1, <3>1, <3>2
  <2>3. pc' = "close" /\ lost' = lost /\ (\A b : Before(b)' <=> Before(b) /\ b # a)
    BY Zenon, <1>2, <1>6, <1>12 DEF Before
  <2>4. KeyInv'
    <3>1. ASSUME NEW r \in Rows', Before(r.addr)' PROVE r.instr2 < m_open_ecs'[r.addr].dyninstr
      <4>1. r \in Rows /\ Before(r.addr)
        BY Zenon, <1>5, <2>1, <2>3, <3>1
      <4>. QED BY ZenonT(40), <1>1, <1>2, <4>1 DEF KeyInv
    <3>. QED BY Zenon, <2>1, <2>3, <3>1 DEF KeyInv
  <2>5. FreshInv' /\ OpenInv'
    BY Zenon, <1>1, <1>2, <2>3 DEF FreshInv, OpenInv
  <2>6. EndInv' /\ CacheInv'
    BY Zenon, <1>1, <1>2, <2>3 DEF EndInv, CacheInv
  <2>7. TileInv'
    <3> SUFFICES ASSUME ~lost, opt.import_write_ecs, NEW b \in Address
                 PROVE  /\ Before(b)' => /\ TilesInstr(RowsOf(Rows', b), 0, m_open_ecs[b].dyninstr - 1)
                                         /\ TilesTime(RowsOf(Rows', b), m_time_trace_start, LeftTime(b) - 1)
                        /\ ~Before(b)' /\ RowsOf(Rows', b) # {} =>
                             /\ TilesInstr(RowsOf(Rows', b), 0, m_last_instr)
                             /\ TilesTime(RowsOf(Rows', b), m_time_trace_start, m_last_time)
      BY ZenonT(40), <1>2, <2>3 DEF TileInv, LeftTime
    <3>1. /\ Before(b) => /\ TilesInstr(RowsOf(Rows, b), 0, m_open_ecs[b].dyninstr - 1)
                          /\ TilesTime(RowsOf(Rows, b), m_time_trace_start, LeftTime(b) - 1)
          /\ ~Before(b) /\ RowsOf(Rows, b) # {} =>
               /\ TilesInstr(RowsOf(Rows, b), 0, m_last_instr)
               /\ TilesTime(RowsOf(Rows, b), m_time_trace_start, m_last_time)
      BY Zenon, <1>1, <1>2 DEF TileInv
    <3>2. Rows' = IF NothingLeft(a) THEN Rows ELSE Rows \cup {row}
      BY Zenon, <2>1 DEF Imported
    <3>3. CASE b # a
      <4>1. RowsOf(Rows', b) = RowsOf(Rows, b)
        BY Zenon, <1>5, <3>2, <3>3 DEF RowsOf
      <4>. QED BY Zenon, <2>3, <3>1, <3>3, <4>1
    <3>4. CASE b = a
      <4>1. ~Before(b)'
        BY Zenon, <2>3, <3>4
      <4>2. /\ m_last_time = curtime /\ (instr > 0 => m_last_instr = instr - 1)
            /\ m_time_trace_start <= curtime
        BY Zenon, <1>1, <1>2 DEF EndInv, StartInv
      <4>3. m_open_ecs[a].dyninstr > 0 =>
              /\ instr > 0
              /\ m_open_ecs[a].dyninstr <= instr /\ m_open_ecs[a].time > m_time_trace_start
              /\ m_open_ecs[a].dyninstr < instr => m_open_ecs[a].time <= curtime
              /\ m_open_ecs[a].dyninstr = instr => m_open_ecs[a].time = curtime + 1
        <5>1. instr = 0 => m_open_ecs[a].dyninstr = 0
          BY Zenon, <1>1, <1>6 DEF StartInv
        <5>2. m_open_ecs[a].dyninstr > 0 => instr > 0
          BY <1>7, <5>1
        <5>. QED BY Zenon, <1>1, <1>6, <5>2 DEF MarginInv
      <4>4. m_open_ecs[a].dyninstr = 0 => m_open_ecs[a].time = m_time_trace_start
        BY Zenon, <1>1, <1>2, <1>6 DEF FreshInv
      <4>5. CASE NothingLeft(a)
        <5>1. m_open_ecs[a].dyninstr > m_last_instr
          BY Zenon, <4>5 DEF NothingLeft
        <5>2. m_open_ecs[a].dyninstr - 1 = m_last_instr /\ m_open_ecs[a].time - 1 = m_last_time
              /\ m_open_ecs[a].dyninstr # 0
          BY <1>7, <4>2, <4>3, <5>1
        <5>3. LeftTime(a) = m_open_ecs[a].time
          BY Zenon, <5>2 DEF LeftTime
        <5>. QED BY Zenon, <1>6, <3>1, <3>2, <3>4, <4>1, <4>5, <5>2, <5>3
      <4>6. CASE ~NothingLeft(a)
        <5>1. RowsOf(Rows', a) = RowsOf(Rows, a) \cup {row}
          BY Zenon, <1>5, <3>2, <4>6 DEF RowsOf
        <5>2. \A r \in RowsOf(Rows, a) : /\ r.instr1 \in Int /\ r.instr2 \in Int
                                        /\ r.time1 \in Int /\ r.time2 \in Int
          BY Zenon, <1>8 DEF RowsOf
        <5>3. /\ TilesInstr(RowsOf(Rows, a), 0, m_open_ecs[a].dyninstr - 1)
              /\ TilesTime(RowsOf(Rows, a), m_time_trace_start, LeftTime(a) - 1)
          BY Zenon, <1>6, <3>1, <3>4
        <5>4. TilesInstr(RowsOf(Rows', a), 0, m_last_instr)
          BY <1>5, <1>7, <4>6, <5>1, <5>2, <5>3, TilesInstrExtend
        <5>5. LeftTime(a) = m_open_ecs[a].time /\ m_time_trace_start <= m_open_ecs[a].time
              /\ m_open_ecs[a].time <= m_last_time
          <6>1. CASE m_open_ecs[a].dyninstr = 0
            BY <1>7, <4>2, <4>4, <6>1 DEF LeftTime
          <6>2. CASE m_open_ecs[a].dyninstr > 0
            BY SMTT(30), <1>5, <1>7, <4>2, <4>3, <4>6, <6>2 DEF LeftTime
          <6>. QED BY <1>7, <6>1, <6>2
        <5>6. TilesTime(RowsOf(Rows', a), m_time_trace_start, m_last_time)
          BY SMTT(40), <1>5, <1>7, <4>6, <5>1, <5>2, <5>3, <5>5, TilesTimeExtend
        <5>. QED BY Zenon, <3>4, <4>1, <5>4, <5>6
      <4>. QED BY Zenon, <4>5, <4>6
    <3>. QED BY ZenonT(40), <3>3, <3>4
  <2>. QED BY Zenon, <1>9, <2>2, <2>4, <2>5, <2>6, <2>7 DEF Inv, TimeInv
<1>. QED BY ZenonT(40), <1>4, <1>11, <1>12

\* Both ends of close_ec_intervals: the last batch arrives, or it is lost.
LEMMA EndingInv == Inv /\ (FlushAndCheck \/ CheckFails) => Inv'
<1> SUFFICES ASSUME Inv, FlushAndCheck \/ CheckFails PROVE Inv'
  BY Zenon
<1>1. TypeOK /\ KeyInv /\ StartInv /\ EntryInv /\ MarginInv /\ FreshInv /\ OpenInv /\ TileInv /\ EndInv
  BY Zenon DEF Inv, TimeInv
<1>2. /\ pc = "close" /\ closing = {} /\ pc' \in {"done", "failed"}
      /\ UNCHANGED <<opt, ending, curtime, instr, m_time_trace_start, branches_taken,
                     m_last_was_conditional_branch, accesses, delayed_entries, m_open_ecs,
                     m_last_instr, m_last_time, closing, m_row_count>>
  BY Zenon DEF FlushAndCheck, CheckFails, readvars, endvars
<1>3. /\ cache' = {} /\ (trace' = trace \cup cache \/ trace' = trace)
      /\ (lost' = lost /\ trace' = trace \cup cache) \/ lost' = TRUE
  BY Zenon DEF FlushAndCheck, CheckFails, Send, SendFails
<1>4. Rows' \subseteq Rows /\ ((lost' = lost /\ Rows' = Rows) \/ lost' = TRUE)
  BY Zenon, <1>3 DEF Rows
<1>5. KeysDistinct(Rows') /\ IsFiniteSet(Rows') /\ (~lost' => m_row_count' = Cardinality(Rows'))
  BY <1>1, <1>2, <1>4, FS_Subset DEF KeyInv, KeysDistinct
<1>6. TypeOK'
  <2>1. lost' \in BOOLEAN /\ ending' \in BOOLEAN /\ m_last_was_conditional_branch' \in BOOLEAN
    BY Zenon, <1>1, <1>2, <1>4 DEF TypeOK
  <2>2. \A r \in cache' \cup trace' :
          r \in [addr: Address, instr1: 0..MaxInstr, instr2: 0..MaxInstr, time1: Nat, time2: Nat,
                 type: {"R", "W"}, jumphistory: SUBSET ((-Window)..(Window - 1))]
    BY Zenon, <1>1, <1>3 DEF TypeOK
  <2>. QED BY Zenon, <1>1, <1>2, <2>1, <2>2 DEF TypeOK
<1>7. StartInv' /\ EntryInv' /\ MarginInv'
  BY Zenon, <1>1, <1>2 DEF StartInv, EntryInv, MarginInv
<1>8. \A a : ~Before(a) /\ ~Before(a)'
  BY Zenon, <1>2 DEF Before
<1>9. KeyInv'
  BY Zenon, <1>5, <1>8 DEF KeyInv
<1>10. FreshInv' /\ OpenInv'
  BY Zenon, <1>1, <1>2, <1>8 DEF FreshInv, OpenInv
<1>11. TileInv'
  <2>1. CASE lost' = TRUE
    BY Zenon, <2>1 DEF TileInv
  <2>2. CASE lost' = lost /\ Rows' = Rows
    BY Zenon, <1>1, <1>2, <1>8, <2>2 DEF TileInv
  <2>. QED BY ZenonT(40), <1>4, <2>1, <2>2
<1>12. EndInv' /\ CacheInv'
  BY Zenon, <1>1, <1>2, <1>3 DEF EndInv, CacheInv
<1>. QED BY Zenon, <1>6, <1>7, <1>9, <1>10, <1>11, <1>12 DEF Inv, TimeInv

(***************************************************************************)
(* Steps that change nothing keep the invariant.                           *)
(***************************************************************************)
LEMMA StutterInv == Inv /\ UNCHANGED vars => Inv'
<1> SUFFICES ASSUME Inv, UNCHANGED vars PROVE Inv'
  BY Zenon
<1>1. TypeOK'
  BY Zenon DEF Inv, TypeOK, vars
<1>2. Rows' = Rows /\ (\A a : Before(a)' <=> Before(a))
  BY Zenon DEF Rows, Before, vars
<1>3. KeyInv'
  BY Zenon, <1>2 DEF Inv, KeyInv, vars
<1>4. StartInv' /\ EntryInv' /\ MarginInv'
  BY ZenonT(40) DEF Inv, TimeInv, StartInv, EntryInv, MarginInv, vars
<1>5. FreshInv' /\ OpenInv'
  BY ZenonT(40), <1>2 DEF Inv, TimeInv, FreshInv, OpenInv, vars
<1>6. TileInv'
  BY Zenon, <1>2 DEF Inv, TileInv, LeftTime, vars
<1>7. EndInv' /\ CacheInv'
  BY Zenon DEF Inv, EndInv, CacheInv, vars
<1>. QED BY Zenon, <1>1, <1>3, <1>4, <1>5, <1>6, <1>7 DEF Inv, TimeInv

-----------------------------------------------------------------------------
(***************************************************************************)
(* The theorems                                                            *)
(***************************************************************************)

\* The inductive invariant of copy_to_database and the event handlers.
THEOREM ImportInvariant == Spec => []Inv
<1>1. Inv /\ [Next]_vars => Inv'
  <2> SUFFICES ASSUME Inv, [Next]_vars PROVE Inv'
    BY Zenon
  <2>. QED BY Zenon, IpEventInv, MemEventInv, TraceEndInv, HandleAccessInv, HandledInv, CloseECInv, EndingInv,
              StutterInv DEF Next, Finished
<1>. QED BY InitInv, <1>1, PTL DEF Spec

\* Every variable keeps its type: neither the instruction counter nor a margin
\* leaves instruction_count_t, for traces of any length.
THEOREM ImportTypeCorrect == Spec => []TypeOK
<1>1. Inv => TypeOK
  BY DEF Inv
<1>. QED BY <1>1, ImportInvariant, PTL

\* The primary key of the table refuses no row, whatever the trace, the order of
\* accesses within an instruction, the batches and the failures.
THEOREM NoRowEverRefused == Spec => []NoRowRefused
<1>1. Inv => NoRowRefused
  BY DEF Inv, KeyInv, NoRowRefused, Rows
<1>. QED BY <1>1, ImportInvariant, PTL

\* Every import that ends well and lost no query has partitioned, per address, the
\* instructions and the time of the trace into equivalence classes.
THEOREM AlwaysPartitioned == Spec => []FaultSpacePartitioned
<1>1. Inv => FaultSpacePartitioned
  <2> SUFFICES ASSUME Inv, pc = "done", ~lost, opt.import_write_ecs, NEW a \in {r.addr : r \in trace}
               PROVE  /\ Partition(RowsOf(trace, a), "instr1", "instr2", 0..m_last_instr)
                      /\ Partition(RowsOf(trace, a), "time1", "time2", m_time_trace_start..m_last_time)
    BY Zenon DEF FaultSpacePartitioned
  <2>1. Rows = trace
    BY Zenon DEF Inv, CacheInv, Rows
  <2>2. a \in Address /\ RowsOf(trace, a) # {}
    BY Zenon, <2>1, Typed DEF Inv, RowType, RowsOf
  <2>3. /\ TilesInstr(RowsOf(trace, a), 0, m_last_instr)
        /\ TilesTime(RowsOf(trace, a), m_time_trace_start, m_last_time)
    BY Zenon, <2>1, <2>2 DEF Inv, TileInv, Before
  <2>4. Partition(RowsOf(trace, a), "instr1", "instr2", 0..m_last_instr)
    BY Zenon, <2>3 DEF TilesInstr, Partition
  <2>5. Partition(RowsOf(trace, a), "time1", "time2", m_time_trace_start..m_last_time)
    BY Zenon, <2>3 DEF TilesTime, Partition
  <2>. QED BY <2>4, <2>5
<1>. QED BY <1>1, ImportInvariant, PTL
-----------------------------------------------------------------------------
(***************************************************************************)
(* Least and largest numbers                                               *)
(***************************************************************************)

\* A set of natural numbers that is not empty has a least element.
LEMMA LeastNatural ==
  ASSUME NEW T \in SUBSET Nat, T # {}
  PROVE  \E m \in T : \A k \in T : m <= k
<1>1. PICK R : IsWellFoundedOn(R, Nat) /\ \A x, y \in Nat : x < y => <<x, y>> \in R
  <2>1. \A x, y \in Nat : x < y => <<x, y>> \in OpToRel(<, Nat)
    BY Zenon DEF OpToRel
  <2>. QED BY <2>1, NatLessThanWellFounded, Zenon
<1>2. T \subseteq Nat /\ IsWellFoundedOn(R, Nat)
  BY Zenon, <1>1
<1>3. PICK m \in T : \A y \in T : ~(<<y, m>> \in R)
  BY ZenonT(60), <1>2, WFMin
<1>4. \A k \in T : ~(k < m)
  BY <1>1, <1>2, <1>3, Zenon
<1>. QED BY <1>2, <1>4

\* The element that is below all others is the one Min chooses.
LEMMA MinIs ==
  ASSUME NEW S, S \subseteq Int, NEW m \in S, \A k \in S : m <= k
  PROVE  Min(S) = m
<1>1. Min(S) \in S /\ \A k \in S : Min(S) <= k
  BY Zenon DEF Min
<1>2. Min(S) \in Int /\ m \in Int /\ Min(S) <= m /\ m <= Min(S)
  BY Zenon, <1>1
<1>. QED BY <1>2

\* ... and the one above them the one Max chooses.
LEMMA MaxIs ==
  ASSUME NEW S, S \subseteq Int, NEW m \in S, \A k \in S : m >= k
  PROVE  Max(S) = m
<1>1. Max(S) \in S /\ \A k \in S : Max(S) >= k
  BY Zenon DEF Max
<1>2. Max(S) \in Int /\ m \in Int /\ Max(S) >= m /\ m >= Max(S)
  BY Zenon, <1>1
<1>. QED BY <1>2

\* Numbers between 0 and n have a least and a largest one.
LEMMA Extremes ==
  ASSUME NEW n \in Nat, NEW S, S \subseteq 0..n, S # {}
  PROVE  /\ Min(S) \in S /\ \A k \in S : Min(S) <= k
         /\ Max(S) \in S /\ \A k \in S : k <= Max(S)
<1>1. S \in SUBSET Nat /\ S \subseteq Int
  OBVIOUS
<1>2. PICK l \in S : \A k \in S : l <= k
  BY Zenon, <1>1, LeastNatural
<1>3. Min(S) = l
  BY Zenon, <1>1, <1>2, MinIs
<1> DEFINE T == {n - k : k \in S}
<1>4. T \in SUBSET Nat /\ T # {}
  <2>1. \A k \in S : n - k \in Nat
    OBVIOUS
  <2>. QED BY Zenon, <2>1
<1>5. PICK t \in T : \A k \in T : t <= k
  BY Zenon, <1>4, LeastNatural
<1>6. PICK h \in S : t = n - h
  BY Zenon
<1>7. \A k \in S : n - h <= n - k
  BY Zenon, <1>5, <1>6
<1>8. \A k \in S : h >= k
  BY <1>1, <1>7
<1>9. Max(S) = h
  BY Zenon, <1>1, <1>8, MaxIs
<1>. QED BY <1>1, <1>2, <1>3, <1>9, <1>8

-----------------------------------------------------------------------------
(***************************************************************************)
(* What the sanity checks count                                            *)
(***************************************************************************)

\* No point is in two of the rows.
Separate(R) ==
  \A r, s \in R : \A p \in Int :
    r.instr1 <= p /\ p <= r.instr2 /\ s.instr1 <= p /\ p <= s.instr2 => r = s

SeparateTimes(R) ==
  \A r, s \in R : \A p \in Int :
    r.time1 <= p /\ p <= r.time2 /\ s.time1 <= p /\ p <= s.time2 => r = s

Covered(R, first, last) == {p \in first..last : \E r \in R : r.instr1 <= p /\ p <= r.instr2}

CoveredTime(R, first, last) == {p \in first..last : \E r \in R : r.time1 <= p /\ p <= r.time2}

\* As many pairs as second elements, if no two pairs have the same.
LEMMA CountSeconds ==
  ASSUME NEW W, NEW C, IsFiniteSet(C), \A w \in W : w[2] \in C,
         \A c \in C : \E w \in W : w[2] = c,
         \A v, w \in W : v[2] = w[2] => v = w
  PROVE  Cardinality(W) = Cardinality(C)
<1> DEFINE f == [w \in W |-> w[2]]
<1>1. f \in Injection(W, C)
  BY Zenon DEF Injection, IsInjective
<1>2. f \in Surjection(W, C)
  BY Zenon DEF Surjection
<1> HIDE DEF f
<1>. QED BY Zenon, <1>1, <1>2, FS_Injection

\* The sum of the lengths of rows without a common point is the number of
\* points they cover (instructions).
LEMMA InstrSum ==
  ASSUME NEW R, NEW first \in Int, NEW last \in Int, Separate(R),
         \A r \in R : /\ r.instr1 \in Int /\ r.instr2 \in Int
                      /\ first <= r.instr1 /\ r.instr2 <= last
  PROVE  RowSum(R, "instr1", "instr2") = Cardinality(Covered(R, first, last))
<1> DEFINE W == UNION {{r} \X (r.instr1..r.instr2) : r \in R}
           C == Covered(R, first, last)
<1>1. \A w \in W : \E r \in R : \E p \in r.instr1..r.instr2 : w = <<r, p>>
  OBVIOUS
<1>2. \A r \in R : \A p \in r.instr1..r.instr2 : <<r, p>> \in W
  OBVIOUS
<1>3. \A r \in R : \A p \in r.instr1..r.instr2 : p \in C
  BY DEF Covered
<1>4. \A c \in C : \E r \in R : c \in r.instr1..r.instr2
  BY DEF Covered
<1>5. \A r, s \in R : \A p : p \in r.instr1..r.instr2 /\ p \in s.instr1..s.instr2 => r = s
  BY DEF Separate
<1>6. IsFiniteSet(C)
  BY Zenon, FS_Interval, FS_Subset DEF Covered
<1> HIDE DEF C, W
<1>7. Cardinality(W) = Cardinality(C)
  <2>1. \A w \in W : w[2] \in C
    BY <1>1, <1>3
  <2>2. \A c \in C : \E w \in W : w[2] = c
    BY Zenon, <1>2, <1>4
  <2>3. \A v, w \in W : v[2] = w[2] => v = w
    BY <1>1, <1>5
  <2>. QED BY Zenon, <1>6, <2>1, <2>2, <2>3, CountSeconds
<1>. QED BY Zenon, <1>7 DEF RowSum, W, C

\* The same for the time.
LEMMA TimeSum ==
  ASSUME NEW R, NEW first \in Int, NEW last \in Int, SeparateTimes(R),
         \A r \in R : /\ r.time1 \in Int /\ r.time2 \in Int
                      /\ first <= r.time1 /\ r.time2 <= last
  PROVE  RowSum(R, "time1", "time2") = Cardinality(CoveredTime(R, first, last))
<1> DEFINE W == UNION {{r} \X (r.time1..r.time2) : r \in R}
           C == CoveredTime(R, first, last)
<1>1. \A w \in W : \E r \in R : \E p \in r.time1..r.time2 : w = <<r, p>>
  OBVIOUS
<1>2. \A r \in R : \A p \in r.time1..r.time2 : <<r, p>> \in W
  OBVIOUS
<1>3. \A r \in R : \A p \in r.time1..r.time2 : p \in C
  BY DEF CoveredTime
<1>4. \A c \in C : \E r \in R : c \in r.time1..r.time2
  BY DEF CoveredTime
<1>5. \A r, s \in R : \A p : p \in r.time1..r.time2 /\ p \in s.time1..s.time2 => r = s
  BY DEF SeparateTimes
<1>6. IsFiniteSet(C)
  BY Zenon, FS_Interval, FS_Subset DEF CoveredTime
<1> HIDE DEF C, W
<1>7. Cardinality(W) = Cardinality(C)
  <2>1. \A w \in W : w[2] \in C
    BY <1>1, <1>3
  <2>2. \A c \in C : \E w \in W : w[2] = c
    BY Zenon, <1>2, <1>4
  <2>3. \A v, w \in W : v[2] = w[2] => v = w
    BY <1>1, <1>5
  <2>. QED BY Zenon, <1>6, <2>1, <2>2, <2>3, CountSeconds
<1>. QED BY Zenon, <1>7 DEF RowSum, W, C

\* A table whose rows tile the instructions for every address passes the checks.
LEMMA TiledInstrOK ==
  ASSUME NEW rows, NEW first \in Int, NEW last \in Int, first <= last,
         \A r \in rows : r.instr1 \in Int /\ r.instr2 \in Int,
         \A a \in {r.addr : r \in rows} : TilesInstr(RowsOf(rows, a), first, last)
  PROVE  FaultSpaceOK(rows, "instr1", "instr2")
<1>1. ASSUME NEW r \in rows, NEW s \in rows, r.addr = s.addr, NEW p \in first..last,
             r.instr1 <= p, p <= r.instr2, s.instr1 <= p, p <= s.instr2
      PROVE  r = s
  <2>1. r \in RowsOf(rows, r.addr) /\ s \in RowsOf(rows, r.addr)
    BY Zenon, <1>1 DEF RowsOf
  <2>2. TilesInstr(RowsOf(rows, r.addr), first, last)
    BY Zenon
  <2>. QED BY Zenon, <1>1, <2>1, <2>2 DEF TilesInstr
<1>2. \A r \in rows : first <= r.instr1 /\ r.instr1 <= r.instr2 /\ r.instr2 <= last
  <2> SUFFICES ASSUME NEW r \in rows PROVE first <= r.instr1 /\ r.instr1 <= r.instr2 /\ r.instr2 <= last
    BY Zenon
  <2>1. r \in RowsOf(rows, r.addr) /\ TilesInstr(RowsOf(rows, r.addr), first, last)
    BY Zenon DEF RowsOf
  <2>. QED BY Zenon, <2>1 DEF TilesInstr
<1>3. ASSUME NEW r \in rows, NEW s \in rows PROVE ~Overlap(r, s, "instr1", "instr2")
  <2> SUFFICES ASSUME r.addr = s.addr, r.instr1 # s.instr1,
                      \/ r.instr1 >= s.instr1 /\ r.instr1 <= s.instr2
                      \/ r.instr2 >= s.instr1 /\ r.instr2 <= s.instr2
                      \/ r.instr1 < s.instr1 /\ r.instr2 > s.instr2
               PROVE  FALSE
    BY Zenon DEF Overlap
  <2>1. /\ r.instr1 \in Int /\ r.instr2 \in Int /\ s.instr1 \in Int /\ s.instr2 \in Int
        /\ first <= r.instr1 /\ r.instr1 <= r.instr2 /\ r.instr2 <= last
        /\ first <= s.instr1 /\ s.instr1 <= s.instr2 /\ s.instr2 <= last
    BY Zenon, <1>2
  <2>2. \E p \in {r.instr1, r.instr2, s.instr1} :
          p \in first..last /\ r.instr1 <= p /\ p <= r.instr2 /\ s.instr1 <= p /\ p <= s.instr2
    BY <2>1
  <2>. QED BY Zenon, <1>1, <2>2
<1>4. ASSUME NEW R, R \subseteq rows, NEW a, RowsOf(rows, a) \subseteq R, a \in {r.addr : r \in rows}
      PROVE  Lowest(R, "instr1") = first /\ Highest(R, "instr2") = last
  <2>1. TilesInstr(RowsOf(rows, a), first, last) /\ first \in first..last /\ last \in first..last
    BY <1>4
  <2>2. PICK r \in R : r.instr1 <= first
    BY Zenon, <1>4, <2>1 DEF TilesInstr
  <2>3. PICK s \in R : last <= s.instr2
    BY Zenon, <1>4, <2>1 DEF TilesInstr
  <2>4. \A t \in R : /\ t.instr1 \in Int /\ t.instr2 \in Int
                     /\ first <= t.instr1 /\ t.instr2 <= last
    BY Zenon, <1>2, <1>4
  <2>5. r.instr1 = first /\ s.instr2 = last
    BY <2>2, <2>3, <2>4
  <2> DEFINE L == {t.instr1 : t \in R}
             H == {t.instr2 : t \in R}
  <2>6. L \subseteq Int /\ first \in L /\ \A x \in L : first <= x
    BY Zenon, <2>4, <2>5
  <2>7. H \subseteq Int /\ last \in H /\ \A x \in H : last >= x
    <3>1. \A t \in R : last >= t.instr2
      BY <2>4
    <3>. QED BY Zenon, <2>4, <2>5, <3>1
  <2> HIDE DEF L, H
  <2>8. Min(L) = first /\ Max(H) = last
    BY Zenon, <2>6, <2>7, MinIs, MaxIs
  <2>. QED BY Zenon, <2>8 DEF L, H, Lowest, Highest
<1>5. ASSUME NEW a \in {r.addr : r \in rows}
      PROVE  last - first + 1 = RowSum(RowsOf(rows, a), "instr1", "instr2")
  <2> DEFINE R == RowsOf(rows, a)
  <2>1. TilesInstr(R, first, last) /\ R \subseteq rows
    BY Zenon DEF RowsOf
  <2>2. \A r \in R : /\ r.instr1 \in Int /\ r.instr2 \in Int
                     /\ first <= r.instr1 /\ r.instr2 <= last
    BY Zenon, <1>2, <2>1
  <2>3. \A r, s \in R : r.addr = s.addr
    BY Zenon DEF RowsOf
  <2> HIDE DEF R
  <2>4. Separate(R)
    <3> SUFFICES ASSUME NEW r \in R, NEW s \in R, NEW p \in Int,
                        r.instr1 <= p, p <= r.instr2, s.instr1 <= p, p <= s.instr2
                 PROVE  r = s
      BY Zenon DEF Separate
    <3>1. p \in first..last
      BY <2>2
    <3>. QED BY Zenon, <1>1, <2>1, <2>3, <3>1
  <2>5. RowSum(R, "instr1", "instr2") = Cardinality(Covered(R, first, last))
    BY Zenon, <2>2, <2>4, InstrSum
  <2>6. Covered(R, first, last) = first..last
    BY Zenon, <2>1 DEF TilesInstr, Covered
  <2>7. Cardinality(first..last) = last - first + 1
    BY FS_Interval
  <2>. QED BY Zenon, <2>5, <2>6, <2>7 DEF R
<1>. QED
  <2>1. ASSUME NEW a \in {r.addr : r \in rows}
        PROVE  /\ Highest(rows, "instr2") - Lowest(rows, "instr1") + 1 = RowSum(RowsOf(rows, a), "instr1", "instr2")
               /\ Lowest(RowsOf(rows, a), "instr1") = Lowest(rows, "instr1")
               /\ Highest(RowsOf(rows, a), "instr2") = Highest(rows, "instr2")
    <3>1. RowsOf(rows, a) \subseteq rows
      BY Zenon DEF RowsOf
    <3>2. Lowest(rows, "instr1") = first /\ Highest(rows, "instr2") = last
      BY Zenon, <1>4, <3>1
    <3>3. Lowest(RowsOf(rows, a), "instr1") = first /\ Highest(RowsOf(rows, a), "instr2") = last
      BY Zenon, <1>4, <3>1
    <3>. QED BY Zenon, <1>5, <3>2, <3>3
  <2>. QED BY Zenon, <1>3, <2>1 DEF FaultSpaceOK

\* A table whose rows tile the time for every address passes the checks.
LEMMA TiledTimeOK ==
  ASSUME NEW rows, NEW first \in Int, NEW last \in Int, first <= last,
         \A r \in rows : r.time1 \in Int /\ r.time2 \in Int,
         \A a \in {r.addr : r \in rows} : TilesTime(RowsOf(rows, a), first, last)
  PROVE  FaultSpaceOK(rows, "time1", "time2")
<1>1. ASSUME NEW r \in rows, NEW s \in rows, r.addr = s.addr, NEW p \in first..last,
             r.time1 <= p, p <= r.time2, s.time1 <= p, p <= s.time2
      PROVE  r = s
  <2>1. r \in RowsOf(rows, r.addr) /\ s \in RowsOf(rows, r.addr)
    BY Zenon, <1>1 DEF RowsOf
  <2>2. TilesTime(RowsOf(rows, r.addr), first, last)
    BY Zenon
  <2>. QED BY Zenon, <1>1, <2>1, <2>2 DEF TilesTime
<1>2. \A r \in rows : first <= r.time1 /\ r.time1 <= r.time2 /\ r.time2 <= last
  <2> SUFFICES ASSUME NEW r \in rows PROVE first <= r.time1 /\ r.time1 <= r.time2 /\ r.time2 <= last
    BY Zenon
  <2>1. r \in RowsOf(rows, r.addr) /\ TilesTime(RowsOf(rows, r.addr), first, last)
    BY Zenon DEF RowsOf
  <2>. QED BY Zenon, <2>1 DEF TilesTime
<1>3. ASSUME NEW r \in rows, NEW s \in rows PROVE ~Overlap(r, s, "time1", "time2")
  <2> SUFFICES ASSUME r.addr = s.addr, r.time1 # s.time1,
                      \/ r.time1 >= s.time1 /\ r.time1 <= s.time2
                      \/ r.time2 >= s.time1 /\ r.time2 <= s.time2
                      \/ r.time1 < s.time1 /\ r.time2 > s.time2
               PROVE  FALSE
    BY Zenon DEF Overlap
  <2>1. /\ r.time1 \in Int /\ r.time2 \in Int /\ s.time1 \in Int /\ s.time2 \in Int
        /\ first <= r.time1 /\ r.time1 <= r.time2 /\ r.time2 <= last
        /\ first <= s.time1 /\ s.time1 <= s.time2 /\ s.time2 <= last
    BY Zenon, <1>2
  <2>2. \E p \in {r.time1, r.time2, s.time1} :
          p \in first..last /\ r.time1 <= p /\ p <= r.time2 /\ s.time1 <= p /\ p <= s.time2
    BY <2>1
  <2>. QED BY Zenon, <1>1, <2>2
<1>4. ASSUME NEW R, R \subseteq rows, NEW a, RowsOf(rows, a) \subseteq R, a \in {r.addr : r \in rows}
      PROVE  Lowest(R, "time1") = first /\ Highest(R, "time2") = last
  <2>1. TilesTime(RowsOf(rows, a), first, last) /\ first \in first..last /\ last \in first..last
    BY <1>4
  <2>2. PICK r \in R : r.time1 <= first
    BY Zenon, <1>4, <2>1 DEF TilesTime
  <2>3. PICK s \in R : last <= s.time2
    BY Zenon, <1>4, <2>1 DEF TilesTime
  <2>4. \A t \in R : /\ t.time1 \in Int /\ t.time2 \in Int
                     /\ first <= t.time1 /\ t.time2 <= last
    BY Zenon, <1>2, <1>4
  <2>5. r.time1 = first /\ s.time2 = last
    BY <2>2, <2>3, <2>4
  <2> DEFINE L == {t.time1 : t \in R}
             H == {t.time2 : t \in R}
  <2>6. L \subseteq Int /\ first \in L /\ \A x \in L : first <= x
    BY Zenon, <2>4, <2>5
  <2>7. H \subseteq Int /\ last \in H /\ \A x \in H : last >= x
    <3>1. \A t \in R : last >= t.time2
      BY <2>4
    <3>. QED BY Zenon, <2>4, <2>5, <3>1
  <2> HIDE DEF L, H
  <2>8. Min(L) = first /\ Max(H) = last
    BY Zenon, <2>6, <2>7, MinIs, MaxIs
  <2>. QED BY Zenon, <2>8 DEF L, H, Lowest, Highest
<1>5. ASSUME NEW a \in {r.addr : r \in rows}
      PROVE  last - first + 1 = RowSum(RowsOf(rows, a), "time1", "time2")
  <2> DEFINE R == RowsOf(rows, a)
  <2>1. TilesTime(R, first, last) /\ R \subseteq rows
    BY Zenon DEF RowsOf
  <2>2. \A r \in R : /\ r.time1 \in Int /\ r.time2 \in Int
                     /\ first <= r.time1 /\ r.time2 <= last
    BY Zenon, <1>2, <2>1
  <2>3. \A r, s \in R : r.addr = s.addr
    BY Zenon DEF RowsOf
  <2> HIDE DEF R
  <2>4. SeparateTimes(R)
    <3> SUFFICES ASSUME NEW r \in R, NEW s \in R, NEW p \in Int,
                        r.time1 <= p, p <= r.time2, s.time1 <= p, p <= s.time2
                 PROVE  r = s
      BY Zenon DEF SeparateTimes
    <3>1. p \in first..last
      BY <2>2
    <3>. QED BY Zenon, <1>1, <2>1, <2>3, <3>1
  <2>5. RowSum(R, "time1", "time2") = Cardinality(CoveredTime(R, first, last))
    BY Zenon, <2>2, <2>4, TimeSum
  <2>6. CoveredTime(R, first, last) = first..last
    BY Zenon, <2>1 DEF TilesTime, CoveredTime
  <2>7. Cardinality(first..last) = last - first + 1
    BY FS_Interval
  <2>. QED BY Zenon, <2>5, <2>6, <2>7 DEF R
<1>. QED
  <2>1. ASSUME NEW a \in {r.addr : r \in rows}
        PROVE  /\ Highest(rows, "time2") - Lowest(rows, "time1") + 1 = RowSum(RowsOf(rows, a), "time1", "time2")
               /\ Lowest(RowsOf(rows, a), "time1") = Lowest(rows, "time1")
               /\ Highest(RowsOf(rows, a), "time2") = Highest(rows, "time2")
    <3>1. RowsOf(rows, a) \subseteq rows
      BY Zenon DEF RowsOf
    <3>2. Lowest(rows, "time1") = first /\ Highest(rows, "time2") = last
      BY Zenon, <1>4, <3>1
    <3>3. Lowest(RowsOf(rows, a), "time1") = first /\ Highest(RowsOf(rows, a), "time2") = last
      BY Zenon, <1>4, <3>1
    <3>. QED BY Zenon, <1>5, <3>2, <3>3
  <2>. QED BY Zenon, <1>3, <2>1 DEF FaultSpaceOK

\* A table that passes the checks, and has no two rows of an address with a
\* common point, has no gap either.
LEMMA CheckedHasNoGap ==
  ASSUME NEW rows, NEW a \in {r.addr : r \in rows}, FaultSpaceOK(rows, "instr1", "instr2"),
         \A r \in rows : r.instr1 \in 0..MaxInstr /\ r.instr2 \in 0..MaxInstr /\ r.instr1 <= r.instr2,
         Separate(RowsOf(rows, a))
  PROVE  Partition(RowsOf(rows, a), "instr1", "instr2", Lowest(rows, "instr1")..Highest(rows, "instr2"))
<1> DEFINE R == RowsOf(rows, a)
           L == {r.instr1 : r \in rows}
           H == {r.instr2 : r \in rows}
           first == Lowest(rows, "instr1")
           last == Highest(rows, "instr2")
<1>1. first = Min(L) /\ last = Max(H)
  BY Zenon DEF Lowest, Highest
<1>2. L \subseteq 0..MaxInstr /\ H \subseteq 0..MaxInstr /\ L # {} /\ H # {} /\ MaxInstr \in Nat
  BY Zenon, ImportAssumption
<1>3. last - first + 1 = RowSum(R, "instr1", "instr2") /\ Separate(R) /\ R \subseteq rows
  BY Zenon DEF FaultSpaceOK, RowsOf
<1>4. /\ \A r \in rows : r.instr1 \in L /\ r.instr2 \in H
      /\ \A x \in L : \E r \in rows : x = r.instr1
  BY Zenon
<1> HIDE DEF L, H, first, last, R
<1>5. /\ Min(L) \in L /\ \A k \in L : Min(L) <= k
      /\ Max(H) \in H /\ \A k \in H : k <= Max(H)
  BY Zenon, <1>2, Extremes
<1>6. /\ first \in Int /\ last \in Int
      /\ \A r \in rows : /\ r.instr1 \in Int /\ r.instr2 \in Int
                         /\ first <= r.instr1 /\ r.instr1 <= r.instr2 /\ r.instr2 <= last
  <2>1. first \in 0..MaxInstr /\ last \in 0..MaxInstr
    BY Zenon, <1>1, <1>2, <1>5
  <2>2. \A r \in rows : first <= r.instr1 /\ r.instr2 <= last
    BY Zenon, <1>1, <1>4, <1>5
  <2>. QED BY <2>1, <2>2
<1>7. first <= last
  <2>1. PICK r \in rows : TRUE
    BY Zenon
  <2>. QED BY <1>6, <2>1
<1>8. RowSum(R, "instr1", "instr2") = Cardinality(Covered(R, first, last))
  <2>1. \A r \in R : /\ r.instr1 \in Int /\ r.instr2 \in Int
                     /\ first <= r.instr1 /\ r.instr2 <= last
    BY Zenon, <1>3, <1>6
  <2>. QED BY Zenon, <1>3, <1>6, <2>1, InstrSum
<1>9. IsFiniteSet(first..last) /\ Cardinality(first..last) = last - first + 1
  BY <1>6, <1>7, FS_Interval
<1>10. Covered(R, first, last) = first..last
  <2>1. Covered(R, first, last) \in SUBSET (first..last)
    BY Zenon DEF Covered
  <2>2. Cardinality(first..last) = Cardinality(Covered(R, first, last))
    BY Zenon, <1>3, <1>8, <1>9
  <2>. QED BY Zenon, <1>9, <2>1, <2>2, FS_Subset
<1>11. ASSUME NEW p \in first..last
       PROVE  \E r \in R : /\ r.instr1 <= p /\ p <= r.instr2
                           /\ \A s \in R \ {r} : ~(s.instr1 <= p /\ p <= s.instr2)
  <2>1. PICK r \in R : r.instr1 <= p /\ p <= r.instr2
    BY Zenon, <1>10 DEF Covered
  <2>2. p \in Int
    BY <1>6
  <2>. QED BY Zenon, <1>3, <2>1, <2>2 DEF Separate
<1>. QED BY Zenon, <1>11 DEF Partition, R, first, last
-----------------------------------------------------------------------------
(***************************************************************************)
(* The decision of the sanity checks                                       *)
(***************************************************************************)

\* The rows of an address follow each other, also when a batch between them is lost.
DisjointInv ==
  /\ \A r \in Rows : r.instr1 <= r.instr2
  /\ \A r, s \in Rows : r.addr = s.addr => r = s \/ r.instr2 < s.instr1 \/ s.instr2 < r.instr1

\* What the end of the import says about the table.
CheckInv ==
  /\ pc = "done" /\ opt.sanitychecks => SanityChecks(trace)
  /\ pc = "failed" /\ ~lost /\ opt.import_write_ecs => instr = MaxInstr

\* Every step adds at most one row, and that begins at the open class of its address.
LEMMA OneRowAStep ==
  ASSUME Inv, [Next]_vars
  PROVE  \/ Rows' \subseteq Rows
         \/ \E row \in RowType : /\ Rows' \subseteq Rows \cup {row} /\ Before(row.addr)
                                 /\ row.instr1 = m_open_ecs[row.addr].dyninstr
                                 /\ row.instr1 <= row.instr2
<1>1. TypeOK
  BY Zenon DEF Inv
<1>2. ASSUME NEW row, AddTraceEvent(row) PROVE Rows' \subseteq Rows \cup {row}
  BY Zenon, <1>2 DEF AddTraceEvent, InsertMultiple, Send, Rows
<1>3. ASSUME NEW row, AddTraceEventFails(row) PROVE Rows' \subseteq Rows
  BY Zenon, <1>3 DEF AddTraceEventFails, InsertMultipleFails, SendFails, Rows
<1>4. CASE IpEvent \/ MemEvent \/ TraceEnd \/ Handled \/ UNCHANGED vars
  BY Zenon, <1>4 DEF IpEvent, MemEvent, TraceEnd, Handled, vars, tablevars, Rows
<1>5. CASE FlushAndCheck \/ CheckFails
  BY Zenon, <1>5 DEF FlushAndCheck, CheckFails, Send, SendFails, Rows
<1>6. CASE HandleAccess
  <2> DEFINE entry == Head(delayed_entries)
             a == Head(entry.accs).addr
             type == Head(entry.accs).type
  <2>1. \/ UNCHANGED tablevars
        \/ ~Skipped(entry, a) /\ AddTraceEvent(CloseAt(entry, a, type))
        \/ AddTraceEventFails(CloseAt(entry, a, type))
    BY Zenon, <1>6 DEF HandleAccess
  <2>2. pc = "handle" /\ entry \in Entry /\ a \in Address /\ type \in {"R", "W"}
    BY Zenon, <1>1, <1>6, FirstEntry DEF HandleAccess, AnyReady, Access
  <2> HIDE DEF entry, a, type
  <2>3. CASE UNCHANGED tablevars
    BY Zenon, <2>3 DEF tablevars, Rows
  <2>4. CASE AddTraceEventFails(CloseAt(entry, a, type))
    BY Zenon, <1>3, <2>4
  <2>5. CASE ~Skipped(entry, a) /\ AddTraceEvent(CloseAt(entry, a, type))
    <3> DEFINE row == CloseAt(entry, a, type)
    <3>1. /\ row \in RowType /\ row.addr = a /\ row.instr1 = m_open_ecs[a].dyninstr
          /\ row.instr2 = entry.dyninstr /\ m_open_ecs[a].dyninstr <= entry.dyninstr
      BY <1>1, <2>2, <2>5, ClosedRow
    <3>2. Before(a) /\ Rows' \subseteq Rows \cup {row}
      BY Zenon, <1>2, <2>2, <2>5 DEF Before
    <3> HIDE DEF row
    <3>. QED BY Zenon, <3>1, <3>2
  <2>. QED BY Zenon, <2>1, <2>3, <2>4, <2>5
<1>7. CASE CloseEC
  <2>1. PICK a \in closing :
          LET row == Row(a, m_open_ecs[a], [dyninstr |-> m_last_instr, time |-> m_last_time],
                         opt.rightmargin, {})
          IN \/ /\ IF NothingLeft(a)
                     THEN UNCHANGED <<cache, trace, m_row_count>>
                     ELSE AddTraceEvent(row)
                /\ UNCHANGED <<pc, lost>>
             \/ /\ ~NothingLeft(a)
                /\ AddTraceEventFails(row)
                /\ pc' = "failed" /\ lost' = TRUE
    BY Zenon, <1>7 DEF CloseEC
  <2> DEFINE row == Row(a, m_open_ecs[a], [dyninstr |-> m_last_instr, time |-> m_last_time],
                        opt.rightmargin, {})
  <2>2. \/ UNCHANGED <<cache, trace, m_row_count>>
        \/ ~NothingLeft(a) /\ AddTraceEvent(row)
        \/ AddTraceEventFails(row)
    BY Zenon, <2>1
  <2>3. a \in Address /\ Before(a)
    BY Zenon, <1>1, <1>7, <2>1 DEF TypeOK, CloseEC, Before
  <2>4. ~NothingLeft(a) =>
          /\ row \in RowType /\ row.addr = a
          /\ row.instr1 = m_open_ecs[a].dyninstr /\ row.instr2 = m_last_instr
          /\ m_open_ecs[a].dyninstr <= m_last_instr
    BY Zenon, <1>1, <2>3, LastRow
  <2> HIDE DEF row
  <2>5. CASE UNCHANGED <<cache, trace, m_row_count>>
    BY Zenon, <2>5 DEF Rows
  <2>6. CASE AddTraceEventFails(row)
    BY Zenon, <1>3, <2>6
  <2>7. CASE ~NothingLeft(a) /\ AddTraceEvent(row)
    BY Zenon, <1>2, <2>3, <2>4, <2>7
  <2>. QED BY Zenon, <2>2, <2>5, <2>6, <2>7
<1>. QED BY Zenon, <1>4, <1>5, <1>6, <1>7 DEF Next, Finished

\* The row that is added lies behind the others of its address.
LEMMA DisjointStep ==
  ASSUME Inv, [Next]_vars, DisjointInv
  PROVE  DisjointInv'
<1>1. CASE Rows' \subseteq Rows
  BY Zenon, <1>1 DEF DisjointInv
<1>2. ASSUME NEW row \in RowType, Rows' \subseteq Rows \cup {row}, Before(row.addr),
             row.instr1 = m_open_ecs[row.addr].dyninstr, row.instr1 <= row.instr2
      PROVE  DisjointInv'
  <2>1. \A r \in Rows : r.addr = row.addr => r.instr2 < row.instr1
    BY Zenon, <1>2 DEF Inv, KeyInv
  <2>2. \A r, s \in Rows \cup {row} :
          r.addr = s.addr => r = s \/ r.instr2 < s.instr1 \/ s.instr2 < r.instr1
    BY Zenon, <2>1 DEF DisjointInv
  <2>3. \A r \in Rows \cup {row} : r.instr1 <= r.instr2
    BY Zenon, <1>2 DEF DisjointInv
  <2>. QED BY Zenon, <1>2, <2>2, <2>3 DEF DisjointInv
<1>. QED BY Zenon, <1>1, <1>2, OneRowAStep

\* A faultless import with its write classes passes the checks.
LEMMA FaultlessPasses ==
  ASSUME Inv, pc = "close", closing = {}, ~lost, opt.import_write_ecs
  PROVE  SanityChecks(Rows)
<1>1. TypeOK /\ TileInv /\ StartInv /\ EndInv
  BY Zenon DEF Inv, TimeInv
<1>2. \A r \in Rows : /\ r \in RowType /\ r.instr1 \in Int /\ r.instr2 \in Int
                     /\ r.time1 \in Int /\ r.time2 \in Int
  BY <1>1, Typed
<1>3. ASSUME NEW a \in {r.addr : r \in Rows}
      PROVE  /\ TilesInstr(RowsOf(Rows, a), 0, m_last_instr)
             /\ TilesTime(RowsOf(Rows, a), m_time_trace_start, m_last_time)
  <2>1. a \in Address /\ RowsOf(Rows, a) # {}
    BY Zenon, <1>2 DEF RowType, RowsOf
  <2>2. ~Before(a)
    BY Zenon DEF Before
  <2>. QED BY Zenon, <1>1, <2>1, <2>2 DEF TileInv
<1>4. /\ m_last_instr \in Int /\ 0 \in Int /\ 0 <= m_last_instr
      /\ m_last_time \in Int /\ m_time_trace_start \in Int /\ m_time_trace_start <= m_last_time
  BY <1>1, ImportAssumption DEF TypeOK, StartInv, EndInv
<1>5. FaultSpaceOK(Rows, "instr1", "instr2")
  BY Zenon, <1>2, <1>3, <1>4, TiledInstrOK
<1>6. FaultSpaceOK(Rows, "time1", "time2")
  BY Zenon, <1>2, <1>3, <1>4, TiledTimeOK
<1>. QED BY Zenon, <1>5, <1>6 DEF SanityChecks

\* An import fails because of a query, of the counter, or of a table the checks refuse.
LEMMA CheckStep ==
  ASSUME Inv, [Next]_vars, CheckInv
  PROVE  CheckInv'
<1>1. CASE UNCHANGED vars
  BY Zenon, <1>1 DEF CheckInv, vars
<1>2. CASE IpEvent
  <2>1. pc' = "handle" \/ (pc' = "failed" /\ instr' = instr /\ instr = MaxInstr)
    BY Zenon, <1>2 DEF IpEvent, Overflow, readvars
  <2>. QED BY Zenon, <2>1 DEF CheckInv
<1>3. CASE MemEvent \/ TraceEnd \/ Handled
  <2>1. pc' \in {"read", "handle", "close"}
    BY Zenon, <1>3 DEF MemEvent, TraceEnd, Handled
  <2>. QED BY Zenon, <2>1 DEF CheckInv
<1>4. CASE HandleAccess
  <2>1. pc' = "handle" \/ (pc' = "failed" /\ lost')
    BY Zenon, <1>4 DEF HandleAccess, tablevars
  <2>. QED BY Zenon, <2>1 DEF CheckInv
<1>5. CASE CloseEC
  <2>1. pc' = "close" \/ (pc' = "failed" /\ lost')
    BY Zenon, <1>5 DEF CloseEC
  <2>. QED BY Zenon, <2>1 DEF CheckInv
<1>6. CASE CheckFails
  BY Zenon, <1>6 DEF CheckFails, CheckInv
<1>7. CASE FlushAndCheck
  <2>1. /\ pc = "close" /\ closing = {} /\ opt' = opt
        /\ (trace' = Rows /\ lost' = lost) \/ lost'
        /\ pc' = IF opt.sanitychecks /\ ~SanityChecks(trace') THEN "failed" ELSE "done"
    BY Zenon, <1>7 DEF FlushAndCheck, Send, Rows
  <2>2. ~lost' /\ opt.import_write_ecs => SanityChecks(trace')
    <3>1. ~lost /\ opt.import_write_ecs => SanityChecks(Rows)
      BY Zenon, <2>1, FaultlessPasses
    <3>2. CASE trace' = Rows /\ lost' = lost
      <4>1. ~lost' => ~lost
        BY <3>2
      <4>. QED BY Zenon, <3>1, <3>2, <4>1
    <3>. QED BY Zenon, <2>1, <3>2
  <2>3. pc' = "done" /\ opt'.sanitychecks => SanityChecks(trace')
    BY Zenon, <2>1
  <2>4. pc' = "failed" /\ ~lost' /\ opt'.import_write_ecs => FALSE
    BY Zenon, <2>1, <2>2
  <2>. QED BY Zenon, <2>3, <2>4 DEF CheckInv
<1>. QED BY Zenon, <1>1, <1>2, <1>3, <1>4, <1>5, <1>6, <1>7 DEF Next, Finished

\* The sanity checks of an import accept no table with a gap or an overlap, even
\* when a batch was lost without a word, and refuse no table of a faultless import.
THEOREM AlwaysDecidedRight == Spec => []SanityChecksDecide
<1>1. Init => DisjointInv /\ CheckInv
  BY Zenon DEF Init, DisjointInv, CheckInv, Rows
<1>2. Inv /\ DisjointInv /\ CheckInv /\ [Next]_vars => DisjointInv' /\ CheckInv'
  BY Zenon, DisjointStep, CheckStep
<1>3. Inv /\ DisjointInv /\ CheckInv => SanityChecksDecide
  <2> SUFFICES ASSUME Inv, DisjointInv, CheckInv, opt.import_write_ecs, opt.sanitychecks, pc = "done",
                      NEW a \in {r.addr : r \in trace}
               PROVE  Partition(RowsOf(trace, a), "instr1", "instr2",
                                Lowest(trace, "instr1")..Highest(trace, "instr2"))
    BY Zenon DEF SanityChecksDecide, CheckInv
  <2>1. FaultSpaceOK(trace, "instr1", "instr2")
    BY Zenon DEF CheckInv, SanityChecks
  <2>2. \A r \in trace : r \in Rows /\ r \in RowType
    BY Zenon, Typed DEF Rows, Inv
  <2>3. \A r \in trace : r.instr1 \in 0..MaxInstr /\ r.instr2 \in 0..MaxInstr /\ r.instr1 <= r.instr2
    BY Zenon, <2>2 DEF RowType, DisjointInv
  <2>4. Separate(RowsOf(trace, a))
    <3> SUFFICES ASSUME NEW r \in trace, NEW s \in trace, r.addr = s.addr, NEW p \in Int,
                        r.instr1 <= p, p <= r.instr2, s.instr1 <= p, p <= s.instr2
                 PROVE  r = s
      BY Zenon DEF Separate, RowsOf
    <3>1. r = s \/ r.instr2 < s.instr1 \/ s.instr2 < r.instr1
      BY Zenon, <2>2 DEF DisjointInv
    <3>2. r.instr1 \in Int /\ r.instr2 \in Int /\ s.instr1 \in Int /\ s.instr2 \in Int
      BY <2>3, ImportAssumption
    <3>. QED BY <3>1, <3>2
  <2>. QED BY Zenon, <2>1, <2>3, <2>4, CheckedHasNoGap
<1>. QED BY <1>1, <1>2, <1>3, ImportInvariant, PTL DEF Spec
-----------------------------------------------------------------------------
(***************************************************************************)
(* The classes of the trace                                                *)
(***************************************************************************)

\* The recorded accesses are in the order of their instructions, and so is time.
AccessInv ==
  /\ \A k \in 1..Len(accesses) :
       /\ accesses[k].dyninstr < instr
       /\ accesses[k].dyninstr = instr - 1 => accesses[k].time = curtime
  /\ \A j, k \in 1..Len(accesses) :
       /\ j <= k => accesses[j].dyninstr <= accesses[k].dyninstr
       /\ accesses[j].dyninstr = accesses[k].dyninstr => accesses[j].time = accesses[k].time

AccessType == [addr: Address, type: {"R", "W"}, dyninstr: 0..(MaxInstr - 1), time: Nat, branches_before: Nat]

\* All accesses of acc but the first n wait in the queue, one entry behind the other.
Waits(queue, acc, n) ==
  \E off \in [1..(Len(queue) + 1) -> 0..Len(acc)] :
    /\ off[1] = n /\ off[Len(queue) + 1] = Len(acc)
    /\ \A i \in 1..Len(queue) :
         /\ off[i + 1] = off[i] + Len(queue[i].accs)
         /\ \A k \in 1..Len(queue[i].accs) : acc[off[i] + k] = AccessesOf(queue[i])[k]

\* The open classes begin behind the first n accesses, and no branch is missing
\* in the history of these.
OpenUpTo(n) ==
  /\ Delayed => \A k \in 1..n : ending \/ accesses[k].branches_before + Window <= Len(branches_taken)
  /\ \A a \in Address : ~Matching(a) => ~m_open_ecs[a].open
  /\ \A k \in 1..n : Matching(accesses[k].addr) =>
       accesses[k].dyninstr < m_open_ecs[accesses[k].addr].dyninstr
  /\ \A a \in Address : m_open_ecs[a].dyninstr > 0 =>
       \E k \in 1..n : /\ accesses[k].addr = a
                       /\ m_open_ecs[a].dyninstr = accesses[k].dyninstr + 1
                       /\ m_open_ecs[a].time = accesses[k].time + 1

\* Access k is the first one of its instruction to its address, and imported.
Counted(k) ==
  /\ Matching(accesses[k].addr) /\ Imported(accesses[k].type)
  /\ \A j \in 1..(k - 1) : accesses[j].addr = accesses[k].addr =>
       accesses[j].dyninstr # accesses[k].dyninstr

\* The class of access k begins behind the last access before, or with the trace.
LeftOf(k, dyninstr, time) ==
  \/ /\ \A j \in 1..(k - 1) : accesses[j].addr # accesses[k].addr
     /\ dyninstr = 0 /\ time = m_time_trace_start
  \/ \E p \in 1..(k - 1) :
       /\ accesses[p].addr = accesses[k].addr
       /\ \A j \in 1..(k - 1) : accesses[j].addr = accesses[k].addr =>
            accesses[j].dyninstr <= accesses[p].dyninstr
       /\ dyninstr = accesses[p].dyninstr + 1 /\ time = accesses[p].time + 1

Mask(before) == IF Delayed THEN BranchMask(before) ELSE {}

IsClass(r, k) ==
  /\ r = Row(accesses[k].addr, [dyninstr |-> r.instr1, time |-> r.time1], accesses[k],
             accesses[k].type, Mask(accesses[k].branches_before))
  /\ LeftOf(k, r.instr1, r.time1)

\* The rows are the classes of the first n accesses.
RowsUpTo(n) ==
  /\ \A r \in Rows : \E k \in 1..n : Counted(k) /\ IsClass(r, k)
  /\ \A k \in 1..n : Counted(k) => \E r \in Rows : IsClass(r, k)

\* The row close_ec_intervals adds for an address.
LastClass(a) ==
  Row(a, m_open_ecs[a], [dyninstr |-> m_last_instr, time |-> m_last_time], opt.rightmargin, {})

HasLast(a) == m_open_ecs[a].open /\ ~NothingLeft(a) /\ Imported(opt.rightmargin)

\* At the end the rows are the classes of all accesses, and the last ones.
ClosedRows ==
  /\ \A r \in Rows : \/ \E k \in 1..Len(accesses) : Counted(k) /\ IsClass(r, k)
                     \/ \E a \in Address \ closing : HasLast(a) /\ r = LastClass(a)
  /\ \A k \in 1..Len(accesses) : Counted(k) => \E r \in Rows : IsClass(r, k)
  /\ \A a \in Address \ closing : HasLast(a) => LastClass(a) \in Rows
  /\ \A a \in closing : m_open_ecs[a].open

\* The class of an address that is left at the end: whether there is one, and where
\* it begins.
MarginClosed(a) ==
  /\ m_open_ecs[a].open <=>
       Matching(a) /\ (opt.has_mm \/ \E k \in 1..Len(accesses) : accesses[k].addr = a)
  /\ \A k \in 1..Len(accesses) : Matching(a) /\ accesses[k].addr = a =>
       accesses[k].dyninstr < m_open_ecs[a].dyninstr
  /\ m_open_ecs[a].dyninstr > 0 =>
       \E k \in 1..Len(accesses) : /\ accesses[k].addr = a
                                   /\ m_open_ecs[a].dyninstr = accesses[k].dyninstr + 1
                                   /\ m_open_ecs[a].time = accesses[k].time + 1
  /\ m_open_ecs[a].open /\ m_open_ecs[a].dyninstr = 0 => m_open_ecs[a].time = m_time_trace_start

ClosedMargins == \A a \in Address : MarginClosed(a)

ImportedInv ==
  /\ AccessInv
  /\ pc = "read" => ~ending
  /\ pc = "done" => closing = {}
  /\ ~lost /\ pc \in {"read", "handle"} =>
       \E n \in 0..Len(accesses) : Waits(delayed_entries, accesses, n) /\ OpenUpTo(n) /\ RowsUpTo(n)
  /\ ~lost /\ pc \in {"close", "done"} => ClosedRows /\ ClosedMargins
(***************************************************************************)
(* The queue and the accesses that wait in it                              *)
(***************************************************************************)

\* Lengths are natural numbers.
LEMMA SeqLen ==
  ASSUME NEW S, NEW m \in Seq(S)
  PROVE  Len(m) \in Nat /\ DOMAIN m = 1..Len(m)
OBVIOUS

\* What AccessesOf makes of an entry.
LEMMA EntryAccesses ==
  ASSUME NEW e, e.accs \in Seq(Access)
  PROVE  /\ DOMAIN AccessesOf(e) = 1..Len(e.accs)
         /\ \A k \in 1..Len(e.accs) :
              AccessesOf(e)[k] = [addr |-> e.accs[k].addr, type |-> e.accs[k].type, dyninstr |-> e.dyninstr,
                                  time |-> e.time, branches_before |-> e.branches_before]
<1>1. DOMAIN e.accs = 1..Len(e.accs)
  BY Zenon, SeqLen
<1>. QED BY Zenon, <1>1 DEF AccessesOf

\* When nothing waits, all accesses were handled.
LEMMA NoneWaits ==
  ASSUME NEW acc, NEW n, Waits(<<>>, acc, n)
  PROVE  n = Len(acc)
BY DEF Waits

\* An entry that is appended waits with its accesses.
LEMMA WaitsAppend ==
  ASSUME NEW q \in Seq(Entry), NEW acc \in Seq(AccessType), NEW n, Waits(q, acc, n),
         NEW e \in Entry, NEW more \in Seq(AccessType), more = AccessesOf(e)
  PROVE  Waits(Append(q, e), acc \o more, n)
<1>1. PICK off \in [1..(Len(q) + 1) -> 0..Len(acc)] :
        /\ off[1] = n /\ off[Len(q) + 1] = Len(acc)
        /\ \A i \in 1..Len(q) :
             /\ off[i + 1] = off[i] + Len(q[i].accs)
             /\ \A k \in 1..Len(q[i].accs) : acc[off[i] + k] = AccessesOf(q[i])[k]
  BY Zenon DEF Waits
<1>2. e.accs \in Seq(Access)
  BY Zenon DEF Entry
<1>3. Len(more) = Len(e.accs) /\ Len(more) \in Nat
  <2>1. DOMAIN more = 1..Len(e.accs)
    BY Zenon, <1>2, EntryAccesses
  <2>2. Len(e.accs) \in Nat
    BY Zenon, <1>2, SeqLen
  <2>. QED BY <2>1, <2>2
<1>4. Len(q) \in Nat /\ Len(acc) \in Nat
  OBVIOUS
<1> DEFINE Q == Append(q, e)
           A == acc \o more
           new == [i \in 1..(Len(Q) + 1) |-> IF i <= Len(q) + 1 THEN off[i] ELSE Len(A)]
<1>5. /\ Len(Q) = Len(q) + 1 /\ Q[Len(q) + 1] = e
      /\ \A i \in 1..Len(q) : Q[i] = q[i]
  OBVIOUS
<1>6. /\ Len(A) = Len(acc) + Len(more)
      /\ \A k \in 1..Len(acc) : A[k] = acc[k]
      /\ \A k \in 1..Len(more) : A[Len(acc) + k] = more[k]
  OBVIOUS
<1> HIDE DEF Q, A
<1>7. new \in [1..(Len(Q) + 1) -> 0..Len(A)]
  BY <1>3, <1>4, <1>5, <1>6
<1>8. /\ \A i \in 1..(Len(q) + 1) : new[i] = off[i]
      /\ new[Len(q) + 2] = Len(A)
  BY <1>4, <1>5
<1> HIDE DEF new
<1>9. new[1] = n /\ new[Len(Q) + 1] = Len(A)
  BY <1>1, <1>4, <1>5, <1>8
<1>10. ASSUME NEW i \in 1..Len(Q)
       PROVE  /\ new[i + 1] = new[i] + Len(Q[i].accs)
              /\ \A k \in 1..Len(Q[i].accs) : A[new[i] + k] = AccessesOf(Q[i])[k]
  <2>1. CASE i \in 1..Len(q)
    <3>1. /\ Q[i] = q[i] /\ new[i] = off[i] /\ new[i + 1] = off[i + 1]
          /\ off[i] \in 0..Len(acc) /\ off[i + 1] \in 0..Len(acc)
          /\ off[i + 1] = off[i] + Len(q[i].accs)
      <4>1. i \in 1..(Len(q) + 1) /\ i + 1 \in 1..(Len(q) + 1)
        BY <1>4, <2>1
      <4>. QED BY Zenon, <1>1, <1>5, <1>8, <2>1, <4>1
    <3>2. q[i].accs \in Seq(Access)
      <4>1. q[i] \in Entry
        BY <2>1
      <4>. QED BY Zenon, <4>1 DEF Entry
    <3>3. Len(q[i].accs) \in Nat
      BY Zenon, <3>2, SeqLen
    <3>4. \A k \in 1..Len(q[i].accs) : off[i] + k \in 1..Len(acc)
      <4> DEFINE x == off[i]
                 y == off[i + 1]
                 z == Len(q[i].accs)
      <4>1. x \in 0..Len(acc) /\ y \in 0..Len(acc) /\ y = x + z /\ z \in Nat
        BY Zenon, <3>1, <3>3
      <4> HIDE DEF x, y, z
      <4>2. \A k \in 1..z : x + k \in 1..Len(acc)
        BY <1>4, <4>1
      <4>. QED BY Zenon, <4>2 DEF x, z
    <3>. QED BY ZenonT(30), <1>1, <1>6, <2>1, <3>1, <3>4
  <2>2. CASE i = Len(q) + 1
    <3>1. Q[i] = e /\ new[i] = Len(acc) /\ new[i + 1] = Len(A)
      BY <1>1, <1>4, <1>5, <1>8, <2>2
    <3>2. \A k \in 1..Len(e.accs) : A[Len(acc) + k] = AccessesOf(e)[k]
      BY Zenon, <1>3, <1>6
    <3>. QED BY Zenon, <1>3, <1>6, <3>1, <3>2
  <2>. QED BY <1>4, <1>5, <2>1, <2>2
<1>. QED BY Zenon, <1>7, <1>9, <1>10 DEF Waits, Q, A


\* The first access that waits is the next one of the trace; without it the
\* others wait on.
LEMMA WaitsNext ==
  ASSUME NEW q \in Seq(Entry), q # <<>>, NEW acc \in Seq(AccessType), NEW n, Waits(q, acc, n)
  PROVE  /\ n \in Nat /\ n + 1 \in 1..Len(acc)
         /\ acc[n + 1] = AccessesOf(Head(q))[1]
         /\ Waits(NextAccess(q), acc, n + 1)
<1>1. PICK off \in [1..(Len(q) + 1) -> 0..Len(acc)] :
        /\ off[1] = n /\ off[Len(q) + 1] = Len(acc)
        /\ \A i \in 1..Len(q) :
             /\ off[i + 1] = off[i] + Len(q[i].accs)
             /\ \A k \in 1..Len(q[i].accs) : acc[off[i] + k] = AccessesOf(q[i])[k]
  BY Zenon DEF Waits
<1>2. /\ Len(q) \in Nat /\ Len(q) >= 1 /\ Len(acc) \in Nat /\ Head(q) = q[1] /\ Head(q) \in Entry
      /\ 1 \in 1..Len(q) /\ 1 \in 1..(Len(q) + 1) /\ 2 \in 1..(Len(q) + 1)
      /\ 1 + 1 = 2
  OBVIOUS
<1> DEFINE e == Head(q)
           m == e.accs
<1>3. m \in Seq(Access) /\ m # <<>>
  BY Zenon, <1>2 DEF Entry
<1>4. Len(m) \in Nat /\ Len(m) >= 1 /\ 1 \in 1..Len(m)
  <2> HIDE DEF m
  <2>. QED BY <1>3
<1>5. /\ n \in 0..Len(acc) /\ off[2] \in 0..Len(acc) /\ off[2] = n + Len(m)
      /\ \A k \in 1..Len(m) : acc[n + k] = AccessesOf(e)[k]
  BY Zenon, <1>1, <1>2
<1> HIDE DEF m
<1>6. n \in Nat /\ n + 1 \in 1..Len(acc)
  BY <1>2, <1>4, <1>5
<1>7. acc[n + 1] = AccessesOf(e)[1]
  BY Zenon, <1>4, <1>5
<1>8. CASE Len(m) = 1
  <2> DEFINE Q == Tail(q)
             new == [i \in 1..Len(q) |-> off[i + 1]]
  <2>1. NextAccess(q) = Q
    BY Zenon, <1>8 DEF NextAccess, m
  <2>2. /\ Len(Q) + 1 = Len(q) /\ Len(Q) \in Nat
        /\ \A i \in 1..Len(Q) : Q[i] = q[i + 1]
    OBVIOUS
  <2> HIDE DEF Q
  <2>3. \A i \in 1..Len(q) : i + 1 \in 1..(Len(q) + 1)
    BY <1>2
  <2>4. new \in [1..Len(q) -> 0..Len(acc)]
    BY Zenon, <2>3
  <2>5. \A i \in 1..Len(q) : new[i] = off[i + 1]
    BY Zenon
  <2> HIDE DEF new
  <2>6. new[1] = n + 1 /\ new[Len(Q) + 1] = Len(acc)
    <3>1. Len(q) \in 1..Len(q)
      BY <1>2
    <3>2. new[1] = off[2] /\ new[Len(Q) + 1] = off[Len(q) + 1]
      BY <1>2, <2>2, <2>5, <3>1
    <3>. QED BY Zenon, <1>1, <1>5, <1>8, <3>2
  <2>7. ASSUME NEW i \in 1..Len(Q)
        PROVE  /\ new[i + 1] = new[i] + Len(Q[i].accs)
               /\ \A k \in 1..Len(Q[i].accs) : acc[new[i] + k] = AccessesOf(Q[i])[k]
    <3>1. i \in 1..Len(q) /\ i + 1 \in 1..Len(q)
      BY <2>2
    <3>2. /\ off[i + 1 + 1] = off[i + 1] + Len(q[i + 1].accs)
          /\ \A k \in 1..Len(q[i + 1].accs) : acc[off[i + 1] + k] = AccessesOf(q[i + 1])[k]
      BY Zenon, <1>1, <3>1
    <3>3. Q[i] = q[i + 1] /\ new[i] = off[i + 1] /\ new[i + 1] = off[i + 1 + 1]
      BY Zenon, <2>2, <2>5, <3>1
    <3>. QED BY Zenon, <3>2, <3>3
  <2>8. new \in [1..(Len(Q) + 1) -> 0..Len(acc)]
    BY Zenon, <2>2, <2>4
  <2>9. Waits(Q, acc, n + 1)
    BY Zenon, <2>6, <2>7, <2>8 DEF Waits
  <2>. QED BY Zenon, <1>6, <1>7, <2>1, <2>9
<1>9. CASE Len(m) # 1
  <2> DEFINE d == [e EXCEPT !.accs = Tail(@)]
             Q == <<d>> \o Tail(q)
             new == [i \in 1..(Len(q) + 1) |-> IF i = 1 THEN n + 1 ELSE off[i]]
  <2>1. NextAccess(q) = Q
    BY Zenon, <1>9 DEF NextAccess, m
  <2>2. /\ d.accs = Tail(m) /\ d.dyninstr = e.dyninstr /\ d.time = e.time
        /\ d.branches_before = e.branches_before
    BY Zenon, <1>2 DEF Entry, m
  <2>3. /\ Tail(m) \in Seq(Access) /\ Len(Tail(m)) \in Nat /\ Len(Tail(m)) = Len(m) - 1
        /\ \A k \in 1..Len(Tail(m)) : Tail(m)[k] = m[k + 1] /\ k + 1 \in 1..Len(m)
    BY <1>3
  <2>4. \A k \in 1..Len(Tail(m)) : AccessesOf(d)[k] = AccessesOf(e)[k + 1]
    <3>1. /\ d.accs \in Seq(Access) /\ e.accs \in Seq(Access)
          /\ \A k \in 1..Len(Tail(m)) : k \in 1..Len(d.accs) /\ k + 1 \in 1..Len(e.accs)
      BY Zenon, <1>3, <2>2, <2>3 DEF m
    <3>2. \A k \in 1..Len(Tail(m)) : d.accs[k] = e.accs[k + 1]
      BY Zenon, <2>2, <2>3 DEF m
    <3>3. \A k \in 1..Len(d.accs) :
            AccessesOf(d)[k] = [addr |-> d.accs[k].addr, type |-> d.accs[k].type, dyninstr |-> d.dyninstr,
                                time |-> d.time, branches_before |-> d.branches_before]
      BY Zenon, <3>1, EntryAccesses
    <3>4. \A k \in 1..Len(e.accs) :
            AccessesOf(e)[k] = [addr |-> e.accs[k].addr, type |-> e.accs[k].type, dyninstr |-> e.dyninstr,
                                time |-> e.time, branches_before |-> e.branches_before]
      BY Zenon, <3>1, EntryAccesses
    <3> HIDE DEF d, e
    <3>. QED BY Zenon, <2>2, <3>1, <3>2, <3>3, <3>4
  <2>5. /\ Len(Q) = Len(q) /\ Q[1] = d
        /\ \A i \in 2..Len(q) : Q[i] = q[i]
    <3> HIDE DEF d
    <3>. QED OBVIOUS
  <2> HIDE DEF Q, d
  <2>6. new \in [1..(Len(q) + 1) -> 0..Len(acc)]
    BY <1>2, <1>6
  <2>7. new[1] = n + 1 /\ (\A i \in 2..(Len(q) + 1) : new[i] = off[i]) /\ new[2] = off[2]
    BY <1>2
  <2> HIDE DEF new
  <2>8. new[Len(Q) + 1] = Len(acc)
    <3>1. Len(q) + 1 \in 2..(Len(q) + 1)
      BY <1>2
    <3>. QED BY Zenon, <1>1, <2>5, <2>7, <3>1
  <2>9. ASSUME NEW i \in 1..Len(Q)
        PROVE  /\ new[i + 1] = new[i] + Len(Q[i].accs)
               /\ \A k \in 1..Len(Q[i].accs) : acc[new[i] + k] = AccessesOf(Q[i])[k]
    <3>1. CASE i = 1
      <4>1. Q[i] = d /\ new[i] = n + 1 /\ new[i + 1] = off[2] /\ Len(d.accs) = Len(Tail(m))
        BY Zenon, <1>2, <2>2, <2>5, <2>7, <3>1
      <4>2. off[2] = n + 1 + Len(Tail(m))
        BY <1>4, <1>5, <1>6, <2>3
      <4>3. ASSUME NEW k \in 1..Len(Tail(m)) PROVE acc[n + 1 + k] = AccessesOf(d)[k]
        <5>1. n + 1 + k = n + (k + 1) /\ k + 1 \in 1..Len(m)
          BY <1>6, <2>3
        <5>. QED BY Zenon, <1>5, <2>4, <5>1
      <4>. QED BY Zenon, <4>1, <4>2, <4>3
    <3>2. CASE i # 1
      <4>1. i \in 1..Len(q) /\ i \in 2..Len(q) /\ i \in 2..(Len(q) + 1) /\ i + 1 \in 2..(Len(q) + 1)
        BY <1>2, <2>5, <3>2
      <4>2. /\ off[i + 1] = off[i] + Len(q[i].accs)
            /\ \A k \in 1..Len(q[i].accs) : acc[off[i] + k] = AccessesOf(q[i])[k]
        BY Zenon, <1>1, <4>1
      <4>3. Q[i] = q[i] /\ new[i] = off[i] /\ new[i + 1] = off[i + 1]
        BY Zenon, <2>5, <2>7, <4>1
      <4>. QED BY Zenon, <4>2, <4>3
    <3>. QED BY Zenon, <3>1, <3>2
  <2>10. new \in [1..(Len(Q) + 1) -> 0..Len(acc)]
    BY Zenon, <2>5, <2>6
  <2>11. Waits(Q, acc, n + 1)
    BY Zenon, <2>7, <2>8, <2>9, <2>10 DEF Waits
  <2>. QED BY Zenon, <1>6, <1>7, <2>1, <2>11
<1>. QED BY Zenon, <1>8, <1>9

(***************************************************************************)
(* What is known of the accesses handled so far                            *)
(***************************************************************************)

\* The accesses have their type.
LEMMA AccessTypes ==
  ASSUME TypeOK
  PROVE  /\ accesses \in Seq(AccessType) /\ Len(accesses) \in Nat
         /\ \A k \in 1..Len(accesses) :
              /\ accesses[k] \in AccessType /\ accesses[k].addr \in Address
              /\ accesses[k].dyninstr \in Nat /\ accesses[k].time \in Nat
              /\ accesses[k].branches_before \in Nat
<1>1. accesses \in Seq(AccessType)
  BY Zenon DEF TypeOK, AccessType
<1>2. Len(accesses) \in Nat /\ \A k \in 1..Len(accesses) : accesses[k] \in AccessType
  BY <1>1
<1>3. 0..(MaxInstr - 1) \subseteq Nat
  BY ImportAssumption
<1>. QED BY Zenon, <1>1, <1>2, <1>3 DEF AccessType

\* A window that is complete stays as it is when more branches are taken.
LEMMA MaskStays ==
  ASSUME branches_taken \in Seq(BOOLEAN), branches_taken' \in Seq(BOOLEAN),
         Len(branches_taken) <= Len(branches_taken'),
         \A i \in 1..Len(branches_taken) : branches_taken'[i] = branches_taken[i],
         NEW b \in Nat, b + Window <= Len(branches_taken)
  PROVE  BranchMask(b)' = BranchMask(b)
<1>1. /\ DOMAIN branches_taken = 1..Len(branches_taken) /\ Len(branches_taken) \in Nat
      /\ DOMAIN branches_taken' = 1..Len(branches_taken') /\ Len(branches_taken') \in Nat
  BY Zenon, SeqLen
<1>2. \A pos \in (-Window)..(Window - 1) :
        b + pos + 1 \in 1..Len(branches_taken) <=> b + pos + 1 \in 1..Len(branches_taken')
  BY <1>1, ImportAssumption
<1>. QED BY Zenon, <1>1, <1>2 DEF BranchMask

\* What is known of accesses handled does not depend on those that come later.
LEMMA KnownStays ==
  ASSUME TypeOK, NEW n \in Nat, OpenUpTo(n), RowsUpTo(n),
         opt' = opt, m_open_ecs' = m_open_ecs, Rows' = Rows,
         \A k \in 1..n : accesses'[k] = accesses[k],
         n > 0 => m_time_trace_start' = m_time_trace_start,
         Delayed => \A k \in 1..n : ending' \/ accesses[k].branches_before + Window <= Len(branches_taken'),
         \A b : (\E k \in 1..n : accesses[k].branches_before = b) => Mask(b)' = Mask(b)
  PROVE  OpenUpTo(n)' /\ RowsUpTo(n)'
<1>1. (Delayed' <=> Delayed) /\ (\A a : Matching(a)' <=> Matching(a)) /\ (\A t : Imported(t)' <=> Imported(t))
  BY Zenon DEF Delayed, Matching, Imported
<1>2. OpenUpTo(n)'
  <2>1. Delayed' => \A k \in 1..n : ending' \/ accesses'[k].branches_before + Window <= Len(branches_taken')
    BY Zenon, <1>1
  <2>2. \A k \in 1..n : Matching(accesses[k].addr)' <=> Matching(accesses[k].addr)
    BY Zenon DEF Matching
  <2>3. \A k \in 1..n : Matching(accesses[k].addr)' =>
          accesses'[k].dyninstr < m_open_ecs'[accesses'[k].addr].dyninstr
    BY Zenon, <2>2 DEF OpenUpTo
  <2>4. \A a \in Address : Matching(a)' \/ ~m_open_ecs'[a].open
    BY Zenon, <1>1 DEF OpenUpTo
  <2>5. \A a \in Address : m_open_ecs'[a].dyninstr > 0 =>
          \E k \in 1..n : /\ accesses'[k].addr = a
                          /\ m_open_ecs'[a].dyninstr = accesses'[k].dyninstr + 1
                          /\ m_open_ecs'[a].time = accesses'[k].time + 1
    <3> SUFFICES ASSUME NEW a \in Address, m_open_ecs[a].dyninstr > 0
                 PROVE  \E k \in 1..n : /\ accesses'[k].addr = a
                                        /\ m_open_ecs[a].dyninstr = accesses'[k].dyninstr + 1
                                        /\ m_open_ecs[a].time = accesses'[k].time + 1
      BY Zenon
    <3>1. PICK k \in 1..n : /\ accesses[k].addr = a
                           /\ m_open_ecs[a].dyninstr = accesses[k].dyninstr + 1
                           /\ m_open_ecs[a].time = accesses[k].time + 1
      BY Zenon DEF OpenUpTo
    <3>2. accesses'[k] = accesses[k]
      BY Zenon
    <3>. QED BY Zenon, <3>1, <3>2
  <2>. QED BY Zenon, <2>1, <2>3, <2>4, <2>5 DEF OpenUpTo
<1>3. ASSUME NEW k \in 1..n
      PROVE  /\ Counted(k)' <=> Counted(k)
             /\ \A r : IsClass(r, k)' <=> IsClass(r, k)
  <2>1. accesses'[k] = accesses[k] /\ (\A j \in 1..(k - 1) : accesses'[j] = accesses[j])
    <3>1. \A j \in 1..(k - 1) : j \in 1..n
      OBVIOUS
    <3>. QED BY Zenon, <3>1
  <2>2. m_time_trace_start' = m_time_trace_start
    <3>1. n > 0
      OBVIOUS
    <3>. QED BY Zenon, <3>1
  <2>3. Counted(k)' <=> Counted(k)
    BY Zenon, <1>1, <2>1 DEF Counted
  <2>4. \A d, t : LeftOf(k, d, t)' <=> LeftOf(k, d, t)
    BY Zenon, <2>1, <2>2 DEF LeftOf
  <2>5. Mask(accesses[k].branches_before)' = Mask(accesses[k].branches_before)
    <3>1. PICK b : b = accesses[k].branches_before
      BY Zenon
    <3>2. Mask(b)' = Mask(b)
      BY Zenon, <3>1
    <3>3. b = accesses'[k].branches_before
      BY Zenon, <2>1, <3>1
    <3>. QED BY Zenon, <3>1, <3>2, <3>3
  <2>6. \A r : IsClass(r, k)' <=> IsClass(r, k)
    BY Zenon, <2>1, <2>4, <2>5 DEF IsClass
  <2>. QED BY Zenon, <2>3, <2>6
<1>4. RowsUpTo(n)'
  BY Zenon, <1>3 DEF RowsUpTo
<1>. QED BY Zenon, <1>2, <1>4


\* An event that is read adds its accesses behind the others, and they wait.
LEMMA EventKnown ==
  ASSUME TypeOK, NEW accs \in Seq(Access), NEW i \in 0..(MaxInstr - 1), NEW t \in Nat, NEW b \in Nat,
         Enqueue([dyninstr |-> i, time |-> t, accs |-> accs, branches_before |-> b])
  PROVE  /\ Len(accesses') \in Nat /\ Len(accesses) <= Len(accesses')
         /\ \A k \in 1..Len(accesses) : accesses'[k] = accesses[k]
         /\ \A k \in 1..Len(accesses') :
              k \in 1..Len(accesses) \/ (accesses'[k].dyninstr = i /\ accesses'[k].time = t)
         /\ \A n : Waits(delayed_entries, accesses, n) => Waits(delayed_entries', accesses', n)
<1> DEFINE e == [dyninstr |-> i, time |-> t, accs |-> accs, branches_before |-> b]
           more == AccessesOf(e)
<1>1. /\ delayed_entries \in Seq(Entry) /\ accesses \in Seq(AccessType)
      /\ e.dyninstr = i /\ e.time = t /\ e.accs = accs /\ e.branches_before = b
      /\ (accs # <<>> => e \in Entry)
  BY Zenon, AccessTypes, Typed DEF Entry
<1>2. /\ DOMAIN more = 1..Len(accs)
      /\ \A k \in 1..Len(accs) :
           more[k] = [addr |-> accs[k].addr, type |-> accs[k].type, dyninstr |-> i,
                      time |-> t, branches_before |-> b]
  BY Zenon, <1>1, EntryAccesses
<1> HIDE DEF more
<1>3. more \in Seq(AccessType) /\ Len(more) = Len(accs)
  <2>1. \A k \in 1..Len(accs) : accs[k] \in Access
    OBVIOUS
  <2>2. \A k \in 1..Len(accs) : more[k] \in AccessType
    <3> SUFFICES ASSUME NEW k \in 1..Len(accs) PROVE more[k] \in AccessType
      BY Zenon
    <3>1. more[k] = [addr |-> accs[k].addr, type |-> accs[k].type, dyninstr |-> i,
                     time |-> t, branches_before |-> b]
      BY Zenon, <1>2
    <3>2. accs[k].addr \in Address /\ accs[k].type \in {"R", "W"}
      BY Zenon, <2>1 DEF Access
    <3>3. [addr |-> accs[k].addr, type |-> accs[k].type, dyninstr |-> i,
           time |-> t, branches_before |-> b] \in AccessType
      BY Zenon, <3>2 DEF AccessType
    <3>. QED BY Zenon, <3>1, <3>3
  <2>3. Len(accs) \in Nat
    OBVIOUS
  <2>4. more = [k \in 1..Len(accs) |-> more[k]]
    BY Zenon, <1>1, <1>2 DEF more, AccessesOf
  <2>5. more \in [1..Len(accs) -> AccessType]
    BY <2>2, <2>4
  <2>. QED BY <2>3, <2>5
<1>4. /\ delayed_entries' = IF accs = <<>> THEN delayed_entries ELSE Append(delayed_entries, e)
      /\ accesses' = accesses \o more
  BY Zenon DEF Enqueue, more
<1>5. \A k \in 1..Len(more) : more[k].dyninstr = i /\ more[k].time = t
  BY <1>2, <1>3
<1>6. CASE accs = <<>>
  <2>1. more = <<>>
    BY <1>3, <1>6
  <2>2. accesses' = accesses /\ delayed_entries' = delayed_entries
    BY <1>1, <1>4, <1>6, <2>1
  <2>3. Len(accesses) \in Nat
    BY <1>1
  <2>. QED BY <2>2, <2>3
<1>7. CASE accs # <<>>
  <2>1. ASSUME NEW n, Waits(delayed_entries, accesses, n) PROVE Waits(delayed_entries', accesses', n)
    BY Zenon, <1>1, <1>3, <1>4, <1>7, <2>1, WaitsAppend DEF more
  <2>2. /\ Len(accesses') \in Nat /\ Len(accesses) <= Len(accesses')
        /\ \A k \in 1..Len(accesses) : accesses'[k] = accesses[k]
    BY <1>1, <1>3, <1>4
  <2>3. ASSUME NEW k \in 1..Len(accesses'), k \notin 1..Len(accesses)
        PROVE  accesses'[k].dyninstr = i /\ accesses'[k].time = t
    <3>1. k - Len(accesses) \in 1..Len(more) /\ accesses'[k] = more[k - Len(accesses)]
      BY <1>1, <1>3, <1>4, <2>3
    <3>. QED BY Zenon, <1>5, <3>1
  <2>. QED BY Zenon, <2>1, <2>2, <2>3
<1>. QED BY Zenon, <1>6, <1>7

\* Instructions and times stay in order.
LEMMA OrderStays ==
  ASSUME TypeOK, AccessInv, NEW i \in Nat, NEW t \in Nat, instr' = i + 1, curtime' = t,
         i = instr \/ (i = instr - 1 /\ t = curtime),
         Len(accesses') \in Nat, Len(accesses) <= Len(accesses'),
         \A k \in 1..Len(accesses) : accesses'[k] = accesses[k],
         \A k \in 1..Len(accesses') :
           k \in 1..Len(accesses) \/ (accesses'[k].dyninstr = i /\ accesses'[k].time = t)
  PROVE  AccessInv'
<1>1. Len(accesses) \in Nat /\ instr \in Nat
  BY AccessTypes, ImportAssumption DEF TypeOK
<1>2. \A k \in 1..Len(accesses) :
        /\ accesses[k].dyninstr \in Nat /\ accesses[k].dyninstr < instr
        /\ accesses[k].dyninstr = instr - 1 => accesses[k].time = curtime
  BY Zenon, AccessTypes DEF AccessInv
<1>3. \A k \in 1..Len(accesses') :
        /\ accesses'[k].dyninstr \in Nat /\ accesses'[k].dyninstr <= i
        /\ accesses'[k].dyninstr = i => accesses'[k].time = t
  <2> SUFFICES ASSUME NEW k \in 1..Len(accesses')
               PROVE  /\ accesses'[k].dyninstr \in Nat /\ accesses'[k].dyninstr <= i
                      /\ accesses'[k].dyninstr = i => accesses'[k].time = t
    BY Zenon
  <2>1. CASE k \in 1..Len(accesses)
    <3>1. accesses'[k] = accesses[k]
      BY Zenon, <2>1
    <3>2. /\ accesses[k].dyninstr \in Nat /\ accesses[k].dyninstr < instr
          /\ accesses[k].dyninstr = instr - 1 => accesses[k].time = curtime
      BY Zenon, <1>2, <2>1
    <3>. QED BY <1>1, <3>1, <3>2
  <2>2. CASE accesses'[k].dyninstr = i /\ accesses'[k].time = t
    BY <2>2
  <2>. QED BY Zenon, <2>1, <2>2
<1>4. ASSUME NEW j \in 1..Len(accesses'), NEW k \in 1..Len(accesses')
      PROVE  /\ j <= k => accesses'[j].dyninstr <= accesses'[k].dyninstr
             /\ accesses'[j].dyninstr = accesses'[k].dyninstr => accesses'[j].time = accesses'[k].time
  <2>1. CASE j \in 1..Len(accesses) /\ k \in 1..Len(accesses)
    BY Zenon, <2>1 DEF AccessInv
  <2>2. CASE accesses'[k].dyninstr = i /\ accesses'[k].time = t
    BY Zenon, <1>3, <2>2
  <2>3. CASE accesses'[j].dyninstr = i /\ accesses'[j].time = t
    <3>1. CASE k \notin 1..Len(accesses)
      BY Zenon, <2>2, <3>1
    <3>2. CASE k \in 1..Len(accesses)
      <4>1. CASE j \in 1..Len(accesses)
        BY Zenon, <2>1, <3>2, <4>1
      <4>2. CASE j \notin 1..Len(accesses)
        <5>1. ~(j <= k)
          BY <1>1, <3>2, <4>2
        <5>. QED BY Zenon, <1>3, <2>3, <5>1
      <4>. QED BY Zenon, <4>1, <4>2
    <3>. QED BY Zenon, <3>1, <3>2
  <2>. QED BY Zenon, <2>1, <2>2, <2>3
<1>5. \A k \in 1..Len(accesses') :
        /\ accesses'[k].dyninstr < instr'
        /\ accesses'[k].dyninstr = instr' - 1 => accesses'[k].time = curtime'
  BY <1>3
<1>. QED BY Zenon, <1>4, <1>5 DEF AccessInv

\* Reading an event changes nothing about the accesses handled before.
LEMMA ReadKnown ==
  ASSUME Inv, ImportedInv, pc = "read", pc' \in {"read", "handle"}, pc' = "read" => ~ending',
         opt' = opt, ending' = ending, m_open_ecs' = m_open_ecs, Rows' = Rows, lost' = lost,
         NEW accs \in Seq(Access), NEW i \in 0..(MaxInstr - 1), NEW t \in Nat, NEW b \in Nat,
         Enqueue([dyninstr |-> i, time |-> t, accs |-> accs, branches_before |-> b]),
         instr' = i + 1, curtime' = t, i = instr \/ (i = instr - 1 /\ t = curtime),
         instr > 0 => m_time_trace_start' = m_time_trace_start,
         branches_taken' \in Seq(BOOLEAN), Len(branches_taken) <= Len(branches_taken'),
         \A j \in 1..Len(branches_taken) : branches_taken'[j] = branches_taken[j]
  PROVE  ImportedInv'
<1>1. TypeOK /\ AccessInv /\ ~ending
  BY Zenon DEF Inv, ImportedInv
<1>2. /\ Len(accesses') \in Nat /\ Len(accesses) <= Len(accesses')
      /\ \A k \in 1..Len(accesses) : accesses'[k] = accesses[k]
      /\ \A k \in 1..Len(accesses') :
           k \in 1..Len(accesses) \/ (accesses'[k].dyninstr = i /\ accesses'[k].time = t)
      /\ \A n : Waits(delayed_entries, accesses, n) => Waits(delayed_entries', accesses', n)
  BY Zenon, <1>1, EventKnown
<1>3. i \in Nat
  BY ImportAssumption
<1>4. AccessInv'
  BY Zenon, <1>1, <1>2, <1>3, OrderStays
<1>5. ASSUME ~lost, NEW n \in 0..Len(accesses), Waits(delayed_entries, accesses, n), OpenUpTo(n), RowsUpTo(n)
      PROVE  /\ n \in 0..Len(accesses') /\ Waits(delayed_entries', accesses', n)
             /\ OpenUpTo(n)' /\ RowsUpTo(n)'
  <2>1. Len(accesses) \in Nat
    BY Zenon, <1>1, AccessTypes
  <2>2. n \in Nat /\ n \in 0..Len(accesses') /\ \A k \in 1..n : k \in 1..Len(accesses)
    BY <1>2, <2>1
  <2>3. n > 0 => m_time_trace_start' = m_time_trace_start
    <3> SUFFICES ASSUME n > 0 PROVE instr > 0
      BY Zenon
    <3>1. 1 \in 1..Len(accesses)
      BY <2>1, <2>2
    <3>2. accesses[1].dyninstr \in Nat /\ accesses[1].dyninstr < instr /\ instr \in 0..MaxInstr
      BY Zenon, <1>1, <3>1, AccessTypes DEF AccessInv, TypeOK
    <3>. QED BY SMTT(20), <3>2, ImportAssumption
  <2>4. \A k \in 1..n : accesses[k].branches_before \in Nat /\ accesses'[k] = accesses[k]
    BY Zenon, <1>1, <1>2, <2>2, AccessTypes
  <2>5. Len(branches_taken) \in Nat /\ Len(branches_taken') \in Nat /\ branches_taken \in Seq(BOOLEAN)
    BY Zenon, <1>1, SeqLen DEF TypeOK
  <2>6. Delayed => \A k \in 1..n : accesses[k].branches_before + Window <= Len(branches_taken)
    BY Zenon, <1>1, <1>5 DEF OpenUpTo
  <2>7. Delayed => \A k \in 1..n : ending' \/ accesses[k].branches_before + Window <= Len(branches_taken')
    BY SMTT(20), <2>4, <2>5, <2>6, ImportAssumption
  <2>8. ASSUME NEW c, \E k \in 1..n : accesses[k].branches_before = c
        PROVE  Mask(c)' = Mask(c)
    <3>1. CASE Delayed
      <4>1. c \in Nat /\ c + Window <= Len(branches_taken)
        BY Zenon, <2>4, <2>6, <2>8, <3>1
      <4>2. BranchMask(c)' = BranchMask(c)
        BY Zenon, <2>5, <4>1, MaskStays
      <4>. QED BY Zenon, <3>1, <4>2 DEF Mask, Delayed
    <3>2. CASE ~Delayed
      BY Zenon, <3>2 DEF Mask, Delayed
    <3>. QED BY Zenon, <3>1, <3>2
  <2>9. OpenUpTo(n)' /\ RowsUpTo(n)'
    BY Zenon, <1>1, <1>5, <2>2, <2>3, <2>4, <2>7, <2>8, KnownStays
  <2>. QED BY Zenon, <1>2, <1>5, <2>2, <2>9
<1>6. ~lost => \E n \in 0..Len(accesses') : Waits(delayed_entries', accesses', n) /\ OpenUpTo(n)' /\ RowsUpTo(n)'
  <2> SUFFICES ASSUME ~lost
               PROVE  \E n \in 0..Len(accesses') : Waits(delayed_entries', accesses', n) /\ OpenUpTo(n)' /\ RowsUpTo(n)'
    BY Zenon
  <2>1. PICK n \in 0..Len(accesses) : Waits(delayed_entries, accesses, n) /\ OpenUpTo(n) /\ RowsUpTo(n)
    BY Zenon DEF ImportedInv
  <2>. QED BY Zenon, <1>5, <2>1
<1>7. ~lost' => ~lost
  OBVIOUS
<1>. QED BY Zenon, <1>4, <1>6, <1>7 DEF ImportedInv

\* An instruction event.
LEMMA IpEventImported ==
  ASSUME Inv, ImportedInv, IpEvent
  PROVE  ImportedInv'
<1>1. TypeOK /\ StartInv
  BY Zenon DEF Inv, TimeInv
<1>2. pc = "read" /\ UNCHANGED <<opt, ending, m_last_instr, m_last_time, closing, m_open_ecs, m_row_count,
                                 cache, trace, lost>>
  BY Zenon DEF IpEvent, endvars, tablevars
<1>3. CASE pc' = "failed" /\ UNCHANGED <<readvars, delayed_entries>>
  BY Zenon, <1>2, <1>3 DEF ImportedInv, AccessInv, readvars
<1>4. CASE ~Overflow /\ pc' = "handle"
  <2>1. instr \in 0..(MaxInstr - 1) /\ instr \in Nat /\ instr' = instr + 1
    <3>1. instr \in 0..MaxInstr /\ instr # MaxInstr /\ instr' = instr + 1
      BY Zenon, <1>1, <1>4 DEF IpEvent, Overflow, TypeOK
    <3>. QED BY <3>1, ImportAssumption
  <2>2. PICK delta \in IpDeltas, taken \in BOOLEAN, accs \in Seq(Access) :
          /\ m_time_trace_start' = IF m_time_trace_start = 0 THEN delta ELSE m_time_trace_start
          /\ curtime' = curtime + delta
          /\ branches_taken' = IF m_last_was_conditional_branch THEN Append(branches_taken, taken)
                                                                ELSE branches_taken
          /\ Enqueue([dyninstr |-> instr, time |-> curtime + delta, accs |-> accs,
                      branches_before |-> Len(branches_taken')])
    <3>1. PICK delta \in IpDeltas, taken \in BOOLEAN,
               accs \in IF opt.importer = "instruction" THEN IpAccesses ELSE {<<>>} :
            /\ m_time_trace_start' = IF m_time_trace_start = 0 THEN delta ELSE m_time_trace_start
            /\ curtime' = curtime + delta
            /\ branches_taken' = IF m_last_was_conditional_branch THEN Append(branches_taken, taken)
                                                                  ELSE branches_taken
            /\ Enqueue([dyninstr |-> instr, time |-> curtime + delta, accs |-> accs,
                        branches_before |-> Len(branches_taken')])
      BY Zenon, <1>4 DEF IpEvent, Overflow
    <3>2. <<>> \in Seq(Access)
      OBVIOUS
    <3>3. accs \in Seq(Access)
      BY Zenon, <3>2, ImportAssumption
    <3>. QED BY Zenon, <3>1, <3>3
  <2>3. branches_taken \in Seq(BOOLEAN) /\ curtime \in Nat /\ delta \in Nat
    BY Zenon, <1>1, ImportAssumption DEF TypeOK
  <2>4. /\ branches_taken' \in Seq(BOOLEAN) /\ Len(branches_taken) <= Len(branches_taken')
        /\ \A j \in 1..Len(branches_taken) : branches_taken'[j] = branches_taken[j]
    <3> DEFINE more == Append(branches_taken, taken)
    <3>1. /\ more \in Seq(BOOLEAN) /\ Len(branches_taken) <= Len(more)
          /\ \A j \in 1..Len(branches_taken) : more[j] = branches_taken[j]
      BY <2>3
    <3>2. Len(branches_taken) <= Len(branches_taken)
      BY <2>3
    <3>3. branches_taken' = more \/ branches_taken' = branches_taken
      BY Zenon, <2>2
    <3> HIDE DEF more
    <3>. QED BY Zenon, <2>3, <3>1, <3>2, <3>3
  <2>5. Len(branches_taken') \in Nat /\ curtime + delta \in Nat
    BY <2>3, <2>4
  <2>6. instr > 0 => m_time_trace_start' = m_time_trace_start
    BY <1>1, <2>1, <2>2 DEF StartInv
  <2>7. Rows' = Rows
    BY Zenon, <1>2 DEF Rows
  <2>. QED BY Zenon, <1>2, <1>4, <2>1, <2>2, <2>4, <2>5, <2>6, <2>7, ReadKnown
<1>. QED BY Zenon, <1>3, <1>4 DEF IpEvent

\* A memory event.
LEMMA MemEventImported ==
  ASSUME Inv, ImportedInv, MemEvent
  PROVE  ImportedInv'
<1>1. TypeOK
  BY Zenon DEF Inv
<1>2. pc = "read" /\ instr > 0 /\ pc' \in {"read", "handle"}
      /\ UNCHANGED <<opt, ending, m_last_instr, m_last_time, closing, m_open_ecs, m_row_count,
                     cache, trace, lost, curtime, instr, m_time_trace_start, branches_taken,
                     m_last_was_conditional_branch>>
  BY Zenon DEF MemEvent, endvars, tablevars
<1>3. PICK accs \in Seq(Access) :
        Enqueue([dyninstr |-> instr - 1, time |-> curtime, accs |-> accs,
                 branches_before |-> Len(branches_taken)])
  BY Zenon, ImportAssumption DEF MemEvent
<1>4. instr - 1 \in 0..(MaxInstr - 1) /\ instr' = instr - 1 + 1 /\ curtime \in Nat
  BY <1>1, <1>2, ImportAssumption DEF TypeOK
<1>5. branches_taken \in Seq(BOOLEAN) /\ Len(branches_taken) \in Nat /\ Len(branches_taken) <= Len(branches_taken)
  BY <1>1 DEF TypeOK
<1>6. Rows' = Rows /\ ~ending
  BY Zenon, <1>2 DEF Rows, ImportedInv
<1>. QED BY Zenon, <1>2, <1>3, <1>4, <1>5, <1>6, ReadKnown

\* The end of the trace: nothing is kept back any longer.
LEMMA TraceEndImported ==
  ASSUME Inv, ImportedInv, TraceEnd
  PROVE  ImportedInv'
<1>1. TypeOK
  BY Zenon DEF Inv
<1>2. /\ pc = "read" /\ pc' = "handle" /\ ending' = TRUE
      /\ UNCHANGED <<opt, curtime, instr, m_time_trace_start, branches_taken, m_last_was_conditional_branch,
                     accesses, m_open_ecs, m_row_count, cache, trace, lost, delayed_entries>>
  BY Zenon DEF TraceEnd, readvars, tablevars
<1>3. AccessInv'
  BY Zenon, <1>2 DEF ImportedInv, AccessInv
<1>4. Rows' = Rows /\ \A b : Mask(b)' = Mask(b)
  BY Zenon, <1>2 DEF Rows, Mask, BranchMask, Delayed
<1>5. ASSUME NEW n \in 0..Len(accesses), OpenUpTo(n), RowsUpTo(n) PROVE OpenUpTo(n)' /\ RowsUpTo(n)'
  <2>1. n \in Nat
    BY <1>1, AccessTypes
  <2>. QED BY Zenon, <1>1, <1>2, <1>4, <1>5, <2>1, KnownStays
<1>. QED BY Zenon, <1>2, <1>3, <1>5 DEF ImportedInv

\* Access k of the history is an access of a delayed entry.
IsAccess(k, entry, a, type) ==
  accesses[k] = [addr |-> a, type |-> type, dyninstr |-> entry.dyninstr,
                 time |-> entry.time, branches_before |-> entry.branches_before]

\* The access that is handled next, as the history has it, and the row it closes.
LEMMA NextHandled ==
  ASSUME Inv, ImportedInv, pc = "handle", ~lost, delayed_entries # <<>>,
         NEW n \in 0..Len(accesses), Waits(delayed_entries, accesses, n), OpenUpTo(n),
         NEW entry, entry = Head(delayed_entries), NEW a, a = Head(entry.accs).addr,
         NEW type, type = Head(entry.accs).type
  PROVE  /\ n \in Nat /\ n + 1 \in 1..Len(accesses) /\ entry \in Entry /\ a \in Address /\ type \in {"R", "W"}
         /\ Waits(NextAccess(delayed_entries), accesses, n + 1)
         /\ IsAccess(n + 1, entry, a, type)
<1>1. TypeOK
  BY Zenon DEF Inv
<1>2. delayed_entries \in Seq(Entry) /\ accesses \in Seq(AccessType)
  BY Zenon, <1>1, Typed, AccessTypes
<1>3. /\ n \in Nat /\ n + 1 \in 1..Len(accesses)
      /\ accesses[n + 1] = AccessesOf(entry)[1]
      /\ Waits(NextAccess(delayed_entries), accesses, n + 1)
  BY Zenon, <1>2, WaitsNext
<1>4. entry \in Entry /\ a \in Address /\ type \in {"R", "W"}
  BY Zenon, <1>1, FirstEntry DEF Access
<1>5. entry.accs \in Seq(Access) /\ entry.accs # <<>>
  BY Zenon, <1>4 DEF Entry
<1>6. 1 \in 1..Len(entry.accs) /\ Head(entry.accs) = entry.accs[1]
  <2> DEFINE m == entry.accs
  <2>1. m \in Seq(Access) /\ m # <<>>
    BY Zenon, <1>5
  <2> HIDE DEF m
  <2>2. 1 \in 1..Len(m) /\ Head(m) = m[1]
    BY <2>1
  <2>. QED BY Zenon, <2>2 DEF m
<1>7. AccessesOf(entry)[1] =
        [addr |-> entry.accs[1].addr, type |-> entry.accs[1].type, dyninstr |-> entry.dyninstr,
         time |-> entry.time, branches_before |-> entry.branches_before]
  BY Zenon, <1>5, <1>6, EntryAccesses
<1>. QED BY Zenon, <1>3, <1>4, <1>6, <1>7 DEF IsAccess

\* An access of an instruction whose class is open already is not counted.
LEMMA SkippedNotCounted ==
  ASSUME TypeOK, AccessInv, NEW n \in Nat, n + 1 \in 1..Len(accesses), OpenUpTo(n),
         NEW entry, NEW a \in Address, accesses[n + 1].addr = a, accesses[n + 1].dyninstr = entry.dyninstr,
         Skipped(entry, a)
  PROVE  /\ ~Counted(n + 1)
         /\ Matching(a) => entry.dyninstr < m_open_ecs[a].dyninstr
<1>1. CASE ~Matching(a)
  BY Zenon, <1>1 DEF Counted
<1>2. CASE Matching(a) /\ OpenEC(a).dyninstr > entry.dyninstr
  <2>1. m_open_ecs[a] \in [open: BOOLEAN, dyninstr: 0..MaxInstr, time: Nat]
    BY Zenon DEF TypeOK
  <2>2. OpenEC(a).dyninstr = m_open_ecs[a].dyninstr
    BY Zenon, <2>1 DEF OpenEC
  <2>3. entry.dyninstr \in Nat /\ m_open_ecs[a].dyninstr \in Nat
    BY Zenon, AccessTypes, Typed
  <2>4. m_open_ecs[a].dyninstr > 0 /\ entry.dyninstr < m_open_ecs[a].dyninstr
    BY <1>2, <2>2, <2>3
  <2>5. PICK k \in 1..n : accesses[k].addr = a /\ m_open_ecs[a].dyninstr = accesses[k].dyninstr + 1
    BY Zenon, <2>4 DEF OpenUpTo
  <2>6. k \in 1..Len(accesses) /\ k <= n + 1 /\ k \in 1..(n + 1 - 1) /\ Len(accesses) \in Nat
    BY AccessTypes
  <2>7. accesses[k].dyninstr <= entry.dyninstr /\ accesses[k].dyninstr \in Nat
    BY Zenon, <2>6, AccessTypes DEF AccessInv
  <2>8. accesses[k].dyninstr = entry.dyninstr
    BY <2>3, <2>4, <2>5, <2>7
  <2>9. ~Counted(n + 1)
    <3>1. accesses[k].addr = accesses[n + 1].addr /\ accesses[k].dyninstr = accesses[n + 1].dyninstr
      BY Zenon, <2>5, <2>8
    <3>. QED BY <2>6, <3>1 DEF Counted
  <2>. QED BY Zenon, <2>4, <2>9
<1>. QED BY Zenon, <1>1, <1>2 DEF Skipped

\* The row of any other access is its class.
LEMMA ClosedIsClass ==
  ASSUME Inv, AccessInv, pc = "handle", ~lost, NEW n \in Nat, n + 1 \in 1..Len(accesses), OpenUpTo(n),
         NEW entry \in Entry, NEW a \in Address, NEW type \in {"R", "W"},
         IsAccess(n + 1, entry, a, type),
         ~Skipped(entry, a)
  PROVE  /\ Counted(n + 1) <=> Imported(type)
         /\ IsClass(CloseAt(entry, a, type), n + 1)
         /\ \A j \in 1..n : accesses[j].addr = a => accesses[j].dyninstr < entry.dyninstr
<1> DEFINE row == CloseAt(entry, a, type)
           k == n + 1
<1>1. TypeOK /\ FreshInv
  BY Zenon DEF Inv, TimeInv
<1>2. /\ accesses[k].addr = a /\ accesses[k].type = type /\ accesses[k].dyninstr = entry.dyninstr
      /\ accesses[k].time = entry.time /\ accesses[k].branches_before = entry.branches_before
      /\ 1..(k - 1) = 1..n
  BY SMTT(20) DEF IsAccess
<1>3. /\ row.instr1 = m_open_ecs[a].dyninstr
      /\ row.time1 = IF m_open_ecs[a].time = 0 THEN m_time_trace_start ELSE m_open_ecs[a].time
      /\ m_open_ecs[a].dyninstr <= entry.dyninstr
  BY <1>1, ClosedRow
<1>4. row = Row(a, [dyninstr |-> row.instr1, time |-> row.time1], accesses[k], type,
                Mask(accesses[k].branches_before))
  BY Zenon, <1>2 DEF CloseAt, Row, Mask
<1> HIDE DEF row, k
<1>5. Matching(a) /\ m_open_ecs[a].dyninstr \in Nat /\ m_open_ecs[a].time \in Nat /\ entry.dyninstr \in Nat
  <2>1. Matching(a)
    BY Zenon DEF Skipped
  <2>2. entry.dyninstr \in 0..(MaxInstr - 1) /\ 0..(MaxInstr - 1) \subseteq Nat
    BY ImportAssumption DEF Entry
  <2>. QED BY Zenon, <1>1, <2>1, <2>2, Typed
<1>6. \A j \in 1..n : /\ accesses[j].dyninstr \in Nat /\ accesses[j].time \in Nat
                      /\ accesses[j].addr = a => accesses[j].dyninstr < m_open_ecs[a].dyninstr
  <2>1. \A j \in 1..n : j \in 1..Len(accesses)
    BY <1>1, AccessTypes
  <2>. QED BY Zenon, <1>1, <1>5, <2>1, AccessTypes DEF OpenUpTo
<1>7. \A j \in 1..n : accesses[j].addr = a => accesses[j].dyninstr < entry.dyninstr
  <2>. SUFFICES ASSUME NEW j \in 1..n, accesses[j].addr = a
                PROVE  accesses[j].dyninstr < entry.dyninstr
    BY Zenon
  <2>1. accesses[j].dyninstr \in Nat /\ accesses[j].dyninstr < m_open_ecs[a].dyninstr
    BY Zenon, <1>6
  <2>. QED BY <1>3, <1>5, <2>1
<1>8. \A j \in 1..n : accesses[j].addr = a => accesses[j].dyninstr # entry.dyninstr
  BY <1>5, <1>6, <1>7
<1>9. Counted(k) <=> Imported(type)
  BY Zenon, <1>2, <1>5, <1>8 DEF Counted
<1>10. LeftOf(k, row.instr1, row.time1)
  <2>1. CASE m_open_ecs[a].dyninstr = 0
    <3>1. \A j \in 1..(k - 1) : accesses[j].addr # accesses[k].addr
      <4>. SUFFICES ASSUME NEW j \in 1..n, accesses[j].addr = a PROVE FALSE
        BY Zenon, <1>2
      <4>1. accesses[j].dyninstr \in Nat /\ accesses[j].dyninstr < m_open_ecs[a].dyninstr
        BY Zenon, <1>6
      <4>. QED BY <2>1, <4>1
    <3>2. m_open_ecs[a].time = 0
      BY Zenon, <1>1, <2>1 DEF FreshInv, Before
    <3>. QED BY Zenon, <1>3, <2>1, <3>1, <3>2 DEF LeftOf
  <2>2. CASE m_open_ecs[a].dyninstr > 0
    <3>1. PICK p \in 1..n : /\ accesses[p].addr = a
                            /\ m_open_ecs[a].dyninstr = accesses[p].dyninstr + 1
                            /\ m_open_ecs[a].time = accesses[p].time + 1
      BY Zenon, <2>2 DEF OpenUpTo
    <3>2. \A j \in 1..n : accesses[j].addr = a => accesses[j].dyninstr <= accesses[p].dyninstr
      <4>. SUFFICES ASSUME NEW j \in 1..n, accesses[j].addr = a
                    PROVE  accesses[j].dyninstr <= accesses[p].dyninstr
        BY Zenon
      <4>1. /\ accesses[j].dyninstr \in Nat /\ accesses[j].dyninstr < m_open_ecs[a].dyninstr
            /\ accesses[p].dyninstr \in Nat
        BY Zenon, <1>6
      <4>. QED BY <3>1, <4>1
    <3>3. row.instr1 = accesses[p].dyninstr + 1 /\ row.time1 = accesses[p].time + 1
      <4>1. accesses[p].time \in Nat
        BY Zenon, <1>6
      <4>2. m_open_ecs[a].time # 0
        BY <3>1, <4>1
      <4>. QED BY Zenon, <1>3, <3>1, <4>2
    <3>. QED BY Zenon, <1>2, <3>1, <3>2, <3>3 DEF LeftOf
  <2>. QED BY <1>5, <2>1, <2>2
<1>11. IsClass(row, k)
  BY Zenon, <1>2, <1>4, <1>10 DEF IsClass
<1>. QED BY Zenon, <1>7, <1>9, <1>11 DEF row, k

\* The classes are a matter of the history, whatever becomes of the table.
LEMMA SameHistory ==
  ASSUME UNCHANGED <<opt, m_time_trace_start, branches_taken, accesses>>
  PROVE  /\ \A k : Counted(k)' <=> Counted(k)
         /\ \A r, k : IsClass(r, k)' <=> IsClass(r, k)
         /\ \A a : Matching(a)' <=> Matching(a)
         /\ \A t : Imported(t)' <=> Imported(t)
<1>1. (Delayed' <=> Delayed) /\ (\A a : Matching(a)' <=> Matching(a)) /\ (\A t : Imported(t)' <=> Imported(t))
  BY Zenon DEF Delayed, Matching, Imported
<1>2. \A k : Counted(k)' <=> Counted(k)
  BY Zenon, <1>1 DEF Counted
<1>3. \A b : Mask(b)' = Mask(b)
  BY Zenon DEF Mask, BranchMask, Delayed
<1>4. \A k, d, t : LeftOf(k, d, t)' <=> LeftOf(k, d, t)
  BY Zenon DEF LeftOf
<1>5. \A r, k : IsClass(r, k)' <=> IsClass(r, k)
  <2> SUFFICES ASSUME NEW r, NEW k PROVE IsClass(r, k)' <=> IsClass(r, k)
    BY Zenon
  <2>1. PICK b : b = accesses[k].branches_before
    BY Zenon
  <2>2. Mask(b)' = Mask(b)
    BY Zenon, <1>3
  <2>3. Mask(accesses[k].branches_before)' = Mask(accesses[k].branches_before)
    BY Zenon, <2>1, <2>2
  <2>. QED BY Zenon, <1>4, <2>3 DEF IsClass, Row
<1>. QED BY Zenon, <1>1, <1>2, <1>5

\* One access further, in the table.
LEMMA RowsNext ==
  ASSUME NEW n \in Nat, RowsUpTo(n), UNCHANGED <<opt, m_time_trace_start, branches_taken, accesses>>,
         \/ ~Counted(n + 1) /\ Rows' = Rows
         \/ \E row : Counted(n + 1) /\ IsClass(row, n + 1) /\ Rows' = Rows \cup {row}
  PROVE  RowsUpTo(n + 1)'
<1>1. /\ \A k : Counted(k)' <=> Counted(k)
      /\ \A r, k : IsClass(r, k)' <=> IsClass(r, k)
  BY Zenon, SameHistory
<1>2. /\ n + 1 \in 1..(n + 1) /\ \A k \in 1..n : k \in 1..(n + 1)
      /\ \A k \in 1..(n + 1) : k \in 1..n \/ k = n + 1
  OBVIOUS
<1> DEFINE m == n + 1
<1> HIDE DEF m
<1>3. CASE ~Counted(n + 1) /\ Rows' = Rows
  <2>1. /\ \A r \in Rows' : \E k \in 1..m : Counted(k)' /\ IsClass(r, k)'
        /\ \A k \in 1..m : Counted(k)' => \E r \in Rows' : IsClass(r, k)'
    BY Zenon, <1>1, <1>2, <1>3 DEF RowsUpTo, m
  <2>. QED BY Zenon, <2>1 DEF RowsUpTo, m
<1>4. ASSUME NEW row, Counted(n + 1), IsClass(row, n + 1), Rows' = Rows \cup {row} PROVE RowsUpTo(n + 1)'
  <2>1. \A r \in Rows' : \E k \in 1..m : Counted(k)' /\ IsClass(r, k)'
    <3> SUFFICES ASSUME NEW r \in Rows' PROVE \E k \in 1..m : Counted(k)' /\ IsClass(r, k)'
      BY Zenon
    <3>1. CASE r \in Rows
      <4>1. PICK k \in 1..n : Counted(k) /\ IsClass(r, k)
        BY Zenon, <3>1 DEF RowsUpTo
      <4>. QED BY Zenon, <1>1, <1>2, <4>1 DEF m
    <3>2. CASE r = row
      BY Zenon, <1>1, <1>2, <1>4, <3>2 DEF m
    <3>. QED BY Zenon, <1>4, <3>1, <3>2
  <2>2. \A k \in 1..m : Counted(k)' => \E r \in Rows' : IsClass(r, k)'
    <3> SUFFICES ASSUME NEW k \in 1..m, Counted(k) PROVE \E r \in Rows' : IsClass(r, k)
      BY Zenon, <1>1
    <3>1. CASE k \in 1..n
      BY Zenon, <1>4, <3>1 DEF RowsUpTo
    <3>2. CASE k = n + 1
      BY Zenon, <1>4, <3>2
    <3>. QED BY Zenon, <1>2, <3>1, <3>2 DEF m
  <2>. QED BY Zenon, <2>1, <2>2 DEF RowsUpTo, m
<1>. QED BY Zenon, <1>3, <1>4

\* What handle_mem_event does to the open classes for the access after the
\* first n: it skips the access, or it opens the class behind it.
ClassMoves(n, entry, a) ==
  \/ m_open_ecs' = m_open_ecs /\ (Matching(a) => entry.dyninstr < m_open_ecs[a].dyninstr)
  \/ /\ Matching(a)
     /\ \A j \in 1..n : accesses[j].addr = a => accesses[j].dyninstr < entry.dyninstr
     /\ m_open_ecs' = [m_open_ecs EXCEPT ![a] =
          [open |-> TRUE, dyninstr |-> entry.dyninstr + 1, time |-> entry.time + 1]]

\* One access further, for the open classes.
LEMMA OpenNext ==
  ASSUME Inv, AccessInv, pc = "handle", NEW n \in Nat, n + 1 \in 1..Len(accesses), OpenUpTo(n),
         NEW entry \in Entry, NEW a \in Address, NEW type, IsAccess(n + 1, entry, a, type), Ready(entry),
         UNCHANGED <<opt, ending, branches_taken, accesses>>, ClassMoves(n, entry, a)
  PROVE  OpenUpTo(n + 1)'
<1>1. TypeOK
  BY Zenon DEF Inv
<1>2. /\ n + 1 \in 1..(n + 1) /\ \A k \in 1..n : k \in 1..(n + 1) /\ k \in 1..Len(accesses)
      /\ \A k \in 1..(n + 1) : k \in 1..n \/ k = n + 1
  BY SMTT(20), <1>1, AccessTypes
<1>3. /\ accesses[n + 1].addr = a /\ accesses[n + 1].dyninstr = entry.dyninstr
      /\ accesses[n + 1].time = entry.time /\ accesses[n + 1].branches_before = entry.branches_before
  BY DEF IsAccess
<1>4. /\ Delayed' <=> Delayed
      /\ \A b : Matching(b)' <=> Matching(b)
      /\ \A k : Matching(accesses[k].addr)' <=> Matching(accesses[k].addr)
  BY Zenon DEF Delayed, Matching
<1>5. entry.dyninstr \in Nat /\ entry.dyninstr < entry.dyninstr + 1
  <2>1. entry.dyninstr \in 0..(MaxInstr - 1) /\ 0..(MaxInstr - 1) \subseteq Nat
    BY ImportAssumption DEF Entry
  <2>. QED BY SMTT(20), <2>1
<1>6. \A k \in 1..n : accesses[k].addr \in Address /\ accesses[k].dyninstr \in Nat
  BY Zenon, <1>1, <1>2, AccessTypes
<1>7. m_open_ecs \in [Address -> [open: BOOLEAN, dyninstr: 0..MaxInstr, time: Nat]]
  BY Zenon, <1>1 DEF TypeOK
<1> DEFINE m == n + 1
<1> HIDE DEF m
<1>8. Delayed' => \A k \in 1..m : ending' \/ accesses'[k].branches_before + Window <= Len(branches_taken')
  BY Zenon, <1>2, <1>3, <1>4 DEF OpenUpTo, Ready, m
<1>9. CASE m_open_ecs' = m_open_ecs /\ (Matching(a) => entry.dyninstr < m_open_ecs[a].dyninstr)
  <2>1. \A b \in Address : ~Matching(b)' => ~m_open_ecs'[b].open
    BY Zenon, <1>4, <1>9 DEF OpenUpTo
  <2>2. \A k \in 1..m : Matching(accesses[k].addr)' => accesses'[k].dyninstr < m_open_ecs'[accesses'[k].addr].dyninstr
    BY Zenon, <1>2, <1>3, <1>4, <1>9 DEF OpenUpTo, m
  <2>3. \A b \in Address : m_open_ecs'[b].dyninstr > 0 =>
          \E k \in 1..m : /\ accesses'[k].addr = b
                          /\ m_open_ecs'[b].dyninstr = accesses'[k].dyninstr + 1
                          /\ m_open_ecs'[b].time = accesses'[k].time + 1
    BY Zenon, <1>2, <1>9 DEF OpenUpTo, m
  <2>. QED BY Zenon, <1>8, <2>1, <2>2, <2>3 DEF OpenUpTo, m
<1>10. CASE /\ Matching(a)
            /\ \A j \in 1..n : accesses[j].addr = a => accesses[j].dyninstr < entry.dyninstr
            /\ m_open_ecs' = [m_open_ecs EXCEPT ![a] =
                 [open |-> TRUE, dyninstr |-> entry.dyninstr + 1, time |-> entry.time + 1]]
  <2>1. /\ \A b \in Address : b # a => m_open_ecs'[b] = m_open_ecs[b]
        /\ m_open_ecs'[a].dyninstr = entry.dyninstr + 1 /\ m_open_ecs'[a].time = entry.time + 1
    BY Zenon, <1>7, <1>10
  <2>2. \A b \in Address : ~Matching(b)' => ~m_open_ecs'[b].open
    BY Zenon, <1>4, <1>10, <2>1 DEF OpenUpTo
  <2>3. \A k \in 1..m : Matching(accesses[k].addr)' => accesses'[k].dyninstr < m_open_ecs'[accesses'[k].addr].dyninstr
    <3> SUFFICES ASSUME NEW k \in 1..m, Matching(accesses[k].addr)
                 PROVE  accesses[k].dyninstr < m_open_ecs'[accesses[k].addr].dyninstr
      BY Zenon, <1>4
    <3>1. CASE k = n + 1
      BY Zenon, <1>3, <1>5, <2>1, <3>1
    <3>2. CASE k \in 1..n /\ accesses[k].addr = a
      <4>1. accesses[k].dyninstr < entry.dyninstr /\ accesses[k].dyninstr \in Nat
        BY ZenonT(30), <1>6, <1>10, <3>2
      <4>2. accesses[k].dyninstr < entry.dyninstr + 1
        BY <1>5, <4>1
      <4>. QED BY Zenon, <2>1, <3>2, <4>2
    <3>3. CASE k \in 1..n /\ accesses[k].addr # a
      BY Zenon, <1>6, <2>1, <3>3 DEF OpenUpTo
    <3>. QED BY Zenon, <1>2, <3>1, <3>2, <3>3 DEF m
  <2>4. \A b \in Address : m_open_ecs'[b].dyninstr > 0 =>
          \E k \in 1..m : /\ accesses'[k].addr = b
                          /\ m_open_ecs'[b].dyninstr = accesses'[k].dyninstr + 1
                          /\ m_open_ecs'[b].time = accesses'[k].time + 1
    <3> SUFFICES ASSUME NEW b \in Address, m_open_ecs'[b].dyninstr > 0
                 PROVE  \E k \in 1..m : /\ accesses[k].addr = b
                                        /\ m_open_ecs'[b].dyninstr = accesses[k].dyninstr + 1
                                        /\ m_open_ecs'[b].time = accesses[k].time + 1
      BY Zenon
    <3>1. CASE b = a
      BY Zenon, <1>2, <1>3, <2>1, <3>1 DEF m
    <3>2. CASE b # a
      <4>1. m_open_ecs'[b] = m_open_ecs[b]
        BY Zenon, <2>1, <3>2
      <4>2. PICK k \in 1..n : /\ accesses[k].addr = b
                              /\ m_open_ecs[b].dyninstr = accesses[k].dyninstr + 1
                              /\ m_open_ecs[b].time = accesses[k].time + 1
        BY Zenon, <4>1 DEF OpenUpTo
      <4>. QED BY Zenon, <1>2, <4>1, <4>2 DEF m
    <3>. QED BY Zenon, <3>1, <3>2
  <2>. QED BY Zenon, <1>8, <2>2, <2>3, <2>4 DEF OpenUpTo, m
<1>. QED BY Zenon, <1>9, <1>10 DEF ClassMoves

\* A step to the end or to a failure needs no more than the history.
LEMMA NothingToShow ==
  ASSUME ImportedInv, UNCHANGED <<accesses, instr, curtime>>, pc' \in {"handle", "close", "done", "failed"},
         pc' = "done" => closing' = {}, pc' # "failed" => lost'
  PROVE  ImportedInv'
<1>1. AccessInv'
  BY Zenon DEF ImportedInv, AccessInv
<1>2. (pc' = "read" => ~ending') /\ (pc' = "done" => closing' = {})
  BY Zenon
<1>3. /\ ~(~lost' /\ pc' \in {"read", "handle"})
      /\ ~(~lost' /\ pc' \in {"close", "done"})
  BY Zenon
<1>. QED BY Zenon, <1>1, <1>2, <1>3 DEF ImportedInv

\* Handling an access takes the rows and the open classes one access further.
LEMMA HandleAccessImported ==
  ASSUME Inv, ImportedInv, HandleAccess
  PROVE  ImportedInv'
<1> DEFINE entry == Head(delayed_entries)
           a == Head(entry.accs).addr
           type == Head(entry.accs).type
           row == CloseAt(entry, a, type)
<1>1. TypeOK /\ KeyInv /\ AccessInv
  BY Zenon DEF Inv, ImportedInv
<1>2. /\ pc = "handle" /\ delayed_entries # <<>> /\ Ready(entry)
      /\ UNCHANGED <<opt, ending, m_last_instr, m_last_time, closing, curtime, instr, m_time_trace_start,
                     branches_taken, m_last_was_conditional_branch, accesses>>
  BY Zenon DEF HandleAccess, AnyReady, readvars, endvars
<1>3. \/ /\ Skipped(entry, a) /\ delayed_entries' = NextAccess(delayed_entries)
         /\ UNCHANGED <<pc, m_open_ecs, m_row_count, cache, trace, lost>>
      \/ /\ ~Skipped(entry, a) /\ AddTraceEvent(row)
         /\ m_open_ecs' = [m_open_ecs EXCEPT ![a] =
              [open |-> TRUE, dyninstr |-> entry.dyninstr + 1, time |-> entry.time + 1]]
         /\ delayed_entries' = NextAccess(delayed_entries) /\ UNCHANGED <<pc, lost>>
      \/ lost' /\ pc' \in {"handle", "failed"}
  BY Zenon, <1>2 DEF HandleAccess, tablevars
<1>4. entry \in Entry /\ a \in Address /\ type \in {"R", "W"}
  BY Zenon, <1>1, <1>2, FirstEntry DEF Access
<1> HIDE DEF entry, a, type, row
<1>5. CASE lost'
  <2>1. pc' \in {"handle", "close", "done", "failed"} /\ pc' # "done"
    BY Zenon, <1>2, <1>3
  <2>. QED BY Zenon, <1>2, <1>5, <2>1, NothingToShow
<1>6. CASE ~lost'
  <2>1. ~lost /\ pc' = "handle"
    BY <1>2, <1>3, <1>6
  <2>2. PICK n \in 0..Len(accesses) : Waits(delayed_entries, accesses, n) /\ OpenUpTo(n) /\ RowsUpTo(n)
    BY Zenon, <1>2, <2>1 DEF ImportedInv
  <2>3. /\ n \in Nat /\ n + 1 \in 1..Len(accesses)
        /\ Waits(NextAccess(delayed_entries), accesses, n + 1)
        /\ IsAccess(n + 1, entry, a, type)
    BY Zenon, <1>2, <2>1, <2>2, NextHandled DEF entry, a, type
  <2>4. delayed_entries' = NextAccess(delayed_entries)
    BY Zenon, <1>3, <1>6
  <2>5. OpenUpTo(n + 1)' /\ RowsUpTo(n + 1)'
    <3>1. CASE /\ Skipped(entry, a) /\ delayed_entries' = NextAccess(delayed_entries)
               /\ UNCHANGED <<pc, m_open_ecs, m_row_count, cache, trace, lost>>
      <4>1. accesses[n + 1].addr = a /\ accesses[n + 1].dyninstr = entry.dyninstr
        BY <2>3 DEF IsAccess
      <4>2. ~Counted(n + 1) /\ (Matching(a) => entry.dyninstr < m_open_ecs[a].dyninstr)
        BY Zenon, <1>1, <1>4, <2>2, <2>3, <3>1, <4>1, SkippedNotCounted
      <4>3. Rows' = Rows
        BY Zenon, <3>1 DEF Rows
      <4>4. OpenUpTo(n + 1)'
        <5>1. ClassMoves(n, entry, a)
          BY Zenon, <3>1, <4>2 DEF ClassMoves
        <5>. QED BY Zenon, <1>1, <1>2, <1>4, <2>2, <2>3, <5>1, OpenNext
      <4>5. RowsUpTo(n + 1)'
        BY Zenon, <1>2, <2>2, <2>3, <4>2, <4>3, RowsNext
      <4>. QED BY Zenon, <4>4, <4>5
    <3>2. CASE /\ ~Skipped(entry, a) /\ AddTraceEvent(row)
               /\ m_open_ecs' = [m_open_ecs EXCEPT ![a] =
                    [open |-> TRUE, dyninstr |-> entry.dyninstr + 1, time |-> entry.time + 1]]
      <4>1. /\ Counted(n + 1) <=> Imported(type)
            /\ IsClass(row, n + 1)
            /\ \A j \in 1..n : accesses[j].addr = a => accesses[j].dyninstr < entry.dyninstr
        BY Zenon, <1>1, <1>2, <1>4, <2>1, <2>2, <2>3, <3>2, ClosedIsClass DEF row
      <4>2. Matching(a)
        BY Zenon, <3>2 DEF Skipped
      <4>3. row.type = type
        BY Zenon DEF row, CloseAt, Row
      <4>4. Rows' = IF Imported(type) THEN Rows \cup {row} ELSE Rows
        BY Zenon, <3>2, <4>3 DEF AddTraceEvent, InsertMultiple, Send, Rows
      <4>5. OpenUpTo(n + 1)'
        <5>1. ClassMoves(n, entry, a)
          BY Zenon, <3>2, <4>1, <4>2 DEF ClassMoves
        <5>. QED BY Zenon, <1>1, <1>2, <1>4, <2>2, <2>3, <5>1, OpenNext
      <4>6. RowsUpTo(n + 1)'
        BY Zenon, <1>2, <2>2, <2>3, <4>1, <4>4, RowsNext
      <4>. QED BY Zenon, <4>5, <4>6
    <3>. QED BY Zenon, <1>3, <1>6, <3>1, <3>2
  <2>6. n + 1 \in 0..Len(accesses)
    BY <2>2, <2>3
  <2>7. AccessInv'
    BY Zenon, <1>1, <1>2 DEF AccessInv
  <2>8. \E m \in 0..Len(accesses') : Waits(delayed_entries', accesses', m) /\ OpenUpTo(m)' /\ RowsUpTo(m)'
    <3>1. PICK m : m = n + 1
      BY Zenon
    <3>2. accesses' = accesses
      BY Zenon, <1>2
    <3>3. m \in 0..Len(accesses') /\ Waits(delayed_entries', accesses', m)
      BY Zenon, <2>3, <2>4, <2>6, <3>1, <3>2
    <3>4. OpenUpTo(m)' /\ RowsUpTo(m)'
      BY Zenon, <2>5, <3>1
    <3>. QED BY Zenon, <3>3, <3>4
  <2>. QED BY Zenon, <2>1, <2>7, <2>8 DEF ImportedInv
<1>. QED BY Zenon, <1>5, <1>6

\* What close_ec_intervals finds at the end of the trace.
LEMMA MarginsClosed ==
  ASSUME Inv, AccessInv, pc = "handle", ~lost, OpenUpTo(Len(accesses)),
         UNCHANGED <<opt, accesses, m_time_trace_start>>,
         m_open_ecs' = [a \in Address |->
           IF ~m_open_ecs[a].open /\ opt.has_mm /\ a \in opt.mm
             THEN [open |-> TRUE, dyninstr |-> 0, time |-> m_time_trace_start]
             ELSE m_open_ecs[a]]
  PROVE  ClosedMargins'
<1> DEFINE n == Len(accesses)
<1>1. TypeOK /\ OpenInv
  BY Zenon DEF Inv
<1>2. \A k \in 1..n : accesses[k].dyninstr \in Nat
  BY Zenon, <1>1, AccessTypes
<1>3. SUFFICES ASSUME NEW a \in Address PROVE MarginClosed(a)'
  BY Zenon DEF ClosedMargins
<1>4. m_open_ecs[a].dyninstr \in Nat /\ m_open_ecs[a].open \in BOOLEAN
  <2>1. m_open_ecs[a] \in [open: BOOLEAN, dyninstr: 0..MaxInstr, time: Nat]
    BY Zenon, <1>1 DEF TypeOK
  <2>. QED BY Zenon, <1>1, <2>1, Typed
<1>5. /\ m_open_ecs[a].open <=> m_open_ecs[a].dyninstr > 0
      /\ m_open_ecs[a].open => Matching(a)
  BY Zenon, <1>1 DEF OpenInv, OpenUpTo
<1>6. \A k \in 1..n : Matching(a) /\ accesses[k].addr = a =>
        accesses[k].dyninstr < m_open_ecs[a].dyninstr /\ m_open_ecs[a].dyninstr > 0
  <2> SUFFICES ASSUME NEW k \in 1..n, Matching(a), accesses[k].addr = a
               PROVE  accesses[k].dyninstr < m_open_ecs[a].dyninstr /\ m_open_ecs[a].dyninstr > 0
    BY Zenon
  <2>1. accesses[k].dyninstr < m_open_ecs[a].dyninstr /\ accesses[k].dyninstr \in Nat
    BY Zenon, <1>2 DEF OpenUpTo
  <2>. QED BY <1>4, <2>1
<1>7. m_open_ecs[a].dyninstr > 0 =>
        \E k \in 1..n : /\ accesses[k].addr = a
                        /\ m_open_ecs[a].dyninstr = accesses[k].dyninstr + 1
                        /\ m_open_ecs[a].time = accesses[k].time + 1
  BY Zenon DEF OpenUpTo
<1> HIDE DEF n
<1>8. /\ m_open_ecs'[a].open <=>
           Matching(a) /\ (opt.has_mm \/ \E k \in 1..n : accesses[k].addr = a)
      /\ \A k \in 1..n : Matching(a) /\ accesses[k].addr = a =>
           accesses[k].dyninstr < m_open_ecs'[a].dyninstr
      /\ m_open_ecs'[a].dyninstr > 0 =>
           \E k \in 1..n : /\ accesses[k].addr = a
                           /\ m_open_ecs'[a].dyninstr = accesses[k].dyninstr + 1
                           /\ m_open_ecs'[a].time = accesses[k].time + 1
      /\ m_open_ecs'[a].open /\ m_open_ecs'[a].dyninstr = 0 => m_open_ecs'[a].time = m_time_trace_start
  <2>1. CASE ~m_open_ecs[a].open /\ opt.has_mm /\ a \in opt.mm
    <3>1. m_open_ecs'[a] = [open |-> TRUE, dyninstr |-> 0, time |-> m_time_trace_start]
      BY Zenon, <2>1
    <3>2. m_open_ecs'[a].open /\ m_open_ecs'[a].dyninstr = 0 /\ m_open_ecs'[a].time = m_time_trace_start
      BY <3>1
    <3>3. Matching(a)
      BY Zenon, <2>1 DEF Matching
    <3>4. ~(m_open_ecs'[a].dyninstr > 0)
      BY <3>2
    <3>. QED BY Zenon, <1>5, <1>6, <2>1, <3>2, <3>3, <3>4
  <2>2. CASE ~(~m_open_ecs[a].open /\ opt.has_mm /\ a \in opt.mm)
    <3>1. m_open_ecs'[a] = m_open_ecs[a]
      BY Zenon, <2>2
    <3>2. ~(m_open_ecs[a].open /\ m_open_ecs[a].dyninstr = 0)
      BY <1>4, <1>5
    <3>3. Matching(a) /\ opt.has_mm => m_open_ecs[a].open
      BY Zenon, <2>2 DEF Matching
    <3>. QED BY Zenon, <1>5, <1>6, <1>7, <3>1, <3>2, <3>3
  <2>. QED BY Zenon, <2>1, <2>2
<1>9. Matching(a)' <=> Matching(a)
  BY Zenon DEF Matching
<1>. QED BY Zenon, <1>8, <1>9 DEF MarginClosed, n

\* With nothing left to handle the importer reads on, or closes the classes.
LEMMA HandledImported ==
  ASSUME Inv, ImportedInv, Handled
  PROVE  ImportedInv'
<1>1. TypeOK /\ AccessInv
  BY Zenon DEF Inv, ImportedInv
<1>2. /\ pc = "handle" /\ ~AnyReady
      /\ UNCHANGED <<opt, ending, curtime, instr, m_time_trace_start, branches_taken, accesses,
                     delayed_entries, m_row_count, cache, trace, lost>>
  BY Zenon DEF Handled, readvars
<1>3. AccessInv' /\ Rows' = Rows
  BY Zenon, <1>1, <1>2 DEF AccessInv, Rows
<1>4. CASE lost
  <2>1. lost' /\ (~ending => ~ending')
    BY <1>2, <1>4
  <2>2. pc' = IF ending THEN "close" ELSE "read"
    BY Zenon DEF Handled
  <2>3. pc' = "close" \/ (pc' = "read" /\ ~ending')
    BY Zenon, <2>1, <2>2
  <2>. QED BY Zenon, <1>3, <2>1, <2>3 DEF ImportedInv
<1>5. CASE ~lost
  <2>1. PICK n \in 0..Len(accesses) : Waits(delayed_entries, accesses, n) /\ OpenUpTo(n) /\ RowsUpTo(n)
    BY Zenon, <1>2, <1>5 DEF ImportedInv
  <2>2. n \in Nat
    BY <1>1, AccessTypes
  <2>3. CASE ~ending
    <3>1. pc' = "read" /\ m_open_ecs' = m_open_ecs
      BY Zenon, <2>3 DEF Handled
    <3>2. \A b : Mask(b)' = Mask(b)
      BY Zenon, <1>2 DEF Mask, BranchMask, Delayed
    <3>3. Delayed => \A k \in 1..n : ending' \/ accesses[k].branches_before + Window <= Len(branches_taken')
      BY Zenon, <1>2, <2>1 DEF OpenUpTo
    <3>4. OpenUpTo(n)' /\ RowsUpTo(n)'
      BY Zenon, <1>1, <1>2, <1>3, <2>1, <2>2, <3>1, <3>2, <3>3, KnownStays
    <3>. QED BY Zenon, <1>2, <1>3, <2>1, <2>3, <3>1, <3>4 DEF ImportedInv
  <2>4. CASE ending
    <3>1. /\ pc' = "close"
          /\ m_open_ecs' = [a \in Address |->
               IF ~m_open_ecs[a].open /\ opt.has_mm /\ a \in opt.mm
                 THEN [open |-> TRUE, dyninstr |-> 0, time |-> m_time_trace_start]
                 ELSE m_open_ecs[a]]
          /\ closing' = {a \in Address : m_open_ecs'[a].open}
      BY Zenon, <2>4 DEF Handled
    <3>2. delayed_entries = <<>>
      BY Zenon, <1>2, <2>4 DEF AnyReady, Ready
    <3>3. n = Len(accesses)
      BY Zenon, <2>1, <3>2, NoneWaits
    <3>4. OpenUpTo(Len(accesses)) /\ RowsUpTo(Len(accesses))
      BY Zenon, <2>1, <3>3
    <3>5. ClosedMargins'
      BY Zenon, <1>1, <1>2, <1>5, <3>1, <3>4, MarginsClosed
    <3>6. ClosedRows'
      <4>1. /\ \A k : Counted(k)' <=> Counted(k)
            /\ \A r, k : IsClass(r, k)' <=> IsClass(r, k)
        BY Zenon, <1>2, SameHistory
      <4>2. \A r \in Rows' : \E k \in 1..Len(accesses') : Counted(k)' /\ IsClass(r, k)'
        BY Zenon, <1>2, <1>3, <3>4, <4>1 DEF RowsUpTo
      <4>3. \A k \in 1..Len(accesses') : Counted(k)' => \E r \in Rows' : IsClass(r, k)'
        BY Zenon, <1>2, <1>3, <3>4, <4>1 DEF RowsUpTo
      <4>4. \A a \in Address \ closing' : ~HasLast(a)'
        BY Zenon, <3>1 DEF HasLast
      <4>5. \A a \in closing' : m_open_ecs'[a].open
        BY Zenon, <3>1
      <4>. QED BY Zenon, <4>2, <4>3, <4>4, <4>5 DEF ClosedRows
    <3>. QED BY Zenon, <1>3, <3>1, <3>5, <3>6 DEF ImportedInv
  <2>. QED BY Zenon, <2>3, <2>4
<1>. QED BY Zenon, <1>4, <1>5

\* Closing the class of an address adds its last row.
LEMMA CloseECImported ==
  ASSUME Inv, ImportedInv, CloseEC
  PROVE  ImportedInv'
<1>1. TypeOK /\ AccessInv
  BY Zenon DEF Inv, ImportedInv
<1>2. /\ pc = "close"
      /\ UNCHANGED <<opt, ending, curtime, instr, m_time_trace_start, branches_taken, accesses,
                     delayed_entries, m_open_ecs, m_last_instr, m_last_time>>
  BY Zenon DEF CloseEC, readvars
<1>3. PICK a \in closing :
        /\ LET row == Row(a, m_open_ecs[a], [dyninstr |-> m_last_instr, time |-> m_last_time],
                          opt.rightmargin, {})
           IN \/ /\ IF NothingLeft(a)
                      THEN UNCHANGED <<cache, trace, m_row_count>>
                      ELSE AddTraceEvent(row)
                 /\ UNCHANGED <<pc, lost>>
              \/ /\ ~NothingLeft(a)
                 /\ AddTraceEventFails(row)
                 /\ pc' = "failed" /\ lost' = TRUE
        /\ closing' = closing \ {a}
  BY Zenon DEF CloseEC
<1>4. \/ NothingLeft(a) /\ UNCHANGED <<cache, trace, pc, lost>>
      \/ ~NothingLeft(a) /\ AddTraceEvent(LastClass(a)) /\ UNCHANGED <<pc, lost>>
      \/ pc' = "failed" /\ lost' = TRUE
  BY Zenon, <1>3 DEF LastClass
<1>5. CASE pc' = "failed" \/ lost'
  <2>1. pc' \in {"handle", "close", "done", "failed"} /\ pc' # "done" /\ (pc' # "failed" => lost')
    BY Zenon, <1>2, <1>4, <1>5
  <2>. QED BY Zenon, <1>2, <2>1, NothingToShow
<1>6. CASE ~(pc' = "failed" \/ lost')
  <2>1. ~lost /\ pc' = "close"
    BY <1>2, <1>4, <1>6
  <2>2. ClosedRows /\ ClosedMargins
    BY Zenon, <1>2, <2>1 DEF ImportedInv
  <2>3. AccessInv'
    BY Zenon, <1>1, <1>2 DEF AccessInv
  <2>4. /\ \A k : Counted(k)' <=> Counted(k)
        /\ \A r, k : IsClass(r, k)' <=> IsClass(r, k)
        /\ \A b : Matching(b)' <=> Matching(b)
    BY Zenon, <1>2, SameHistory
  <2>5. ClosedMargins'
    BY Zenon, <1>2, <2>2, <2>4 DEF ClosedMargins, MarginClosed
  <2>6. /\ \A b : HasLast(b)' <=> HasLast(b)
        /\ \A b : LastClass(b)' = LastClass(b)
    BY Zenon, <1>2 DEF HasLast, LastClass, NothingLeft, Imported
  <2>7. Rows' = IF HasLast(a) THEN Rows \cup {LastClass(a)} ELSE Rows
    <3>1. m_open_ecs[a].open /\ LastClass(a).type = opt.rightmargin
      BY Zenon, <2>2 DEF ClosedRows, LastClass, Row
    <3>2. CASE NothingLeft(a)
      BY Zenon, <1>4, <1>6, <3>2 DEF HasLast, Rows
    <3>3. CASE ~NothingLeft(a) /\ AddTraceEvent(LastClass(a))
      BY Zenon, <3>1, <3>3 DEF HasLast, AddTraceEvent, InsertMultiple, Send, Rows
    <3>. QED BY Zenon, <1>4, <1>6, <3>2, <3>3
  <2>8. a \in Address
    BY Zenon, <1>1 DEF TypeOK
  <2>9. \A r \in Rows' : \/ \E k \in 1..Len(accesses') : Counted(k)' /\ IsClass(r, k)'
                         \/ \E b \in Address \ closing' : HasLast(b)' /\ r = LastClass(b)'
    <3> SUFFICES ASSUME NEW r \in Rows'
                 PROVE  \/ \E k \in 1..Len(accesses) : Counted(k) /\ IsClass(r, k)
                        \/ \E b \in Address \ closing' : HasLast(b) /\ r = LastClass(b)
      BY Zenon, <1>2, <2>4, <2>6
    <3>1. CASE r \in Rows
      BY Zenon, <1>3, <2>2, <3>1 DEF ClosedRows
    <3>2. CASE HasLast(a) /\ r = LastClass(a)
      BY Zenon, <1>3, <2>8, <3>2
    <3>. QED BY Zenon, <2>7, <3>1, <3>2
  <2>10. \A k \in 1..Len(accesses') : Counted(k)' => \E r \in Rows' : IsClass(r, k)'
    <3>1. \A r \in Rows : r \in Rows'
      BY Zenon, <2>7
    <3>. QED BY Zenon, <1>2, <2>2, <2>4, <3>1 DEF ClosedRows
  <2>11. \A b \in Address \ closing' : HasLast(b)' => LastClass(b)' \in Rows'
    <3> SUFFICES ASSUME NEW b \in Address \ closing', HasLast(b) PROVE LastClass(b) \in Rows'
      BY Zenon, <2>6
    <3>1. CASE b = a
      BY Zenon, <2>7, <3>1
    <3>2. CASE b # a
      BY Zenon, <1>3, <2>2, <2>7, <3>2 DEF ClosedRows
    <3>. QED BY Zenon, <3>1, <3>2
  <2>12. \A b \in closing' : m_open_ecs'[b].open
    BY Zenon, <1>2, <1>3, <2>2 DEF ClosedRows
  <2>13. ClosedRows'
    BY Zenon, <2>9, <2>10, <2>11, <2>12 DEF ClosedRows
  <2>. QED BY Zenon, <2>1, <2>3, <2>5, <2>13 DEF ImportedInv
<1>. QED BY Zenon, <1>5, <1>6

\* Flushing the cache changes neither the rows nor the classes.
LEMMA EndingImported ==
  ASSUME Inv, ImportedInv, FlushAndCheck \/ CheckFails
  PROVE  ImportedInv'
<1>1. /\ pc = "close" /\ closing = {}
      /\ UNCHANGED <<opt, ending, curtime, instr, m_time_trace_start, branches_taken, accesses,
                     delayed_entries, m_open_ecs, m_last_instr, m_last_time, closing>>
      /\ pc' \in {"failed", "done"}
  BY Zenon DEF FlushAndCheck, CheckFails, readvars, endvars
<1>2. CASE pc' = "failed" \/ lost'
  BY Zenon, <1>1, <1>2, NothingToShow
<1>3. CASE ~(pc' = "failed" \/ lost')
  <2>1. Send(cache) /\ lost' = lost
    BY Zenon, <1>3 DEF FlushAndCheck, CheckFails
  <2>2. ~lost /\ pc' = "done"
    BY <1>1, <1>3, <2>1
  <2>3. Rows' = Rows
    BY Zenon, <2>1 DEF Send, Rows
  <2>4. ClosedRows /\ ClosedMargins /\ AccessInv
    BY Zenon, <1>1, <2>2 DEF ImportedInv
  <2>5. /\ \A k : Counted(k)' <=> Counted(k)
        /\ \A r, k : IsClass(r, k)' <=> IsClass(r, k)
        /\ \A b : Matching(b)' <=> Matching(b)
        /\ \A b : HasLast(b)' <=> HasLast(b)
        /\ \A b : LastClass(b)' = LastClass(b)
    BY Zenon, <1>1, SameHistory DEF HasLast, LastClass, NothingLeft, Imported
  <2>6. ClosedMargins' /\ AccessInv'
    BY Zenon, <1>1, <2>4, <2>5 DEF ClosedMargins, MarginClosed, AccessInv
  <2>7. ClosedRows'
    BY Zenon, <1>1, <2>3, <2>4, <2>5 DEF ClosedRows
  <2>. QED BY Zenon, <1>1, <2>2, <2>6, <2>7 DEF ImportedInv
<1>. QED BY Zenon, <1>2, <1>3

-----------------------------------------------------------------------------
(***************************************************************************)
(* The rows are the classes of the trace                                   *)
(***************************************************************************)

\* The first access of an instruction to an address is the one FirstAccess picks.
LEMMA FirstAccessIs ==
  ASSUME TypeOK, NEW a, NEW k \in 1..Len(accesses), accesses[k].addr = a,
         \A j \in 1..(k - 1) : accesses[j].addr = a => accesses[j].dyninstr # accesses[k].dyninstr
  PROVE  FirstAccess(a, accesses[k].dyninstr) = accesses[k]
<1> DEFINE S == {j \in DOMAIN accesses : accesses[j].addr = a /\ accesses[j].dyninstr = accesses[k].dyninstr}
<1>1. DOMAIN accesses = 1..Len(accesses) /\ Len(accesses) \in Nat
  BY Zenon, AccessTypes, SeqLen
<1>2. k \in S /\ (\A j \in S : j \in 1..Len(accesses) /\ j \notin 1..(k - 1))
  BY Zenon, <1>1
<1>3. FirstAccess(a, accesses[k].dyninstr) = accesses[Min(S)]
  BY Zenon DEF FirstAccess
<1> HIDE DEF S
<1>4. S \subseteq Int /\ \A j \in S : k <= j
  BY <1>1, <1>2
<1>5. Min(S) = k
  BY Zenon, <1>2, <1>4, MinIs
<1>. QED BY Zenon, <1>3, <1>5

\* Access k is the first one of instruction i to its address.
IsFirst(k, a, i) ==
  /\ accesses[k].addr = a /\ accesses[k].dyninstr = i
  /\ \A j \in 1..(k - 1) : accesses[j].addr = a => accesses[j].dyninstr # i
  /\ FirstAccess(a, i) = accesses[k]

\* Every instruction that accesses an address has such an access.
LEMMA FirstAccessExists ==
  ASSUME TypeOK, NEW a, NEW i \in AccessedAt(a)
  PROVE  \E k \in 1..Len(accesses) : IsFirst(k, a, i)
<1> DEFINE S == {j \in DOMAIN accesses : accesses[j].addr = a /\ accesses[j].dyninstr = i}
<1>1. DOMAIN accesses = 1..Len(accesses) /\ Len(accesses) \in Nat
  BY Zenon, AccessTypes, SeqLen
<1>2. S # {} /\ \A j \in S : j \in 1..Len(accesses) /\ accesses[j].addr = a /\ accesses[j].dyninstr = i
  BY Zenon, <1>1 DEF AccessedAt
<1>3. \A j \in 1..Len(accesses) : accesses[j].addr = a /\ accesses[j].dyninstr = i => j \in S
  BY Zenon, <1>1
<1> HIDE DEF S
<1>4. S \in SUBSET Nat
  BY <1>1, <1>2
<1>5. PICK k \in S : \A j \in S : k <= j
  BY Zenon, <1>2, <1>4, LeastNatural
<1>6. k \in 1..Len(accesses) /\ accesses[k].addr = a /\ accesses[k].dyninstr = i
  BY Zenon, <1>2
<1>7. \A j \in 1..(k - 1) : accesses[j].addr = a => accesses[j].dyninstr # i
  <2>1. \A j \in 1..(k - 1) : j \in 1..Len(accesses) /\ ~(k <= j)
    BY <1>1, <1>6
  <2>. QED BY Zenon, <1>3, <1>5, <2>1
<1>8. FirstAccess(a, i) = accesses[k]
  BY Zenon, <1>6, <1>7, FirstAccessIs
<1>. QED BY Zenon, <1>6, <1>7, <1>8 DEF IsFirst

\* A class begins behind the last instruction before that accesses the address.
LEMMA MarginAfter ==
  ASSUME TypeOK, AccessInv, NEW a, NEW i \in Nat, NEW p \in 1..Len(accesses),
         accesses[p].addr = a, accesses[p].dyninstr < i,
         \A j \in 1..Len(accesses) : accesses[j].addr = a /\ accesses[j].dyninstr < i =>
           accesses[j].dyninstr <= accesses[p].dyninstr
  PROVE  LeftMargin(a, i) = [dyninstr |-> accesses[p].dyninstr + 1, time |-> accesses[p].time + 1]
<1> DEFINE before == {j \in AccessedAt(a) : j < i}
           d == accesses[p].dyninstr
<1>1. DOMAIN accesses = 1..Len(accesses)
  BY Zenon, AccessTypes, SeqLen
<1>2. d \in AccessedAt(a) /\ d \in before
  BY Zenon, <1>1 DEF AccessedAt
<1>3. \A x \in before : \E j \in 1..Len(accesses) :
        accesses[j].addr = a /\ accesses[j].dyninstr = x /\ accesses[j].dyninstr < i
  BY Zenon, <1>1 DEF AccessedAt
<1>4. \A j \in 1..Len(accesses) : accesses[j].dyninstr \in Nat
  BY Zenon, AccessTypes
<1>5. LeftMargin(a, i) = IF before = {} THEN [dyninstr |-> 0, time |-> m_time_trace_start]
                           ELSE [dyninstr |-> Max(before) + 1, time |-> FirstAccess(a, Max(before)).time + 1]
  BY Zenon DEF LeftMargin
<1>6. d \in Nat
  BY Zenon, <1>4
<1> HIDE DEF before, d
<1>7. \A x \in before : x \in Nat /\ x <= d
  BY Zenon, <1>3, <1>4 DEF d
<1>8. before \subseteq Int /\ \A x \in before : d >= x
  BY <1>6, <1>7
<1>9. Max(before) = d
  BY Zenon, <1>2, <1>8, MaxIs
<1>10. PICK q \in 1..Len(accesses) : IsFirst(q, a, d)
  BY Zenon, <1>2, FirstAccessExists
<1>11. accesses[q].time = accesses[p].time /\ FirstAccess(a, d) = accesses[q]
  BY Zenon, <1>10 DEF IsFirst, AccessInv, d
<1>. QED BY Zenon, <1>2, <1>5, <1>9, <1>11 DEF d

\* ... and with the trace, if there is none.
LEMMA MarginFirst ==
  ASSUME TypeOK, NEW a, NEW i,
         \A j \in 1..Len(accesses) : ~(accesses[j].addr = a /\ accesses[j].dyninstr < i)
  PROVE  LeftMargin(a, i) = [dyninstr |-> 0, time |-> m_time_trace_start]
<1>1. DOMAIN accesses = 1..Len(accesses)
  BY Zenon, AccessTypes, SeqLen
<1>2. {j \in AccessedAt(a) : j < i} = {}
  BY Zenon, <1>1 DEF AccessedAt
<1>. QED BY Zenon, <1>2 DEF LeftMargin

\* The row of an access is the class the trace has for it.
LEMMA ClassIsReal ==
  ASSUME TypeOK, AccessInv, NEW k \in 1..Len(accesses), Counted(k), NEW r, IsClass(r, k)
  PROVE  r = RealClass(accesses[k].addr, accesses[k])
<1> DEFINE a == accesses[k].addr
           i == accesses[k].dyninstr
<1>1. /\ \A j \in 1..Len(accesses) : accesses[j].dyninstr \in Nat
      /\ Len(accesses) \in Nat
  BY Zenon, AccessTypes
<1>2. \A j \in 1..(k - 1) : j \in 1..Len(accesses) /\ j <= k
  BY <1>1
<1>3. \A j \in 1..Len(accesses) : j \notin 1..(k - 1) => k <= j
  BY <1>1
<1>4. \A j \in 1..Len(accesses) : j \notin 1..(k - 1) => ~(accesses[j].dyninstr < i)
  <2> SUFFICES ASSUME NEW j \in 1..Len(accesses), j \notin 1..(k - 1) PROVE ~(accesses[j].dyninstr < i)
    BY Zenon
  <2>1. i <= accesses[j].dyninstr /\ i \in Nat /\ accesses[j].dyninstr \in Nat
    BY Zenon, <1>1, <1>3 DEF AccessInv
  <2> HIDE DEF i
  <2>. QED BY <2>1
<1>5. LeftMargin(a, i) = [dyninstr |-> r.instr1, time |-> r.time1]
  <2>1. CASE /\ \A j \in 1..(k - 1) : accesses[j].addr # a
             /\ r.instr1 = 0 /\ r.time1 = m_time_trace_start
    <3>1. \A j \in 1..Len(accesses) : ~(accesses[j].addr = a /\ accesses[j].dyninstr < i)
      BY Zenon, <1>4, <2>1
    <3>. QED BY Zenon, <2>1, <3>1, MarginFirst
  <2>2. ASSUME NEW p \in 1..(k - 1), accesses[p].addr = a,
               \A j \in 1..(k - 1) : accesses[j].addr = a => accesses[j].dyninstr <= accesses[p].dyninstr,
               r.instr1 = accesses[p].dyninstr + 1, r.time1 = accesses[p].time + 1
        PROVE  LeftMargin(a, i) = [dyninstr |-> r.instr1, time |-> r.time1]
    <3>1. p \in 1..Len(accesses) /\ i \in Nat /\ accesses[p].dyninstr \in Nat
      BY Zenon, <1>1, <1>2
    <3>2. accesses[p].dyninstr <= i /\ accesses[p].dyninstr # i
      BY Zenon, <1>2, <2>2, <3>1 DEF AccessInv, Counted
    <3> HIDE DEF i
    <3>3. accesses[p].dyninstr < i
      BY <3>1, <3>2
    <3>4. \A j \in 1..Len(accesses) : accesses[j].addr = a /\ accesses[j].dyninstr < i =>
            accesses[j].dyninstr <= accesses[p].dyninstr
      BY Zenon, <1>4, <2>2
    <3>5. LeftMargin(a, i) = [dyninstr |-> accesses[p].dyninstr + 1, time |-> accesses[p].time + 1]
      BY Zenon, <2>2, <3>1, <3>3, <3>4, MarginAfter
    <3>. QED BY Zenon, <2>2, <3>5
  <2>. QED BY Zenon, <2>1, <2>2 DEF IsClass, LeftOf
<1>6. r = Row(a, [dyninstr |-> r.instr1, time |-> r.time1], accesses[k], accesses[k].type,
              Mask(accesses[k].branches_before))
  BY Zenon DEF IsClass
<1>. QED BY Zenon, <1>5, <1>6 DEF RealClass, Mask

\* The class that is left of an address is the one the trace has.
LEMMA LastIsFake ==
  ASSUME Inv, AccessInv, NEW a \in Address, MarginClosed(a), m_open_ecs[a].open
  PROVE  LeftMargin(a, MaxInstr + 1) = [dyninstr |-> m_open_ecs[a].dyninstr, time |-> m_open_ecs[a].time]
<1>1. TypeOK /\ Matching(a)
  BY Zenon DEF Inv, MarginClosed
<1>2. \A j \in 1..Len(accesses) : accesses[j].dyninstr \in Nat /\ accesses[j].dyninstr < MaxInstr + 1
  <2>1. accesses \in Seq(AccessType)
    BY Zenon, <1>1, AccessTypes
  <2>2. \A j \in 1..Len(accesses) : accesses[j] \in AccessType
    BY <2>1
  <2> SUFFICES ASSUME NEW j \in 1..Len(accesses)
               PROVE  accesses[j].dyninstr \in Nat /\ accesses[j].dyninstr < MaxInstr + 1
    BY Zenon
  <2>3. accesses[j].dyninstr \in 0..(MaxInstr - 1)
    BY Zenon, <2>2 DEF AccessType
  <2>. QED BY <2>3, ImportAssumption
<1>3. m_open_ecs[a].dyninstr \in Nat /\ MaxInstr + 1 \in Nat
  <2>1. m_open_ecs[a].dyninstr \in Nat
    BY Zenon, <1>1, Typed
  <2>. QED BY <2>1, ImportAssumption
<1>4. \A j \in 1..Len(accesses) : accesses[j].addr = a => accesses[j].dyninstr < m_open_ecs[a].dyninstr
  BY Zenon, <1>1 DEF MarginClosed
<1>5. CASE m_open_ecs[a].dyninstr = 0
  <2>1. \A j \in 1..Len(accesses) : accesses[j].addr # a
    <3> SUFFICES ASSUME NEW j \in 1..Len(accesses), accesses[j].addr = a PROVE FALSE
      BY Zenon
    <3>1. accesses[j].dyninstr < m_open_ecs[a].dyninstr /\ accesses[j].dyninstr \in Nat
      BY Zenon, <1>2, <1>4
    <3>. QED BY <1>5, <3>1
  <2>2. m_open_ecs[a].time = m_time_trace_start
    BY Zenon, <1>5 DEF MarginClosed
  <2>3. LeftMargin(a, MaxInstr + 1) = [dyninstr |-> 0, time |-> m_time_trace_start]
    BY Zenon, <1>1, <2>1, MarginFirst
  <2>. QED BY Zenon, <1>5, <2>2, <2>3
<1>6. CASE m_open_ecs[a].dyninstr > 0
  <2>1. PICK p \in 1..Len(accesses) : /\ accesses[p].addr = a
                                      /\ m_open_ecs[a].dyninstr = accesses[p].dyninstr + 1
                                      /\ m_open_ecs[a].time = accesses[p].time + 1
    BY Zenon, <1>6 DEF MarginClosed
  <2>2. accesses[p].dyninstr \in Nat /\ accesses[p].dyninstr < MaxInstr + 1
    BY Zenon, <1>2
  <2>3. \A j \in 1..Len(accesses) : accesses[j].addr = a /\ accesses[j].dyninstr < MaxInstr + 1 =>
          accesses[j].dyninstr <= accesses[p].dyninstr
    <3> SUFFICES ASSUME NEW j \in 1..Len(accesses), accesses[j].addr = a
                 PROVE  accesses[j].dyninstr <= accesses[p].dyninstr
      BY Zenon
    <3>1. accesses[j].dyninstr < m_open_ecs[a].dyninstr /\ accesses[j].dyninstr \in Nat
      BY Zenon, <1>2, <1>4
    <3>. QED BY <2>1, <2>2, <3>1
  <2>4. LeftMargin(a, MaxInstr + 1) = [dyninstr |-> accesses[p].dyninstr + 1, time |-> accesses[p].time + 1]
    <3>1. PICK i : i = MaxInstr + 1
      BY Zenon
    <3>2. i \in Nat /\ accesses[p].dyninstr < i
      BY Zenon, <1>3, <2>2, <3>1
    <3>3. \A j \in 1..Len(accesses) : accesses[j].addr = a /\ accesses[j].dyninstr < i =>
            accesses[j].dyninstr <= accesses[p].dyninstr
      BY Zenon, <2>3, <3>1
    <3>4. LeftMargin(a, i) = [dyninstr |-> accesses[p].dyninstr + 1, time |-> accesses[p].time + 1]
      BY Zenon, <1>1, <2>1, <3>2, <3>3, MarginAfter
    <3>. QED BY Zenon, <3>1, <3>4
  <2>. QED BY Zenon, <2>1, <2>4
<1>. QED BY <1>3, <1>5, <1>6

\* At the end the table holds the classes of the trace and nothing else.
LEMMA RowsAreClasses ==
  ASSUME Inv, ImportedInv, pc = "done", ~lost
  PROVE  trace = {r \in RealClasses \cup FakeClasses : Imported(r.type)}
<1>1. TypeOK /\ AccessInv /\ ClosedRows /\ ClosedMargins /\ closing = {}
  BY Zenon DEF Inv, ImportedInv
<1>2. Rows = trace
  BY Zenon DEF Inv, CacheInv, Rows
<1>3. DOMAIN accesses = 1..Len(accesses) /\ \A k \in 1..Len(accesses) : accesses[k].addr \in Address
  BY Zenon, <1>1, AccessTypes, SeqLen
<1>4. ASSUME NEW a \in Address, m_open_ecs[a].open
      PROVE  /\ LeftMargin(a, MaxInstr + 1).dyninstr = m_open_ecs[a].dyninstr
             /\ Row(a, LeftMargin(a, MaxInstr + 1), [dyninstr |-> m_last_instr, time |-> m_last_time],
                    opt.rightmargin, {}) = LastClass(a)
             /\ NothingLeft(a) <=> ~(LeftMargin(a, MaxInstr + 1).dyninstr <= m_last_instr)
  <2>1. LeftMargin(a, MaxInstr + 1) = [dyninstr |-> m_open_ecs[a].dyninstr, time |-> m_open_ecs[a].time]
    BY Zenon, <1>1, <1>4, LastIsFake DEF ClosedMargins
  <2>2. LeftMargin(a, MaxInstr + 1).dyninstr = m_open_ecs[a].dyninstr
        /\ LeftMargin(a, MaxInstr + 1).time = m_open_ecs[a].time
    BY <2>1
  <2>3. m_open_ecs[a].dyninstr \in Nat /\ m_last_instr \in Nat
    <3>1. m_last_instr \in 0..MaxInstr
      BY Zenon, <1>1 DEF TypeOK
    <3>2. m_last_instr \in Nat
      BY <3>1, ImportAssumption
    <3>. QED BY Zenon, <1>1, <3>2, Typed
  <2>4. NothingLeft(a) <=> ~(m_open_ecs[a].dyninstr <= m_last_instr)
    BY <2>3 DEF NothingLeft
  <2>. QED BY Zenon, <2>2, <2>4 DEF Row, LastClass
<1>5. \A a \in Address : m_open_ecs[a].open <=> Matching(a) /\ (opt.has_mm \/ AccessedAt(a) # {})
  <2>1. \A a \in Address : AccessedAt(a) # {} <=> \E k \in 1..Len(accesses) : accesses[k].addr = a
    BY Zenon, <1>3 DEF AccessedAt
  <2>. QED BY Zenon, <1>1, <2>1 DEF ClosedMargins, MarginClosed
<1>6. ASSUME NEW r \in trace PROVE r \in RealClasses \cup FakeClasses /\ Imported(r.type)
  <2>1. ASSUME NEW k \in 1..Len(accesses), Counted(k), IsClass(r, k)
        PROVE  r \in RealClasses /\ Imported(r.type)
    <3> DEFINE a == accesses[k].addr
               i == accesses[k].dyninstr
    <3>1. r = RealClass(a, accesses[k])
      BY Zenon, <1>1, <2>1, ClassIsReal
    <3>2. accesses[k] = FirstAccess(a, i)
      BY Zenon, <1>1, <2>1, FirstAccessIs DEF Counted
    <3>3. i \in AccessedAt(a) /\ a \in {b \in Address : Matching(b)}
      BY Zenon, <1>3, <2>1 DEF AccessedAt, Counted
    <3>4. r.type = accesses[k].type
      BY Zenon, <3>1 DEF RealClass, Row
    <3>5. Imported(r.type)
      BY Zenon, <2>1, <3>4 DEF Counted
    <3> HIDE DEF a, i
    <3>6. r = RealClass(a, FirstAccess(a, i))
      BY Zenon, <3>1, <3>2
    <3>7. r \in {RealClass(a, FirstAccess(a, j)) : j \in AccessedAt(a)}
      BY Zenon, <3>3, <3>6
    <3>. QED BY Zenon, <3>3, <3>5, <3>7 DEF RealClasses
  <2>2. ASSUME NEW a \in Address, HasLast(a), r = LastClass(a) PROVE r \in FakeClasses /\ Imported(r.type)
    <3>1. r.type = opt.rightmargin /\ m_open_ecs[a].open
      BY Zenon, <2>2 DEF LastClass, Row, HasLast
    <3>2. /\ Matching(a) /\ (opt.has_mm \/ AccessedAt(a) # {})
          /\ LeftMargin(a, MaxInstr + 1).dyninstr <= m_last_instr
      BY Zenon, <1>4, <1>5, <2>2, <3>1 DEF HasLast
    <3>. QED BY Zenon, <1>4, <2>2, <3>1, <3>2 DEF FakeClasses, HasLast
  <2>. QED BY Zenon, <1>1, <1>2, <2>1, <2>2 DEF ClosedRows
<1>7. ASSUME NEW r \in RealClasses, Imported(r.type) PROVE r \in trace
  <2>1. PICK a \in {b \in Address : Matching(b)} : r \in {RealClass(a, FirstAccess(a, i)) : i \in AccessedAt(a)}
    BY Zenon, <1>7 DEF RealClasses
  <2>2. PICK i \in AccessedAt(a) : r = RealClass(a, FirstAccess(a, i))
    BY Zenon, <2>1
  <2>3. PICK k \in 1..Len(accesses) : IsFirst(k, a, i)
    BY Zenon, <1>1, FirstAccessExists
  <2>4. /\ accesses[k].addr = a /\ accesses[k].dyninstr = i
        /\ \A j \in 1..(k - 1) : accesses[j].addr = a => accesses[j].dyninstr # i
        /\ FirstAccess(a, i) = accesses[k]
    BY Zenon, <2>3 DEF IsFirst
  <2>5. r = RealClass(a, accesses[k]) /\ r.type = accesses[k].type
    BY Zenon, <2>2, <2>4 DEF RealClass, Row
  <2>6. Counted(k)
    BY Zenon, <1>7, <2>2, <2>4, <2>5 DEF Counted
  <2>7. PICK s \in Rows : IsClass(s, k)
    BY Zenon, <1>1, <2>6 DEF ClosedRows
  <2>8. s = RealClass(a, accesses[k])
    BY Zenon, <1>1, <2>4, <2>6, <2>7, ClassIsReal
  <2>. QED BY Zenon, <1>2, <2>5, <2>7, <2>8
<1>8. ASSUME NEW r \in FakeClasses, Imported(r.type) PROVE r \in trace
  <2>1. PICK a \in Address :
          /\ Matching(a) /\ (opt.has_mm \/ AccessedAt(a) # {})
          /\ LeftMargin(a, MaxInstr + 1).dyninstr <= m_last_instr
          /\ r = Row(a, LeftMargin(a, MaxInstr + 1), [dyninstr |-> m_last_instr, time |-> m_last_time],
                     opt.rightmargin, {})
    BY Zenon, <1>8 DEF FakeClasses
  <2>2. m_open_ecs[a].open
    BY Zenon, <1>5, <2>1
  <2>3. r = LastClass(a) /\ ~NothingLeft(a)
    BY Zenon, <1>4, <2>1, <2>2
  <2>4. r.type = opt.rightmargin
    BY Zenon, <2>3 DEF LastClass, Row
  <2>5. HasLast(a) /\ a \in Address \ closing
    BY Zenon, <1>1, <1>8, <2>2, <2>3, <2>4 DEF HasLast
  <2>. QED BY Zenon, <1>1, <1>2, <2>3, <2>5 DEF ClosedRows
<1>. QED BY Zenon, <1>6, <1>7, <1>8

\* Before the first event nothing is known.
LEMMA InitImported ==
  ASSUME Init
  PROVE  ImportedInv
<1>1. accesses = <<>> /\ delayed_entries = <<>> /\ pc = "read" /\ ~ending /\ Rows = {}
  BY Zenon DEF Init, Rows
<1>2. /\ 1..Len(accesses) = {} /\ 1..0 = {} /\ 0 \in 0..Len(accesses) /\ Len(accesses) = 0
      /\ Len(delayed_entries) = 0
  BY <1>1
<1>3. AccessInv
  BY Zenon, <1>2 DEF AccessInv
<1>4. Waits(delayed_entries, accesses, 0)
  <2> DEFINE off == [i \in 1..(Len(delayed_entries) + 1) |-> 0]
  <2>1. /\ off \in [1..(Len(delayed_entries) + 1) -> 0..Len(accesses)]
        /\ off[1] = 0 /\ off[Len(delayed_entries) + 1] = Len(accesses)
        /\ 1..Len(delayed_entries) = {}
    BY <1>2
  <2> HIDE DEF off
  <2>. QED BY Zenon, <2>1 DEF Waits
<1>5. OpenUpTo(0)
  <2>1. \A a \in Address : ~m_open_ecs[a].open /\ ~(m_open_ecs[a].dyninstr > 0)
    BY DEF Init
  <2>. QED BY Zenon, <1>2, <2>1 DEF OpenUpTo
<1>6. RowsUpTo(0)
  BY Zenon, <1>1, <1>2 DEF RowsUpTo
<1>. QED BY Zenon, <1>1, <1>2, <1>3, <1>4, <1>5, <1>6 DEF ImportedInv

\* A step that changes nothing.
LEMMA StutterImported ==
  ASSUME ImportedInv, UNCHANGED vars
  PROVE  ImportedInv'
<1>1. UNCHANGED <<opt, pc, ending, curtime, instr, m_time_trace_start, branches_taken, accesses,
                  delayed_entries, m_open_ecs, m_last_instr, m_last_time, closing, cache, trace, lost>>
  BY Zenon DEF vars, readvars, tablevars, endvars
<1>2. /\ \A k : Counted(k)' <=> Counted(k)
      /\ \A r, k : IsClass(r, k)' <=> IsClass(r, k)
      /\ \A b : Matching(b)' <=> Matching(b)
      /\ \A b : HasLast(b)' <=> HasLast(b)
      /\ \A b : LastClass(b)' = LastClass(b)
      /\ Rows' = Rows
  BY Zenon, <1>1, SameHistory DEF HasLast, LastClass, NothingLeft, Imported, Rows
<1>3. \A n : (OpenUpTo(n)' <=> OpenUpTo(n)) /\ (RowsUpTo(n)' <=> RowsUpTo(n))
  BY Zenon, <1>1, <1>2 DEF OpenUpTo, RowsUpTo, Delayed, Matching
<1>4. (ClosedRows' <=> ClosedRows) /\ (ClosedMargins' <=> ClosedMargins)
  <2>1. ClosedRows' <=> ClosedRows
    BY Zenon, <1>1, <1>2 DEF ClosedRows
  <2>2. \A b : MarginClosed(b)' <=> MarginClosed(b)
    BY Zenon, <1>1, <1>2 DEF MarginClosed
  <2>. QED BY Zenon, <2>1, <2>2 DEF ClosedMargins
<1>5. AccessInv' <=> AccessInv
  BY Zenon, <1>1 DEF AccessInv
<1>6. (ending' <=> ending) /\ (lost' <=> lost)
  BY <1>1
<1>. QED BY Zenon, <1>1, <1>3, <1>4, <1>5, <1>6 DEF ImportedInv

\* An import that ends well and lost no query has put exactly the equivalence
\* classes of the trace into the table, for every trace, importer and option.
THEOREM AlwaysImported == Spec => []TraceImported
<1>1. Init => ImportedInv
  BY Zenon, InitImported
<1>2. Inv /\ ImportedInv /\ [Next]_vars => ImportedInv'
  BY Zenon, IpEventImported, MemEventImported, TraceEndImported, HandleAccessImported, HandledImported,
     CloseECImported, EndingImported, StutterImported DEF Next, Finished
<1>3. Inv /\ ImportedInv => TraceImported
  BY Zenon, RowsAreClasses DEF TraceImported
<1>. QED BY <1>1, <1>2, <1>3, ImportInvariant, PTL DEF Spec
=============================================================================
