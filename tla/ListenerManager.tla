--------------------------- MODULE ListenerManager ---------------------------
(***************************************************************************)
(* The listeners of the experiment flows: ListenerManager, the event       *)
(* handlers of SimulatorController that search it, and the performance     *)
(* buffers that the aspects FastBreakpoints and FastWatchpoints add to it  *)
(* (core/sal).                                                             *)
(*                                                                         *)
(* Flows are coroutines of the simulator's thread.  An event handler first *)
(* moves the matching listeners whose counter runs out to m_FireList and   *)
(* then toggles their flows one after the other; each flow may add, remove *)
(* and destroy listeners before it resumes the simulator.  Loops of the    *)
(* code are steps of their own here.                                       *)
(***************************************************************************)
EXTENDS Integers, Functions, SequenceEnds

CONSTANTS
    Flows,
    Listeners,          \* addresses of listener objects
    NoFlow,
    NoListener,
    NoBuffer,           \* NULL as performance buffer
    PerfBuffer,         \* buffer that the woven add() uses for the listener's type
    FastHandlers,       \* for each event handler with fast path, the buffers it gathers from
    Counters,           \* arguments of setCounter()
    UINT_MAX,
    UsesRemoveAll       \* whether a flow calls removeListener(NULL)

Buffers == {PerfBuffer[l] : l \in Listeners} \ {NoBuffer}

ASSUME ListenerAssumption ==
    /\ UINT_MAX \in Nat \ {0}
    /\ Counters \subseteq 0..UINT_MAX
    /\ NoFlow \notin Flows
    /\ NoListener \notin Listeners
    /\ PerfBuffer \in [Listeners -> Buffers \cup {NoBuffer}]
    /\ \A h \in FastHandlers : h \in Seq(Buffers) /\ IsInjective(h)
    /\ UsesRemoveAll \in BOOLEAN

VARIABLES
    \* the manager
    m_BufferList,
    m_FireList,
    m_DeleteList,       \* as a set: it is only searched
    m_pFired,
    m_BufList,          \* of each performance buffer
    \* the listeners
    alive,
    m_OccCounter,
    m_OccCounterInit,
    m_Parent,
    m_Loc,              \* position in m_BufferList, counted from 1, or INVALID_INDEX
    m_Home,
    \* control
    pc,
    it,                 \* iterator of the handler's loop
    matching,           \* listeners that match the event
    gathering,          \* performance buffers still to be gathered from
    res,                \* result set of gather()
    current,            \* flow that runs
    ret,                \* what resume() returns to
    clearing,           \* flow whose listeners are being removed
    removeAll,          \* by removeListener(NULL)
    \* history variables of the event
    due,                \* matching listeners that were in m_BufferList
    hits,               \* how often a listener was told
    fired,              \* positions in m_FireList that were triggered
    cancelled           \* positions whose listeners were removed in time

listenerVars == <<alive, m_OccCounter, m_OccCounterInit, m_Parent>>
indexVars    == <<m_BufferList, m_BufList, m_Loc, m_Home>>
eventVars    == <<matching, gathering, res, due, hits>>
clearVars    == <<clearing, removeAll>>
vars == <<listenerVars, indexVars, m_FireList, m_DeleteList, m_pFired, pc, it, current, ret,
          eventVars, clearVars, fired, cancelled>>

INVALID_INDEX == 0

Pcs == {"sim", "slow", "fast", "trigger", "flow", "clear"}

TypeOK ==
    /\ m_BufferList \in Seq(Listeners)
    /\ m_FireList \in Seq(Listeners)
    /\ m_DeleteList \subseteq Listeners
    /\ m_pFired \in Listeners \cup {NoListener}
    /\ m_BufList \in [Buffers -> Seq(Nat \ {0})]
    /\ alive \subseteq Listeners
    /\ m_OccCounter \in [Listeners -> 0..UINT_MAX]
    /\ m_OccCounterInit \in [Listeners -> 0..UINT_MAX]
    /\ m_Parent \in [Listeners -> Flows \cup {NoFlow}]
    /\ m_Loc \in [Listeners -> Nat]
    /\ m_Home \in [Listeners -> Buffers \cup {NoBuffer}]
    /\ pc \in Pcs
    /\ it \in Nat \ {0}
    /\ matching \subseteq Listeners
    /\ gathering \in Seq(Buffers)
    /\ res \in Seq(Listeners)
    /\ current \in Flows \cup {NoFlow}
    /\ ret \in {"sim", "trigger"}
    /\ clearing \in Flows \cup {NoFlow}
    /\ removeAll \in BOOLEAN
    /\ due \subseteq Listeners
    /\ hits \in [Listeners -> Nat]
    /\ fired \subseteq Nat
    /\ cancelled \subseteq Nat

Init ==
    /\ m_BufferList = <<>>
    /\ m_FireList = <<>>
    /\ m_DeleteList = {}
    /\ m_pFired = NoListener
    /\ m_BufList = [b \in Buffers |-> <<>>]
    /\ alive = {}
    /\ m_OccCounter = [l \in Listeners |-> 1]
    /\ m_OccCounterInit = [l \in Listeners |-> 1]
    /\ m_Parent = [l \in Listeners |-> NoFlow]
    /\ m_Loc = [l \in Listeners |-> INVALID_INDEX]
    /\ m_Home = [l \in Listeners |-> NoBuffer]
    /\ pc = "sim"
    /\ it = 1
    /\ matching = {}
    /\ gathering = <<>>
    /\ res = <<>>
    /\ current = NoFlow
    /\ ret = "sim"
    /\ clearing = NoFlow
    /\ removeAll = FALSE
    /\ due = {}
    /\ hits = [l \in Listeners |-> 0]
    /\ fired = {}
    /\ cancelled = {}

-----------------------------------------------------------------------------
\* mutant: the slot is taken for the index before it
MutReindexedOff(bufs, l, old, idx) ==
    IF m_Home[l] = NoBuffer THEN bufs
    ELSE [bufs EXCEPT ![m_Home[l]] = Append(RemoveFirst(@, old), idx - 1)]

(***************************************************************************)
(* A listener at position idx is removed from its performance buffer, and  *)
(* m_remove(idx) moves the trailing listener into the slot and updates its *)
(* index in its own performance buffer.                                    *)
(***************************************************************************)
Reindexed(bufs, l, old, idx) ==
    IF m_Home[l] = NoBuffer THEN bufs
    ELSE [bufs EXCEPT ![m_Home[l]] = Append(RemoveFirst(@, old), idx)]

\* mutant: the index of the removed listener stays in its performance buffer
MutWithoutIndex(l, idx) == m_BufList

WithoutIndex(l, idx) ==
    IF m_Home[l] = NoBuffer THEN m_BufList
    ELSE [m_BufList EXCEPT ![m_Home[l]] = RemoveFirst(@, idx)]

m_remove(idx) ==
    LET l    == m_BufferList[idx]
        last == Last(m_BufferList)
    IN  /\ m_BufferList' = Front([m_BufferList EXCEPT ![idx] = last])
        /\ m_Loc' = [m_Loc EXCEPT ![last] = idx, ![l] = INVALID_INDEX]
        /\ m_Home' = [m_Home EXCEPT ![l] = NoBuffer]
        /\ m_BufList' = IF idx = Len(m_BufferList) THEN WithoutIndex(l, idx)
                        ELSE Reindexed(WithoutIndex(l, idx), last, m_Loc[last], idx)

(***************************************************************************)
(* m_FireList contains a listener at one of the positions.                 *)
(***************************************************************************)
Pending(S) == {k \in DOMAIN m_FireList : m_FireList[k] \in S /\ k > it}

InFireList(S) == {m_FireList[k] : k \in DOMAIN m_FireList} \cap S

-----------------------------------------------------------------------------
(***************************************************************************)
(* A flow runs: the simulator toggles it to start it (addFlow), or because *)
(* what it asked for is done (saveDone, restoreDone, rebootDone).          *)
(***************************************************************************)
Toggle(f) ==
    /\ pc = "sim"
    /\ pc' = "flow"
    /\ current' = f
    /\ ret' = "sim"
    /\ UNCHANGED <<listenerVars, indexVars, m_FireList, m_DeleteList, m_pFired, it, eventVars,
                   clearVars, fired, cancelled>>

Resume ==
    /\ pc = "flow"
    /\ pc' = ret
    /\ it' = IF ret = "trigger" THEN it + 1 ELSE it
    /\ current' = NoFlow
    /\ ret' = "sim"
    /\ UNCHANGED <<listenerVars, indexVars, m_FireList, m_DeleteList, m_pFired, eventVars,
                   clearVars, fired, cancelled>>

Construct(l) ==
    /\ pc = "flow"
    /\ l \notin alive
    /\ alive' = alive \cup {l}
    /\ UNCHANGED <<m_OccCounter, m_OccCounterInit, m_Parent, indexVars, m_FireList, m_DeleteList,
                   m_pFired, pc, it, current, ret, eventVars, clearVars, fired, cancelled>>

(***************************************************************************)
(* The counter of a listener is set before the listener is added.          *)
(***************************************************************************)
SetCounter(l, n) ==
    /\ pc = "flow"
    /\ l \in alive
    /\ m_Loc[l] = INVALID_INDEX
    /\ m_OccCounter' = [m_OccCounter EXCEPT ![l] = n]
    /\ m_OccCounterInit' = [m_OccCounterInit EXCEPT ![l] = n]
    /\ UNCHANGED <<alive, m_Parent, indexVars, m_FireList, m_DeleteList, m_pFired, pc, it, current,
                   ret, eventVars, clearVars, fired, cancelled>>

(***************************************************************************)
(* Only the general add() checks the counter; the woven add() of a type    *)
(* with a performance buffer does not.                                     *)
(***************************************************************************)
Addable(l) ==
    /\ l \in alive
    /\ m_Loc[l] = INVALID_INDEX
    /\ PerfBuffer[l] = NoBuffer => m_OccCounter[l] # 0

(***************************************************************************)
(* add(): the listener gets the last place, and the woven add() also puts  *)
(* the index of the place into the performance buffer.                     *)
(***************************************************************************)
Added(l) ==
    /\ m_BufferList' = Append(m_BufferList, l)
    /\ m_Loc' = [m_Loc EXCEPT ![l] = Len(m_BufferList) + 1]
    /\ m_Home' = [m_Home EXCEPT ![l] = PerfBuffer[l]]
    /\ m_BufList' = IF PerfBuffer[l] = NoBuffer THEN m_BufList
                    ELSE [m_BufList EXCEPT ![PerfBuffer[l]] = Append(@, Len(m_BufferList) + 1)]

AddListener(l) ==
    /\ pc = "flow"
    /\ Addable(l)
    /\ m_Parent' = [m_Parent EXCEPT ![l] = current]
    /\ Added(l)
    /\ UNCHANGED <<alive, m_OccCounter, m_OccCounterInit, m_FireList, m_DeleteList, m_pFired, pc,
                   it, current, ret, eventVars, clearVars, fired, cancelled>>

(***************************************************************************)
(* onAddition() returns false: the listener, the last one of the buffer    *)
(* list, is removed again with remove().                                   *)
(***************************************************************************)
AddListenerRefused(l) ==
    /\ pc = "flow"
    /\ Addable(l)
    /\ m_Parent' = [m_Parent EXCEPT ![l] = current]
    /\ m_DeleteList' = m_DeleteList \cup InFireList({l})
    /\ cancelled' = cancelled \cup Pending({l})
    /\ UNCHANGED <<alive, m_OccCounter, m_OccCounterInit, indexVars, m_FireList, m_pFired, pc, it,
                   current, ret, eventVars, clearVars, fired>>

-----------------------------------------------------------------------------
\* mutant: a listener that is about to fire is forgotten
MutRemoveOne(l) ==
    /\ IF m_Loc[l] # INVALID_INDEX THEN m_remove(m_Loc[l]) ELSE UNCHANGED indexVars
    /\ UNCHANGED m_DeleteList
    /\ cancelled' = cancelled \cup Pending({l})

(***************************************************************************)
(* ListenerManager::remove(li) for one listener.                           *)
(***************************************************************************)
RemoveOne(l) ==
    /\ IF m_Loc[l] # INVALID_INDEX THEN m_remove(m_Loc[l]) ELSE UNCHANGED indexVars
    /\ m_DeleteList' = m_DeleteList \cup InFireList({l})
    /\ cancelled' = cancelled \cup Pending({l})

RemoveListener(l) ==
    /\ pc = "flow"
    /\ l \in alive
    /\ RemoveOne(l)
    /\ UNCHANGED <<listenerVars, m_FireList, m_pFired, pc, it, current, ret, eventVars, clearVars,
                   fired>>

(***************************************************************************)
(* ~BaseListener removes the listener.  Its fields are gone; they get the  *)
(* values of the constructor.                                              *)
(***************************************************************************)
Destroy(l) ==
    /\ pc = "flow"
    /\ l \in alive
    /\ RemoveOne(l)
    /\ alive' = alive \ {l}
    /\ m_OccCounter' = [m_OccCounter EXCEPT ![l] = 1]
    /\ m_OccCounterInit' = [m_OccCounterInit EXCEPT ![l] = 1]
    /\ m_Parent' = [m_Parent EXCEPT ![l] = NoFlow]
    /\ UNCHANGED <<m_FireList, m_pFired, pc, it, current, ret, eventVars, clearVars, fired>>

(***************************************************************************)
(* clearListeners(): all listeners of all flows, in one pass.  Only the    *)
(* performance buffers that are the home of some listener are cleared.     *)
(***************************************************************************)
ClearAllListeners ==
    /\ pc = "flow"
    /\ m_BufferList' = <<>>
    /\ m_Loc' = [l \in Listeners |-> INVALID_INDEX]
    /\ m_Home' = [l \in Listeners |-> NoBuffer]
    /\ m_BufList' = [b \in Buffers |-> IF \E l \in Listeners : m_Home[l] = b THEN <<>>
                                       ELSE m_BufList[b]]
    /\ m_DeleteList' = m_DeleteList \cup InFireList(Listeners)
    /\ cancelled' = cancelled \cup Pending(Listeners)
    /\ UNCHANGED <<listenerVars, m_FireList, m_pFired, pc, it, current, ret, eventVars, clearVars,
                   fired>>

(***************************************************************************)
(* clearListeners(f), as called by experiments, at the end of a flow and   *)
(* by removeFlow(f); and removeListener(NULL).                             *)
(***************************************************************************)
BeginClear(f, all) ==
    /\ pc = "flow"
    /\ pc' = "clear"
    /\ clearing' = f
    /\ removeAll' = all
    /\ UNCHANGED <<listenerVars, indexVars, m_FireList, m_DeleteList, m_pFired, it, current, ret,
                   eventVars, fired, cancelled>>

ClearListeners(f) == BeginClear(f, FALSE)

RemoveAllListeners == UsesRemoveAll /\ BeginClear(current, TRUE)

OfFlow(f) == {l \in alive : m_Parent[l] = f}

(***************************************************************************)
(* The loop removes the first listener of the flow, as long as there is    *)
(* one: those in front of it have been looked at, and the one that moves   *)
(* into the slot is looked at next.                                        *)
(***************************************************************************)
ClearOne ==
    /\ pc = "clear"
    /\ \E idx \in DOMAIN m_BufferList :
          /\ m_Parent[m_BufferList[idx]] = clearing
          /\ \A k \in 1..(idx - 1) : m_Parent[m_BufferList[k]] # clearing
          /\ m_remove(idx)
    /\ UNCHANGED <<listenerVars, m_FireList, m_DeleteList, m_pFired, pc, it, current, ret,
                   eventVars, clearVars, fired, cancelled>>

\* mutant: listeners about to fire are not looked at
MutDeleted == {}

(***************************************************************************)
(* What is about to fire goes to the delete list: remove(flow) takes the   *)
(* listeners of the flow, and remove(NULL) the whole list.                 *)
(***************************************************************************)
Deleted == IF removeAll THEN InFireList(Listeners)
           ELSE {l \in InFireList(Listeners) \ m_DeleteList : m_Parent[l] = clearing}

ClearEnd ==
    /\ pc = "clear"
    /\ \A k \in DOMAIN m_BufferList : m_Parent[m_BufferList[k]] # clearing
    /\ m_DeleteList' = m_DeleteList \cup Deleted
    /\ cancelled' = cancelled \cup Pending(OfFlow(clearing))
    /\ pc' = "flow"
    /\ clearing' = NoFlow
    /\ removeAll' = FALSE
    /\ UNCHANGED <<listenerVars, indexVars, m_FireList, m_pFired, it, current, ret, eventVars,
                   fired>>

-----------------------------------------------------------------------------
(***************************************************************************)
(* Unsigned decrement: n - 1 modulo UINT_MAX + 1.                          *)
(***************************************************************************)
DecreaseCounter(n) == IF n = 0 THEN UINT_MAX ELSE n - 1

(***************************************************************************)
(* makeActive(): the listener is told, and if its counter runs out it      *)
(* moves from m_BufferList to m_FireList.                                  *)
(***************************************************************************)
CountsDown(l) ==
    /\ DecreaseCounter(m_OccCounter[l]) > 0
    /\ m_OccCounter' = [m_OccCounter EXCEPT ![l] = DecreaseCounter(@)]
    /\ UNCHANGED <<indexVars, m_FireList>>

RunsOut(l) ==
    /\ DecreaseCounter(m_OccCounter[l]) = 0
    /\ m_OccCounter' = [m_OccCounter EXCEPT ![l] = m_OccCounterInit[l]]
    /\ m_remove(m_Loc[l])
    /\ m_FireList' = Append(m_FireList, l)

Hit(l) == hits' = [hits EXCEPT ![l] = @ + 1]

(***************************************************************************)
(* An event handler without performance buffers walks through m_BufferList;*)
(* listeners with a performance buffer are of other types.                 *)
(***************************************************************************)
OnEvent(M) ==
    /\ pc = "sim"
    /\ \A l \in M : PerfBuffer[l] = NoBuffer
    /\ pc' = "slow"
    /\ it' = 1
    /\ matching' = M
    /\ due' = {l \in M : m_Loc[l] # INVALID_INDEX}
    /\ UNCHANGED <<listenerVars, indexVars, m_FireList, m_DeleteList, m_pFired, current, ret,
                   gathering, res, hits, clearVars, fired, cancelled>>

SlowSkip ==
    /\ pc = "slow"
    /\ it <= Len(m_BufferList)
    /\ m_BufferList[it] \notin matching
    /\ it' = it + 1
    /\ UNCHANGED <<listenerVars, indexVars, m_FireList, m_DeleteList, m_pFired, pc, current, ret,
                   eventVars, clearVars, fired, cancelled>>

(***************************************************************************)
(* The iterator that makeActive() returns is the same slot if the listener *)
(* was removed.                                                            *)
(***************************************************************************)
SlowMakeActive ==
    /\ pc = "slow"
    /\ it <= Len(m_BufferList)
    /\ m_BufferList[it] \in matching
    /\ Hit(m_BufferList[it])
    /\ \/ CountsDown(m_BufferList[it]) /\ it' = it + 1
       \/ RunsOut(m_BufferList[it]) /\ UNCHANGED it
    /\ UNCHANGED <<alive, m_OccCounterInit, m_Parent, m_DeleteList, m_pFired, pc, current, ret,
                   matching, gathering, res, due, clearVars, fired, cancelled>>

SlowEnd ==
    /\ pc = "slow"
    /\ it > Len(m_BufferList)
    /\ pc' = "trigger"
    /\ it' = 1
    /\ UNCHANGED <<listenerVars, indexVars, m_FireList, m_DeleteList, m_pFired, current, ret,
                   eventVars, clearVars, fired, cancelled>>

(***************************************************************************)
(* An event handler with performance buffers (onBreakpoint, onMemoryAccess *)
(* in the fast variants) gathers from its buffers in turn.                 *)
(***************************************************************************)
Gathered(b) == [k \in DOMAIN m_BufList[b] |-> m_BufferList[m_BufList[b][k]]]

OnFastEvent(h, M) ==
    /\ pc = "sim"
    /\ \A l \in M : PerfBuffer[l] \in Range(h)
    /\ pc' = "fast"
    /\ matching' = M
    /\ gathering' = h
    /\ due' = {l \in M : m_Loc[l] # INVALID_INDEX}
    /\ UNCHANGED <<listenerVars, indexVars, m_FireList, m_DeleteList, m_pFired, it, current, ret,
                   res, hits, clearVars, fired, cancelled>>

(***************************************************************************)
(* gather() returns the matching listeners; here the others are skipped    *)
(* when their turn comes, with the same effect.                            *)
(***************************************************************************)
Gather ==
    /\ pc = "fast"
    /\ res = <<>>
    /\ gathering # <<>>
    /\ res' = Gathered(Head(gathering))
    /\ gathering' = Tail(gathering)
    /\ UNCHANGED <<listenerVars, indexVars, m_FireList, m_DeleteList, m_pFired, pc, it, current,
                   ret, matching, due, hits, clearVars, fired, cancelled>>

FastSkip ==
    /\ pc = "fast"
    /\ res # <<>>
    /\ Last(res) \notin matching
    /\ res' = Front(res)
    /\ UNCHANGED <<listenerVars, indexVars, m_FireList, m_DeleteList, m_pFired, pc, it, current,
                   ret, matching, gathering, due, hits, clearVars, fired, cancelled>>

FastMakeActive ==
    /\ pc = "fast"
    /\ res # <<>>
    /\ Last(res) \in matching
    /\ IF m_Home[Last(res)] = NoBuffer
       THEN UNCHANGED <<m_OccCounter, indexVars, m_FireList, hits>>
       ELSE Hit(Last(res)) /\ (CountsDown(Last(res)) \/ RunsOut(Last(res)))
    /\ res' = Front(res)
    /\ UNCHANGED <<alive, m_OccCounterInit, m_Parent, m_DeleteList, m_pFired, pc, it, current, ret,
                   matching, gathering, due, clearVars, fired, cancelled>>

\* mutant: the remaining performance buffers of the handler are forgotten
MutFastEnd ==
    /\ pc = "fast"
    /\ res = <<>>
    /\ pc' = "trigger"
    /\ it' = 1
    /\ gathering' = <<>>
    /\ UNCHANGED <<listenerVars, indexVars, m_FireList, m_DeleteList, m_pFired, current, ret,
                   matching, res, due, hits, clearVars, fired, cancelled>>

FastEnd ==
    /\ pc = "fast"
    /\ res = <<>>
    /\ gathering = <<>>
    /\ pc' = "trigger"
    /\ it' = 1
    /\ UNCHANGED <<listenerVars, indexVars, m_FireList, m_DeleteList, m_pFired, current, ret,
                   eventVars, clearVars, fired, cancelled>>

-----------------------------------------------------------------------------
(***************************************************************************)
(* triggerActiveListeners().  onTrigger() toggles the flow of the listener,*)
(* or is a callback of the listener, which acts for that flow.             *)
(***************************************************************************)
Trigger ==
    /\ pc = "trigger"
    /\ it <= Len(m_FireList)
    /\ m_FireList[it] \notin m_DeleteList
    /\ m_pFired' = m_FireList[it]
    /\ current' = m_Parent[m_FireList[it]]
    /\ fired' = fired \cup {it}
    /\ pc' = "flow"
    /\ ret' = "trigger"
    /\ UNCHANGED <<listenerVars, indexVars, m_FireList, m_DeleteList, it, eventVars, clearVars,
                   cancelled>>

\* mutant: a deleted listener is skipped without moving on
MutTriggerSkip ==
    /\ pc = "trigger"
    /\ it <= Len(m_FireList)
    /\ m_FireList[it] \in m_DeleteList
    /\ UNCHANGED vars

TriggerSkip ==
    /\ pc = "trigger"
    /\ it <= Len(m_FireList)
    /\ m_FireList[it] \in m_DeleteList
    /\ it' = it + 1
    /\ UNCHANGED <<listenerVars, indexVars, m_FireList, m_DeleteList, m_pFired, pc, current, ret,
                   eventVars, clearVars, fired, cancelled>>

TriggerEnd ==
    /\ pc = "trigger"
    /\ it > Len(m_FireList)
    /\ m_FireList' = <<>>
    /\ m_DeleteList' = {}
    /\ pc' = "sim"
    /\ it' = 1
    /\ matching' = {}
    /\ due' = {}
    /\ hits' = [l \in Listeners |-> 0]
    /\ fired' = {}
    /\ cancelled' = {}
    /\ UNCHANGED <<listenerVars, indexVars, m_pFired, current, ret, gathering, res, clearVars>>

SimulatorStep ==
    \/ SlowSkip \/ SlowMakeActive \/ SlowEnd
    \/ Gather \/ FastSkip \/ FastMakeActive \/ FastEnd
    \/ Trigger \/ TriggerSkip \/ TriggerEnd
    \/ ClearOne \/ ClearEnd

FlowStep ==
    \/ \E l \in Listeners : \/ Construct(l) \/ Destroy(l) \/ RemoveListener(l)
                            \/ AddListener(l) \/ AddListenerRefused(l)
                            \/ \E n \in Counters : SetCounter(l, n)
    \/ ClearAllListeners \/ RemoveAllListeners
    \/ \E f \in Flows : ClearListeners(f)

Next ==
    \/ SimulatorStep \/ FlowStep \/ Resume
    \/ \E f \in Flows : Toggle(f)
    \/ \E M \in SUBSET Listeners : OnEvent(M) \/ \E h \in FastHandlers : OnFastEvent(h, M)

Spec == Init /\ [][Next]_vars

(***************************************************************************)
(* The simulator runs, and a flow calls resume() after finitely many other *)
(* calls.                                                                  *)
(***************************************************************************)
FairSpec == Spec /\ WF_vars(SimulatorStep) /\ SF_vars(Resume)

-----------------------------------------------------------------------------
(***************************************************************************)
(* Every listener knows its place, and every performance buffer holds the  *)
(* positions of exactly the listeners it is the home of, each once: what   *)
(* gather() dereferences, and what remove() relies on.                     *)
(***************************************************************************)
IndicesAgree ==
    /\ \A k \in DOMAIN m_BufferList : m_Loc[m_BufferList[k]] = k
    /\ \A l \in Listeners : IF m_Loc[l] = INVALID_INDEX THEN m_Home[l] = NoBuffer
                            ELSE /\ m_Loc[l] \in DOMAIN m_BufferList
                                 /\ m_BufferList[m_Loc[l]] = l
                                 /\ m_Home[l] = PerfBuffer[l]
    /\ \A b \in Buffers :
          /\ IsInjective(m_BufList[b])
          /\ Range(m_BufList[b]) = {m_Loc[l] : l \in {x \in Listeners : m_Home[x] = b}}

(***************************************************************************)
(* An event tells every matching listener that was added, and it tells it  *)
(* once, although removals reorder the list while it is walked through.    *)
(***************************************************************************)
ToldOnce ==
    pc = "trigger" => \A l \in Listeners : hits[l] = IF l \in due THEN 1 ELSE 0

(***************************************************************************)
(* A listener whose counter has run out fires, unless it, its flow's       *)
(* listeners or all listeners are removed before its turn; then it does    *)
(* not ("This ensures to prevent triggering active listeners which have    *)
(* already been deleted by a previous experiment flow").                   *)
(***************************************************************************)
FiresUnlessRemoved ==
    pc = "trigger" =>
        \A k \in DOMAIN m_FireList : k < it => (k \in fired <=> k \notin cancelled)

(***************************************************************************)
(* The manager never touches a destroyed listener: it is in no list that   *)
(* is searched by its fields, or marked in m_DeleteList, which is compared *)
(* by address.                                                             *)
(***************************************************************************)
DestroyedUntouched ==
    /\ Range(m_BufferList) \subseteq alive
    /\ Range(res) \subseteq alive
    /\ Range(m_FireList) \subseteq alive \cup m_DeleteList

(***************************************************************************)
(* An event is handled in the end.                                         *)
(***************************************************************************)
EventHandled == pc # "sim" ~> pc = "sim"

=============================================================================
