----------------------------- MODULE FlowControl -----------------------------
(***************************************************************************)
(* Who runs: the coroutines of the simulator and of the experiment flows   *)
(* (efw/CoroutineManager), addFlow, removeFlow, resume and terminate of    *)
(* sal/SimulatorController, and the requests of a flow to the simulator    *)
(* (sal/bochs/BochsController and the aspects that answer them).           *)
(*                                                                         *)
(* Exactly one coroutine runs.  toggle() pushes the running one onto       *)
(* m_togglerstack, resume() goes to the one on top.  The coroutine library *)
(* is external: co_exit() of a coroutine continues the one that called it  *)
(* first.  Of the listeners only their number per flow matters here; the   *)
(* module ListenerManager has the rest.                                    *)
(***************************************************************************)
EXTENDS Integers, Functions, SequenceEnds

CONSTANTS
  Flows,          \* experiments and plugins
  Experiments,    \* the flows that startup() adds
  Sim,            \* the coroutine of the simulator, CoroutineManager::SIM_FLOW
  Deleted,        \* a coroutine that no longer exists
  MaxListeners,   \* bound: listeners of a flow
  NestedEnd,      \* a flow added by another flow may return from run()
  OthersRequest   \* a flow may make a request beside listeners, or beside the experiment's

Kinds == {"save", "restore", "reboot", "interrupt"}

ASSUME FlowAssumption ==
  /\ Experiments \subseteq Flows /\ Sim \notin Flows /\ Deleted \notin Flows \cup {Sim}
  /\ MaxListeners \in Nat
  /\ NestedEnd \in BOOLEAN /\ OthersRequest \in BOOLEAN

Coroutines == Flows \cup {Sim}

VARIABLES
  m_Flows,         \* flows that have a coroutine
  current,         \* co_current()
  m_togglerstack,
  m_Terminated,
  restarget,       \* external: the coroutine that co_exit() of a flow continues
  listeners,       \* number of listeners of each flow
  m_FireList,      \* number of listeners of each flow still to be triggered, in any order
  requests,        \* the *_request flags that are set
  restored,        \* restore_bochs_finished
  m_CurrFlow,
  starting,        \* experiments that startup() has still to add
  \* history
  waiting,         \* what a flow that does not run is waiting for
  toggledBy,       \* the coroutine that toggled the flow last
  reason           \* why the last switch of coroutines happened

simvars == <<requests, restored, m_CurrFlow, starting>>
vars == <<m_Flows, current, m_togglerstack, m_Terminated, restarget, listeners, m_FireList,
          simvars, waiting, toggledBy, reason>>

Init ==
  /\ m_Flows = {} /\ current = Sim /\ m_togglerstack = <<>> /\ m_Terminated = FALSE
  /\ restarget = [f \in Flows |-> Sim]
  /\ listeners = [f \in Flows |-> 0] /\ m_FireList = [f \in Flows |-> 0]
  /\ requests = {} /\ restored = FALSE /\ m_CurrFlow = Sim
  /\ starting = Experiments
  /\ waiting = [f \in Flows |-> "none"]
  /\ toggledBy = [f \in Flows |-> Sim]
  /\ reason = "none"

-----------------------------------------------------------------------------
(***************************************************************************)
(* CoroutineManager                                                        *)
(***************************************************************************)
Switch(c, why) ==
  /\ current' = c
  /\ reason' = why

Toggle(f, why) ==
  /\ m_togglerstack' = Append(m_togglerstack, current)
  /\ toggledBy' = [toggledBy EXCEPT ![f] = current]
  /\ Switch(f, why)

\* mutant: the toggler stays on the stack
MutResume(why) ==
  /\ Switch(Last(m_togglerstack), "child")
  /\ waiting' = [waiting EXCEPT ![current] = why]
  /\ UNCHANGED <<toggledBy, m_togglerstack>>

Resume(why) ==
  /\ m_togglerstack' = Front(m_togglerstack)
  /\ Switch(Last(m_togglerstack), "child")
  /\ waiting' = [waiting EXCEPT ![current] = why]
  /\ UNCHANGED toggledBy

\* SimulatorController::addFlow, called by the running coroutine
AddFlow(f) ==
  /\ f \notin m_Flows
  /\ m_Flows' = m_Flows \cup {f}
  /\ restarget' = [restarget EXCEPT ![f] = current]
  /\ waiting' = [c \in Flows |-> IF c = f THEN "start" ELSE IF c = current THEN "child" ELSE waiting[c]]
  /\ Toggle(f, "start")

\* mutant: listeners that are about to be triggered are forgotten
MutClearListeners(S) ==
  /\ listeners' = [f \in Flows |-> IF f \in S THEN 0 ELSE listeners[f]]
  /\ UNCHANGED m_FireList

\* clearListeners(flow) for the flows in S
ClearListeners(S) ==
  /\ listeners' = [f \in Flows |-> IF f \in S THEN 0 ELSE listeners[f]]
  /\ m_FireList' = [f \in Flows |-> IF f \in S THEN 0 ELSE m_FireList[f]]

\* mutant: the destructors that exit() runs are not told apart
MutExits(S) == current \in S

\* CoroutineManager::remove calls co_exit()
Exits(S) == current \in S /\ ~m_Terminated

\* removeFlow of the flows in S; co_exit() when the running flow is among them
RemoveFlows(S) ==
  /\ ClearListeners(S)
  /\ m_Flows' = m_Flows \ S
  /\ waiting' = [f \in Flows |-> IF f \in S THEN "none" ELSE waiting[f]]
  /\ IF Exits(S)
       THEN Switch(restarget[current], "child")
       ELSE UNCHANGED <<current, reason>>
  /\ restarget' = [f \in Flows |-> IF restarget[f] \in S THEN Deleted ELSE restarget[f]]
  /\ UNCHANGED <<m_togglerstack, toggledBy>>

-----------------------------------------------------------------------------
(***************************************************************************)
(* The running flow                                                        *)
(***************************************************************************)
Running(f) == current = f /\ f \in Flows /\ ~m_Terminated

Nested(f) == restarget[f] # Sim
Children(f) == {g \in m_Flows : restarget[g] = f}

AddListener(f) ==
  /\ Running(f) /\ listeners[f] < MaxListeners
  /\ listeners' = [listeners EXCEPT ![f] = @ + 1]
  /\ UNCHANGED <<m_Flows, current, m_togglerstack, m_Terminated, restarget, m_FireList, simvars,
                 waiting, toggledBy, reason>>

FlowResumes(f) ==
  /\ Running(f)
  /\ Resume("event")
  /\ UNCHANGED <<m_Flows, m_Terminated, restarget, listeners, m_FireList, simvars>>

FlowAddsFlow(f) ==
  /\ Running(f)
  /\ \E g \in Flows \ Experiments : AddFlow(g)
  /\ UNCHANGED <<m_Terminated, listeners, m_FireList, simvars>>

\* an experiment removes the plugin it has added
FlowRemovesFlow(f) ==
  /\ Running(f)
  /\ \E g \in Children(f) : RemoveFlows({g})
  /\ UNCHANGED <<m_Terminated, simvars>>

\* run() returns: plugins that are local objects of run() are destroyed,
\* coroutine_entry() and m_invoke() remove the flow
FlowEnds(f) ==
  /\ Running(f)
  /\ Nested(f) => NestedEnd
  /\ \E S \in SUBSET Children(f) : RemoveFlows(S \cup {f})
  /\ UNCHANGED <<m_Terminated, simvars>>

MayRequest(f, kind) ==
  \/ OthersRequest
  \/ /\ f \in Experiments /\ requests = {} /\ ~restored
     /\ kind \in {"save", "interrupt"} => listeners[f] = 0 /\ m_FireList[f] = 0

\* mutant: restore() leaves the listeners
MutClears(kind) == kind = "reboot"

Clears(kind) == kind \in {"restore", "reboot"}

\* save, restore, reboot and fireInterrupt; restore and reboot first remove all listeners
Request(f, kind) ==
  /\ Running(f) /\ MayRequest(f, kind)
  /\ IF Clears(kind)
       THEN ClearListeners(Flows)
       ELSE UNCHANGED <<listeners, m_FireList>>
  /\ requests' = requests \cup {kind}
  /\ restored' = (restored /\ kind # "restore")
  /\ m_CurrFlow' = f
  /\ Resume(kind)
  /\ UNCHANGED <<m_Flows, m_Terminated, restarget, starting>>

\* terminate(): exit() runs the destructors of the flows on the running coroutine
Terminate(f) ==
  /\ Running(f)
  /\ m_Terminated' = TRUE
  /\ UNCHANGED <<m_Flows, current, m_togglerstack, restarget, listeners, m_FireList, simvars,
                 waiting, toggledBy, reason>>

DestroyFlow ==
  /\ m_Terminated
  /\ \E f \in m_Flows : RemoveFlows({f})
  /\ UNCHANGED <<m_Terminated, simvars>>

-----------------------------------------------------------------------------
(***************************************************************************)
(* The simulator                                                           *)
(***************************************************************************)
Startup ==
  /\ current = Sim
  /\ \E f \in starting : AddFlow(f) /\ starting' = starting \ {f}
  /\ UNCHANGED <<m_Terminated, listeners, m_FireList, requests, restored, m_CurrFlow>>

Simulating == current = Sim /\ starting = {} /\ \A f \in Flows : m_FireList[f] = 0

\* an event handler moves listeners to m_FireList
Event ==
  /\ Simulating
  /\ \E fires \in [Flows -> 0..MaxListeners] :
       /\ \A f \in Flows : fires[f] <= listeners[f]
       /\ m_FireList' = fires
       /\ listeners' = [f \in Flows |-> listeners[f] - fires[f]]
  /\ UNCHANGED <<m_Flows, current, m_togglerstack, m_Terminated, restarget, simvars,
                 waiting, toggledBy, reason>>

\* one turn of the loop of triggerActiveListeners
TriggerActiveListener ==
  /\ current = Sim
  /\ \E f \in Flows : /\ m_FireList[f] > 0
                      /\ m_FireList' = [m_FireList EXCEPT ![f] = @ - 1]
                      /\ Toggle(f, "event")
  /\ UNCHANGED <<m_Flows, m_Terminated, restarget, listeners, simvars, waiting>>

Done(kind) ==
  /\ requests' = requests \ {kind}
  /\ Toggle(m_CurrFlow, kind)
  /\ UNCHANGED <<m_Flows, m_Terminated, restarget, listeners, m_FireList, m_CurrFlow, starting, waiting>>

SaveDone      == Simulating /\ "save" \in requests /\ Done("save") /\ UNCHANGED restored
RebootDone    == Simulating /\ "reboot" \in requests /\ Done("reboot") /\ UNCHANGED restored
InterruptDone == Simulating /\ "interrupt" \in requests /\ Done("interrupt") /\ UNCHANGED restored

\* mutant: the end of the restoration is not noted
MutRestored ==
  /\ Simulating /\ "restore" \in requests
  /\ requests' = requests \ {"restore"} /\ restored' = FALSE
  /\ UNCHANGED <<m_Flows, current, m_togglerstack, m_Terminated, restarget, listeners, m_FireList,
                 m_CurrFlow, starting, waiting, toggledBy, reason>>

\* bx_sr_after_restore_state()
Restored ==
  /\ Simulating /\ "restore" \in requests
  /\ requests' = requests \ {"restore"} /\ restored' = TRUE
  /\ UNCHANGED <<m_Flows, current, m_togglerstack, m_Terminated, restarget, listeners, m_FireList,
                 m_CurrFlow, starting, waiting, toggledBy, reason>>

RestoreDone == Simulating /\ restored /\ restored' = FALSE /\ Done("restore")

FlowStep(f) ==
  \/ AddListener(f) \/ FlowResumes(f) \/ FlowAddsFlow(f) \/ FlowRemovesFlow(f) \/ FlowEnds(f)
  \/ \E kind \in Kinds : Request(f, kind)
  \/ Terminate(f)

SimStep ==
  \/ Startup \/ Event \/ TriggerActiveListener
  \/ SaveDone \/ RebootDone \/ InterruptDone \/ Restored \/ RestoreDone

Next == SimStep \/ DestroyFlow \/ \E f \in Flows : FlowStep(f)

Spec == Init /\ [][Next]_vars

\* A flow resumes the simulator after finitely many calls; the simulator finishes
\* an event it has begun and, between events, answers a request (every request
\* but an interrupt, which the guest may keep masked).
Fairness ==
  /\ \A f \in Flows : SF_vars(FlowResumes(f))
  /\ WF_vars(Startup) /\ WF_vars(TriggerActiveListener)
  /\ SF_vars(SaveDone) /\ SF_vars(RebootDone) /\ SF_vars(Restored) /\ SF_vars(RestoreDone)

LiveSpec == Spec /\ Fairness

-----------------------------------------------------------------------------
(***************************************************************************)
(* Properties                                                              *)
(***************************************************************************)
\* Every variable has its type.
TypeOK ==
  /\ m_Flows \subseteq Flows
  /\ current \in Coroutines
  /\ m_togglerstack \in Seq(Coroutines)
  /\ m_Terminated \in BOOLEAN /\ restored \in BOOLEAN
  /\ restarget \in [Flows -> Coroutines \cup {Deleted}] /\ toggledBy \in [Flows -> Coroutines]
  /\ listeners \in [Flows -> 0..MaxListeners] /\ m_FireList \in [Flows -> 0..MaxListeners]
  /\ requests \subseteq Kinds
  /\ m_CurrFlow \in Coroutines
  /\ starting \subseteq Experiments
  /\ waiting \in [Flows -> Kinds \cup {"none", "start", "event", "child"}]
  /\ reason \in Kinds \cup {"none", "start", "event", "child"}

\* resume() "gives the control back to the coroutine that toggle()d the current
\* one" (CoroutineManager.hpp): the top of the stack is that coroutine whenever
\* a flow runs, although ended flows leave their entries behind.
ResumeGoesToToggler ==
  \A f \in Flows : Running(f) => /\ m_togglerstack # <<>>
                                 /\ Last(m_togglerstack) = toggledBy[f]

\* No coroutine that was deleted runs, is due to be continued by a resume(), or
\* would be toggled: the flow of a pending listener and the flow of a pending
\* request exist (toggle() asserts it).
CoroutinesAlive ==
  ~m_Terminated =>
    /\ Range(m_togglerstack) \cup {current} \subseteq m_Flows \cup {Sim}
    /\ \A f \in Flows : m_FireList[f] > 0 => f \in m_Flows
    /\ requests # {} \/ restored => m_CurrFlow \in m_Flows

\* A flow that waits is continued by what it waits for and by nothing else: save()
\* does not return before the state is saved, resume() not before a listener of
\* the flow has fired, addFlow() not before the new flow waits.
AnsweredInKind ==
  [][\A f \in Flows : current # f /\ current' = f => reason' = waiting'[f]]_vars

\* Once terminate() was called, the destructors of the flows never switch to
\* another coroutine, the simulator's included.
TerminationFinal == [][m_Terminated => current' = current]_vars

\* A flow that has asked the simulator to save, restore or reboot continues.
RequestAnswered ==
  \A f \in Flows, kind \in Kinds \ {"interrupt"} :
    (current # f /\ waiting[f] = kind) ~> (current = f \/ m_Terminated)
=============================================================================
