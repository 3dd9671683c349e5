---------------------- MODULE ListenerManagerInvariant ----------------------
(***************************************************************************)
(* The inductive invariant behind the safety properties of ListenerManager.*)
(***************************************************************************)
EXTENDS ListenerManager

InBufferList(l) == m_Loc[l] # INVALID_INDEX

(***************************************************************************)
(* What is left over from the event in each state of control.              *)
(***************************************************************************)
ControlInv ==
    /\ pc # "fast" => res = <<>> /\ gathering = <<>>
    /\ pc \in {"sim", "slow", "fast"} => m_DeleteList = {} /\ fired = {} /\ cancelled = {}
    /\ pc = "sim" \/ (pc \in {"flow", "clear"} /\ ret = "sim") =>
          m_FireList = <<>> /\ m_DeleteList = {} /\ due = {} /\ fired = {} /\ cancelled = {}
    /\ removeAll => UsesRemoveAll

(***************************************************************************)
(* The walk through m_BufferList has told the listeners in front of the    *)
(* iterator and those that have left the list, and it will tell the others.*)
(***************************************************************************)
SlowInv ==
    pc = "slow" =>
        /\ due \subseteq matching
        /\ \A l \in Listeners :
              /\ hits[l] = IF l \in due /\ (m_Loc[l] = INVALID_INDEX \/ m_Loc[l] < it) THEN 1 ELSE 0
              /\ l \in matching /\ m_Loc[l] >= it => l \in due

(***************************************************************************)
(* On the fast path the listeners still to be told are in the result set   *)
(* or belong to a buffer still to be gathered from, and they are all in    *)
(* m_BufferList.                                                           *)
(***************************************************************************)
FastInv ==
    pc = "fast" =>
        /\ due \subseteq matching
        /\ IsInjective(gathering)
        /\ IsInjective(res)
        /\ \A l \in matching : PerfBuffer[l] \in Buffers
        /\ \A l \in Range(res) : InBufferList(l) /\ PerfBuffer[l] \notin Range(gathering)
        /\ \A l \in Listeners :
              LET ahead == PerfBuffer[l] \in Range(gathering) \/ l \in Range(res)
              IN  /\ hits[l] = IF l \in due /\ ~ahead THEN 1 ELSE 0
                  /\ ahead /\ l \in due => InBufferList(l)
                  /\ ahead /\ l \in matching /\ InBufferList(l) => l \in due

TellInv ==
    pc \notin {"slow", "fast"} => \A l \in Listeners : hits[l] = IF l \in due THEN 1 ELSE 0

(***************************************************************************)
(* A position of m_FireList behind the iterator has been triggered or      *)
(* cancelled; the position of the listener that runs has been triggered;   *)
(* and a position ahead is cancelled just when its listener is in the      *)
(* delete list.                                                            *)
(***************************************************************************)
Running == pc \in {"flow", "clear"} /\ ret = "trigger"

FireInv ==
    ~UsesRemoveAll =>
        \A k \in DOMAIN m_FireList :
            /\ (pc = "trigger" \/ Running) /\ k < it => (k \in fired <=> k \notin cancelled)
            /\ Running /\ k = it => k \in fired /\ k \notin cancelled
            /\ (pc = "trigger" /\ k >= it) \/ (Running /\ k > it) =>
                  k \notin fired /\ (k \in cancelled <=> m_FireList[k] \in m_DeleteList)

Inv ==
    /\ TypeOK /\ IndicesAgree /\ DestroyedUntouched
    /\ ControlInv /\ SlowInv /\ FastInv /\ TellInv /\ FireInv

=============================================================================
