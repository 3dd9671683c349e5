-------------------------- MODULE MCListenerManager --------------------------
(***************************************************************************)
(* Instances of ListenerManager for TLC.                                   *)
(***************************************************************************)
EXTENDS ListenerManagerInvariant

CONSTANTS f1, f2, l1, l2, l3, single, range

MCFlows == {f1, f2}
MCThree == {l1, l2, l3}
MCTwo == {l1, l2}

\* two breakpoints and a listener of another type
MCMixedBuffers == [l \in Listeners |-> IF l = l1 THEN single ELSE IF l = l2 THEN range ELSE NoBuffer]

\* no fast breakpoints and watchpoints configured
MCNoBuffers == [l \in Listeners |-> NoBuffer]

MCOnBreakpoint == {<<single, range>>}
MCNoHandlers == {}

=============================================================================
