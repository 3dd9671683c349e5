--------------------------- MODULE MCFlowControl ---------------------------
(***************************************************************************)
(* Instance of FlowControl for TLC: one experiment and two plugins         *)
(***************************************************************************)
EXTENDS FlowControl
CONSTANTS main, plugin, logger
MCFlows == {main, plugin, logger}
MCExperiments == {main}
=============================================================================
