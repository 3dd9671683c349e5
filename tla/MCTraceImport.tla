--------------------------- MODULE MCTraceImport ---------------------------
(***************************************************************************)
(* Instance of TraceImport for TLC: two addresses, of which a memory map   *)
(* selects one, instructions that access both or one of them twice, and all *)
(* combinations of importer and options                                    *)
(***************************************************************************)
EXTENDS TraceImport, TLC
CONSTANTS byte1, byte2
MCAddress == {byte1, byte2}
R(x) == [addr |-> x, type |-> "R"]
W(x) == [addr |-> x, type |-> "W"]
MCMemAccesses == {<<R(byte1)>>, <<W(byte1)>>, <<R(byte2), R(byte1)>>, <<W(byte2)>>}
MCIpAccesses == {<<R(byte2)>>, <<R(byte1), W(byte1)>>, <<W(byte2), R(byte1)>>}
MCOptions ==
  {[has_mm |-> m, mm |-> {byte1}, import_write_ecs |-> w, rightmargin |-> "W", importer |-> i, sanitychecks |-> s] :
     m \in BOOLEAN, w \in BOOLEAN, i \in Importers, s \in BOOLEAN}
=============================================================================
