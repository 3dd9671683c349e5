---------------------- MODULE MCInjectionPointHops ----------------------
(* Three instructions, two of them with and without an access to a byte. *)
EXTENDS InjectionPointHops

MCInstructions == {<<"x1">>, <<"x2">>, <<"x3">>, <<"x1", "y">>, <<"x2", "y">>}
=============================================================================
