------------------------- MODULE MCDatabaseCampaign -------------------------
(***************************************************************************)
(* Instance of DatabaseCampaign for TLC: three pilots, results of two rows *)
(***************************************************************************)
EXTENDS DatabaseCampaign
CONSTANTS p1, p2, p3
MCPilotList == <<p1, p2, p3>>
MCKeyList == <<0, 1>>
=============================================================================
