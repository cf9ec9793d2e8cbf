------------------------------ MODULE MCDecode ------------------------------
(***************************************************************************)
(* The decode sample for TLC.  A module of its own, so that the constants   *)
(* of further instances have a place.                                      *)
(***************************************************************************)
EXTENDS DecodePipeline

AllModes == {"performance", "file", "render"}
=============================================================================
