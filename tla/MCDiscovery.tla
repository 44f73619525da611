---------------------------- MODULE MCDiscovery ----------------------------
(***************************************************************************)
(* Discovery for TLC: two of everything, so that iconfig's settings can    *)
(* change within a probe and between two.                                  *)
(***************************************************************************)
EXTENDS Discovery
=============================================================================
