----------------------------- MODULE MCStartup -----------------------------
(***************************************************************************)
(* Startup for TLC: all five requests, any loss, and one or two notices.   *)
(***************************************************************************)
EXTENDS Startup
=============================================================================
