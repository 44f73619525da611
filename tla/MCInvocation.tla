---------------------------- MODULE MCInvocation ----------------------------
(***************************************************************************)
(* Invocation for TLC: three calls, so that a call can meet the request or *)
(* the reply of an earlier one, and two values.                            *)
(***************************************************************************)
EXTENDS Invocation
=============================================================================
