----------------------------- MODULE MCUserSync -----------------------------
(***************************************************************************)
(* UserSync for TLC: two accounts, two passwords and two changes, so that  *)
(* an account can be added, altered and deleted around the snapshot, and   *)
(* one change can come before it and another one after it.                 *)
(***************************************************************************)
EXTENDS UserSync
=============================================================================
