----------------------------- MODULE MCNetmask -----------------------------
(***************************************************************************)
(* Netmask for TLC: every mask of 6 bits and prefix lengths past the width.*)
(***************************************************************************)
EXTENDS Netmask
=============================================================================
