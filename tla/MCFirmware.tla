----------------------------- MODULE MCFirmware -----------------------------
(***************************************************************************)
(* Firmware for TLC: an image of one chunk and one of three, so that a     *)
(* shorter one follows a longer one and a flush can come between chunks.   *)
(***************************************************************************)
EXTENDS Firmware

CONSTANTS short, long
Sizes == [i \in Images |-> IF i = short THEN 1 ELSE 3]
=============================================================================
