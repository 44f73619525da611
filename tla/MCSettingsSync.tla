--------------------------- MODULE MCSettingsSync ---------------------------
(***************************************************************************)
(* SettingsSync for TLC: two changes, so that the two settings an          *)
(* operation reports can be changed by one notice or by two, one change    *)
(* can come before the snapshot and the other one after it.                *)
(* Other clients change the whole section; the daemon's own operations set *)
(* both name servers, either port, or the address.                         *)
(***************************************************************************)
EXTENDS SettingsSync

Section == {Keys}
=============================================================================
