-------------------------- MODULE MCMediaProfiles --------------------------
(***************************************************************************)
(* MediaProfiles for TLC.  iconfig uses a name that both profiles list, a  *)
(* name only the main profile lists and a name the tables do not know;     *)
(* clients ask for a listed resolution and one that has no name.           *)
(***************************************************************************)
EXTENDS MediaProfiles, TLC

NamesInUse == {"D1", "1080P", "WXGA"}
AskedFor   == {<<704, 576>>, <<800, 600>>}

Symmetry == Permutations(Rates)
=============================================================================
