------------------------------ MODULE MCStills ------------------------------
(***************************************************************************)
(* Two recorders and two names: the one is pruned while the other records, *)
(* or both start under one name.  prune keeps none of the idle             *)
(* directories, or one.                                                    *)
(***************************************************************************)
EXTENDS Stills, TLC

\* Recorders and names are alike.
Alike == Permutations(Recorder) \cup Permutations(Name)
=============================================================================
