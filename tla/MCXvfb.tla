------------------------------- MODULE MCXvfb -------------------------------
(***************************************************************************)
(* Two mcps, a shell, two Xvfbs to start and an X server of others.  With  *)
(* /proc something fails and an Xvfb may be stopped by a signal; without   *)
(* it, nothing fails but probes, of an Xvfb that has too many clients.     *)
(***************************************************************************)
EXTENDS Xvfb, TLC

MCMoods == [b \in BOOLEAN |-> IF b THEN {"stopped"} ELSE {"full"}]
MCMaxFaults == [b \in BOOLEAN |-> IF b THEN 1 ELSE 0]

\* Processes, displays and Xvfbs are alike.
Alike == Permutations(Mcp) \cup Permutations(Display) \cup Permutations(Server)
=============================================================================
