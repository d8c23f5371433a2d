------------------------------- MODULE MCRecd -------------------------------
(***************************************************************************)
(* Two starts, a recorder run by hand, a stop and two notes.               *)
(***************************************************************************)
EXTENDS Recd, TLC

Alike == Permutations(Start) \cup Permutations(Note)

\* The signals of recorders that live: for one that is gone none counts.
pendingSignals == {r \in signalled : Alive(r)}

\* The notes in the manifests of which a property says something: whether they
\* are there, or that they are not.
keptOld == [s \in Start |-> kept[s] \cap before[s]]
keptIntime == {n \in intime : n \in kept[saw[n]]}

\* No step depends on the histories saw, intime and crossed, nor on kept.  Of kept
\* this is all that a property reads but that it is empty at first, as a note that
\* is answered after a recorder has read the timeline is not in time for it, and
\* files are cleared before it runs.
\* When a live recorder's pid file is gone the properties say no more of the
\* others than what values they may have.  Two states that differ in nothing else
\* are one from there on.
Told ==
  LET now == <<lock, pid, json, timeline, tail, spc, rpc, pendingSignals, wrote,
               tpc, target, npc, failed, shared, killed, strayed, extra, before>> IN
  IF strayed THEN <<now, keptOld>> ELSE <<now, keptOld, keptIntime, saw, intime, crossed>>
=============================================================================
