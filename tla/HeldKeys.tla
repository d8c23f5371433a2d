------------------------------ MODULE HeldKeys ------------------------------
(***************************************************************************)
(* What a back end promises of the keys and buttons that are down: they    *)
(* are those its clients asked to hold, and no request leaves one down     *)
(* that it only used.  A request that uses a key that is held, whether it  *)
(* succeeds or fails, may let go of it.  The daemon of a Wayland session   *)
(* (Input) and the X back end of xcua (XBackend) both implement this.      *)
(***************************************************************************)

CONSTANTS
  Key,     \* keys and buttons
  Uses,    \* the sets of keys that single requests press and let go of
  Button   \* those of a pointer that may be replaced

VARIABLES
  held,    \* what clients hold down
  doing    \* the kind of the request that is carried out

TypeOK == held \subseteq Key /\ doing \in {"nothing", "hold", "let", "use"}

Init == held = {} /\ doing = "nothing"

Begin ==
  /\ doing = "nothing" /\ doing' \in {"hold", "let", "use"}
  /\ UNCHANGED held

End(kind) == doing = kind /\ doing' = "nothing"

\* The request has succeeded or failed.
Hold(k) == End("hold") /\ held' \in {held, held \cup {k}}

LetGo(k) == End("let") /\ held' \in {held, held \ {k}}

Use(K) == End("use") /\ \E gone \in SUBSET K : held' = held \ gone

NewPointer == (\E gone \in SUBSET Button : held' = held \ gone) /\ UNCHANGED doing

\* The device, the server or the connection is gone, or all is released.
LetAllGo == held' = {} /\ doing' \in {doing, "nothing"}

Next ==
  \/ Begin
  \/ \E k \in Key : Hold(k) \/ LetGo(k)
  \/ \E K \in Uses : Use(K)
  \/ NewPointer
  \/ LetAllGo

Spec == Init /\ [][Next]_<<held, doing>>
=============================================================================
