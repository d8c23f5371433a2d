----------------------------- MODULE MCXBackend -----------------------------
(***************************************************************************)
(* Two requests at once, over two servers.  A button that may be held, and *)
(* a spare keycode that is bound for a request that presses the button.    *)
(***************************************************************************)
EXTENDS XBackend

CONSTANTS button, spare

Chords == {<<spare, button>>}

\* Requests and servers are alike.
Alike == Permutations(Call) \cup Permutations(Server)
=============================================================================
