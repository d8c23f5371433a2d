------------------------------- MODULE MCMcp -------------------------------
(***************************************************************************)
(* Two calls at once, in four sessions: pictures and coordinates, with a   *)
(* batch that clicks after a picture of its own; buttons and the setting   *)
(* that swaps them; recordings on either back end.                         *)
(***************************************************************************)
EXTENDS Mcp, TLC

Pictures ==
  [backend |-> "xcua", others |-> {},
   tools |-> {Screenshot, SwitchDisplay, Drag, Zoom, DragFromCursor, CursorPosition,
             Batch(<<"shot", "click", "drag">>)}]
Buttons ==
  [backend |-> "cuad", others |-> {"setting"}, tools |-> {MouseDown, MouseUp, Click, Doctor}]
Tapes(b) ==
  [backend |-> b, others |-> {"recordings"}, tools |-> {RecordStart, RecordMark, RecordStop}]

MCSessions == {Pictures, Buttons, Tapes("cuad"), Tapes("xcua")}

Alike == Permutations(Call)
=============================================================================
