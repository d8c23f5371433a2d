------------------------------ MODULE MCVerbs -------------------------------
(***************************************************************************)
(* Two shells: screenshots, clicks, typing, zooms, and batches that take a *)
(* picture and aim by it, or drag from where the pointer is.               *)
(***************************************************************************)
EXTENDS Verbs, TLC

CONSTANTS small, large, d1, d2

Screens == {[disp |-> d1, size |-> small], [disp |-> d1, size |-> large],
            [disp |-> d2, size |-> small]}

Verb(requests) == [batch |-> FALSE, todo |-> requests]
Batch(requests) == [batch |-> TRUE, todo |-> requests]

Commands ==
  {Verb(ScreenshotCmd), Verb(AimCmd), Verb(PressCmd), Verb(ZoomCmd),
   Batch(ScreenshotCmd \o AimCmd), Batch(FromPointer)}

Alike == Permutations(Shell)
=============================================================================
