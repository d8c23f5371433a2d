----------------------------- MODULE MCRecorder -----------------------------
(***************************************************************************)
(* Two units of time to a frame, so that a tick can be on time, one unit   *)
(* late, a whole frame late, and late enough to resynchronize; recordings  *)
(* of eleven units, which is not a whole number of frames.                  *)
(***************************************************************************)
EXTENDS Recorder
=============================================================================
