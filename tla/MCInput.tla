------------------------------ MODULE MCInput -------------------------------
(***************************************************************************)
(* Two clients that hold and let go of a button, click it for 10 s, drag   *)
(* it with a modifier, hold a key for 10 s, combine keys, one of which is  *)
(* named twice, type a capital, and set a layout, of which each answer     *)
(* takes 10 s.  Requests that only move the pointer are as a drag is       *)
(* before its press; a picture and status are parts of a layout.           *)
(***************************************************************************)
EXTENDS Input

CONSTANTS button, letter, shift

Req(op, mods, key, n) ==
  [op |-> op, mods |-> mods, key |-> key, n |-> n,
   text |-> <<[key |-> letter, shift |-> TRUE], [key |-> None, shift |-> FALSE]>>]

Requests ==
  {Req("press", <<>>, button, 0), Req("let", <<>>, button, 0),
   Req("press", <<>>, shift, 0),
   Req("click", <<>>, button, 1), Req("drag", <<shift>>, button, 0),
   Req("hold", <<shift>>, None, 1), Req("combo", <<letter, shift, letter>>, None, 0),
   Req("type", <<>>, None, 0),
   Req("layout", <<>>, None, 1)}
=============================================================================
