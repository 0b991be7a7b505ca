----------------------------- MODULE MCAppleir -----------------------------
(***************************************************************************)
(* Instance of Appleir: two keys are enough for one to be forgotten while  *)
(* the other is current; the keys are interchangeable.                     *)
(***************************************************************************)
EXTENDS Appleir, TLC

CONSTANTS Menu, Play

TwoKeys == {Menu, Play}

Interchangeable == Permutations(TwoKeys)
=============================================================================
