------------------------------- MODULE MCSearch -------------------------------
(* Three users and two texts; which of the users are listed at first is     *)
(* free, so each text may match all, some or none of them.                  *)
EXTENDS Search, TLC

CONSTANTS ann, bob, amy, a, an

MCMatching == (a :> {ann, amy}) @@ (an :> {ann})
=============================================================================
