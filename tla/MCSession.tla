------------------------------ MODULE MCSession -------------------------------
(* Two users and three presses: log in, again before it is answered, and    *)
(* once more after a log out.                                               *)
EXTENDS Session, TLC

TrySymmetry == Permutations(Tries)
=============================================================================
