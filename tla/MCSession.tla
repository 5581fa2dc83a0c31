----------------------------- MODULE MCSession -----------------------------
(* Two sessions, with just as many numbers as they need when both run, so  *)
(* that every number one of them closes may be given to the other.         *)
EXTENDS Session, TLC

Symmetry == Permutations(Session)
=============================================================================
