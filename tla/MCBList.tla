------------------------------ MODULE MCBList ------------------------------
(* Small instances of BList for TLC. *)
EXTENDS BList, TLC

Sym == Permutations(Obj) \cup Permutations(Link)
=============================================================================
