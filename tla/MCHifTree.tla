----------------------------- MODULE MCHifTree -----------------------------
(* A small HIF tree for TLC: three or four nodes, two of them with fields and a list. *)
EXTENDS HifTree, TLC

CONSTANTS a, b, c, d, a1, a2, b1, La, Lb, Lfree

MCSlotOwner == [s \in Slot |-> IF s = b1 THEN b ELSE a]
MCListOwner == [L \in List |-> IF L = La THEN a ELSE IF L = Lb THEN b ELSE NULL]

\* c and d have no fields and no lists.
Sym == Permutations({c, d}) \cup Permutations({a1, a2})
=============================================================================
