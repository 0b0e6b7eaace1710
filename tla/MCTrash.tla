------------------------------ MODULE MCTrash ------------------------------
(* Three nodes that can be nested: a over b over c, in fields and in a list. *)
EXTENDS Trash, TLC

CONSTANTS a, b, c, a1, b1, La, Lfree

MCSlotOwner == [s \in Slot |-> IF s = b1 THEN b ELSE a]
MCListOwner == [L \in List |-> IF L = La THEN a ELSE NULL]
=============================================================================
