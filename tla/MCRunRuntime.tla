---------------------------- MODULE MCRunRuntime ----------------------------
(* Small instances of RunRuntime for TLC: one Run whose attempts could      *)
(* occupy two slots.                                                        *)
EXTENDS RunRuntime, TLC

CONSTANTS r1, s1, s2

Alone == [r \in Runs |-> r]       \* no Run has a parent

SlotSymmetry == Permutations(Slots)
=============================================================================
