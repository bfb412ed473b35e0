----------------------------- MODULE MCReorderRing -----------------------------
(* Instances of ReorderRing for TLC.                                        *)
EXTENDS ReorderRing, TLC

Alike == Permutations(Contexts)
=============================================================================
