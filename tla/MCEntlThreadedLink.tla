-------------------------- MODULE MCEntlThreadedLink --------------------------
(* Instances of EntlThreadedLink for TLC.                                   *)
EXTENDS EntlThreadedLink

CONSTANTS ValueA, ValueB

MCMyValue == [s \in {A, B} |-> IF s = A THEN ValueA ELSE ValueB]
\* The microengine draws its own constant again, the host any of two numbers.
MCRedraw == [s \in {A, B} |-> IF s = A THEN {ValueA} ELSE {1, 2}]

Alike == Permutations(Receivers) \cup Permutations(Buffers)
=============================================================================
