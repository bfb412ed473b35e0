------------------------------ MODULE MCAloLink ------------------------------
(* Instances of AloLink for TLC.                                            *)
EXTENDS AloLink

CONSTANTS ValueA, ValueB, OffersA, OffersB

NoOffers == <<>>
OneAlo == <<"ALO">>
OneBoth == <<"BOTH">>

MCMyValue == [s \in {A, B} |-> IF s = A THEN ValueA ELSE ValueB]
MCOffers == [s \in {A, B} |-> IF s = A THEN OffersA ELSE OffersB]
RedrawAny == [s \in {A, B} |-> {1, 2, 3}]

\* One command per opcode, condition and bit: a condition means something to
\* RD, WR and SWAP only, a bit to the bit operations.
Distinct(c) ==
  /\ c.op \notin CondOps => c.cond = "ALLWAYS"
  /\ c.op \notin BitOps => c.bit = 0
  /\ c.op = "BAD" => c.sc = 0 /\ c.dt = 0

\* Register 0 at the destination, as every program of the repository asks for.
FirstRegister == {c \in Command : Distinct(c) /\ c.dt = 0}
\* One operation that names register 1 at the destination.
SecondRegister == {c \in Command : Distinct(c) /\ c.op = "INC" /\ c.dt = 1}
=============================================================================
