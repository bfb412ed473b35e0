------------------------------ MODULE MCEntlLink ------------------------------
(* Instances of EntlLink for TLC.                                           *)
EXTENDS EntlRegularLink

CONSTANTS ValueA, ValueB, OffersA, OffersB

NoOffers == <<>>
OneAit == <<"AIT">>
TwoAits == <<"AIT", "AIT">>
AitAlo == <<"AIT", "ALO">>
BothAit == <<"BOTH", "AIT">>
AitBothAit == <<"AIT", "BOTH", "AIT">>
AitAloBoth == <<"AIT", "ALO", "BOTH">>
AloAlo == <<"ALO", "ALO">>

MCMyValue == [s \in {A, B} |-> IF s = A THEN ValueA ELSE ValueB]
MCOffers == [s \in {A, B} |-> IF s = A THEN OffersA ELSE OffersB]

\* The microengine build: entl_set_random draws the constant 0xbeef.
RedrawConstant == [s \in {A, B} |-> {2}]
\* The host build: any 16 bit number, here one of three.
RedrawAny == [s \in {A, B} |-> {1, 2, 3}]
=============================================================================
