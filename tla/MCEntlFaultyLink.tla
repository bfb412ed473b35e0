--------------------------- MODULE MCEntlFaultyLink ---------------------------
(* Instances of EntlFaultyLink for TLC.                                     *)
EXTENDS EntlFaultyLink

CONSTANTS ValueA, ValueB, OffersA, OffersB

NoOffers == <<>>
OneAit == <<"AIT">>
TwoAits == <<"AIT", "AIT">>
OneAlo == <<"ALO">>

MCMyValue == [s \in {A, B} |-> IF s = A THEN ValueA ELSE ValueB]
MCOffers == [s \in {A, B} |-> IF s = A THEN OffersA ELSE OffersB]
\* A draws what it had or less, which may tie with B or cross it.
RedrawCross == [s \in {A, B} |-> IF s = A THEN {1, 3} ELSE {1, 2}]
=============================================================================
