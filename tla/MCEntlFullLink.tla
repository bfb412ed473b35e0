--------------------------- MODULE MCEntlFullLink ---------------------------
(* Instances of EntlLink whose queues reach MAX_ENTT_QUEUE_SIZE, for TLC.    *)
EXTENDS EntlLink

CONSTANTS ValueA, ValueB, OffersA, OffersB

OneAit == <<"AIT">>

MCMyValue == [s \in {A, B} |-> IF s = A THEN ValueA ELSE ValueB]
MCOffers == [s \in {A, B} |-> IF s = A THEN OffersA ELSE OffersB]
RedrawAny == [s \in {A, B} |-> {1, 2, 3}]
=============================================================================
