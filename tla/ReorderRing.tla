------------------------------ MODULE ReorderRing ------------------------------
(***************************************************************************)
(* One reorder ring of cls_reorder.c: the ordered lock that makes receiver *)
(* contexts handle the packets of a port one at a time and in the order    *)
(* the NBI numbered them.                                                  *)
(*                                                                         *)
(* The ring is RingSize words of cluster local scratch memory.  A context  *)
(* locks with the sequence number of its packet: if the number is where    *)
(* the ring's head points it goes in, otherwise its signal information is  *)
(* written at the word of that number and it waits.  Unlock moves the head *)
(* on, takes what was written at the new head, and signals that context.   *)
(*                                                                         *)
(* The code passes sequence & REORDER_RING_SEQ_MASK.  Here the numbers are *)
(* not masked and every use of one goes through Word.                      *)
(***************************************************************************)
EXTENDS Integers, FiniteSets

CONSTANTS
  Contexts,  \* receiver contexts of the island
  RingSize,  \* REORDER_RING_SIZE_LW
  Packets,   \* how many packets the NBI delivers
  None       \* an empty word of the ring

ASSUME RingAssumption ==
  /\ IsFiniteSet(Contexts)
  /\ RingSize \in Nat \ {0}
  /\ Packets \in Nat
  /\ None \notin Contexts

\* What the ring needs of the program that uses it, see the README.
EnoughWords == Cardinality(Contexts) <= RingSize

VARIABLES
  arrived,  \* how many packets the NBI has handed to contexts
  head,     \* the ring's head pointer, not masked
  word,     \* word[w]: the context whose signal waits in that word, or None
  pc,       \* pc[c]: where context c is
  seq       \* seq[c]: the sequence number of its packet, 0 if it has none

vars == <<arrived, head, word, pc, seq>>

Word(n) == n % RingSize

Init ==
  /\ arrived = 0
  /\ head = 0
  /\ word = [w \in 0 .. RingSize - 1 |-> None]
  /\ pc = [c \in Contexts |-> "idle"]
  /\ seq = [c \in Contexts |-> 0]

Receive(c) ==
  /\ pc[c] = "idle"
  /\ arrived < Packets
  /\ pc' = [pc EXCEPT ![c] = "received"]
  /\ seq' = [seq EXCEPT ![c] = arrived]
  /\ arrived' = arrived + 1
  /\ UNCHANGED <<head, word>>

\* Mutant: the lock does not look at the head.
EnterAtOnce(c) ==
  /\ pc[c] = "received"
  /\ pc' = [pc EXCEPT ![c] = "inside"]
  /\ UNCHANGED <<arrived, head, word, seq>>

Enter(c) ==
  /\ pc[c] = "received"
  /\ Word(seq[c]) = Word(head)
  /\ pc' = [pc EXCEPT ![c] = "inside"]
  /\ UNCHANGED <<arrived, head, word, seq>>

Wait(c) ==
  /\ pc[c] = "received"
  /\ Word(seq[c]) # Word(head)
  /\ pc' = [pc EXCEPT ![c] = "waiting"]
  /\ word' = [word EXCEPT ![Word(seq[c])] = c]
  /\ UNCHANGED <<arrived, head, seq>>

reorder_lock(c) == Enter(c) \/ Wait(c)

\* Mutants: nobody is signalled, the word of the old head is taken.
UnlockSilently(c) ==
  /\ pc[c] = "inside"
  /\ head' = head + 1
  /\ pc' = [pc EXCEPT ![c] = "idle"]
  /\ seq' = [seq EXCEPT ![c] = 0]
  /\ UNCHANGED <<arrived, word>>

UnlockOldWord(c) ==
  /\ pc[c] = "inside"
  /\ head' = head + 1
  /\ pc' = [d \in Contexts |->
              IF d = c THEN "idle"
              ELSE IF d = word[Word(head + 1)] THEN "inside" ELSE pc[d]]
  /\ word' = [word EXCEPT ![Word(head)] = None]
  /\ seq' = [seq EXCEPT ![c] = 0]
  /\ UNCHANGED arrived

reorder_unlock(c) ==
  /\ pc[c] = "inside"
  /\ head' = head + 1
  /\ pc' = [d \in Contexts |->
              IF d = c THEN "idle"
              ELSE IF d = word[Word(head + 1)] THEN "inside" ELSE pc[d]]
  /\ word' = [word EXCEPT ![Word(head + 1)] = None]
  /\ seq' = [seq EXCEPT ![c] = 0]
  /\ UNCHANGED arrived

Next == \E c \in Contexts : Receive(c) \/ reorder_lock(c) \/ reorder_unlock(c)

\* A context that is inside or about to lock keeps running: microengine
\* contexts are scheduled round robin and never wait for one another there.
Fairness == \A c \in Contexts : WF_vars(reorder_lock(c)) /\ WF_vars(reorder_unlock(c))

Spec == Init /\ [][Next]_vars
FairSpec == Spec /\ Fairness

-----------------------------------------------------------------------------
TypeOK ==
  /\ arrived \in 0 .. Packets
  /\ head \in 0 .. arrived
  /\ word \in [0 .. RingSize - 1 -> Contexts \cup {None}]
  /\ pc \in [Contexts -> {"idle", "received", "waiting", "inside"}]
  /\ seq \in [Contexts -> 0 .. Packets]

\* Nobody is inside while another context is, or holds an older packet that
\* has not been inside yet: the region between reorder_lock and
\* reorder_unlock is entered one packet at a time, in the order of arrival.
OldestAlone ==
  \A c, d \in Contexts :
    pc[c] = "inside" /\ pc[d] # "idle" /\ c # d => pc[d] # "inside" /\ seq[c] < seq[d]

\* A context that waits is the one its word will wake, so no signal is lost
\* and none goes to a context that is not waiting.
SignalsMatchWaiters ==
  /\ \A c \in Contexts : pc[c] = "waiting" => word[Word(seq[c])] = c
  /\ \A w \in DOMAIN word : word[w] # None => pc[word[w]] = "waiting"

\* The numbers from the head to the last arrival are those of the contexts
\* that hold a packet, one each; the one inside holds the head's.
Covered == \A n \in head .. arrived - 1 : \E c \in Contexts : pc[c] # "idle" /\ seq[c] = n
InWindow == \A c \in Contexts : pc[c] # "idle" => seq[c] \in head .. arrived - 1
OneEach == \A c, d \in Contexts : pc[c] # "idle" /\ pc[d] # "idle" /\ seq[c] = seq[d] => c = d
HeadInside ==
  \A c \in Contexts :
    /\ pc[c] = "inside" => seq[c] = head
    /\ pc[c] = "waiting" => seq[c] # head
WordsMatch == \A w \in DOMAIN word : word[w] # None => Word(seq[word[w]]) = w

\* The inductive invariant: OldestAlone and SignalsMatchWaiters, and why.
IInv ==
  TypeOK /\ Covered /\ InWindow /\ OneEach /\ HeadInside /\ WordsMatch /\ SignalsMatchWaiters

\* Every packet that was received gets through the ring.
EveryPacketPasses == \A c \in Contexts : pc[c] = "received" ~> pc[c] = "idle"
=============================================================================
