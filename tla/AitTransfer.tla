------------------------------ MODULE AitTransfer ------------------------------
(***************************************************************************)
(* What ENTL promises to its callers about AIT messages, without events,   *)
(* packets or states: a message is taken off its sender's queue and is     *)
(* then delivered, once, before the next message of either end is taken.   *)
(* It is the AITR that lets the sender drop its message and the AITA that  *)
(* lets the receiver deliver the one it kept                               *)
(* (entl_state_machine.c:753 and :507).                                    *)
(***************************************************************************)
EXTENDS Naturals, Sequences

CONSTANTS
  A, B,     \* the two ends
  Offers    \* Offers[s]: kinds of the transfers end s will want, in order

VARIABLES
  queued,   \* queued[s]: how many of Offers[s] were put in the queue
  dropped,  \* dropped[s]: how many of them left it again
  done,     \* done[s]: the messages of s taken for transferred, in order
  got       \* got[s]: the messages delivered at s, in order

transferVars == <<queued, dropped, done, got>>

Ends == {A, B}
Other(s) == IF s = A THEN B ELSE A

\* No message was taken that is not delivered.
Settled(s) == done[s] = got[Other(s)]

TransferInit ==
  /\ queued = [s \in Ends |-> 0]
  /\ dropped = [s \in Ends |-> 0]
  /\ done = [s \in Ends |-> <<>>]
  /\ got = [s \in Ends |-> <<>>]

Put(s) ==
  /\ queued[s] < Len(Offers[s])
  /\ queued' = [queued EXCEPT ![s] = @ + 1]
  /\ UNCHANGED <<dropped, done, got>>

TakeHead(s, kinds) ==
  /\ dropped[s] < queued[s]
  /\ Offers[s][dropped[s] + 1] \in kinds
  /\ \A t \in Ends : Settled(t)
  /\ dropped' = [dropped EXCEPT ![s] = @ + 1]
  /\ UNCHANGED <<queued, got>>

\* The head of the queue is a message, or a command downgraded to one.
TakeMessage(s) ==
  /\ TakeHead(s, {"AIT", "BOTH"})
  /\ done' = [done EXCEPT ![s] = Append(@, dropped[s] + 1)]

\* The head of the queue was an atomic command, it is not delivered.
TakeCommand(s) ==
  /\ TakeHead(s, {"ALO", "BOTH"})
  /\ UNCHANGED done

\* The message of s that is under way is delivered at the other end.
Deliver(s) ==
  /\ ~Settled(s)
  /\ got' = [got EXCEPT ![Other(s)] = Append(@, done[s][Len(done[s])])]
  /\ UNCHANGED <<queued, dropped, done>>

TransferNext ==
  \E s \in Ends : Put(s) \/ TakeMessage(s) \/ TakeCommand(s) \/ Deliver(s)

TransferSpec == TransferInit /\ [][TransferNext]_transferVars
===============================================================================
