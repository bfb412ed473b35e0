------------------------------- MODULE EntlLink -------------------------------
(***************************************************************************)
(* One ENTL link: two ends running the state machine of EntlStateMachine,  *)
(* a FIFO wire in each direction that may lose packets, and at each end    *)
(* the caller of the library.                                              *)
(*                                                                         *)
(* A caller is a loop that hands received packets to entl_received and     *)
(* then calls entl_next_send.  The NFP sender microengine                  *)
(* (entl_packet_sender.c) does so after every packet, whatever             *)
(* entl_received returned.  The host (entl_packet_test_run.c) reads all    *)
(* the packets that wait, and calls entl_next_send if entl_received        *)
(* returned something other than NOP for the last of them.  wake[s] is     *)
(* true from a call of entl_received that asks for an answer to the next   *)
(* call of either function.                                                *)
(*                                                                         *)
(* Callers keep a queue of outgoing transfers: AIT messages and ALO        *)
(* commands.  ENTL_ACTION_PROC_AIT tells the caller to keep the message it *)
(* was handed, ENTL_ACTION_SIG_AIT to deliver the one it kept, and         *)
(* ENTL_ACTION_DROP_AIT to drop the head of its queue.                     *)
(***************************************************************************)
EXTENDS EntlStateMachine, FiniteSets

CONSTANTS
  MyValue,    \* MyValue[s]: my_value set by main() before the first packet
  Starters,   \* ends that call entl_next_send before they receive anything
  Polling,    \* ends that call entl_next_send whatever entl_received returned
  Offers,     \* Offers[s]: kinds of the transfers end s will want, in order
  QueueLimit, \* most transfers a caller lets wait in its queue
  QueueMax,   \* MAX_ENTT_QUEUE_SIZE: from here on is_ENTT_queue_full
  Rejecting,  \* ends that may also report a full receive queue
  Initiates,  \* what alo_initiate may return
  Lossy       \* whether the wire may lose packets

ASSUME CallerAssumption ==
  /\ MyValue \in [Side -> Nat]
  /\ Starters \subseteq Side
  /\ Polling \subseteq Side
  /\ Offers \in [Side -> Seq(Kind)]
  /\ QueueLimit \in Nat
  /\ QueueMax \in Nat
  /\ Rejecting \subseteq Side
  /\ Initiates \subseteq BOOLEAN
  /\ Lossy \in BOOLEAN

VARIABLES
  wake,     \* wake[s]: the caller at s is about to call entl_next_send
  queued,   \* queued[s]: how many of Offers[s] were put in the queue
  dropped,  \* dropped[s]: how many of them left it again
  kept,     \* kept[s]: the message kept on PROC_AIT, 0 if none
  done,     \* done[s]: the AIT messages s dropped as transferred, in order
  got       \* got[s]: the AIT messages delivered at s, in order

callerVars == <<queued, dropped, kept, done, got>>
vars == <<mcn, act, chan, wake, callerVars>>

Init ==
  /\ mcn = [s \in Side |-> Booted(MyValue[s])]
  /\ act = [s \in Side |-> {}]
  /\ chan = [s \in Side |-> <<>>]
  /\ wake = [s \in Side |-> s \in Starters]
  /\ queued = [s \in Side |-> 0]
  /\ dropped = [s \in Side |-> 0]
  /\ kept = [s \in Side |-> 0]
  /\ done = [s \in Side |-> <<>>]
  /\ got = [s \in Side |-> <<>>]

Waiting(s) == queued[s] - dropped[s]

\* The transfer the caller passes to entl_next_send.
Offered(s) == IF Waiting(s) > 0 THEN Offers[s][dropped[s] + 1] ELSE "NONE"

\* What is_ENTT_queue_full may say of the ait_queue argument.
FullReports(s) ==
  {Waiting(s) >= QueueMax} \cup (IF s \in Rejecting THEN {TRUE} ELSE {})

Offer(s) ==
  /\ queued[s] < Len(Offers[s])
  /\ Waiting(s) < QueueLimit
  /\ queued' = [queued EXCEPT ![s] = @ + 1]
  /\ UNCHANGED <<mcn, act, chan, wake, dropped, kept, done, got>>

\* The host goes on reading, whatever the packets before returned.
Reads(s) == wake[s] => s \notin Polling /\ act[s] # {}

Receive(s) ==
  /\ Reads(s)
  /\ chan[s] # <<>>
  /\ chan' = [chan EXCEPT ![s] = Tail(@)]
  /\ \E full \in FullReports(s) : Received(s, Head(chan[s]), full)
  /\ wake' = [wake EXCEPT ![s] = s \in Polling \/ act'[s] # {}]
  /\ kept' = IF "PROC_AIT" \in act'[s]
             THEN [kept EXCEPT ![s] = Head(chan[s]).id] ELSE kept
  /\ got' = IF mcn[s].state = "RB" /\ "SIG_AIT" \in act'[s]
            THEN [got EXCEPT ![s] = Append(@, kept[s])] ELSE got
  /\ UNCHANGED <<queued, dropped, done>>

Send(s) ==
  /\ wake[s]
  /\ wake' = [wake EXCEPT ![s] = FALSE]
  /\ \E ok \in Initiates : NextSend(s, Offered(s), ok, dropped[s] + 1)
  /\ IF "DROP_AIT" \in act'[s]
     THEN /\ dropped' = [dropped EXCEPT ![s] = @ + 1]
          /\ done' = IF mcn[s].state = "SA"
                     THEN [done EXCEPT ![s] = Append(@, dropped[s] + 1)]
                     ELSE done
     ELSE UNCHANGED <<dropped, done>>
  /\ UNCHANGED <<queued, kept, got>>

Lose(s) ==
  /\ Lossy
  /\ chan[s] # <<>>
  /\ chan' = [chan EXCEPT ![s] = Tail(@)]
  /\ UNCHANGED <<mcn, act, wake, callerVars>>

Next == \E s \in Side : Offer(s) \/ Receive(s) \/ Send(s) \/ Lose(s)

\* Both callers are loops that run as long as there is something to do, and a
\* full receive queue is emptied: a message offered again and again gets in.
Fairness == \A s \in Side :
  /\ WF_vars(Offer(s)) /\ WF_vars(Receive(s)) /\ WF_vars(Send(s))
  /\ s \in Rejecting => SF_vars(Receive(s) /\ "PROC_AIT" \in act'[s])

Spec == Init /\ [][Next]_vars
FairSpec == Spec /\ Fairness

-----------------------------------------------------------------------------
(* Properties.                                                             *)

\* Every variable has its type: event numbers stay within 16 bits, states and
\* flags are those of the enumerations, wires carry address words.
TypeOK ==
  /\ mcn \in [Side -> Machine]
  /\ act \in [Side -> SUBSET Flag]
  /\ chan \in [Side -> Seq(Packet)]
  /\ wake \in [Side -> BOOLEAN]
  /\ queued \in [Side -> Nat]
  /\ dropped \in [Side -> Nat]
  /\ kept \in [Side -> Nat]
  /\ done \in [Side -> Seq(Nat)]
  /\ got \in [Side -> Seq(Nat)]

HolderState == {"SEND", "SA", "SAL", "SB", "SBL"}
WaitingState == {"RECEIVE", "RA", "RAL", "RB", "RBL"}

\* The link is a token that is at one end or on the wire: the two ends are
\* never both in a state that may send the next event.
OneHolder == \E s \in Side : mcn[s].state \notin HolderState

\* No interleaving of the two callers, loss included, drives either machine
\* into set_error, after which entl_next_send never sends again.
NoSequenceError == \A s \in Side : ~mcn[s].failed

\* An AIT message is dropped from the sender's queue before it is delivered
\* at the receiver, each is delivered at most once and in order, and the two
\* ends never disagree about more than the one message whose AITA is due.
AitExactlyOnce ==
  \A s \in Side :
    LET d == done[s]  g == got[Peer(s)] IN
    /\ Len(g) <= Len(d) /\ Len(d) <= Len(g) + 1
    /\ g = SubSeq(d, 1, Len(g))

\* Once the machines are past the greeting, a packet on the wire carries an
\* event number its receiver takes or knows already, never one to come.
NoFutureEvent ==
  \A s \in Side : \A i \in DOMAIN chan[s] :
    LET m == chan[s][i] IN
    m.type # "HELLO" /\ mcn[s].state \notin {"HELLO", "WAIT"}
      => m.value \in {mcn[s].know, Plus2(mcn[s].know)}

\* An end that waits in RA for its message to be acknowledged is answered by
\* the acknowledgement or, when the other end has no room, by a plain event.
RefusalIsAnswered ==
  \A s \in Side :
    mcn[s].state = "RA" /\ chan[s] # <<>> => Head(chan[s]).type \in {"AITR", "ENTL"}

\* Event 1, the answer to event 0, has been sent: the greeting is over.
Greeted ==
  \A s \in Side :
    /\ mcn[s].state # "HELLO"
    /\ mcn[s].state = "WAIT" => mcn[Peer(s)].state = "RECEIVE"

\* Nobody is about to send and nothing is on the wire: no caller wakes again.
Halted == \A s \in Side : ~wake[s] /\ chan[s] = <<>>

\* Without loss every message put in a queue is delivered at the other end,
\* even if that end refuses it now and then, once the greeting is over.
EveryAitDelivered ==
  \A s \in Side : \A k \in 1 .. Len(Offers[s]) :
    (Greeted /\ queued[s] >= k /\ Offers[s][k] = "AIT")
      ~> (\E i \in DOMAIN got[Peer(s)] : got[Peer(s)][i] = k)

\* Without loss the greeting comes to an end or to a halt, and once it is over
\* each end gets its turn to send again and again: the token never gets stuck.
TokenKeepsMoving ==
  /\ <>(Greeted \/ Halted)
  /\ \A s \in Side : Greeted ~> mcn[s].state = "SEND"

\* Without loss the link falls silent only in the greeting, by a host that
\* reads a second packet, a greeting or event 0 again, behind the one it was to
\* answer, and heeds the last result alone (entl_packet_test_run.c:259).
SilencedByReadingOn ==
  [][~Halted /\ Halted' =>
       /\ ~Greeted
       /\ \E s \in Side \ Polling :
            /\ wake[s] /\ mcn[s].know = 0 /\ chan[s] # <<>>
            /\ \/ mcn[s].state = "WAIT" /\ Head(chan[s]).type = "HELLO"
               \/ mcn[s].state = "SEND" /\ Head(chan[s]).type = "ENTL"]_vars
=============================================================================
