---------------------------- MODULE EntlRegularLink ----------------------------
(***************************************************************************)
(* The assumptions under which a link of EntlLink never fails, and the     *)
(* inductive invariant that shows it.                                      *)
(***************************************************************************)
EXTENDS EntlLink

\* The two ends drew different numbers, no caller lets its queue fill up, and
\* an end that may refuse a message for lack of room offers none itself.
ASSUME RegularAssumption ==
  /\ MyValue[A] # MyValue[B]
  /\ QueueLimit < QueueMax
  /\ \A s \in Rejecting : Offers[s] = <<>>

\* The end that wins the greeting and the one that gets the token first.
Upper == IF MyValue[A] > MyValue[B] THEN A ELSE B
Lower == Peer(Upper)

Places(s) == 1 .. Len(chan[s])

\* The packets towards s and the one its caller is about to send.
One(b) == IF b THEN 1 ELSE 0
Tokens(s) == One(wake[s]) + Len(chan[s])

HelloFrom(s) == Pkt("HELLO", MyValue[s])
Invitation == Pkt("ENTL", 0)
Reply == Pkt("ENTL", 1)

\* Both ends in HELLO, at most the two packets the callers started with.
Greeting ==
  /\ \A s \in Side : mcn[s].state = "HELLO" /\ mcn[s].sent = 0
  /\ \A s \in Side : \A i \in Places(s) : chan[s][i] = HelloFrom(Peer(s))
  /\ \A s \in Side : Tokens(s) + Tokens(Peer(s)) <= 2

UpperWaits ==
  /\ mcn[Upper].state = "WAIT" /\ mcn[Upper].sent = 0

\* Upper repeats event 0 until Lower, still in HELLO, hears it.  Of the two
\* packets at most one HELLO is left, in whatever place.
Inviting ==
  /\ UpperWaits
  /\ mcn[Lower].state = "HELLO" /\ mcn[Lower].sent = 0
  /\ \A i \in Places(Lower) :
       chan[Lower][i] = Invitation \/ (i = 1 /\ chan[Lower][1] = HelloFrom(Upper))
  /\ \A i \in Places(Upper) : chan[Upper][i] = HelloFrom(Lower)
  /\ One(wake[Lower]) + Len(chan[Upper]) + mcn[Upper].count
       + One(chan[Lower] # <<>> /\ chan[Lower][1] = HelloFrom(Upper)) <= 1

\* Lower heard event 0 and is about to send event 1.
Invited ==
  /\ UpperWaits
  /\ mcn[Lower].state = "SEND"
  /\ mcn[Lower].know = 0 /\ mcn[Lower].sent = 0 /\ mcn[Lower].next = 1
  /\ \A i \in Places(Lower) : chan[Lower][i] = Invitation
  /\ \A i \in Places(Upper) : chan[Upper][i] = HelloFrom(Lower)
  /\ Len(chan[Upper]) + mcn[Upper].count <= 1

\* Event 1 is on its way to Upper or lost, behind a last HELLO perhaps.
Replied ==
  /\ UpperWaits
  /\ mcn[Lower].state = "RECEIVE"
  /\ mcn[Lower].know = 0 /\ mcn[Lower].sent = 1 /\ mcn[Lower].next = Plus2(1)
  /\ \A i \in Places(Lower) : chan[Lower][i] = Invitation
  /\ \A i \in Places(Upper) :
       \/ i = 1 /\ chan[Upper][1] = HelloFrom(Lower) /\ mcn[Upper].count = 0
       \/ i = Len(chan[Upper]) /\ chan[Upper][i] = Reply

\* Copies of event 0 that Lower has still to ignore.
Stale(y, i) ==
  /\ y = Lower /\ mcn[y].state = "RECEIVE" /\ mcn[y].know = 0
  /\ chan[y][i] = Invitation

\* Event numbers of an end that waits for its peer's next event.
WaitingNumbers(x) ==
  /\ mcn[x].sent = NextValue(mcn[x].know)
  /\ mcn[x].next = Plus2(mcn[x].sent)

\* The state of the waiting end x that goes with the state of the holder y.
\* An end that refused a message answers it with a plain event.
HolderPair(y, x) ==
  \/ mcn[y].state = "SEND" /\ mcn[x].state = "RECEIVE"
  \/ mcn[y].state = "SEND" /\ mcn[x].state = "RA" /\ y \in Rejecting
  \/ mcn[y].state = "SB"  /\ mcn[x].state = "RA"
  \/ mcn[y].state = "SBL" /\ mcn[x].state = "RAL"
  \/ mcn[y].state = "SA"  /\ mcn[x].state = "RB"
  \/ mcn[y].state = "SAL" /\ mcn[x].state = "RBL"

\* y has the token.  Without wake it lost it: its ALO command was refused.
Holds(y) ==
  LET x == Peer(y) IN
  /\ HolderPair(y, x)
  /\ WaitingNumbers(x)
  /\ mcn[y].know = mcn[x].sent
  /\ wake[y] => mcn[y].next = NextValue(mcn[y].know)
  /\ chan[y] = <<>>
  /\ \A i \in Places(x) : Stale(x, i)

\* The packet from x that y, in the state it is in, expects.
FlightPair(x, m, y) ==
  \/ m.type = "ENTL" /\ mcn[x].state = "RECEIVE" /\ mcn[y].state = "RECEIVE"
  \/ m.type = "ENTL" /\ mcn[x].state = "RECEIVE" /\ mcn[y].state = "RA"
     /\ x \in Rejecting
  \/ /\ m.type = "AITS" /\ m.op = "AIT"
     /\ mcn[x].state = "RA" /\ mcn[y].state = "RECEIVE"
  \/ /\ m.type = "AITS" /\ m.op = "ALO"
     /\ mcn[x].state = "RAL" /\ mcn[y].state = "RECEIVE"
  \/ m.type = "AITR" /\ mcn[x].state = "RB" /\ mcn[y].state = "RA"
  \/ m.type = "AITR" /\ mcn[x].state = "RBL" /\ mcn[y].state = "RAL"
  \/ m.type = "AITA" /\ mcn[x].state = "RECEIVE" /\ mcn[y].state = "RB"
  \/ m.type = "AITA" /\ mcn[x].state = "RECEIVE" /\ mcn[y].state = "RBL"

\* The token is on its way from x to its peer, or was lost there.
Flight(x) ==
  LET y == Peer(x) IN
  /\ mcn[x].state \in WaitingState /\ mcn[y].state \in WaitingState
  /\ WaitingNumbers(x) /\ WaitingNumbers(y)
  /\ mcn[x].know = mcn[y].sent
  /\ chan[x] = <<>>
  /\ \A i \in Places(y) :
       \/ Stale(y, i)
       \/ /\ i = Len(chan[y])
          /\ chan[y][i].value = mcn[x].sent
          /\ FlightPair(x, chan[y][i], y)

Phase ==
  \/ Greeting
  \/ Inviting
  \/ Invited
  \/ Replied
  \/ \E y \in Side : Holds(y)
  \/ \E x \in Side : Flight(x)

\* What does not depend on the phase.
Steady ==
  /\ \A s \in Side : ~mcn[s].failed /\ mcn[s].value = MyValue[s]
  /\ \A s \in Side : dropped[s] <= queued[s] /\ queued[s] <= Len(Offers[s])
  /\ \A s \in Side : Waiting(s) <= QueueLimit
  /\ \A s \in Side : mcn[s].state \in {"RA", "RAL", "SA", "SAL"} => Waiting(s) > 0

\* The inductive invariant.
IInv == TypeOK /\ Steady /\ Phase

-----------------------------------------------------------------------------
(* What the link does to messages.                                         *)

Transfers == INSTANCE AitTransfer

\* The link implements AitTransfer: whatever is refused, downgraded or lost, no
\* message is delivered that its sender still offers, and at no time is there
\* more than one, of both ends, that was taken and is not delivered.
TransfersImplemented == Transfers!TransferSpec

\* What the sender x and the receiver y of a message agree on.  Their states
\* tell whether the message in kept was dropped and is still to be delivered.
Balance(x, y) ==
  IF mcn[x].state = "RECEIVE" /\ mcn[y].state = "RB"
  THEN done[x] = Append(got[y], kept[y])
  ELSE done[x] = got[y]

KeptIsHead(x, y) ==
  mcn[x].state \in {"RA", "SA"} /\ mcn[y].state \in {"SB", "RB"}
    => kept[y] = dropped[x] + 1

HeadOnWire(x, y) ==
  \A i \in Places(y) : chan[y][i].type = "AITS" /\ chan[y][i].op = "AIT"
                         => chan[y][i].id = dropped[x] + 1

KindOfHead(x) ==
  /\ mcn[x].state \in {"RA", "SA"} => Offers[x][dropped[x] + 1] \in {"AIT", "BOTH"}
  /\ mcn[x].state \in {"RAL", "SAL"} => Offers[x][dropped[x] + 1] \in {"ALO", "BOTH"}

Agreement(x, y) ==
  Balance(x, y) /\ KeptIsHead(x, y) /\ HeadOnWire(x, y) /\ KindOfHead(x)

\* Inductive together with IInv.
AgreementInv == \A x \in Side : Agreement(x, Peer(x))
=============================================================================
