---------------------------- MODULE EntlFaultyLink ----------------------------
(***************************************************************************)
(* The link of EntlLink under the faults its code has branches for: a      *)
(* caller that is woken and calls entl_next_send with nothing received     *)
(* (the receiver contexts of entl_packet_forward_test.c signal once each   *)
(* before they receive), a packet delivered twice (the "same message"      *)
(* branches of entl_received), an end that is reloaded and starts again    *)
(* from entl_state_init, and the link error that entl_state_error reports. *)
(* FaultMax bounds their number.                                           *)
(***************************************************************************)
EXTENDS EntlLink

CONSTANTS
  FaultMax,    \* faults in one behaviour
  ChanMax,     \* packets on the wire beyond which no fault adds another
  FaultKinds   \* subset of {"early", "repeat", "restart", "down"}

ASSUME FaultAssumption == FaultMax \in Nat /\ ChanMax \in Nat

VARIABLES
  faults,     \* how many faults there were
  restarted,  \* whether one of them was a restart
  drawn,      \* history: drawn[s], every my_value end s has had
  overread    \* history: whether a host read on when it was to send event 0

faultyVars == <<vars, faults, restarted, drawn, overread>>

Fault(kind) ==
  /\ kind \in FaultKinds
  /\ faults < FaultMax
  /\ faults' = faults + 1
  /\ restarted' = (restarted \/ kind = "restart")

\* A signal too many: entl_next_send is called with nothing received.
EarlyCall(s) ==
  /\ Fault("early")
  /\ ~wake[s] /\ Len(chan[Peer(s)]) < ChanMax
  /\ wake' = [wake EXCEPT ![s] = TRUE]
  /\ UNCHANGED <<mcn, act, chan, callerVars>>

Repeat(s) ==
  /\ Fault("repeat")
  /\ chan[s] # <<>> /\ Len(chan[s]) < ChanMax
  /\ chan' = [chan EXCEPT ![s] = <<Head(@)>> \o @]
  /\ UNCHANGED <<mcn, act, wake, callerVars>>

\* main() again: the queue of the caller is empty, packets stay on the wire.
Restart(s) ==
  /\ Fault("restart")
  /\ mcn' = [mcn EXCEPT ![s] = Booted(MyValue[s])]
  /\ act' = [act EXCEPT ![s] = {}]
  /\ wake' = [wake EXCEPT ![s] = s \in Starters]
  /\ dropped' = [dropped EXCEPT ![s] = queued[s]]
  /\ kept' = [kept EXCEPT ![s] = 0]
  /\ UNCHANGED <<chan, queued, done, got>>

\* entl_state_error: the machine stays where it is and never sends again.
EntlStateError(s) ==
  /\ Fault("down")
  /\ mcn' = [mcn EXCEPT ![s] = SetError(@)]
  /\ UNCHANGED <<act, chan, wake, callerVars>>

FaultyInit ==
  /\ Init
  /\ faults = 0 /\ restarted = FALSE
  /\ drawn = [s \in Side |-> {MyValue[s]}] /\ overread = FALSE

\* A host in WAIT was to send event 0 and reads another packet before it does.
ReadsOn(s) == mcn[s].state = "WAIT" /\ wake[s] /\ Receive(s)

Recorded ==
  /\ drawn' = [s \in Side |-> drawn[s] \cup {mcn'[s].value}]
  /\ overread' = (overread \/ \E s \in Side : ReadsOn(s))

FaultyNext ==
  /\ \/ Next /\ UNCHANGED <<faults, restarted>>
     \/ \E s \in Side : EarlyCall(s) \/ Repeat(s) \/ Restart(s) \/ EntlStateError(s)
  /\ Recorded

FaultySpec == FaultyInit /\ [][FaultyNext]_faultyVars

-----------------------------------------------------------------------------
(* Properties.                                                             *)

\* As long as one of the ends has drawn nothing but greater numbers than the
\* other: a draw may tie, or turn the order of the two round.
Outdraws(u) == \A v \in drawn[u], w \in drawn[Peer(u)] : v > w
DrawsApart == \E u \in Side : Outdraws(u)

\* Until an end restarts, whatever the other faults, the two ends never both
\* hold the token, not counting one that an error has silenced, unless their
\* draws came to a tie or crossed: of two ends that greet again with such
\* numbers, both may take themselves for the first.
OneLiveHolder ==
  ~restarted /\ DrawsApart =>
    \E s \in Side : mcn[s].state \notin HolderState \/ mcn[s].failed

\* Whatever the faults, restarts included, on a wire that loses nothing, a message
\* is delivered only after its sender took it off its queue as transferred, at
\* most once, and in the order of the queue.
AitAtMostOnce ==
  \A s \in Side :
    LET g == got[Peer(s)] IN
    /\ \A i, j \in DOMAIN g : i < j => g[i] < g[j]
    /\ \A i \in DOMAIN g : \E j \in DOMAIN done[s] : done[s][j] = g[i]

-----------------------------------------------------------------------------
(* Why there is one live holder, on a wire that may lose packets too.      *)

\* What an end greets with, and what is on the wire, was drawn.
Drawn ==
  \A s \in Side :
    /\ mcn[s].value \in drawn[s]
    /\ \A i \in DOMAIN chan[s] :
         chan[s][i].type = "HELLO" => chan[s][i].value \in drawn[Peer(s)]

\* A packet that no state accepts at s: a greeting, or an event s knows.
Spent(s, m) == m.type = "HELLO" \/ m.value = mcn[s].know
AllSpent(s) == \A i \in DOMAIN chan[s] : Spent(s, chan[s][i])

\* u, which outdraws its peer, has not heard event 1 yet.
Unheard(u) ==
  LET l == Peer(u) IN
  /\ mcn[u].state \in {"HELLO", "WAIT"} /\ mcn[u].sent = 0
  /\ mcn[l].know = 0 /\ AllSpent(l)
  /\ \A i \in DOMAIN chan[l] : chan[l][i].type \in {"HELLO", "ENTL"}
  /\ \A i \in DOMAIN chan[u] :
       \/ chan[u][i].type = "HELLO"
       \/ /\ mcn[l].state = "RECEIVE"
          /\ chan[u][i].type = "ENTL" /\ chan[u][i].value = 1
  /\ \/ mcn[l].state = "HELLO" /\ mcn[l].sent = 0
     \/ mcn[l].state = "SEND" /\ mcn[l].sent = 0 /\ mcn[l].next = 1
     \/ mcn[l].state = "RECEIVE"

TokenAt(y) ==
  /\ mcn[y].state \in HolderState /\ mcn[Peer(y)].state \in WaitingState
  /\ AllSpent(y) /\ AllSpent(Peer(y))

\* The event that x has sent, repeated perhaps, is behind all that is spent.
TokenFrom(x) ==
  LET y == Peer(x) IN
  /\ mcn[x].state \in WaitingState /\ mcn[y].state \in WaitingState
  /\ AllSpent(x)
  /\ \A i \in DOMAIN chan[y] :
       \/ Spent(y, chan[y][i])
       \/ \A j \in DOMAIN chan[y] : j >= i => chan[y][j].value = mcn[x].sent

\* Inductive together with TypeOK as long as u outdraws its peer.
TokenInv(u) ==
  /\ Drawn
  /\ ~restarted /\ (\A s \in Side : ~mcn[s].failed)
       => Unheard(u) \/ \E s \in Side : TokenAt(s) \/ TokenFrom(s)

\* The two ends hold the token by turns: it is at one of them, or behind what
\* is spent on the wire, from the first event on until an end restarts.
HolderInv == \A u \in Side : Outdraws(u) => TokenInv(u)

-----------------------------------------------------------------------------
(* Why a message is delivered at most once, on a wire that loses nothing.  *)

Queues(x) ==
  /\ dropped[x] <= queued[x] /\ queued[x] <= Len(Offers[x])
  /\ mcn[x].state \in {"RA", "RAL", "SA", "SAL"} => Waiting(x) > 0

Transferred(x, k) == \E i \in DOMAIN done[x] : done[x][i] = k

\* In SEND another number than the next one is left by a refused ALO command.
Numbering(x) ==
  /\ mcn[x].state = "HELLO" => mcn[x].sent = 0
  /\ mcn[x].state = "RA" => mcn[x].sent = NextValue(mcn[x].know)
  /\ mcn[x].state = "SEND" =>
       mcn[x].next = NextValue(mcn[x].know) \/ Offered(x) = "ALO"

Message(m) == m.type = "AITS" /\ m.op = "AIT"
Echo(m, v) == m.type = "AITS" /\ m.value = v

\* The next packet of x tells an end in RB that keeps message k, of event v,
\* to deliver it only if x drops k with it: x offers k still, or greets again.
Answerable(x, v, k) ==
  \/ mcn[x].failed
  \/ mcn[x].state = "HELLO"
  \/ mcn[x].state = "WAIT" /\ wake[x]
  \/ mcn[x].state = "SEND" /\ ~MayTransfer(mcn[x])
  \/ /\ k = dropped[x] + 1 /\ Offers[x][k] # "ALO"
     /\ \/ mcn[x].state = "RA" /\ mcn[x].sent = v
        \/ mcn[x].state = "SA"
        \/ mcn[x].state = "SEND" /\ mcn[x].next = Plus2(v)

\* What comes to y behind packet n, if y keeps message k, of event v.
Follows(x, y, n, v, k) ==
  LET c == chan[y]
      Echoes(j) == \A i \in n + 1 .. j : Echo(c[i], v)
  IN
  /\ Echoes(Len(c)) => Answerable(x, v, k)
  /\ \A j \in n + 1 .. Len(c) :
       Echoes(j - 1) /\ c[j].type = "AITA" /\ c[j].value = Plus2(v) =>
         /\ Transferred(x, k)
         /\ \A l \in j + 1 .. Len(c) : Message(c[l]) => c[l].id > k

Newer(y, k) == \A i \in DOMAIN got[y] : got[y][i] < k

Deliveries(x, y) ==
  /\ \A i, j \in DOMAIN got[y] : i < j => got[y][i] < got[y][j]
  /\ \A i \in DOMAIN got[y] : Transferred(x, got[y][i])
  /\ \A i \in DOMAIN done[x] : done[x][i] <= dropped[x]
  /\ \A n \in DOMAIN chan[y] : LET m == chan[y][n] IN
       Message(m) => Newer(y, m.id) /\ Follows(x, y, n, m.value, m.id)
  /\ mcn[y].state \in {"SB", "RB"} =>
       Newer(y, kept[y]) /\ Follows(x, y, 0, mcn[y].know, kept[y])

\* A message on the wire or kept is delivered only with the AITA that its
\* sender sends when it drops it.  Inductive together with TypeOK.
DeliveryInv ==
  ~overread => \A x \in Side : Queues(x) /\ Numbering(x) /\ Deliveries(x, Peer(x))
===============================================================================
