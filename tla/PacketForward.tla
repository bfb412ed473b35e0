----------------------------- MODULE PacketForward -----------------------------
(***************************************************************************)
(* The forwarding plane of entl_packet_forward_test: receiver contexts     *)
(* (entl_packet_receiver.c) that read packets from the NBI, hand the ENTL  *)
(* part of a packet to a sender microengine and queue the packet for the   *)
(* ports the forwarding table names, and the sender microengines           *)
(* (entl_packet_sender.c), whose context 0 answers ENTL packets and whose  *)
(* other contexts take queued packets and give them to the NBI to send.    *)
(*                                                                         *)
(* The NBI's traffic manager, which lets the packets of one sequencer go   *)
(* in the order of their sequence numbers, is modelled from how the code   *)
(* numbers the packets.  A packet of port p is <<p, n>>: the n-th the NBI  *)
(* delivered from p, counted from 0, which is also its nbi_meta.seq.       *)
(***************************************************************************)
EXTENDS EgressQueue, Sequences, FiniteSets

CONSTANTS
  InPorts,      \* ports that packets arrive on
  OutPorts,     \* ports that have a sender microengine
  Contexts,     \* receiver contexts of an island
  Threads,      \* forwarding contexts of a sender microengine
  RingSize,     \* REORDER_RING_SIZE_LW
  Arrivals,     \* Arrivals[p]: the packets that arrive on port p
  ForwardRing,  \* ForwardRing[q]: FORWARD_RING_NUM of the sender of port q
  EntlSender,   \* EntlSender[p]: port of the sender at p's ENTL_SENDER_ISL
  None

\* What a receiver acts on: whether the packet is ENTL, whether it is
\* forwarded, towards the root or away from it, and the forwarding table
\* entry of its lookup number.  Bit 0 of the vector is the host.
Packet == [entl : BOOLEAN, fw : BOOLEAN, rootward : BOOLEAN,
           parent : 0 .. 8, fw_vector : SUBSET (0 .. 8)]

\* What is put on an egress ring: the packet or a clone of it, the port it is
\* for, its sequence number there, and whether its original was in its buffer.
Descriptor == [port : InPorts, seq : Nat, out_port : Port, num : Nat, clone : BOOLEAN, intact : BOOLEAN]

ASSUME ForwardAssumption ==
  /\ InPorts \subseteq Port
  /\ OutPorts \subseteq Port
  /\ RingSize \in Nat \ {0}
  /\ Arrivals \in [InPorts -> Seq(Packet)]
  /\ ForwardRing \in [OutPorts -> {0, 1}]
  /\ EntlSender \in [InPorts -> Port]
  /\ None \notin Contexts \cup Descriptor \cup (InPorts \X Nat)

VARIABLES
  arrived,  \* arrived[p]: packets of p handed to receiver contexts
  rx,       \* rx[i][c]: receiver context c of island i
  head,     \* head[r]: head of reorder ring r, not masked
  word,     \* word[r][w]: the context that waits in a word of ring r
  count,    \* count[i][x]: the sequence number arrays of island i
  ring,     \* ring[e]: the packets queued on egress ring e
  tx,       \* tx[q][t]: the packet that thread t of port q's sender took
  reflected,\* reflected[q]: entl_data_in of the sender of port q, and signal
  entl,     \* entl[q]: context 0 of the sender of port q
  answers,  \* answers[q]: the ENTL packets it sent, in order
  tm,       \* tm[s]: the packets in sequencer s = <<nbi, sequencer>>
  due,      \* due[s]: the sequence number it lets go next
  left,     \* left[q]: the packets that left on port q, in order
  overrun,  \* history: ports that had more packets under way than words
  met       \* history: islands with contexts of two ports in one count

rxVars == <<arrived, rx, head, word, count, overrun, met>>
entlVars == <<reflected, entl, answers>>
tmVars == <<tm, due, left>>
vars == <<rxVars, ring, tx, entlVars, tmVars>>

Islands == {Island(p) : p \in InPorts}
ReorderRings == {ReorderRingOf(p) : p \in InPorts}
EgressRings == {Island(q) : q \in Port} \X {0, 1}
SequenceWords == {SequenceWord(q) : q \in Port}
Sequencers == {<<get_nbi(q), get_sequencer(p)>> : q \in OutPorts, p \in InPorts}

Word(n) == n % RingSize
TheEntry(port, seq) == Arrivals[port][seq + 1]

Idle == [pc |-> "idle", port |-> 0, seq |-> 0, targets |-> {}, sent |-> FALSE, num |-> 0]
Waiting == [pc |-> "wait", packet |-> None, buffer |-> None, overtaken |-> FALSE]

Init ==
  /\ arrived = [p \in InPorts |-> 0]
  /\ rx = [i \in Islands |-> [c \in Contexts |-> Idle]]
  /\ head = [r \in ReorderRings |-> 0]
  /\ word = [r \in ReorderRings |-> [w \in 0 .. RingSize - 1 |-> None]]
  /\ count = [i \in Islands |-> [x \in SequenceWords |-> 0]]
  /\ ring = [e \in EgressRings |-> <<>>]
  /\ tx = [q \in OutPorts |-> [t \in Threads |-> None]]
  /\ reflected = [q \in Port |-> [packet |-> None, owned |-> FALSE, signal |-> FALSE]]
  /\ entl = [q \in Port |-> Waiting]
  /\ answers = [q \in Port |-> <<>>]
  /\ tm = [s \in Sequencers |-> {}]
  /\ due = [s \in Sequencers |-> 0]
  /\ left = [q \in OutPorts |-> <<>>]
  /\ overrun = {}
  /\ met = {}

-----------------------------------------------------------------------------
(* A receiver context.                                                     *)

HeadOf(p) == head[ReorderRingOf(p)]

Receive(p, c) ==
  /\ rx[Island(p)][c].pc = "idle"
  /\ arrived[p] < Len(Arrivals[p])
  /\ rx' = [rx EXCEPT ![Island(p)][c] = [Idle EXCEPT !.pc = "received", !.port = p, !.seq = arrived[p]]]
  /\ arrived' = [arrived EXCEPT ![p] = @ + 1]
  /\ overrun' = IF arrived[p] - HeadOf(p) >= RingSize THEN overrun \cup {p} ELSE overrun
  /\ UNCHANGED <<head, word, count, met, ring, tx, entlVars, tmVars>>

\* Mutant: the bit of the host is taken for a port.
TargetsWithHost(port, k) ==
  IF ~k.fw THEN {}
  ELSE IF k.rootward THEN {i - 1 : i \in {k.parent} \ {0}}
  ELSE {i - 1 : i \in k.fw_vector} \ {port}

\* The ports the table forwards a packet to.  The host is not served.
Targets(port, k) ==
  IF ~k.fw THEN {}
  ELSE IF k.rootward THEN {i - 1 : i \in {k.parent} \ {0}}
  ELSE {i - 1 : i \in k.fw_vector \ {0}} \ {port}

\* The context looks at the header.  An ENTL packet is reflected into the
\* registers of context 0 of a sender, over what they held and whatever that
\* context is doing, with its buffer unless the packet is also forwarded.  A
\* packet that is neither ENTL nor forwarded is left alone, and does not take
\* part in ordering.  The history field overtaken says that context 0 was
\* signalled and has not read all of the registers.
Examine(i, c) ==
  LET r == rx[i][c]
      k == TheEntry(r.port, r.seq)
      q == EntlSender[r.port]
  IN /\ r.pc = "received"
     /\ IF k.entl
        THEN /\ reflected' = [reflected EXCEPT ![q] =
                                [packet |-> <<r.port, r.seq>>, owned |-> ~k.fw, signal |-> TRUE]]
             /\ entl' = [entl EXCEPT ![q].overtaken = @ \/ entl[q].pc \in {"woken", "received"}]
        ELSE UNCHANGED <<reflected, entl>>
     /\ rx' = [rx EXCEPT ![i][c] =
                 IF k.entl \/ k.fw
                 THEN [r EXCEPT !.pc = "lock", !.targets = Targets(r.port, k),
                                !.sent = k.fw /\ ~k.rootward /\ 0 \in k.fw_vector]
                 ELSE Idle]
     /\ UNCHANGED <<arrived, head, word, count, overrun, met, ring, tx, answers, tmVars>>

\* Mutant: the lock is granted at once.
LockAtOnce(i, c) ==
  /\ rx[i][c].pc = "lock"
  /\ rx' = [rx EXCEPT ![i][c].pc = "inside"]
  /\ UNCHANGED <<arrived, head, word, count, overrun, met, ring, tx, entlVars, tmVars>>

Lock(i, c) ==
  LET r == rx[i][c]
      o == <<i, get_ring_num(r.port)>>
  IN /\ r.pc = "lock"
     /\ IF Word(r.seq) = Word(head[o])
        THEN /\ rx' = [rx EXCEPT ![i][c].pc = "inside"]
             /\ UNCHANGED word
        ELSE /\ rx' = [rx EXCEPT ![i][c].pc = "waiting"]
             /\ word' = [word EXCEPT ![o][Word(r.seq)] = c]
     /\ UNCHANGED <<arrived, head, count, overrun, met, ring, tx, entlVars, tmVars>>

\* The port a context serves next.
Target(r) == CHOOSE q \in r.targets : \A p \in r.targets : q <= p

\* The word of the count it is about to read, or has read and will write.
Counts(r) == SequenceWord(Target(r))
Counting(i, c, x) == rx[i][c].pc = "counting" /\ Counts(rx[i][c]) = x

\* get_sequence_num reads and then writes, and lets other contexts run
\* at each of the two.
ReadCount(i, c) ==
  LET r == rx[i][c]
      others == \E d \in Contexts : Counting(i, d, Counts(r)) /\ rx[i][d].port # r.port
  IN /\ r.pc = "inside"
     /\ r.targets # {}
     /\ rx' = [rx EXCEPT ![i][c] = [r EXCEPT !.pc = "counting", !.num = count[i][Counts(r)]]]
     /\ met' = IF others THEN met \cup {i} ELSE met
     /\ UNCHANGED <<arrived, head, word, count, overrun, ring, tx, entlVars, tmVars>>

\* Mutant: the number read is written back.
WriteSameCount(i, c) ==
  /\ rx[i][c].pc = "counting"
  /\ rx' = [rx EXCEPT ![i][c].pc = "numbered"]
  /\ UNCHANGED <<arrived, head, word, count, overrun, met, ring, tx, entlVars, tmVars>>

WriteCount(i, c) ==
  /\ rx[i][c].pc = "counting"
  /\ count' = [count EXCEPT ![i][Counts(rx[i][c])] = rx[i][c].num + 1]
  /\ rx' = [rx EXCEPT ![i][c].pc = "numbered"]
  /\ UNCHANGED <<arrived, head, word, overrun, met, ring, tx, entlVars, tmVars>>

\* The packet itself was sent and its buffer freed.
HasLeft(p, n) ==
  \E q \in OutPorts : \E k \in DOMAIN left[q] :
    left[q][k].port = p /\ left[q][k].seq = n /\ ~left[q][k].clone

\* The first target gets the packet, the others a clone of it, made from
\* what its buffer holds by then.
Queue(i, c) ==
  LET r == rx[i][c]
      q == Target(r)
  IN /\ r.pc = "numbered"
     /\ ring' = [ring EXCEPT ![get_island_ring(q)] = Append(@,
                   [port |-> r.port, seq |-> r.seq, out_port |-> q, num |-> r.num,
                    clone |-> r.sent, intact |-> ~(r.sent /\ HasLeft(r.port, r.seq))])]
     /\ rx' = [rx EXCEPT ![i][c] = [r EXCEPT !.pc = "inside", !.targets = @ \ {q}, !.sent = TRUE, !.num = 0]]
     /\ UNCHANGED <<arrived, head, word, count, overrun, met, tx, entlVars, tmVars>>

\* Mutant: the context that waits for the new head is not signalled.
UnlockSilently(i, c) ==
  LET o == <<i, get_ring_num(rx[i][c].port)>>
  IN /\ rx[i][c].pc = "inside"
     /\ rx[i][c].targets = {}
     /\ head' = [head EXCEPT ![o] = @ + 1]
     /\ rx' = [rx EXCEPT ![i][c] = Idle]
     /\ word' = [word EXCEPT ![o][Word(head[o] + 1)] = None]
     /\ UNCHANGED <<arrived, count, overrun, met, ring, tx, entlVars, tmVars>>

Unlock(i, c) ==
  LET r == rx[i][c]
      o == <<i, get_ring_num(r.port)>>
      next == Word(head[o] + 1)
  IN /\ r.pc = "inside"
     /\ r.targets = {}
     /\ head' = [head EXCEPT ![o] = @ + 1]
     /\ rx' = [rx EXCEPT ![i] = [d \in Contexts |->
                 IF d = c THEN Idle
                 ELSE IF d = word[o][next] THEN [rx[i][d] EXCEPT !.pc = "inside"]
                 ELSE rx[i][d]]]
     /\ word' = [word EXCEPT ![o][next] = None]
     /\ UNCHANGED <<arrived, count, overrun, met, ring, tx, entlVars, tmVars>>

ReceiverStep(i, c) ==
  \/ Examine(i, c) \/ Lock(i, c) \/ ReadCount(i, c) \/ WriteCount(i, c)
  \/ Queue(i, c) \/ Unlock(i, c)

-----------------------------------------------------------------------------
(* A sender microengine: its forwarding threads and its context 0.         *)

Get(q, t) ==
  LET e == <<Island(q), ForwardRing[q]>>
  IN /\ tx[q][t] = None
     /\ ring[e] # <<>>
     /\ tx' = [tx EXCEPT ![q][t] = Head(ring[e])]
     /\ ring' = [ring EXCEPT ![e] = Tail(@)]
     /\ UNCHANGED <<rxVars, entlVars, tmVars>>

\* The thread rewrites the header of the packet and sends it with the
\* sequencer of the port the packet came from, and lets the NBI free it.
Send(q, t) ==
  LET d == tx[q][t]
      s == <<get_nbi(d.out_port), get_sequencer(d.port)>>
  IN /\ tx[q][t] # None
     /\ tm' = [tm EXCEPT ![s] = @ \cup {d}]
     /\ tx' = [tx EXCEPT ![q][t] = None]
     /\ UNCHANGED <<rxVars, ring, entlVars, due, left>>

\* Mutant: the signal stays set.
WakeKeepsSignal(q) ==
  /\ entl[q].pc = "wait"
  /\ reflected[q].signal
  /\ entl' = [entl EXCEPT ![q].pc = "woken"]
  /\ UNCHANGED <<rxVars, ring, tx, reflected, answers, tmVars>>

\* Context 0 is signalled.
Wake(q) ==
  /\ entl[q].pc = "wait"
  /\ reflected[q].signal
  /\ reflected' = [reflected EXCEPT ![q].signal = FALSE]
  /\ entl' = [entl EXCEPT ![q].pc = "woken"]
  /\ UNCHANGED <<rxVars, ring, tx, answers, tmVars>>

\* It reads the event and passes it to entl_received.
ReadEvent(q) ==
  /\ entl[q].pc = "woken"
  /\ entl' = [entl EXCEPT ![q].pc = "received", ![q].packet = reflected[q].packet]
  /\ UNCHANGED <<rxVars, ring, tx, reflected, answers, tmVars>>

\* Mutant: it does not ask whose the buffer is.
PickAnyBuffer(q) ==
  /\ entl[q].pc = "received"
  /\ entl' = [entl EXCEPT ![q].pc = "ready", ![q].buffer = reflected[q].packet]
  /\ UNCHANGED <<rxVars, ring, tx, reflected, answers, tmVars>>

\* It then reads the buffer for the answer: the one that is reflected by now,
\* or its own, which is not freed.
PickBuffer(q) ==
  /\ entl[q].pc = "received"
  /\ entl' = [entl EXCEPT ![q].pc = "ready",
                ![q].buffer = IF reflected[q].owned THEN reflected[q].packet ELSE None]
  /\ UNCHANGED <<rxVars, ring, tx, reflected, answers, tmVars>>

\* entl_next_send may have nothing to send.
Answer(q) ==
  LET e == entl[q]
  IN /\ e.pc = "ready"
     /\ \/ answers' = [answers EXCEPT ![q] =
               Append(@, [packet |-> e.packet, buffer |-> e.buffer, overtaken |-> e.overtaken])]
        \/ UNCHANGED answers
     /\ entl' = [entl EXCEPT ![q] = Waiting]
     /\ UNCHANGED <<rxVars, ring, tx, reflected, tmVars>>

EntlStep(q) == Wake(q) \/ ReadEvent(q) \/ PickBuffer(q) \/ Answer(q)

-----------------------------------------------------------------------------
\* The traffic manager lets the packet that is due go.
Depart(s) ==
  /\ \E d \in tm[s] :
       /\ d.num = due[s]
       /\ tm' = [tm EXCEPT ![s] = @ \ {d}]
       /\ left' = [left EXCEPT ![d.out_port] = Append(@, d)]
  /\ due' = [due EXCEPT ![s] = @ + 1]
  /\ UNCHANGED <<rxVars, ring, tx, entlVars>>

Next ==
  \/ \E p \in InPorts, c \in Contexts : Receive(p, c)
  \/ \E i \in Islands, c \in Contexts : ReceiverStep(i, c)
  \/ \E q \in OutPorts, t \in Threads : Get(q, t) \/ Send(q, t)
  \/ \E q \in Port : EntlStep(q)
  \/ \E s \in Sequencers : Depart(s)

Fairness ==
  /\ \A i \in Islands, c \in Contexts : WF_vars(ReceiverStep(i, c))
  /\ \A q \in OutPorts, t \in Threads : WF_vars(Get(q, t)) /\ WF_vars(Send(q, t))
  /\ \A s \in Sequencers : WF_vars(Depart(s))

Spec == Init /\ [][Next]_vars
FairSpec == Spec /\ Fairness

-----------------------------------------------------------------------------
Context == [pc : {"idle", "received", "lock", "waiting", "inside", "counting", "numbered"},
            port : Port, seq : Nat, targets : SUBSET Port, sent : BOOLEAN, num : Nat]

TypeOK ==
  /\ arrived \in [InPorts -> Nat] /\ \A p \in InPorts : arrived[p] <= Len(Arrivals[p])
  /\ rx \in [Islands -> [Contexts -> Context]]
  /\ head \in [ReorderRings -> Nat]
  /\ word \in [ReorderRings -> [0 .. RingSize - 1 -> Contexts \cup {None}]]
  /\ count \in [Islands -> [SequenceWords -> Nat]]
  /\ ring \in [EgressRings -> Seq(Descriptor)]
  /\ tx \in [OutPorts -> [Threads -> Descriptor \cup {None}]]
  /\ tm \in [Sequencers -> SUBSET Descriptor]
  /\ due \in [Sequencers -> Nat]
  /\ left \in [OutPorts -> Seq(Descriptor)]
  /\ overrun \subseteq InPorts
  /\ met \subseteq Islands

\* No port of the island has had more packets under way than its ring has
\* words, and no contexts of two of its ports were in one count at a time.  A
\* program of 88 contexts and 64 words may leave this, and an island of two ports.
Orderly(i) == i \notin met /\ \A p \in overrun : Island(p) # i

\* The packets of one port leave on any other port in the order they came,
\* each of them once, although several contexts read them, several threads
\* take them from the egress ring, and each runs at its own pace.
LeaveInOrder ==
  \A q \in OutPorts : \A j, k \in DOMAIN left[q] :
    LET d == left[q][j]  e == left[q][k] IN
    j < k /\ d.port = e.port /\ Orderly(Island(d.port)) => d.seq < e.seq

\* get_sequence_num is called by one context at a time, as its comment asks,
\* of those that serve a port: no two are between the read and the write of
\* one count while the port has no more packets under way than words.
MutexedRegion ==
  \A i \in Islands : \A c, d \in Contexts : \A x \in SequenceWords :
    /\ c # d
    /\ Counting(i, c, x)
    /\ Counting(i, d, x)
    /\ rx[i][c].port = rx[i][d].port
    => rx[i][c].port \in overrun

\* What was handed to a sequencer, in whatever order.
Numbered(s) ==
  tm[s] \cup {d \in UNION {{left[q][k] : k \in DOMAIN left[q]} : q \in OutPorts} :
                 s = <<get_nbi(d.out_port), get_sequencer(d.port)>>}

\* Two packets that were counted in one word never get the same number from
\* the same sequencer, whichever contexts counted them.
NumbersUnique ==
  \A s \in Sequencers : \A d, e \in Numbered(s) :
    d # e /\ SequenceWord(d.out_port) = SequenceWord(e.out_port) /\ Orderly(Island(d.port))
      => d.num # e.num

\* A clone is made while the packet it copies is still in its buffer.
ClonesIntact ==
  /\ \A e \in EgressRings : \A k \in DOMAIN ring[e] : ring[e][k].intact
  /\ \A s \in Sequencers : \A d \in Numbered(s) : d.intact

\* Each buffer of the answers a is a received packet's own and is in one answer
\* only, but for the one answer written into and the next.
FreedOnce(a) ==
  \A k \in DOMAIN a : a[k].buffer # None =>
    /\ ~TheEntry(a[k].buffer[1], a[k].buffer[2]).fw
    /\ a[k].overtaken \/ a[k].buffer = a[k].packet
    /\ \A j \in DOMAIN a : j < k /\ a[j].buffer = a[k].buffer =>
         k = j + 1 /\ a[j].overtaken /\ ~a[k].overtaken

\* The buffer of a received ENTL packet is handed to the NBI to be freed with
\* the answer to that packet, once, and not at all if the packet is forwarded.
\* Context 0 reads the registers twice and receivers write them at any time: if
\* they do between its signal and the second read it answers one packet in the
\* buffer of the next.  Only that buffer is freed twice, by the next answer, and
\* by that only if nothing is written into its reads as well.
BufferFreedOnce == \A q \in Port : FreedOnce(answers[q])

\* Every packet leaves on every port that its table entry names.
EveryPacketLeaves ==
  \A p \in InPorts : \A n \in 0 .. Len(Arrivals[p]) - 1 :
    \A q \in Targets(p, TheEntry(p, n)) :
      arrived[p] > n ~> \E k \in DOMAIN left[q] : left[q][k].port = p /\ left[q][k].seq = n

\* What a context is to port p: ports 6 and 7 share the contexts of an island.
Held(p, c) == IF rx[Island(p)][c].port = p THEN rx[Island(p)][c] ELSE Idle

\* The state of the reorder ring of port p as ReorderRing describes it.
Stage(r) ==
  CASE r.pc \in {"received", "lock"} -> "received"
    [] r.pc \in {"inside", "counting", "numbered"} -> "inside"
    [] OTHER -> r.pc
RingPc(p) == [c \in Contexts |-> Stage(Held(p, c))]
RingSeq(p) == [c \in Contexts |-> Held(p, c).seq]

-----------------------------------------------------------------------------
(* Why packets leave in order.                                             *)

Busy(p, c) == Held(p, c).pc # "idle"
Locked(p, c) == Held(p, c).pc \in {"inside", "counting", "numbered"}
WordOf(p) == word[ReorderRingOf(p)]

\* Of every port, whatever happened: packets are read one by one.
OneEach(p) ==
  /\ \A c \in Contexts : Busy(p, c) => Held(p, c).seq < arrived[p]
  /\ \A c, d \in Contexts :
       Busy(p, c) /\ Busy(p, d) /\ Held(p, c).seq = Held(p, d).seq => c = d

\* Of a port that was never overrun, as in ReorderRing.
InWindow(p) ==
  /\ HeadOf(p) <= arrived[p] /\ arrived[p] <= HeadOf(p) + RingSize
  /\ \A c \in Contexts : Busy(p, c) => HeadOf(p) <= Held(p, c).seq
HeadLocked(p) ==
  \A c \in Contexts :
    /\ Locked(p, c) => Held(p, c).seq = HeadOf(p)
    /\ Held(p, c).pc = "waiting" => Held(p, c).seq # HeadOf(p)
SignalsMatch(p) ==
  /\ \A c \in Contexts : Held(p, c).pc = "waiting" => WordOf(p)[Word(Held(p, c).seq)] = c
  /\ \A w \in 0 .. RingSize - 1 : WordOf(p)[w] # None =>
       Held(p, WordOf(p)[w]).pc = "waiting" /\ Word(Held(p, WordOf(p)[w]).seq) = w
RingInOrder(p) == InWindow(p) /\ HeadLocked(p) /\ SignalsMatch(p)

\* Of an island where contexts of two ports never met.
Apart(i) ==
  \A c, d \in Contexts : \A x \in SequenceWords :
    Counting(i, c, x) /\ Counting(i, d, x) => rx[i][c].port = rx[i][d].port

\* The packets that have been queued, wherever they are by now.
Queued ==
  (UNION {{ring[e][k] : k \in DOMAIN ring[e]} : e \in EgressRings})
    \cup ((UNION {{tx[q][t] : t \in Threads} : q \in OutPorts}) \ {None})
    \cup (UNION {tm[s] : s \in Sequencers})
    \cup (UNION {{left[q][k] : k \in DOMAIN left[q]} : q \in OutPorts})

CountFor(p, q) == count[Island(p)][SequenceWord(q)]

\* A number read is the count until it is written, and then no packet of the
\* port has it until its own is queued.
NumberHeld(p, c) ==
  LET r == Held(p, c) IN
  /\ r.pc = "counting" => r.num = CountFor(p, Target(r))
  /\ r.pc = "numbered" =>
       /\ r.num < CountFor(p, Target(r))
       /\ \A d \in Queued : d.port = p /\ SequenceWord(d.out_port) = Counts(r) => d.num < r.num

\* A queued packet is older than those its port's contexts hold, or is the one
\* the context inside serves, on a port that is served already.
QueuedBefore(d) ==
  /\ d.num < CountFor(d.port, d.out_port)
  /\ d.seq < arrived[d.port]
  /\ \A c \in Contexts : LET r == Held(d.port, c) IN
       Busy(d.port, c) =>
         \/ d.seq < r.seq
         \/ Locked(d.port, c) /\ d.seq = r.seq /\ d.out_port \notin r.targets

\* Numbers of one word follow the order of the packets.
NumbersFollow(d, e) ==
  d.port = e.port =>
    /\ SequenceWord(d.out_port) = SequenceWord(e.out_port) =>
         (d.num < e.num => d.seq <= e.seq) /\ (d.num = e.num => d = e)
    /\ d.seq = e.seq /\ d.out_port = e.out_port => d = e

\* Of the ports of an orderly island.
NumbersInOrder(p) ==
  /\ \A c \in Contexts : NumberHeld(p, c)
  /\ \A d \in Queued : d.port = p => QueuedBefore(d)
  /\ \A d, e \in Queued : d.port = p => NumbersFollow(d, e)

SequencerOf(d) == <<get_nbi(d.out_port), get_sequencer(d.port)>>

LeftInOrder ==
  /\ \A s \in Sequencers : \A d \in tm[s] : s = SequencerOf(d)
  /\ \A q \in OutPorts : \A k \in DOMAIN left[q] :
       /\ left[q][k].out_port = q
       /\ SequencerOf(left[q][k]) \in Sequencers
       /\ left[q][k].num < due[SequencerOf(left[q][k])]
       /\ \A j \in DOMAIN left[q] :
            j < k /\ left[q][j].port = left[q][k].port => left[q][j].num < left[q][k].num

\* Inductive, together with the types of PacketForwardProofs.
OrderInv ==
  /\ \A p \in InPorts : OneEach(p)
  /\ \A p \in InPorts \ overrun : RingInOrder(p)
  /\ \A i \in Islands \ met : Apart(i)
  /\ \A p \in InPorts : Orderly(Island(p)) => NumbersInOrder(p)
  /\ LeftInOrder

-----------------------------------------------------------------------------
(* Why the buffer of an event is freed once.                               *)

Stamp == (InPorts \X Nat) \cup {None}
EventTypes ==
  /\ reflected \in [Port -> [packet : Stamp, owned : BOOLEAN, signal : BOOLEAN]]
  /\ entl \in [Port -> [pc : {"wait", "woken", "received", "ready"},
                        packet : Stamp, buffer : Stamp, overtaken : BOOLEAN]]
  /\ answers \in [Port -> Seq([packet : Stamp, buffer : Stamp, overtaken : BOOLEAN])]

\* The buffer b is in none of the answers a, or in the last one only, which the
\* registers that now name it were written into.
NotFreed(a, b) == \A k \in DOMAIN a : a[k].buffer # b
FreedLast(a, b) == \A k \in DOMAIN a : a[k].buffer = b => k = Len(a) /\ a[k].overtaken

\* A packet that a context still has to examine, or that has not come yet, is
\* in no register and in no answer.
Known(q) == {reflected[q].packet, entl[q].buffer} \cup {answers[q][k].buffer : k \in DOMAIN answers[q]}
EventsNew(q) ==
  /\ \A b \in Known(q) \ {None} : b[2] < arrived[b[1]]
  /\ \A p \in InPorts, c \in Contexts :
       Held(p, c).pc = "received" => <<p, Held(p, c).seq>> \notin Known(q)

\* What the registers r of context 0 and its state e hold, by its stage, when
\* it has sent the answers a.
Staged(a, r, e) ==
  /\ r.packet = None => ~r.signal /\ ~r.owned /\ e.pc = "wait"
  /\ r.owned => ~TheEntry(r.packet[1], r.packet[2]).fw
  /\ e.pc = "wait" => e = Waiting /\ (r.signal => FreedLast(a, r.packet))
  /\ e.pc \in {"woken", "received"} =>
       /\ e.overtaken = r.signal
       /\ e.buffer = None
       /\ IF e.overtaken THEN NotFreed(a, r.packet) ELSE FreedLast(a, r.packet)
  /\ e.pc = "received" /\ ~e.overtaken => e.packet = r.packet
  /\ e.pc = "ready" =>
       /\ r.signal => NotFreed(a, r.packet) /\ (e.buffer = r.packet => e.overtaken)
       /\ e.buffer # None =>
            /\ ~TheEntry(e.buffer[1], e.buffer[2]).fw
            /\ IF e.overtaken THEN NotFreed(a, e.buffer)
               ELSE FreedLast(a, e.buffer) /\ e.buffer = e.packet
EventStages(q) == Staged(answers[q], reflected[q], entl[q])

\* Inductive, together with the types and OneEach.
EventInv == EventTypes /\ BufferFreedOnce /\ \A q \in Port : EventsNew(q) /\ EventStages(q)
=============================================================================
