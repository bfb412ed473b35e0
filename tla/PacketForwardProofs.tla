-------------------------- MODULE PacketForwardProofs --------------------------
(***************************************************************************)
(* Packets of one port leave on another in the order they came and under   *)
(* numbers of their own, and the buffer of an event is freed once, for     *)
(* every set of ports, number of contexts, threads and words, and whatever *)
(* packets arrive.  Nothing is assumed of the traffic: the invariants say  *)
(* themselves what they leave open once a ring was overrun or contexts of  *)
(* two ports met in a count.                                               *)
(***************************************************************************)
EXTENDS PacketForward, FiniteSetTheorems, FunctionTheorems, TLAPS

-----------------------------------------------------------------------------
(* Ports, words and targets.                                               *)

\* Two ports never share a ring, though ports 6 and 7 share an island.
LEMMA RingsDiffer ==
  ASSUME NEW p \in InPorts, NEW q \in InPorts, ReorderRingOf(p) = ReorderRingOf(q)
  PROVE  p = q
<1>1. p \in 0 .. 7 /\ q \in 0 .. 7
  BY ForwardAssumption DEF Port
<1>2. Island(p) = Island(q) /\ get_ring_num(p) = get_ring_num(q)
  BY DEF ReorderRingOf
<1>3. (p = 7 <=> q = 7) /\ (p # 7 => 32 + p = 32 + q)
  BY <1>1, <1>2 DEF Island, get_ring_num
<1>. QED
  BY <1>1, <1>3

LEMMA PortFacts ==
  ASSUME NEW p \in InPorts
  PROVE  /\ p \in Port /\ Island(p) \in Islands /\ ReorderRingOf(p) \in ReorderRings
         /\ ReorderRingOf(p) = <<Island(p), get_ring_num(p)>>
         /\ \A q \in InPorts : q # p => ReorderRingOf(q) # ReorderRingOf(p)
BY ForwardAssumption, RingsDiffer DEF Islands, ReorderRings, ReorderRingOf

LEMMA QueueFacts ==
  ASSUME NEW q \in Port
  PROVE  SequenceWord(q) \in SequenceWords /\ get_island_ring(q) \in EgressRings
<1>1. SequenceWord(q) \in SequenceWords
  BY DEF SequenceWords
<1>2. Island(q) \in {Island(r) : r \in Port}
  OBVIOUS
<1>. QED
  BY <1>1, <1>2 DEF get_island_ring, EgressRings

\* A set of ports has a least one.
LEMMA LeastPort ==
  ASSUME NEW T, T \subseteq Port, T # {}
  PROVE  \E q \in T : \A p \in T : q <= p
<1>1. \A p \in T : p \in {0, 1, 2, 3, 4, 5, 6, 7}
  BY DEF Port
<1>2. CASE 0 \in T
  BY <1>1, <1>2
<1>3. CASE 0 \notin T /\ 1 \in T
  BY <1>1, <1>3
<1>4. CASE 0 \notin T /\ 1 \notin T /\ 2 \in T
  BY <1>1, <1>4
<1>5. CASE 0 \notin T /\ 1 \notin T /\ 2 \notin T /\ 3 \in T
  BY <1>1, <1>5
<1>6. CASE 0 \notin T /\ 1 \notin T /\ 2 \notin T /\ 3 \notin T
  BY <1>1, <1>6
<1>. QED
  BY <1>2, <1>3, <1>4, <1>5, <1>6

LEMMA TargetFacts ==
  ASSUME NEW r, r.targets \subseteq Port, r.targets # {}
  PROVE  Target(r) \in r.targets /\ Target(r) \in Port
BY LeastPort DEF Target

LEMMA TargetsArePorts ==
  ASSUME NEW p \in InPorts, NEW n \in DOMAIN Arrivals[p]
  PROVE  /\ Arrivals[p][n] \in Packet
         /\ Targets(p, Arrivals[p][n]) \subseteq Port
<1>1. Arrivals[p] \in Seq(Packet)
  BY ForwardAssumption
<1>2. Arrivals[p][n] \in Packet
  BY <1>1
<1>. QED
  BY <1>2 DEF Targets, Packet, Port

LEMMA WordBound ==
  ASSUME NEW n \in Nat
  PROVE  RingSize \in Nat \ {0} /\ Word(n) \in 0 .. RingSize - 1
<1>1. RingSize \in Nat \ {0}
  BY ForwardAssumption
<1>. QED
  BY <1>1 DEF Word

LEMMA SameWord ==
  ASSUME NEW m \in Nat, NEW n \in Nat, m <= n, n < m + RingSize, Word(m) = Word(n)
  PROVE  m = n
<1>1. RingSize \in Nat \ {0}
  BY ForwardAssumption
<1> DEFINE R == RingSize
           a == m \div R
           b == n \div R
<1>2. /\ a \in Int /\ b \in Int
      /\ m = R * a + (m % R)
      /\ n = R * b + (n % R)
  BY <1>1, SMT
<1>3. n - m = R * b - R * a
  BY <1>2, <1>1 DEF Word
<1> HIDE DEF a, b
<1>4. ~(b > a)
  <2>1. SUFFICES ASSUME b >= a + 1 PROVE FALSE
    BY <1>2
  <2>2. R * b >= R * (a + 1)
    BY <2>1, <1>1, <1>2, SMT
  <2>3. R * (a + 1) = R * a + R
    BY <1>1, <1>2, SMT
  <2>. QED
    BY <2>2, <2>3, <1>3, <1>1, <1>2, SMT
<1>5. ~(b < a)
  <2>1. SUFFICES ASSUME a >= b + 1 PROVE FALSE
    BY <1>2
  <2>2. R * a >= R * (b + 1)
    BY <2>1, <1>1, <1>2, SMT
  <2>3. R * (b + 1) = R * b + R
    BY <1>1, <1>2, SMT
  <2>. QED
    BY <2>2, <2>3, <1>3, <1>1, <1>2, SMT
<1>6. a = b
  BY <1>4, <1>5, <1>2
<1>. QED
  BY <1>6, <1>2, <1>1 DEF Word

-----------------------------------------------------------------------------
(* Types, whatever the traffic.  Unlock wakes the context that a word of   *)
(* the ring names; that its packet is one of the island's is not a matter  *)
(* of types alone, the word must name a context that still waits there.    *)

Sound(i, r) ==
  /\ r.pc = "idle" => r = Idle
  /\ r.pc # "idle" => r.port \in InPorts /\ Island(r.port) = i
  /\ r.pc = "received" => r.seq + 1 \in DOMAIN Arrivals[r.port]
  /\ r.pc \in {"counting", "numbered"} => r.targets # {}

Awaits(o, w, r) == r.pc = "waiting" /\ ReorderRingOf(r.port) = o /\ Word(r.seq) = w

WordsAwaited ==
  \A o \in ReorderRings : \A w \in 0 .. RingSize - 1 : \A d \in Contexts :
    word[o][w] = d => Awaits(o, w, rx[o[1]][d])

SoundInv ==
  /\ TypeOK
  /\ \A i \in Islands, c \in Contexts : Sound(i, rx[i][c])
  /\ WordsAwaited

LEMMA IslandRing ==
  ASSUME NEW i \in Islands, NEW c \in Contexts, Sound(i, rx[i][c]), rx[i][c].pc # "idle"
  PROVE  /\ rx[i][c].port \in InPorts /\ rx[i][c].port \in Port
         /\ <<i, get_ring_num(rx[i][c].port)>> = ReorderRingOf(rx[i][c].port)
         /\ ReorderRingOf(rx[i][c].port) \in ReorderRings
BY ForwardAssumption DEF Sound, ReorderRings, ReorderRingOf

LEMMA RingIsland ==
  ASSUME NEW o \in ReorderRings
  PROVE  o[1] \in Islands
BY DEF ReorderRings, ReorderRingOf, Islands

\* A step that changes the registers of one context, which no word names.
LEMMA ContextStep ==
  ASSUME SoundInv, NEW i \in Islands, NEW c \in Contexts, NEW v \in Context, Sound(i, v),
         rx[i][c].pc # "waiting", rx' = [rx EXCEPT ![i][c] = v]
  PROVE  /\ rx' \in [Islands -> [Contexts -> Context]]
         /\ \A j \in Islands, d \in Contexts : Sound(j, rx'[j][d])
         /\ UNCHANGED word => WordsAwaited'
<1>1. rx \in [Islands -> [Contexts -> Context]]
  BY DEF SoundInv, TypeOK
<1>2. \A j \in Islands, d \in Contexts : rx'[j][d] = IF j = i /\ d = c THEN v ELSE rx[j][d]
  BY <1>1
<1>3. rx' \in [Islands -> [Contexts -> Context]]
  BY <1>1
<1>4. \A j \in Islands, d \in Contexts : Sound(j, rx'[j][d])
  BY <1>2 DEF SoundInv
<1>5. ASSUME UNCHANGED word PROVE WordsAwaited'
  <2>. SUFFICES ASSUME NEW o \in ReorderRings, NEW w \in 0 .. RingSize - 1, NEW d \in Contexts,
                       word[o][w] = d
       PROVE  Awaits(o, w, rx'[o[1]][d])
    BY <1>5 DEF WordsAwaited
  <2>1. Awaits(o, w, rx[o[1]][d]) /\ o[1] \in Islands
    BY RingIsland DEF SoundInv, WordsAwaited
  <2>2. rx'[o[1]][d] = rx[o[1]][d]
    BY <2>1, <1>2 DEF Awaits
  <2>. QED
    BY <2>1, <2>2
<1>. QED
  BY <1>3, <1>4, <1>5

LEMMA ReceiveTypes ==
  ASSUME SoundInv, NEW p \in InPorts, NEW c \in Contexts, Receive(p, c)
  PROVE  SoundInv'
<1> DEFINE v == [Idle EXCEPT !.pc = "received", !.port = p, !.seq = arrived[p]]
<1>1. /\ p \in Port /\ Island(p) \in Islands /\ arrived[p] \in Nat
      /\ Arrivals[p] \in Seq(Packet) /\ arrived[p] < Len(Arrivals[p])
  BY ForwardAssumption DEF Islands, SoundInv, TypeOK, Receive
<1>2. arrived[p] + 1 \in DOMAIN Arrivals[p]
  BY <1>1
<1>3. v \in Context /\ v.pc = "received" /\ v.port = p /\ v.seq = arrived[p]
  BY <1>1 DEF Idle, Context
<1>4. rx' = [rx EXCEPT ![Island(p)][c] = v] /\ rx[Island(p)][c].pc # "waiting"
  BY DEF Receive
<1> HIDE DEF v
<1>5. Sound(Island(p), v)
  BY <1>2, <1>3 DEF Sound
<1>6. /\ arrived' = [arrived EXCEPT ![p] = @ + 1]
      /\ UNCHANGED <<head, word, count, met, ring, tx, tmVars>>
      /\ overrun' \subseteq overrun \cup {p}
  BY DEF Receive
<1>7. arrived' \in [InPorts -> Nat] /\ \A q \in InPorts : arrived'[q] <= Len(Arrivals[q])
  BY <1>1, <1>6 DEF SoundInv, TypeOK
<1>8. /\ rx' \in [Islands -> [Contexts -> Context]]
      /\ \A j \in Islands, d \in Contexts : Sound(j, rx'[j][d])
      /\ WordsAwaited'
  BY <1>1, <1>3, <1>4, <1>5, <1>6, ContextStep
<1>. QED
  BY <1>6, <1>7, <1>8 DEF SoundInv, TypeOK, tmVars

LEMMA ExamineTypes ==
  ASSUME SoundInv, NEW i \in Islands, NEW c \in Contexts, Examine(i, c)
  PROVE  SoundInv'
<1> DEFINE r == rx[i][c]
           k == TheEntry(r.port, r.seq)
           b == k.fw /\ ~k.rootward /\ 0 \in k.fw_vector
           v == IF k.entl \/ k.fw
                THEN [r EXCEPT !.pc = "lock", !.targets = Targets(r.port, k), !.sent = b]
                ELSE Idle
<1>1. r \in Context /\ r.pc = "received" /\ Sound(i, r)
  BY DEF SoundInv, TypeOK, Examine
<1>2. Targets(r.port, k) \subseteq Port
  BY <1>1, TargetsArePorts DEF Sound, TheEntry
<1>3. b \in BOOLEAN
  OBVIOUS
<1>4. rx' = [rx EXCEPT ![i][c] = v] /\ UNCHANGED <<arrived, head, word, count, overrun, met, ring, tx, tmVars>>
  BY DEF Examine
<1> HIDE DEF b, k, r
<1>5. Idle \in Context /\ Idle.pc = "idle"
  BY DEF Idle, Context, Port
<1>6. v \in Context /\ Sound(i, v)
  <2>1. CASE k.entl \/ k.fw
    <3>1. v = [r EXCEPT !.pc = "lock", !.targets = Targets(r.port, k), !.sent = b]
      BY <2>1
    <3>2. v \in Context /\ v.pc = "lock" /\ v.port = r.port
      BY <3>1, <1>1, <1>2, <1>3 DEF Context
    <3>. QED
      BY <3>2, <1>1 DEF Sound
  <2>2. CASE ~(k.entl \/ k.fw)
    BY <2>2, <1>5 DEF Sound
  <2>. QED
    BY <2>1, <2>2
<1> HIDE DEF v
<1>7. /\ rx' \in [Islands -> [Contexts -> Context]]
      /\ \A j \in Islands, d \in Contexts : Sound(j, rx'[j][d])
      /\ WordsAwaited'
  BY <1>1, <1>4, <1>6, ContextStep DEF r
<1>. QED
  BY <1>4, <1>7 DEF SoundInv, TypeOK, tmVars

LEMMA LockTypes ==
  ASSUME SoundInv, NEW i \in Islands, NEW c \in Contexts, Lock(i, c)
  PROVE  SoundInv'
<1> DEFINE r == rx[i][c]
           o == ReorderRingOf(r.port)
           u == Word(r.seq)
           stage == IF u = Word(head[o]) THEN "inside" ELSE "waiting"
           v == [r EXCEPT !.pc = stage]
<1>1. r \in Context /\ r.pc = "lock" /\ Sound(i, r)
  BY DEF SoundInv, TypeOK, Lock
<1>2. r.port \in InPorts /\ o = <<i, get_ring_num(r.port)>> /\ o \in ReorderRings
  BY <1>1, IslandRing
<1>3. u \in 0 .. RingSize - 1
  BY <1>1, WordBound DEF Context
<1>4. stage \in {"inside", "waiting"}
  OBVIOUS
<1>5. /\ rx' = [rx EXCEPT ![i][c] = v] /\ UNCHANGED <<arrived, head, count, overrun, met, ring, tx, tmVars>>
      /\ word' = IF stage = "inside" THEN word ELSE [word EXCEPT ![o][u] = c]
  BY <1>2 DEF Lock
<1> HIDE DEF stage, u, r
<1>6. v \in Context /\ v.pc = stage /\ v.port = r.port /\ v.seq = r.seq
  BY <1>1, <1>4 DEF Context
<1> HIDE DEF v
<1>7. Sound(i, v)
  BY <1>1, <1>4, <1>6 DEF Sound
<1>8. /\ rx' \in [Islands -> [Contexts -> Context]]
      /\ \A j \in Islands, d \in Contexts : Sound(j, rx'[j][d])
      /\ UNCHANGED word => WordsAwaited'
  BY <1>1, <1>5, <1>6, <1>7, ContextStep DEF r
<1>9. rx \in [Islands -> [Contexts -> Context]]
      /\ word \in [ReorderRings -> [0 .. RingSize - 1 -> Contexts \cup {None}]]
  BY DEF SoundInv, TypeOK
<1> HIDE DEF o
<1>10. /\ word' \in [ReorderRings -> [0 .. RingSize - 1 -> Contexts \cup {None}]]
       /\ \A q \in ReorderRings, w \in 0 .. RingSize - 1 :
            word'[q][w] = IF stage = "waiting" /\ q = o /\ w = u THEN c ELSE word[q][w]
  BY <1>2, <1>3, <1>4, <1>5, <1>9
<1>11. WordsAwaited'
  <2>1. CASE stage = "inside"
    BY <2>1, <1>5, <1>8
  <2>2. CASE stage = "waiting"
    <3>. SUFFICES ASSUME NEW q \in ReorderRings, NEW w \in 0 .. RingSize - 1, NEW d \in Contexts,
                         word'[q][w] = d
         PROVE  Awaits(q, w, rx'[q[1]][d])
      BY DEF WordsAwaited
    <3>1. CASE q = o /\ w = u
      <4>1. d = c /\ q[1] = i
        BY <3>1, <2>2, <1>2, <1>10
      <4>2. rx'[q[1]][d] = v
        BY <4>1, <1>5, <1>9
      <4>. QED
        BY <4>2, <3>1, <2>2, <1>6 DEF Awaits, o, u
    <3>2. CASE ~(q = o /\ w = u)
      <4>1. Awaits(q, w, rx[q[1]][d]) /\ q[1] \in Islands
        BY <3>2, <1>10, RingIsland DEF SoundInv, WordsAwaited
      <4>2. ~(q[1] = i /\ d = c)
        BY <4>1, <1>1 DEF Awaits, r
      <4>3. rx'[q[1]][d] = rx[q[1]][d]
        BY <4>1, <4>2, <1>5, <1>9
      <4>. QED
        BY <4>1, <4>3
    <3>. QED
      BY <3>1, <3>2
  <2>. QED
    BY <2>1, <2>2, <1>4
<1>. QED
  BY <1>5, <1>8, <1>10, <1>11 DEF SoundInv, TypeOK, tmVars

LEMMA ReadCountTypes ==
  ASSUME SoundInv, NEW i \in Islands, NEW c \in Contexts, ReadCount(i, c)
  PROVE  SoundInv'
<1> DEFINE r == rx[i][c]
           t == Target(r)
           v == [r EXCEPT !.pc = "counting", !.num = count[i][SequenceWord(t)]]
<1>1. r \in Context /\ Sound(i, r) /\ r.pc = "inside" /\ r.targets # {}
  BY DEF SoundInv, TypeOK, ReadCount
<1>2. t \in Port /\ SequenceWord(t) \in SequenceWords
  BY <1>1, TargetFacts, QueueFacts DEF Context
<1>3. count[i][SequenceWord(t)] \in Nat
  BY <1>2 DEF SoundInv, TypeOK
<1>4. /\ UNCHANGED <<arrived, head, word, count, overrun, ring, tx, tmVars>>
      /\ rx' = [rx EXCEPT ![i][c] = v] /\ met' \subseteq met \cup {i}
  BY DEF ReadCount, Counts
<1> HIDE DEF r, t
<1>5. v \in Context /\ v.pc = "counting" /\ v.port = r.port /\ v.targets = r.targets
  BY <1>1, <1>3 DEF Context
<1> HIDE DEF v
<1>6. Sound(i, v) /\ rx[i][c].pc # "waiting"
  BY <1>1, <1>5 DEF Sound, r
<1>7. /\ rx' \in [Islands -> [Contexts -> Context]]
      /\ \A j \in Islands, d \in Contexts : Sound(j, rx'[j][d])
      /\ WordsAwaited'
  BY <1>4, <1>5, <1>6, ContextStep
<1>. QED
  BY <1>4, <1>7 DEF SoundInv, TypeOK, tmVars

LEMMA WriteCountTypes ==
  ASSUME SoundInv, NEW i \in Islands, NEW c \in Contexts, WriteCount(i, c)
  PROVE  SoundInv'
<1> DEFINE r == rx[i][c]
           t == Target(r)
           v == [r EXCEPT !.pc = "numbered"]
<1>1. r \in Context /\ Sound(i, r) /\ r.pc = "counting" /\ r.targets # {}
  BY DEF SoundInv, TypeOK, WriteCount, Sound
<1>2. t \in Port /\ SequenceWord(t) \in SequenceWords
  BY <1>1, TargetFacts, QueueFacts DEF Context
<1>3. /\ UNCHANGED <<arrived, head, word, overrun, met, ring, tx, tmVars>>
      /\ rx' = [rx EXCEPT ![i][c] = v]
      /\ count' = [count EXCEPT ![i][SequenceWord(t)] = r.num + 1]
  BY DEF WriteCount, Counts
<1> HIDE DEF r, t
<1>4. v \in Context /\ v.pc = "numbered" /\ v.port = r.port /\ v.targets = r.targets
  BY <1>1 DEF Context
<1>5. r.num + 1 \in Nat /\ count \in [Islands -> [SequenceWords -> Nat]]
  BY <1>1 DEF Context, SoundInv, TypeOK
<1>6. count' \in [Islands -> [SequenceWords -> Nat]]
  BY <1>2, <1>3, <1>5
<1> HIDE DEF v
<1>7. Sound(i, v) /\ rx[i][c].pc # "waiting"
  BY <1>1, <1>4 DEF Sound, r
<1>8. /\ rx' \in [Islands -> [Contexts -> Context]]
      /\ \A j \in Islands, d \in Contexts : Sound(j, rx'[j][d])
      /\ WordsAwaited'
  BY <1>3, <1>4, <1>7, ContextStep
<1>. QED
  BY <1>3, <1>6, <1>8 DEF SoundInv, TypeOK, tmVars

LEMMA QueueTypes ==
  ASSUME SoundInv, NEW i \in Islands, NEW c \in Contexts, Queue(i, c)
  PROVE  SoundInv'
<1> DEFINE r == rx[i][c]
           t == Target(r)
           e == get_island_ring(t)
           g == ~(r.sent /\ HasLeft(r.port, r.seq))
           x == [port |-> r.port, seq |-> r.seq, out_port |-> t, num |-> r.num,
                 clone |-> r.sent, intact |-> g]
           v == [r EXCEPT !.pc = "inside", !.targets = @ \ {t}, !.sent = TRUE, !.num = 0]
<1>1. r \in Context /\ Sound(i, r) /\ r.pc = "numbered" /\ r.targets # {} /\ r.port \in InPorts
  BY DEF SoundInv, TypeOK, Queue, Sound
<1>2. t \in Port /\ e \in EgressRings
  BY <1>1, TargetFacts, QueueFacts DEF Context
<1>3. g \in BOOLEAN
  OBVIOUS
<1>4. /\ rx' = [rx EXCEPT ![i][c] = v] /\ UNCHANGED <<arrived, head, word, count, overrun, met, tx, tmVars>>
      /\ ring' = [ring EXCEPT ![e] = Append(@, x)]
  BY DEF Queue
<1> HIDE DEF g, t, r
<1>5. x \in Descriptor
  BY <1>1, <1>2, <1>3 DEF Descriptor, Context
<1>6. v \in Context /\ v.pc = "inside" /\ v.port = r.port
  BY <1>1 DEF Context
<1> HIDE DEF x, v, e
<1>7. ring' \in [EgressRings -> Seq(Descriptor)]
  BY <1>2, <1>4, <1>5 DEF SoundInv, TypeOK
<1>8. Sound(i, v)
  BY <1>1, <1>6 DEF Sound
<1>9. rx[i][c].pc # "waiting"
  BY <1>1 DEF r
<1>10. /\ rx' \in [Islands -> [Contexts -> Context]]
       /\ \A j \in Islands, d \in Contexts : Sound(j, rx'[j][d])
       /\ WordsAwaited'
  BY <1>4, <1>6, <1>8, <1>9, ContextStep
<1>. QED
  BY <1>4, <1>7, <1>10 DEF SoundInv, TypeOK, tmVars

\* The context that is woken is one that waits, in one word of one ring.
LEMMA UnlockTypes ==
  ASSUME SoundInv, NEW i \in Islands, NEW c \in Contexts, Unlock(i, c)
  PROVE  SoundInv'
<1> DEFINE r == rx[i][c]
           o == ReorderRingOf(r.port)
           next == Word(head[o] + 1)
           e == word[o][next]
<1>1. r \in Context /\ r.pc = "inside" /\ Sound(i, r)
  BY DEF SoundInv, TypeOK, Unlock
<1>2. o = <<i, get_ring_num(r.port)>> /\ o \in ReorderRings
  BY <1>1, IslandRing
<1>3. /\ head[o] \in Nat /\ rx \in [Islands -> [Contexts -> Context]]
      /\ word \in [ReorderRings -> [0 .. RingSize - 1 -> Contexts \cup {None}]]
      /\ head \in [ReorderRings -> Nat]
  BY <1>2 DEF SoundInv, TypeOK
<1>4. next \in 0 .. RingSize - 1
  <2>1. head[o] + 1 \in Nat
    BY <1>3
  <2>. QED
    BY <2>1, WordBound
<1>5. /\ head' = [head EXCEPT ![o] = @ + 1]
      /\ word' = [word EXCEPT ![o][next] = None]
      /\ rx' = [rx EXCEPT ![i] = [d \in Contexts |->
                  IF d = c THEN Idle
                  ELSE IF d = e THEN [rx[i][d] EXCEPT !.pc = "inside"]
                  ELSE rx[i][d]]]
      /\ UNCHANGED <<arrived, count, overrun, met, ring, tx, tmVars>>
  BY <1>2 DEF Unlock
<1> HIDE DEF next, e, o
<1>6. Idle \in Context /\ Idle.pc = "idle"
  BY DEF Idle, Context, Port
<1>7. /\ \A j \in Islands, d \in Contexts : j # i => rx'[j][d] = rx[j][d]
      /\ rx'[i][c] = Idle
      /\ \A d \in Contexts : d # c /\ d = e => rx'[i][d] = [rx[i][d] EXCEPT !.pc = "inside"]
      /\ \A d \in Contexts : d # c /\ d # e => rx'[i][d] = rx[i][d]
  BY <1>3, <1>5
<1>8. ASSUME NEW d \in Contexts, d # c, d = e
      PROVE  /\ rx[i][d].pc = "waiting" /\ ReorderRingOf(rx[i][d].port) = o /\ Word(rx[i][d].seq) = next
             /\ rx'[i][d] \in Context /\ Sound(i, rx'[i][d])
  <2>1. Awaits(o, next, rx[i][d])
    BY <1>2, <1>4, <1>8 DEF SoundInv, WordsAwaited, e
  <2>2. rx[i][d] \in Context /\ Sound(i, rx[i][d])
    BY <1>3 DEF SoundInv
  <2>3. rx'[i][d] = [rx[i][d] EXCEPT !.pc = "inside"]
    BY <1>7, <1>8
  <2>4. rx'[i][d] \in Context /\ rx'[i][d].pc = "inside" /\ rx'[i][d].port = rx[i][d].port
    BY <2>2, <2>3 DEF Context
  <2>. QED
    BY <2>1, <2>2, <2>4 DEF Awaits, Sound
<1>9. rx' \in [Islands -> [Contexts -> Context]]
  <2>1. \A j \in Islands, d \in Contexts : rx'[j][d] \in Context
    BY <1>3, <1>6, <1>7, <1>8
  <2>2. /\ DOMAIN rx' = Islands
        /\ \A j \in Islands : rx'[j] = [d \in Contexts |-> rx'[j][d]]
    BY <1>3, <1>5
  <2>3. rx' = [j \in Islands |-> rx'[j]]
    BY <1>3, <1>5
  <2>4. \A j \in Islands : rx'[j] \in [Contexts -> Context]
    BY <2>1, <2>2
  <2>. QED
    BY <2>3, <2>4
<1>10. \A j \in Islands, d \in Contexts : Sound(j, rx'[j][d])
  <2>1. Sound(i, Idle)
    BY <1>6 DEF Sound
  <2>. QED
    BY <2>1, <1>7, <1>8 DEF SoundInv
<1>11. /\ head' \in [ReorderRings -> Nat]
       /\ word' \in [ReorderRings -> [0 .. RingSize - 1 -> Contexts \cup {None}]]
       /\ None \notin Contexts
       /\ \A q \in ReorderRings, w \in 0 .. RingSize - 1 :
            word'[q][w] = IF q = o /\ w = next THEN None ELSE word[q][w]
  <2>1. head' \in [ReorderRings -> Nat]
    <3>1. /\ head \in [ReorderRings -> Nat] /\ head[o] + 1 \in Nat
          /\ head' = [head EXCEPT ![o] = head[o] + 1]
      BY <1>3, <1>5
    <3>. QED
      BY <3>1
  <2>4. None \notin Contexts
    BY ForwardAssumption
  <2>2. word' \in [ReorderRings -> [0 .. RingSize - 1 -> Contexts \cup {None}]]
    BY <1>2, <1>3, <1>4, <1>5
  <2>3. \A q \in ReorderRings, w \in 0 .. RingSize - 1 :
            word'[q][w] = IF q = o /\ w = next THEN None ELSE word[q][w]
    BY <1>2, <1>3, <1>4, <1>5
  <2>. QED
    BY <2>1, <2>2, <2>3, <2>4
<1>12. WordsAwaited'
  <2>. SUFFICES ASSUME NEW q \in ReorderRings, NEW w \in 0 .. RingSize - 1, NEW d \in Contexts,
                       word'[q][w] = d
       PROVE  Awaits(q, w, rx'[q[1]][d])
    BY DEF WordsAwaited
  <2>1. ~(q = o /\ w = next) /\ word[q][w] = d
    BY <1>11
  <2>2. Awaits(q, w, rx[q[1]][d]) /\ q[1] \in Islands
    BY <2>1, RingIsland DEF SoundInv, WordsAwaited
  <2>3. rx'[q[1]][d] = rx[q[1]][d]
    <3>1. CASE q[1] # i
      BY <3>1, <2>2, <1>7
    <3>2. CASE q[1] = i
      <4>1. d # c
        BY <3>2, <2>2, <1>1 DEF Awaits
      <4>2. d # e
        BY <4>1, <3>2, <2>1, <2>2, <1>8 DEF Awaits
      <4>. QED
        BY <3>2, <4>1, <4>2, <1>7
    <3>. QED
      BY <3>1, <3>2
  <2>. QED
    BY <2>2, <2>3
<1>. QED
  BY <1>5, <1>9, <1>10, <1>11, <1>12 DEF SoundInv, TypeOK, tmVars

LEMMA GetTypes ==
  ASSUME TypeOK, NEW q \in OutPorts, NEW t \in Threads, Get(q, t)
  PROVE  TypeOK'
<1> DEFINE e == <<Island(q), ForwardRing[q]>>
<1>1. e \in EgressRings
  BY ForwardAssumption DEF EgressRings
<1>2. /\ ring[e] \in Seq(Descriptor) /\ ring[e] # <<>>
      /\ tx' = [tx EXCEPT ![q][t] = Head(ring[e])]
      /\ ring' = [ring EXCEPT ![e] = Tail(ring[e])]
      /\ UNCHANGED <<rxVars, tmVars>>
  BY <1>1 DEF Get, TypeOK
<1> HIDE DEF e
<1>3. Head(ring[e]) \in Descriptor /\ Tail(ring[e]) \in Seq(Descriptor)
  BY <1>2
<1>4. tx' \in [OutPorts -> [Threads -> Descriptor \cup {None}]]
  BY <1>2, <1>3 DEF TypeOK
<1>5. ring' \in [EgressRings -> Seq(Descriptor)]
  BY <1>1, <1>2, <1>3 DEF TypeOK
<1>. QED
  BY <1>2, <1>4, <1>5 DEF TypeOK, rxVars, tmVars

LEMMA SendTypes ==
  ASSUME TypeOK, NEW q \in OutPorts, NEW t \in Threads, Send(q, t)
  PROVE  TypeOK'
<1> DEFINE d == tx[q][t]
           s == <<get_nbi(d.out_port), get_sequencer(d.port)>>
<1>1. /\ d \in Descriptor
      /\ tm' = [tm EXCEPT ![s] = @ \cup {d}]
      /\ tx' = [tx EXCEPT ![q][t] = None]
      /\ UNCHANGED <<rxVars, ring, due, left>>
  BY DEF Send, TypeOK
<1> HIDE DEF d
<1>2. tm' \in [Sequencers -> SUBSET Descriptor]
  BY <1>1 DEF TypeOK
<1>3. tx' \in [OutPorts -> [Threads -> Descriptor \cup {None}]]
  BY <1>1 DEF TypeOK
<1>. QED
  BY <1>1, <1>2, <1>3 DEF TypeOK, rxVars

LEMMA DepartTypes ==
  ASSUME TypeOK, NEW s \in Sequencers, Depart(s)
  PROVE  TypeOK'
<1>1. PICK d \in tm[s] :
        /\ d.num = due[s]
        /\ tm' = [tm EXCEPT ![s] = @ \ {d}]
        /\ left' = [left EXCEPT ![d.out_port] = Append(@, d)]
  BY DEF Depart
<1>2. /\ due' = [due EXCEPT ![s] = @ + 1] /\ UNCHANGED <<rxVars, ring, tx>>
      /\ d \in Descriptor /\ due[s] \in Nat
  BY <1>1 DEF Depart, TypeOK
<1>3. left' \in [OutPorts -> Seq(Descriptor)]
  <2>1. ASSUME NEW q \in OutPorts PROVE left'[q] \in Seq(Descriptor)
    <3>1. left[q] \in Seq(Descriptor)
      BY DEF TypeOK
    <3>2. Append(left[q], d) \in Seq(Descriptor)
      BY <3>1, <1>2
    <3>3. left'[q] = left[q] \/ left'[q] = Append(left[q], d)
      BY <1>1 DEF TypeOK
    <3>. QED
      BY <3>1, <3>2, <3>3
  <2>2. left' = [q \in OutPorts |-> left'[q]]
    BY <1>1 DEF TypeOK
  <2>. QED
    BY <2>1, <2>2
<1>4. tm' \in [Sequencers -> SUBSET Descriptor] /\ due' \in [Sequencers -> Nat]
  BY <1>1, <1>2 DEF TypeOK
<1>. QED
  BY <1>2, <1>3, <1>4 DEF TypeOK, rxVars

LEMMA SenderTypes ==
  ASSUME SoundInv, TypeOK', UNCHANGED rxVars
  PROVE  SoundInv'
BY DEF SoundInv, WordsAwaited, rxVars

LEMMA InitTypes == Init => SoundInv
<1>. SUFFICES ASSUME Init PROVE SoundInv
  OBVIOUS
<1>1. Idle \in Context /\ Idle.pc = "idle"
  BY DEF Idle, Context, Port
<1>2. \A p \in InPorts : Arrivals[p] \in Seq(Packet) /\ Len(Arrivals[p]) \in Nat
  BY ForwardAssumption
<1>3. ring \in [EgressRings -> Seq(Descriptor)] /\ left \in [OutPorts -> Seq(Descriptor)]
  BY DEF Init
<1>4. TypeOK
  BY <1>1, <1>2, <1>3 DEF Init, TypeOK
<1>5. \A i \in Islands, c \in Contexts : Sound(i, rx[i][c])
  BY <1>1 DEF Init, Sound
<1>6. WordsAwaited
  BY ForwardAssumption DEF Init, WordsAwaited
<1>. QED
  BY <1>4, <1>5, <1>6 DEF SoundInv

LEMMA NextTypes == SoundInv /\ [Next]_vars => SoundInv'
<1>. SUFFICES ASSUME SoundInv, [Next]_vars PROVE SoundInv'
  OBVIOUS
<1>1. ASSUME UNCHANGED <<rxVars, ring, tx, tmVars>> PROVE SoundInv'
  <2>1. TypeOK'
    BY <1>1 DEF SoundInv, TypeOK, rxVars, tmVars
  <2>. QED
    BY <2>1, <1>1, SenderTypes
<1>2. CASE UNCHANGED vars
  BY <1>1, <1>2 DEF vars
<1>3. ASSUME NEW p \in InPorts, NEW c \in Contexts, Receive(p, c) PROVE SoundInv'
  BY <1>3, ReceiveTypes
<1>4. ASSUME NEW i \in Islands, NEW c \in Contexts, ReceiverStep(i, c) PROVE SoundInv'
  BY <1>4, ExamineTypes, LockTypes, ReadCountTypes, WriteCountTypes, QueueTypes, UnlockTypes DEF ReceiverStep
<1>5. ASSUME NEW q \in OutPorts, NEW t \in Threads, Get(q, t) \/ Send(q, t) PROVE SoundInv'
  <2>1. TypeOK' /\ UNCHANGED rxVars
    BY <1>5, GetTypes, SendTypes DEF SoundInv, Get, Send
  <2>. QED
    BY <2>1, SenderTypes
<1>6. ASSUME NEW q \in Port, EntlStep(q) PROVE SoundInv'
  BY <1>1, <1>6 DEF EntlStep, Wake, ReadEvent, PickBuffer, Answer
<1>7. ASSUME NEW s \in Sequencers, Depart(s) PROVE SoundInv'
  <2>1. TypeOK' /\ UNCHANGED rxVars
    BY <1>7, DepartTypes DEF SoundInv, Depart
  <2>. QED
    BY <2>1, SenderTypes
<1>. QED
  BY <1>2, <1>3, <1>4, <1>5, <1>6, <1>7 DEF Next

\* Whatever packets arrive, and with too few words or two ports on one island
\* too: every descriptor queued names a port that receives and one to leave on,
\* and a context is only ever woken while it waits.
THEOREM ForwardingTypes == Spec => []TypeOK
<1>1. SoundInv => TypeOK
  BY DEF SoundInv
<1>. QED
  BY InitTypes, NextTypes, <1>1, PTL DEF Spec

-----------------------------------------------------------------------------
(* The ring of a port is used the way ReorderRing describes it, with too   *)
(* few words or two ports on one island too: its own theorems say when the *)
(* order is kept.                                                          *)

\* Every packet takes part in ordering, as ENTL or forwarded: one that does
\* not keeps its number to itself, and the ring waits for that number.
AllOrdered ==
  \A p \in InPorts : \A n \in DOMAIN Arrivals[p] : Arrivals[p][n].entl \/ Arrivals[p][n].fw

\* As Ring0 of MCPacketForward, for every port.
RingOf(p) == INSTANCE ReorderRing
             WITH Packets <- Len(Arrivals[p]), arrived <- arrived[p],
                  head <- head[ReorderRingOf(p)], word <- word[ReorderRingOf(p)],
                  pc <- RingPc(p), seq <- RingSeq(p)

SameHeld(p, c) == Held(p, c)' = Held(p, c)
NewHeld(p, c, v) == Held(p, c)' = IF v.port = p THEN v ELSE Idle
SameView(p, c) == Stage(Held(p, c))' = Stage(Held(p, c)) /\ Held(p, c)'.seq = Held(p, c).seq

\* What a context is towards port p, before and after its registers change.
LEMMA HeldStep ==
  ASSUME SoundInv, NEW p \in InPorts, NEW i \in Islands, NEW c \in Contexts, NEW v,
         rx' = [rx EXCEPT ![i][c] = v]
  PROVE  /\ \A d \in Contexts : d # c \/ i # Island(p) => SameHeld(p, d)
         /\ i = Island(p) => NewHeld(p, c, v)
<1>1. rx \in [Islands -> [Contexts -> Context]] /\ Island(p) \in Islands
  BY DEF SoundInv, TypeOK, Islands
<1>2. \A d \in Contexts : d # c \/ i # Island(p) => rx'[Island(p)][d] = rx[Island(p)][d]
  BY <1>1
<1>3. i = Island(p) => rx'[Island(p)][c] = v
  BY <1>1
<1>. QED
  BY <1>2, <1>3 DEF Held, SameHeld, NewHeld

\* A context in the same stage, with the same number, for all of them.
LEMMA RingStutters ==
  ASSUME NEW p \in InPorts, arrived'[p] = arrived[p],
         head'[ReorderRingOf(p)] = head[ReorderRingOf(p)],
         word'[ReorderRingOf(p)] = word[ReorderRingOf(p)],
         \A c \in Contexts : SameHeld(p, c) \/ SameView(p, c)
  PROVE  UNCHANGED RingOf(p)!vars
<1>1. \A c \in Contexts : /\ Stage(Held(p, c))' = Stage(Held(p, c))
                          /\ Held(p, c)'.seq = Held(p, c).seq
  BY DEF SameHeld, SameView, Stage
<1>2. RingPc(p)' = RingPc(p) /\ RingSeq(p)' = RingSeq(p)
  BY <1>1 DEF RingPc, RingSeq
<1>. QED
  BY <1>2 DEF RingOf!vars

\* The stage of context c becomes t, its number n, the others stay.
LEMMA RingMoves ==
  ASSUME NEW p \in InPorts, NEW c \in Contexts, NEW t, NEW n,
         \A d \in Contexts : d # c => SameHeld(p, d),
         Stage(Held(p, c))' = t, Held(p, c)'.seq = n
  PROVE  RingPc(p)' = [RingPc(p) EXCEPT ![c] = t] /\ RingSeq(p)' = [RingSeq(p) EXCEPT ![c] = n]
<1>1. \A d \in Contexts : d # c => /\ Stage(Held(p, d))' = Stage(Held(p, d))
                                   /\ Held(p, d)'.seq = Held(p, d).seq
  BY DEF SameHeld, Stage
<1>2. /\ RingPc(p)' = [d \in Contexts |-> Stage(Held(p, d))']
      /\ RingSeq(p)' = [d \in Contexts |-> Held(p, d)'.seq]
  BY DEF RingPc, RingSeq
<1>. QED
  BY <1>1, <1>2 DEF RingPc, RingSeq

LEMMA StageFacts ==
  ASSUME NEW r
  PROVE  /\ r.pc \in {"received", "lock"} => Stage(r) = "received"
         /\ r.pc \in {"inside", "counting", "numbered"} => Stage(r) = "inside"
         /\ r.pc = "waiting" => Stage(r) = "waiting"
         /\ r.pc = "idle" => Stage(r) = "idle"
BY DEF Stage

\* What the ring's view of a port is made of.
LEMMA RingView ==
  ASSUME NEW p \in InPorts, NEW c \in Contexts
  PROVE  RingPc(p)[c] = Stage(Held(p, c)) /\ RingSeq(p)[c] = Held(p, c).seq
BY DEF RingPc, RingSeq

LEMMA ReceiveServes ==
  ASSUME SoundInv, NEW p \in InPorts, NEW q \in InPorts, NEW c \in Contexts, Receive(q, c)
  PROVE  [RingOf(p)!Next]_(RingOf(p)!vars)
<1> DEFINE v == [Idle EXCEPT !.pc = "received", !.port = q, !.seq = arrived[q]]
<1>1. /\ rx[Island(q)][c].pc = "idle" /\ arrived[q] < Len(Arrivals[q])
      /\ rx' = [rx EXCEPT ![Island(q)][c] = v]
      /\ arrived' = [arrived EXCEPT ![q] = @ + 1]
      /\ UNCHANGED <<head, word>>
  BY DEF Receive
<1>2. v.pc = "received" /\ v.port = q /\ v.seq = arrived[q]
  BY DEF Idle
<1>3. Idle.pc = "idle" /\ Idle.seq = 0 /\ Island(q) \in Islands
  BY DEF Idle, Islands
<1>4. rx[Island(q)][c] = Idle /\ arrived \in [InPorts -> Nat]
  BY <1>1, <1>3 DEF SoundInv, Sound, TypeOK
<1> HIDE DEF v
<1>5. /\ \A d \in Contexts : d # c \/ Island(q) # Island(p) => SameHeld(p, d)
      /\ Island(q) = Island(p) => Held(p, c)' = IF v.port = p THEN v ELSE Idle
  <2>1. /\ \A d \in Contexts : d # c \/ Island(q) # Island(p) => SameHeld(p, d)
        /\ Island(q) = Island(p) => NewHeld(p, c, v)
    BY <1>1, <1>3, HeldStep
  <2>. QED
    BY <2>1 DEF NewHeld
<1>6. Held(p, c) = Idle \/ Island(q) # Island(p)
  BY <1>4 DEF Held
<1>7. CASE p # q
  <2>1. SameHeld(p, c)
    BY <1>2, <1>5, <1>6, <1>7 DEF SameHeld
  <2>2. arrived'[p] = arrived[p]
    BY <1>1, <1>4, <1>7
  <2>. QED
    BY <2>1, <2>2, <1>1, <1>5, RingStutters
<1>8. CASE p = q
  <2>1. Stage(Held(p, c)) = "idle" /\ Stage(Held(p, c))' = "received" /\ Held(p, c)'.seq = arrived[p]
    <3>1. Held(p, c) = Idle /\ Held(p, c)' = v
      BY <1>2, <1>5, <1>6, <1>8
    <3>2. Stage(Held(p, c)) = "idle"
      BY <3>1, <1>3, StageFacts
    <3>3. Stage(Held(p, c))' = "received"
      BY <3>1, <1>2 DEF Stage
    <3>. QED
      BY <3>1, <3>2, <3>3, <1>2, <1>8
  <2>2. /\ RingPc(p)' = [RingPc(p) EXCEPT ![c] = "received"]
        /\ RingSeq(p)' = [RingSeq(p) EXCEPT ![c] = arrived[p]]
    BY <2>1, <1>5, RingMoves
  <2>3. RingPc(p)[c] = "idle"
    BY <2>1, RingView
  <2>4. arrived'[p] = arrived[p] + 1
    BY <1>1, <1>4, <1>8
  <2>5. RingOf(p)!Receive(c)
    BY <2>2, <2>3, <2>4, <1>1, <1>8 DEF RingOf!Receive
  <2>. QED
    BY <2>5 DEF RingOf!Next
<1>. QED
  BY <1>7, <1>8

\* A step of a context that does not touch the ring and stays in its stage.
LEMMA InsideServes ==
  ASSUME SoundInv, NEW p \in InPorts, NEW i \in Islands, NEW c \in Contexts, NEW v,
         rx' = [rx EXCEPT ![i][c] = v], UNCHANGED <<arrived, head, word>>,
         v.port = rx[i][c].port, v.seq = rx[i][c].seq, Stage(v) = Stage(rx[i][c])
  PROVE  [RingOf(p)!Next]_(RingOf(p)!vars)
<1>4. /\ \A d \in Contexts : d # c \/ i # Island(p) => SameHeld(p, d)
      /\ i = Island(p) => NewHeld(p, c, v)
  BY HeldStep
<1>1. i = Island(p) => Held(p, c)' = IF v.port = p THEN v ELSE Idle
  BY <1>4 DEF NewHeld
<1>2. i = Island(p) => Held(p, c) = IF v.port = p THEN rx[i][c] ELSE Idle
  BY DEF Held
<1>3. SameHeld(p, c) \/ SameView(p, c)
  <2>1. CASE i = Island(p) /\ v.port = p
    <3>1. Held(p, c)' = v /\ Held(p, c) = rx[i][c]
      BY <2>1, <1>1, <1>2
    <3>2. Stage(Held(p, c))' = Stage(v)
      BY <3>1 DEF Stage
    <3>. QED
      BY <3>1, <3>2 DEF SameView
  <2>2. CASE ~(i = Island(p) /\ v.port = p)
    BY <2>2, <1>1, <1>2, <1>4 DEF SameHeld
  <2>. QED
    BY <2>1, <2>2
<1>. QED
  BY <1>3, <1>4, RingStutters

LEMMA RegionServes ==
  ASSUME SoundInv, AllOrdered, NEW p \in InPorts, NEW i \in Islands, NEW c \in Contexts,
         Examine(i, c) \/ ReadCount(i, c) \/ WriteCount(i, c) \/ Queue(i, c)
  PROVE  [RingOf(p)!Next]_(RingOf(p)!vars)
<1> DEFINE r == rx[i][c]
<1>1. r \in Context /\ Sound(i, r)
  BY DEF SoundInv, TypeOK
<1>2. CASE Examine(i, c)
  <2> DEFINE k == TheEntry(r.port, r.seq)
             b == k.fw /\ ~k.rootward /\ 0 \in k.fw_vector
             T == Targets(r.port, k)
             v == [r EXCEPT !.pc = "lock", !.targets = T, !.sent = b]
  <2>1. r.pc = "received"
    BY <1>2 DEF Examine
  <2>2. k.entl \/ k.fw
    BY <2>1, <1>1 DEF Sound, AllOrdered, TheEntry
  <2>3. rx' = [rx EXCEPT ![i][c] = v] /\ UNCHANGED <<arrived, head, word>>
    BY <1>2, <2>2 DEF Examine
  <2> HIDE DEF k, b, T
  <2>4. v.pc = "lock" /\ v.port = r.port /\ v.seq = r.seq
    BY <1>1 DEF Context
  <2> HIDE DEF v
  <2>5. Stage(v) = Stage(r)
    BY <2>1, <2>4, StageFacts
  <2>. QED
    BY <2>3, <2>4, <2>5, InsideServes
<1>3. CASE ReadCount(i, c)
  <2> DEFINE n == count[i][Counts(r)]
             v == [r EXCEPT !.pc = "counting", !.num = n]
  <2>1. r.pc = "inside" /\ rx' = [rx EXCEPT ![i][c] = v] /\ UNCHANGED <<arrived, head, word>>
    BY <1>3 DEF ReadCount
  <2> HIDE DEF n
  <2>2. v.pc = "counting" /\ v.port = r.port /\ v.seq = r.seq
    BY <1>1 DEF Context
  <2> HIDE DEF v
  <2>3. Stage(v) = Stage(r)
    BY <2>1, <2>2, StageFacts
  <2>. QED
    BY <2>1, <2>2, <2>3, InsideServes
<1>4. CASE WriteCount(i, c)
  <2> DEFINE v == [r EXCEPT !.pc = "numbered"]
  <2>1. r.pc = "counting" /\ rx' = [rx EXCEPT ![i][c] = v] /\ UNCHANGED <<arrived, head, word>>
    BY <1>4 DEF WriteCount
  <2>2. v.pc = "numbered" /\ v.port = r.port /\ v.seq = r.seq
    BY <1>1 DEF Context
  <2> HIDE DEF v
  <2>3. Stage(v) = Stage(r)
    BY <2>1, <2>2, StageFacts
  <2>. QED
    BY <2>1, <2>2, <2>3, InsideServes
<1>5. CASE Queue(i, c)
  <2> DEFINE q == Target(r)
             v == [r EXCEPT !.pc = "inside", !.targets = @ \ {q}, !.sent = TRUE, !.num = 0]
  <2>1. r.pc = "numbered" /\ rx' = [rx EXCEPT ![i][c] = v] /\ UNCHANGED <<arrived, head, word>>
    BY <1>5 DEF Queue
  <2> HIDE DEF q
  <2>2. v.pc = "inside" /\ v.port = r.port /\ v.seq = r.seq
    BY <1>1 DEF Context
  <2> HIDE DEF v
  <2>3. Stage(v) = Stage(r)
    BY <2>1, <2>2, StageFacts
  <2>. QED
    BY <2>1, <2>2, <2>3, InsideServes
<1>. QED
  BY <1>2, <1>3, <1>4, <1>5

\* A lock of another port is a lock of another ring, also on the same island.
LEMMA LockServes ==
  ASSUME SoundInv, NEW p \in InPorts, NEW i \in Islands, NEW c \in Contexts, Lock(i, c)
  PROVE  [RingOf(p)!Next]_(RingOf(p)!vars)
<1> DEFINE r == rx[i][c]
           o == ReorderRingOf(r.port)
           u == Word(r.seq)
           stage == IF u = Word(head[o]) THEN "inside" ELSE "waiting"
           v == [r EXCEPT !.pc = stage]
<1>1. r \in Context /\ r.pc = "lock" /\ Sound(i, r)
  BY DEF SoundInv, TypeOK, Lock
<1>2. r.port \in InPorts /\ Island(r.port) = i /\ o = <<i, get_ring_num(r.port)>> /\ o \in ReorderRings
  BY <1>1, IslandRing DEF Sound
<1>3. /\ rx' = [rx EXCEPT ![i][c] = v] /\ UNCHANGED <<arrived, head>>
      /\ word' = IF stage = "inside" THEN word ELSE [word EXCEPT ![o][u] = c]
      /\ stage \in {"inside", "waiting"}
      /\ stage = "inside" <=> u = Word(head[o])
  BY <1>2 DEF Lock
<1>4. word \in [ReorderRings -> [0 .. RingSize - 1 -> Contexts \cup {None}]]
  BY DEF SoundInv, TypeOK
<1> HIDE DEF stage, r
<1>5. v.pc = stage /\ v.port = r.port /\ v.seq = r.seq
  BY <1>1 DEF Context
<1> HIDE DEF v, u, o
<1>6. /\ \A d \in Contexts : d # c \/ i # Island(p) => SameHeld(p, d)
      /\ i = Island(p) => Held(p, c)' = IF r.port = p THEN v ELSE Idle
  <2>1. /\ \A d \in Contexts : d # c \/ i # Island(p) => SameHeld(p, d)
        /\ i = Island(p) => NewHeld(p, c, v)
    BY <1>3, HeldStep
  <2>. QED
    BY <2>1, <1>5 DEF NewHeld
<1>7. CASE p # r.port
  <2>1. SameHeld(p, c)
    <3>1. CASE i = Island(p)
      BY <3>1, <1>6, <1>7 DEF SameHeld, Held, r
    <3>. QED
      BY <3>1, <1>6
  <2>2. ReorderRingOf(p) # o /\ ReorderRingOf(p) \in ReorderRings
    BY <1>2, <1>7, RingsDiffer DEF o, ReorderRings
  <2>3. word'[ReorderRingOf(p)] = word[ReorderRingOf(p)]
    BY <2>2, <1>3, <1>4
  <2>. QED
    BY <2>1, <2>3, <1>3, <1>6, RingStutters
<1>8. CASE p = r.port
  <2>1. Held(p, c) = r /\ Held(p, c)' = v /\ o = ReorderRingOf(p)
    BY <1>2, <1>6, <1>8 DEF Held, r, o
  <2>2. Stage(Held(p, c)) = "received" /\ Held(p, c).seq = r.seq
    BY <2>1, <1>1, StageFacts
  <2>3. Stage(Held(p, c))' = stage /\ Held(p, c)'.seq = r.seq
    BY <2>1, <1>3, <1>5 DEF Stage
  <2>4. /\ RingPc(p)' = [RingPc(p) EXCEPT ![c] = stage]
        /\ RingSeq(p)' = [RingSeq(p) EXCEPT ![c] = r.seq]
    BY <2>3, <1>6, RingMoves
  <2>5. RingPc(p)[c] = "received" /\ RingSeq(p)[c] = r.seq
    BY <2>2, RingView
  <2>6. RingSeq(p)' = RingSeq(p)
    <3>1. RingSeq(p) = [RingSeq(p) EXCEPT ![c] = RingSeq(p)[c]]
      BY DEF RingSeq
    <3>. QED
      BY <3>1, <2>4, <2>5
  <2>7. RingOf(p)!Word(RingSeq(p)[c]) = u /\ RingOf(p)!Word(head[o]) = Word(head[o])
    BY <2>5 DEF RingOf!Word, Word, u
  <2>8. CASE stage = "inside"
    <3>1. RingOf(p)!Enter(c)
      BY <2>1, <2>4, <2>5, <2>6, <2>7, <2>8, <1>3 DEF RingOf!Enter
    <3>. QED
      BY <3>1 DEF RingOf!Next, RingOf!reorder_lock
  <2>9. CASE stage = "waiting"
    <3>1. word'[o] = [word[o] EXCEPT ![u] = c]
      BY <2>9, <1>2, <1>3, <1>4
    <3>2. RingOf(p)!Wait(c)
      BY <3>1, <2>1, <2>4, <2>5, <2>6, <2>7, <2>9, <1>3 DEF RingOf!Wait
    <3>. QED
      BY <3>2 DEF RingOf!Next, RingOf!reorder_lock
  <2>. QED
    BY <2>8, <2>9, <1>3
<1>. QED
  BY <1>7, <1>8

\* So is an unlock; the context it wakes waits for that ring.
LEMMA UnlockServes ==
  ASSUME SoundInv, NEW p \in InPorts, NEW i \in Islands, NEW c \in Contexts, Unlock(i, c)
  PROVE  [RingOf(p)!Next]_(RingOf(p)!vars)
<1> DEFINE r == rx[i][c]
           o == ReorderRingOf(r.port)
           next == Word(head[o] + 1)
           e == word[o][next]
<1>1. r \in Context /\ r.pc = "inside" /\ Sound(i, r)
  BY DEF SoundInv, TypeOK, Unlock
<1>2. r.port \in InPorts /\ Island(r.port) = i /\ o = <<i, get_ring_num(r.port)>> /\ o \in ReorderRings
  BY <1>1, IslandRing DEF Sound
<1>3. /\ head[o] \in Nat /\ rx \in [Islands -> [Contexts -> Context]]
      /\ word \in [ReorderRings -> [0 .. RingSize - 1 -> Contexts \cup {None}]]
      /\ head \in [ReorderRings -> Nat]
  BY <1>2 DEF SoundInv, TypeOK
<1>4. next \in 0 .. RingSize - 1
  <2>1. head[o] + 1 \in Nat
    BY <1>3
  <2>. QED
    BY <2>1, WordBound
<1>5. /\ head' = [head EXCEPT ![o] = @ + 1]
      /\ word' = [word EXCEPT ![o][next] = None]
      /\ rx' = [rx EXCEPT ![i] = [d \in Contexts |->
                  IF d = c THEN Idle
                  ELSE IF d = e THEN [rx[i][d] EXCEPT !.pc = "inside"]
                  ELSE rx[i][d]]]
      /\ UNCHANGED arrived
  BY <1>2 DEF Unlock
<1>6. Idle.pc = "idle" /\ Idle.seq = 0
  BY DEF Idle
<1> HIDE DEF next, e, o
<1>7. /\ i # Island(p) => rx'[Island(p)] = rx[Island(p)]
      /\ rx'[i][c] = Idle
      /\ \A d \in Contexts : d # c /\ d = e => rx'[i][d] = [rx[i][d] EXCEPT !.pc = "inside"]
      /\ \A d \in Contexts : d # c /\ d # e => rx'[i][d] = rx[i][d]
  BY <1>3, <1>5
<1>8. ASSUME NEW d \in Contexts, d # c, d = e
      PROVE  /\ rx[i][d].pc = "waiting" /\ rx[i][d].port = r.port
             /\ rx'[i][d].pc = "inside" /\ rx'[i][d].port = r.port /\ rx'[i][d].seq = rx[i][d].seq
  <2>1. Awaits(o, next, rx[i][d])
    BY <1>2, <1>4, <1>8 DEF SoundInv, WordsAwaited, e
  <2>2. rx[i][d] \in Context /\ Sound(i, rx[i][d])
    BY <1>3 DEF SoundInv
  <2>3. rx[i][d].pc = "waiting" /\ rx[i][d].port \in InPorts /\ ReorderRingOf(rx[i][d].port) = o
    BY <2>1, <2>2 DEF Awaits, Sound
  <2>4. rx[i][d].port = r.port
    BY <2>3, <1>2, RingsDiffer DEF o
  <2>5. rx'[i][d] = [rx[i][d] EXCEPT !.pc = "inside"]
    BY <1>7, <1>8
  <2>6. rx'[i][d].pc = "inside" /\ rx'[i][d].port = rx[i][d].port /\ rx'[i][d].seq = rx[i][d].seq
    BY <2>2, <2>5 DEF Context
  <2>. QED
    BY <2>3, <2>4, <2>6
<1>9. CASE p # r.port
  <2>1. ASSUME NEW d \in Contexts PROVE SameHeld(p, d)
    <3>1. CASE i # Island(p)
      BY <3>1, <1>7 DEF SameHeld, Held
    <3>2. CASE i = Island(p) /\ d = c
      BY <3>2, <1>7, <1>9 DEF SameHeld, Held, r
    <3>3. CASE i = Island(p) /\ d # c /\ d = e
      BY <3>3, <1>8, <1>9 DEF SameHeld, Held
    <3>4. CASE i = Island(p) /\ d # c /\ d # e
      BY <3>4, <1>7 DEF SameHeld, Held
    <3>. QED
      BY <3>1, <3>2, <3>3, <3>4
  <2>2. ReorderRingOf(p) # o /\ ReorderRingOf(p) \in ReorderRings
    BY <1>2, <1>9, RingsDiffer DEF o, ReorderRings
  <2>3. /\ word'[ReorderRingOf(p)] = word[ReorderRingOf(p)]
        /\ head'[ReorderRingOf(p)] = head[ReorderRingOf(p)]
    BY <2>2, <1>3, <1>5
  <2>. QED
    BY <2>1, <2>3, <1>5, RingStutters
<1>10. CASE p = r.port
  <2>1. o = ReorderRingOf(p) /\ i = Island(p)
    BY <1>2, <1>10 DEF o
  <2>2. Held(p, c) = r /\ Held(p, c)' = Idle
    BY <2>1, <1>7, <1>10 DEF Held, r
  <2>3. ASSUME NEW d \in Contexts, d # c, d = e
        PROVE  Stage(Held(p, d))' = "inside" /\ Held(p, d)'.seq = Held(p, d).seq
    <3>1. Held(p, d) = rx[i][d] /\ Held(p, d)' = rx'[i][d]
      BY <2>1, <2>3, <1>8, <1>10 DEF Held
    <3>2. Held(p, d)'.pc = "inside"
      BY <3>1, <2>3, <1>8
    <3>3. Stage(Held(p, d))' = "inside"
      BY <3>2 DEF Stage
    <3>. QED
      BY <3>1, <3>3, <2>3, <1>8
  <2>4. ASSUME NEW d \in Contexts, d # c, d # e
        PROVE  Stage(Held(p, d))' = Stage(Held(p, d)) /\ Held(p, d)'.seq = Held(p, d).seq
    <3>1. Held(p, d)' = Held(p, d)
      BY <2>1, <2>4, <1>7 DEF Held
    <3>. QED
      BY <3>1 DEF Stage
  <2>5. Stage(Held(p, c))' = "idle" /\ Held(p, c)'.seq = 0
    BY <2>2, <1>6 DEF Stage
  <2>6. RingPc(p)' = [d \in Contexts |->
                        IF d = c THEN "idle" ELSE IF d = e THEN "inside" ELSE RingPc(p)[d]]
    <3>1. RingPc(p)' = [d \in Contexts |-> Stage(Held(p, d))']
      BY DEF RingPc
    <3>2. \A d \in Contexts : RingPc(p)[d] = Stage(Held(p, d))
      BY RingView
    <3>. QED
      BY <3>1, <3>2, <2>3, <2>4, <2>5
  <2>7. RingSeq(p)' = [RingSeq(p) EXCEPT ![c] = 0]
    <3>1. RingSeq(p)' = [d \in Contexts |-> Held(p, d)'.seq]
      BY DEF RingSeq
    <3>2. \A d \in Contexts : d # c => Held(p, d)'.seq = Held(p, d).seq
      BY <2>3, <2>4
    <3>. QED
      BY <3>1, <3>2, <2>5 DEF RingSeq
  <2>8. RingPc(p)[c] = "inside"
    <3>1. Stage(r) = "inside"
      BY <1>1, StageFacts
    <3>. QED
      BY <3>1, <2>2, RingView
  <2>9. /\ head'[ReorderRingOf(p)] = head[ReorderRingOf(p)] + 1
        /\ word'[ReorderRingOf(p)] = [word[ReorderRingOf(p)] EXCEPT ![next] = None]
    BY <2>1, <1>2, <1>3, <1>5
  <2>10. RingOf(p)!Word(head[ReorderRingOf(p)] + 1) = next /\ e = word[ReorderRingOf(p)][next]
    BY <2>1 DEF RingOf!Word, Word, next, e
  <2>11. RingOf(p)!reorder_unlock(c)
    BY <2>6, <2>7, <2>8, <2>9, <2>10, <1>5 DEF RingOf!reorder_unlock
  <2>. QED
    BY <2>11 DEF RingOf!Next
<1>. QED
  BY <1>9, <1>10

LEMMA RingStarts ==
  ASSUME NEW p \in InPorts, Init
  PROVE  RingOf(p)!Init
<1>1. arrived[p] = 0
  BY DEF Init
<1>2. head[ReorderRingOf(p)] = 0 /\ word[ReorderRingOf(p)] = [w \in 0 .. RingSize - 1 |-> None]
  BY DEF Init, ReorderRings
<1>3. Idle.pc = "idle" /\ Idle.seq = 0
  BY DEF Idle
<1>4. \A c \in Contexts : Held(p, c) = Idle
  BY DEF Init, Held, Islands
<1>5. RingPc(p) = [c \in Contexts |-> "idle"] /\ RingSeq(p) = [c \in Contexts |-> 0]
  BY <1>3, <1>4, StageFacts DEF RingPc, RingSeq
<1>. QED
  BY <1>1, <1>2, <1>5 DEF RingOf!Init

LEMMA NextServes ==
  ASSUME SoundInv, AllOrdered, NEW p \in InPorts, [Next]_vars
  PROVE  [RingOf(p)!Next]_(RingOf(p)!vars)
<1>1. ASSUME UNCHANGED rxVars PROVE UNCHANGED RingOf(p)!vars
  <2>1. \A c \in Contexts : SameHeld(p, c)
    BY <1>1 DEF SameHeld, Held, rxVars
  <2>. QED
    BY <2>1, <1>1, RingStutters DEF rxVars
<1>2. CASE UNCHANGED vars
  BY <1>1, <1>2 DEF vars
<1>3. ASSUME NEW q \in InPorts, NEW c \in Contexts, Receive(q, c)
      PROVE  [RingOf(p)!Next]_(RingOf(p)!vars)
  BY <1>3, ReceiveServes
<1>4. ASSUME NEW i \in Islands, NEW c \in Contexts, ReceiverStep(i, c)
      PROVE  [RingOf(p)!Next]_(RingOf(p)!vars)
  BY <1>4, RegionServes, LockServes, UnlockServes DEF ReceiverStep
<1>5. ASSUME NEW q \in OutPorts, NEW t \in Threads, Get(q, t) \/ Send(q, t)
      PROVE  UNCHANGED rxVars
  BY <1>5 DEF Get, Send
<1>6. ASSUME NEW q \in Port, EntlStep(q) PROVE UNCHANGED rxVars
  BY <1>6 DEF EntlStep, Wake, ReadEvent, PickBuffer, Answer
<1>7. ASSUME NEW s \in Sequencers, Depart(s) PROVE UNCHANGED rxVars
  BY <1>7 DEF Depart
<1>. QED
  BY <1>1, <1>2, <1>3, <1>4, <1>5, <1>6, <1>7 DEF Next

\* If every packet takes part in ordering, the receiver contexts use the ring
\* of each port as ReorderRing has it, for any packets, numbers of words and
\* contexts, and two ports on one island: the safety part of RingServes.
THEOREM RingIsImplemented ==
  ASSUME AllOrdered, NEW p \in InPorts
  PROVE  Spec => RingOf(p)!Spec
<1>1. Init => SoundInv /\ RingOf(p)!Init
  BY InitTypes, RingStarts
<1>2. SoundInv /\ [Next]_vars => SoundInv' /\ [RingOf(p)!Next]_(RingOf(p)!vars)
  BY NextTypes, NextServes
<1>. QED
  BY <1>1, <1>2, PTL DEF Spec, RingOf!Spec

-----------------------------------------------------------------------------
(* One reorder ring.                                                       *)

\* The types of what belongs to the ring of port p.
LEMMA RingTypes ==
  ASSUME SoundInv, NEW p \in InPorts
  PROVE  /\ RingSize \in Nat \ {0}
         /\ HeadOf(p) \in Nat /\ arrived[p] \in Nat
         /\ WordOf(p) \in [0 .. RingSize - 1 -> Contexts \cup {None}]
         /\ \A c \in Contexts : Held(p, c) \in Context
         /\ None \notin Contexts
<1>1. RingSize \in Nat \ {0} /\ None \notin Contexts
  BY ForwardAssumption
<1>2. /\ HeadOf(p) \in Nat /\ arrived[p] \in Nat
      /\ WordOf(p) \in [0 .. RingSize - 1 -> Contexts \cup {None}]
  BY PortFacts DEF SoundInv, TypeOK, HeadOf, WordOf
<1>3. Idle \in Context
  BY DEF Idle, Context, Port
<1>4. \A c \in Contexts : Held(p, c) \in Context
  BY <1>3, PortFacts DEF SoundInv, TypeOK, Held
<1>. QED
  BY <1>1, <1>2, <1>4

\* The word of the head, and the one after it, are those of the packets with
\* these numbers; two contexts that hold packets do not share a word.
LEMMA Words ==
  ASSUME SoundInv, NEW p \in InPorts, OneEach(p), RingInOrder(p),
         NEW c \in Contexts, Busy(p, c)
  PROVE  /\ Word(Held(p, c).seq) \in 0 .. RingSize - 1
         /\ Word(Held(p, c).seq) = Word(HeadOf(p)) => Held(p, c).seq = HeadOf(p)
         /\ Word(Held(p, c).seq) = Word(HeadOf(p) + 1) /\ Held(p, c).seq # HeadOf(p)
              => Held(p, c).seq = HeadOf(p) + 1
         /\ \A d \in Contexts : Busy(p, d) /\ Word(Held(p, d).seq) = Word(Held(p, c).seq)
              => d = c
<1>1. arrived[p] <= HeadOf(p) + RingSize
  BY DEF RingInOrder, InWindow
<1>2. /\ HeadOf(p) \in Nat /\ arrived[p] \in Nat /\ RingSize \in Nat \ {0}
      /\ \A d \in Contexts : Busy(p, d) =>
           Held(p, d).seq \in Nat /\ HeadOf(p) <= Held(p, d).seq /\ Held(p, d).seq < arrived[p]
  BY RingTypes DEF RingInOrder, InWindow, OneEach, Context
<1>3. Word(Held(p, c).seq) \in 0 .. RingSize - 1
  BY <1>2, WordBound
<1>4. \A d \in Contexts : Busy(p, d) /\ Word(Held(p, d).seq) = Word(Held(p, c).seq) => d = c
  <2>. SUFFICES ASSUME NEW d \in Contexts, Busy(p, d), Word(Held(p, d).seq) = Word(Held(p, c).seq)
       PROVE  Held(p, d).seq = Held(p, c).seq
    BY DEF OneEach
  <2>1. CASE Held(p, c).seq <= Held(p, d).seq
    BY <2>1, <1>1, <1>2, SameWord
  <2>2. CASE Held(p, d).seq <= Held(p, c).seq
    BY <2>2, <1>1, <1>2, SameWord
  <2>. QED
    BY <2>1, <2>2, <1>2
<1>5. Word(Held(p, c).seq) = Word(HeadOf(p)) => Held(p, c).seq = HeadOf(p)
  BY <1>1, <1>2, SameWord
<1>6. Word(Held(p, c).seq) = Word(HeadOf(p) + 1) /\ Held(p, c).seq # HeadOf(p)
        => Held(p, c).seq = HeadOf(p) + 1
  BY <1>1, <1>2, SameWord
<1>. QED
  BY <1>3, <1>4, <1>5, <1>6

\* Nobody but the context inside has the number of the head.
LEMMA LockedAlone ==
  ASSUME NEW p \in InPorts, OneEach(p), RingInOrder(p), NEW c \in Contexts, Locked(p, c)
  PROVE  /\ Busy(p, c) /\ Held(p, c).seq = HeadOf(p)
         /\ \A d \in Contexts : Busy(p, d) /\ d # c => Held(p, d).seq # HeadOf(p) /\ ~Locked(p, d)
BY DEF RingInOrder, Locked, Busy, HeadLocked, OneEach

-----------------------------------------------------------------------------
(* What a step does to one ring.                                           *)

Others(p, c) == \A d \in Contexts : d # c => Held(p, d)' = Held(p, d)

SameStage(p, c) ==
  /\ Busy(p, c)' <=> Busy(p, c)
  /\ Locked(p, c)' <=> Locked(p, c)
  /\ Held(p, c)'.pc = "waiting" <=> Held(p, c).pc = "waiting"
  /\ Held(p, c)'.seq = Held(p, c).seq

SameRing(p) == HeadOf(p)' = HeadOf(p) /\ WordOf(p)' = WordOf(p)

LEMMA SameRegisters ==
  ASSUME NEW p \in InPorts, NEW c \in Contexts, Held(p, c)' = Held(p, c)
  PROVE  SameStage(p, c)
BY DEF SameStage, Busy, Locked

LEMMA RingKeeps ==
  ASSUME SoundInv, NEW p \in InPorts, OneEach(p), RingInOrder(p), SameRing(p),
         arrived'[p] = arrived[p], \A c \in Contexts : SameStage(p, c)
  PROVE  RingInOrder(p)'
<1>1. InWindow(p)'
  BY DEF RingInOrder, InWindow, SameStage, SameRing
<1>2. HeadLocked(p)'
  BY DEF RingInOrder, HeadLocked, SameStage, SameRing
<1>3. SignalsMatch(p)'
  <2>1. \A w \in 0 .. RingSize - 1 : WordOf(p)[w] # None => WordOf(p)[w] \in Contexts
    BY RingTypes
  <2>. QED
    BY <2>1 DEF RingInOrder, SignalsMatch, SameStage, SameRing, Word
<1>. QED
  BY <1>1, <1>2, <1>3 DEF RingInOrder

LEMMA RingReceives ==
  ASSUME SoundInv, NEW p \in InPorts, OneEach(p), RingInOrder(p), SameRing(p),
         NEW c \in Contexts, Others(p, c), ~Busy(p, c), arrived'[p] = arrived[p] + 1,
         Held(p, c)'.pc = "received", Held(p, c)'.seq = arrived[p],
         arrived[p] < HeadOf(p) + RingSize
  PROVE  RingInOrder(p)'
<1>1. /\ HeadOf(p) \in Nat /\ arrived[p] \in Nat /\ RingSize \in Nat /\ HeadOf(p) <= arrived[p]
      /\ \A w \in 0 .. RingSize - 1 : WordOf(p)[w] # None => WordOf(p)[w] \in Contexts
  BY RingTypes DEF RingInOrder, InWindow
<1>2. /\ Busy(p, c)' /\ ~Locked(p, c)'
      /\ \A d \in Contexts : d # c => SameStage(p, d)
  BY SameRegisters DEF Busy, Locked, Others
<1>3. InWindow(p)'
  BY <1>1, <1>2 DEF RingInOrder, InWindow, SameStage, SameRing
<1>4. HeadLocked(p)'
  BY <1>2 DEF RingInOrder, HeadLocked, SameStage, SameRing
<1>5. SignalsMatch(p)'
  <2>1. \A w \in 0 .. RingSize - 1 : WordOf(p)[w] # None => WordOf(p)[w] # c
    BY DEF RingInOrder, SignalsMatch, Busy
  <2>. QED
    BY <2>1, <1>1, <1>2 DEF RingInOrder, SignalsMatch, SameStage, SameRing, Word
<1>. QED
  BY <1>3, <1>4, <1>5 DEF RingInOrder

\* A packet that takes no part in ordering.
LEMMA RingLeft ==
  ASSUME SoundInv, NEW p \in InPorts, OneEach(p), RingInOrder(p), SameRing(p),
         NEW c \in Contexts, Others(p, c), arrived'[p] = arrived[p],
         Held(p, c).pc = "received", Held(p, c)'.pc = "idle"
  PROVE  RingInOrder(p)'
<1>1. \A w \in 0 .. RingSize - 1 : WordOf(p)[w] # None => WordOf(p)[w] \in Contexts
  BY RingTypes
<1>2. /\ ~Busy(p, c)' /\ ~Locked(p, c)'
      /\ \A d \in Contexts : d # c => SameStage(p, d)
  BY SameRegisters DEF Busy, Locked, Others
<1>3. InWindow(p)'
  BY <1>2 DEF RingInOrder, InWindow, SameStage, SameRing
<1>4. HeadLocked(p)'
  BY <1>2 DEF RingInOrder, HeadLocked, SameStage, SameRing
<1>5. SignalsMatch(p)'
  <2>1. \A w \in 0 .. RingSize - 1 : WordOf(p)[w] # None => WordOf(p)[w] # c
    BY DEF RingInOrder, SignalsMatch
  <2>. QED
    BY <2>1, <1>1, <1>2 DEF RingInOrder, SignalsMatch, SameStage, SameRing, Word
<1>. QED
  BY <1>3, <1>4, <1>5 DEF RingInOrder

LEMMA RingEnters ==
  ASSUME SoundInv, NEW p \in InPorts, OneEach(p), RingInOrder(p), SameRing(p),
         NEW c \in Contexts, Others(p, c), arrived'[p] = arrived[p],
         Held(p, c).pc = "lock", Word(Held(p, c).seq) = Word(HeadOf(p)),
         Held(p, c)'.pc = "inside", Held(p, c)'.seq = Held(p, c).seq
  PROVE  RingInOrder(p)'
<1>1. \A w \in 0 .. RingSize - 1 : WordOf(p)[w] # None => WordOf(p)[w] \in Contexts
  BY RingTypes
<1>2. Busy(p, c) /\ Busy(p, c)' /\ \A d \in Contexts : d # c => SameStage(p, d)
  BY SameRegisters DEF Busy, Others
<1>3. Held(p, c).seq = HeadOf(p)
  BY <1>2, Words
<1>4. InWindow(p)'
  BY <1>2 DEF RingInOrder, InWindow, SameStage, SameRing
<1>5. HeadLocked(p)'
  BY <1>2, <1>3 DEF RingInOrder, HeadLocked, SameStage, SameRing
<1>6. SignalsMatch(p)'
  <2>1. \A w \in 0 .. RingSize - 1 : WordOf(p)[w] # None => WordOf(p)[w] # c
    BY DEF RingInOrder, SignalsMatch
  <2>. QED
    BY <2>1, <1>1, <1>2 DEF RingInOrder, SignalsMatch, SameStage, SameRing, Word
<1>. QED
  BY <1>4, <1>5, <1>6 DEF RingInOrder

LEMMA RingWaits ==
  ASSUME SoundInv, NEW p \in InPorts, OneEach(p), RingInOrder(p),
         NEW c \in Contexts, Others(p, c), arrived'[p] = arrived[p], HeadOf(p)' = HeadOf(p),
         Held(p, c).pc = "lock", Word(Held(p, c).seq) # Word(HeadOf(p)),
         Held(p, c)'.pc = "waiting", Held(p, c)'.seq = Held(p, c).seq,
         WordOf(p)' = [WordOf(p) EXCEPT ![Word(Held(p, c).seq)] = c]
  PROVE  RingInOrder(p)'
<1> DEFINE u == Word(Held(p, c).seq)
<1>1. /\ \A w \in 0 .. RingSize - 1 : WordOf(p)[w] # None => WordOf(p)[w] \in Contexts
      /\ WordOf(p) \in [0 .. RingSize - 1 -> Contexts \cup {None}] /\ None \notin Contexts
  BY RingTypes
<1>2. Busy(p, c) /\ Busy(p, c)' /\ ~Locked(p, c)' /\ \A d \in Contexts : d # c => SameStage(p, d)
  BY SameRegisters DEF Busy, Others, Locked
<1>3. /\ u \in 0 .. RingSize - 1 /\ Held(p, c).seq # HeadOf(p)
      /\ \A d \in Contexts : Busy(p, d) /\ d # c => Word(Held(p, d).seq) # u
  BY <1>2, Words
<1>4. InWindow(p)'
  BY <1>2 DEF RingInOrder, InWindow, SameStage
<1>5. HeadLocked(p)'
  BY <1>2, <1>3 DEF RingInOrder, HeadLocked, SameStage
<1> HIDE DEF u
<1>6. /\ WordOf(p)'[u] = c
      /\ \A w \in 0 .. RingSize - 1 : w # u => WordOf(p)'[w] = WordOf(p)[w]
  BY <1>1, <1>3 DEF u
<1>7. \A d \in Contexts : Held(p, d).pc = "waiting" => d # c /\ Word(Held(p, d).seq) \in 0 .. RingSize - 1
                                                  /\ Word(Held(p, d).seq) # u
  BY <1>3, Words DEF Busy
<1>8. ASSUME NEW d \in Contexts, Held(p, d)'.pc = "waiting"
      PROVE  WordOf(p)'[Word(Held(p, d)'.seq)] = d
  <2>1. CASE d = c
    BY <2>1, <1>6 DEF u
  <2>2. CASE d # c
    BY <2>2, <1>2, <1>6, <1>7, <1>8 DEF RingInOrder, SignalsMatch, SameStage
  <2>. QED
    BY <2>1, <2>2
<1>9. ASSUME NEW w \in 0 .. RingSize - 1, NEW d \in Contexts, WordOf(p)'[w] = d
       PROVE  Held(p, d)'.pc = "waiting" /\ Word(Held(p, d)'.seq) = w
  <2>1. CASE w = u
    BY <2>1, <1>6, <1>9 DEF u
  <2>2. CASE w # u
    <3>1. WordOf(p)[w] = d
      BY <2>2, <1>6, <1>9
    <3>2. Held(p, d).pc = "waiting" /\ Word(Held(p, d).seq) = w
      BY <3>1, <1>1 DEF RingInOrder, SignalsMatch
    <3>3. d # c
      BY <3>2
    <3>. QED
      BY <3>1, <3>2, <3>3, <1>2 DEF SameStage
  <2>. QED
    BY <2>1, <2>2
<1>10. SignalsMatch(p)'
  <2>1. \A w \in 0 .. RingSize - 1 : WordOf(p)'[w] # None => WordOf(p)'[w] \in Contexts
    BY <1>1, <1>6
  <2>. QED
    BY <2>1, <1>8, <1>9 DEF SignalsMatch, Word
<1>. QED
  BY <1>4, <1>5, <1>10 DEF RingInOrder

\* The context that waits for the number after the head is the one woken.
LEMMA Woken ==
  ASSUME SoundInv, NEW p \in InPorts, OneEach(p), RingInOrder(p)
  PROVE  /\ Word(HeadOf(p) + 1) \in 0 .. RingSize - 1
         /\ \A d \in Contexts : Held(p, d).pc = "waiting" =>
              (d = WordOf(p)[Word(HeadOf(p) + 1)] <=> Held(p, d).seq = HeadOf(p) + 1)
         /\ \A d \in Contexts : d = WordOf(p)[Word(HeadOf(p) + 1)] => Held(p, d).pc = "waiting"
<1> DEFINE next == Word(HeadOf(p) + 1)
<1>1. /\ HeadOf(p) \in Nat /\ RingSize \in Nat \ {0} /\ None \notin Contexts
      /\ next \in 0 .. RingSize - 1
  BY RingTypes DEF Word
<1>2. ASSUME NEW d \in Contexts, Held(p, d).pc = "waiting"
      PROVE  d = WordOf(p)[next] <=> Held(p, d).seq = HeadOf(p) + 1
  <2>1. WordOf(p)[Word(Held(p, d).seq)] = d /\ Held(p, d).seq # HeadOf(p) /\ Busy(p, d)
    BY <1>2 DEF RingInOrder, SignalsMatch, HeadLocked, Busy
  <2>2. ASSUME d = WordOf(p)[next] PROVE Held(p, d).seq = HeadOf(p) + 1
    <3>1. Word(Held(p, d).seq) = next
      BY <1>1, <2>2 DEF RingInOrder, SignalsMatch
    <3>. QED
      BY <2>1, <3>1, Words
  <2>3. ASSUME Held(p, d).seq = HeadOf(p) + 1 PROVE d = WordOf(p)[next]
    BY <2>1, <2>3
  <2>. QED
    BY <2>2, <2>3
<1>3. \A d \in Contexts : d = WordOf(p)[next] => Held(p, d).pc = "waiting"
  BY <1>1 DEF RingInOrder, SignalsMatch
<1>. QED
  BY <1>1, <1>2, <1>3

LEMMA RingUnlocks ==
  ASSUME SoundInv, NEW p \in InPorts, OneEach(p), RingInOrder(p),
         NEW c \in Contexts, arrived'[p] = arrived[p], HeadOf(p)' = HeadOf(p) + 1,
         Held(p, c).pc = "inside", Held(p, c)'.pc = "idle",
         WordOf(p)' = [WordOf(p) EXCEPT ![Word(HeadOf(p) + 1)] = None],
         \A d \in Contexts : d # c =>
           Held(p, d)' = IF d = WordOf(p)[Word(HeadOf(p) + 1)]
                        THEN [Held(p, d) EXCEPT !.pc = "inside"] ELSE Held(p, d)
  PROVE  RingInOrder(p)'
<1> DEFINE next == Word(HeadOf(p) + 1)
           e == WordOf(p)[next]
<1>1. /\ HeadOf(p) \in Nat /\ arrived[p] \in Nat /\ RingSize \in Nat /\ next \in 0 .. RingSize - 1
      /\ None \notin Contexts
      /\ WordOf(p) \in [0 .. RingSize - 1 -> Contexts \cup {None}]
      /\ \A d \in Contexts : Held(p, d) \in Context
  BY RingTypes, Woken
<1>2. /\ Locked(p, c) /\ Busy(p, c) /\ Held(p, c).seq = HeadOf(p)
      /\ \A d \in Contexts : Busy(p, d) /\ d # c => Held(p, d).seq # HeadOf(p) /\ ~Locked(p, d)
  BY LockedAlone DEF Locked
<1>3. /\ \A d \in Contexts : Held(p, d).pc = "waiting" => (d = e <=> Held(p, d).seq = HeadOf(p) + 1)
      /\ \A d \in Contexts : d = e => Held(p, d).pc = "waiting"
  BY Woken
<1>4. /\ HeadOf(p) < arrived[p] /\ arrived[p] <= HeadOf(p) + RingSize
      /\ \A d \in Contexts : Busy(p, d) => HeadOf(p) <= Held(p, d).seq /\ Held(p, d).seq \in Nat
  BY <1>1, <1>2 DEF RingInOrder, InWindow, OneEach, Context
<1>5. /\ WordOf(p)'[next] = None
      /\ \A w \in 0 .. RingSize - 1 : w # next => WordOf(p)'[w] = WordOf(p)[w]
  BY <1>1
<1> HIDE DEF next, e
<1>6. ASSUME NEW d \in Contexts, d # c, d = e
      PROVE  Held(p, d)'.pc = "inside" /\ Held(p, d)'.seq = Held(p, d).seq
  <2>1. Held(p, d)' = [Held(p, d) EXCEPT !.pc = "inside"] /\ Held(p, d) \in Context
    BY <1>1, <1>6 DEF e, next
  <2>. QED
    BY <2>1 DEF Context
<1>7. \A d \in Contexts : d # c /\ d # e => Held(p, d)' = Held(p, d)
  BY DEF e, next
<1>8. \A d \in Contexts : /\ Busy(p, d)' <=> Busy(p, d) /\ d # c
                          /\ d # c => Held(p, d)'.seq = Held(p, d).seq
                          /\ Held(p, d)'.pc = "waiting" <=> Held(p, d).pc = "waiting" /\ d # e
                          /\ Locked(p, d)' => d = e
  BY <1>2, <1>3, <1>6, <1>7 DEF Busy, Locked
<1>9. InWindow(p)'
  BY <1>1, <1>2, <1>4, <1>8 DEF InWindow
<1>10. HeadLocked(p)'
  <2>1. ASSUME NEW d \in Contexts, Locked(p, d)' PROVE Held(p, d)'.seq = HeadOf(p) + 1
    <3>1. d = e /\ Held(p, d).pc = "waiting" /\ d # c
      BY <2>1, <1>2, <1>3, <1>8 DEF Locked
    <3>. QED
      BY <3>1, <1>3, <1>8
  <2>2. ASSUME NEW d \in Contexts, Held(p, d)'.pc = "waiting" PROVE Held(p, d)'.seq # HeadOf(p) + 1
    <3>1. d # e /\ Held(p, d).pc = "waiting" /\ d # c
      BY <2>2, <1>2, <1>8 DEF Locked
    <3>. QED
      BY <3>1, <1>3, <1>8
  <2>. QED
    BY <2>1, <2>2 DEF HeadLocked
<1>11. ASSUME NEW d \in Contexts, Held(p, d)'.pc = "waiting"
       PROVE  WordOf(p)'[Word(Held(p, d)'.seq)] = d
  <2>1. Held(p, d).pc = "waiting" /\ d # c /\ d # e /\ Held(p, d)'.seq = Held(p, d).seq
    BY <1>11, <1>2, <1>8 DEF Locked
  <2>2. WordOf(p)[Word(Held(p, d).seq)] = d
    BY <2>1 DEF RingInOrder, SignalsMatch
  <2>3. Word(Held(p, d).seq) \in 0 .. RingSize - 1 /\ Word(Held(p, d).seq) # next
    BY <2>1, <2>2, Words DEF Busy, e
  <2>. QED
    BY <2>1, <2>2, <2>3, <1>5
<1>12. ASSUME NEW w \in 0 .. RingSize - 1, NEW d \in Contexts, WordOf(p)'[w] = d
       PROVE  Held(p, d)'.pc = "waiting" /\ Word(Held(p, d)'.seq) = w
  <2>1. w # next /\ WordOf(p)[w] = d
    BY <1>1, <1>5, <1>12
  <2>2. Held(p, d).pc = "waiting" /\ Word(Held(p, d).seq) = w
    BY <2>1, <1>1 DEF RingInOrder, SignalsMatch
  <2>3. d # c /\ d # e
    <3>1. ASSUME d = e PROVE FALSE
      BY <3>1, <2>1, <2>2, <1>1, <1>3, Words DEF RingInOrder, SignalsMatch, e
    <3>. QED
      BY <3>1, <2>2, <1>2 DEF Locked
  <2>. QED
    BY <2>2, <2>3, <1>8
<1>13. SignalsMatch(p)'
  <2>1. \A w \in 0 .. RingSize - 1 : WordOf(p)'[w] # None => WordOf(p)'[w] \in Contexts
    BY <1>1, <1>5
  <2>. QED
    BY <2>1, <1>11, <1>12 DEF SignalsMatch, Word
<1>. QED
  BY <1>9, <1>10, <1>13 DEF RingInOrder

-----------------------------------------------------------------------------
(* Sequence numbers.                                                       *)

LEMMA QueuedTypes ==
  ASSUME TypeOK
  PROVE  Queued \subseteq Descriptor
<1>1. \A e \in EgressRings : \A k \in DOMAIN ring[e] : ring[e][k] \in Descriptor
  BY DEF TypeOK
<1>2. \A q \in OutPorts : \A k \in DOMAIN left[q] : left[q][k] \in Descriptor
  BY DEF TypeOK
<1>3. /\ \A q \in OutPorts : \A t \in Threads : tx[q][t] \in Descriptor \cup {None}
      /\ \A s \in Sequencers : tm[s] \subseteq Descriptor
  BY DEF TypeOK
<1>. SUFFICES ASSUME NEW d \in Queued PROVE d \in Descriptor
  OBVIOUS
<1>4. CASE \E e \in EgressRings : \E k \in DOMAIN ring[e] : d = ring[e][k]
  BY <1>1, <1>4
<1>5. CASE d # None /\ \E q \in OutPorts : \E t \in Threads : d = tx[q][t]
  BY <1>3, <1>5
<1>6. CASE \E s \in Sequencers : d \in tm[s]
  BY <1>3, <1>6
<1>7. CASE \E q \in OutPorts : \E k \in DOMAIN left[q] : d = left[q][k]
  BY <1>2, <1>7
<1>. QED
  BY <1>4, <1>5, <1>6, <1>7 DEF Queued

LEMMA DescriptorFacts ==
  ASSUME TypeOK, NEW d \in Queued
  PROVE  d.port \in InPorts /\ d.out_port \in Port /\ d.num \in Nat /\ d.seq \in Nat
BY QueuedTypes DEF Descriptor

LEMMA CountTypes ==
  ASSUME TypeOK, NEW p \in InPorts, NEW q \in Port
  PROVE  CountFor(p, q) \in Nat
BY PortFacts, QueueFacts DEF TypeOK, CountFor

\* A context that holds a packet of port p is registered under p.
LEMMA Holding ==
  ASSUME SoundInv, NEW p \in InPorts, OneEach(p), NEW c \in Contexts, Busy(p, c)
  PROVE  /\ rx[Island(p)][c] = Held(p, c) /\ Held(p, c) \in Context /\ Held(p, c).port = p
         /\ Held(p, c).seq \in Nat /\ Held(p, c).seq < arrived[p]
         /\ Held(p, c).seq + 1 \in DOMAIN Arrivals[p]
         /\ Held(p, c).targets \subseteq Port
         /\ Held(p, c).pc \in {"counting", "numbered"} => Held(p, c).targets # {}
<1>1. rx[Island(p)][c] = Held(p, c) /\ Held(p, c).port = p
  BY DEF Busy, Held, Idle
<1>2. Held(p, c) \in Context /\ arrived[p] \in Nat
  BY RingTypes
<1>3. Held(p, c).seq < arrived[p]
  BY DEF OneEach
<1>4. Held(p, c).pc \in {"counting", "numbered"} => Held(p, c).targets # {}
  BY <1>1, PortFacts DEF SoundInv, Sound
<1>5. arrived[p] <= Len(Arrivals[p]) /\ Arrivals[p] \in Seq(Packet)
  BY ForwardAssumption DEF SoundInv, TypeOK
<1>6. Held(p, c).seq \in Nat /\ Held(p, c).targets \subseteq Port
  BY <1>2 DEF Context
<1>. QED
  BY <1>1, <1>2, <1>3, <1>4, <1>5, <1>6

LEMMA TargetOf ==
  ASSUME SoundInv, NEW p \in InPorts, OneEach(p), NEW c \in Contexts, Busy(p, c),
         Held(p, c).targets # {}
  PROVE  /\ Target(Held(p, c)) \in Held(p, c).targets /\ Target(Held(p, c)) \in Port
         /\ Counts(Held(p, c)) = SequenceWord(Target(Held(p, c)))
         /\ Counts(Held(p, c)) \in SequenceWords
BY Holding, TargetFacts, QueueFacts DEF Counts

LEMMA SameTarget ==
  ASSUME NEW r, NEW v, v.targets = r.targets
  PROVE  Target(v) = Target(r) /\ Counts(v) = Counts(r)
BY DEF Target, Counts

\* What a step does to a context of port p that neither writes its count nor
\* queues: it stays as it is, or begins, or moves on with the same packet.
Moves(p, c) ==
  \/ /\ Held(p, c)' = Held(p, c)
     /\ Held(p, c).pc = "counting" =>
          CountFor(p, Target(Held(p, c)))' = CountFor(p, Target(Held(p, c)))
  \/ /\ Held(p, c)'.pc # "numbered"
     /\ Held(p, c)'.pc = "counting" => Held(p, c)'.num = CountFor(p, Target(Held(p, c)))'
     /\ Busy(p, c)' =>
          \/ ~Locked(p, c)' /\ Held(p, c)'.seq = arrived[p]
          \/ Busy(p, c) /\ ~Locked(p, c) /\ Held(p, c)'.seq = Held(p, c).seq
          \/ /\ Locked(p, c) /\ Locked(p, c)'
             /\ Held(p, c)'.seq = Held(p, c).seq /\ Held(p, c)'.targets = Held(p, c).targets

\* The counts of port p only grow, and none of its packets is queued.
LEMMA CountKeeps ==
  ASSUME SoundInv, NEW p \in InPorts, OneEach(p), NumbersInOrder(p),
         \A d \in Queued' : d.port = p => d \in Queued,
         \A q \in Port : CountFor(p, q)' \in Nat /\ CountFor(p, q) <= CountFor(p, q)',
         arrived[p] <= arrived'[p], arrived'[p] \in Nat,
         \A c \in Contexts : Moves(p, c)
  PROVE  NumbersInOrder(p)'
<1>1. ASSUME NEW c \in Contexts PROVE NumberHeld(p, c)'
  <2> DEFINE r == Held(p, c)
  <2>1. NumberHeld(p, c)
    BY DEF NumbersInOrder
  <2>2. CASE /\ r' = r
             /\ r.pc = "counting" => CountFor(p, Target(r))' = CountFor(p, Target(r))
    <3>1. CASE r.pc = "counting"
      BY <2>1, <2>2, <3>1 DEF NumberHeld
    <3>2. CASE r.pc = "numbered"
      <4>1. Busy(p, c)
        BY <3>2 DEF Busy
      <4>2. r.targets # {} /\ r.num \in Nat
        BY <3>2, <4>1, Holding DEF Context
      <4>3. Target(r) \in Port
        BY <4>1, <4>2, TargetOf
      <4>4. PICK q \in Port : q = Target(r)
        BY <4>3
      <4>5. r.num < CountFor(p, q)'
        <5>1. CountFor(p, q) \in Nat /\ r.num < CountFor(p, q)
          BY <2>1, <3>2, <4>4, CountTypes DEF NumberHeld, SoundInv
        <5>. QED
          BY <5>1, <4>2
      <4>6. \A d \in Queued' : d.port = p /\ SequenceWord(d.out_port) = Counts(r) => d.num < r.num
        BY <2>1, <3>2 DEF NumberHeld
      <4>7. r'.pc = "numbered" /\ r'.num = r.num /\ Counts(r') = Counts(r) /\ Target(r') = q
        BY <2>2, <3>2, <4>4
      <4> HIDE DEF r
      <4>8. CountFor(p, q)' = count'[Island(p)][SequenceWord(q)]
        BY DEF CountFor
      <4>. QED
        BY <4>5, <4>6, <4>7, <4>8 DEF NumberHeld, CountFor, r
    <3>3. CASE r.pc \notin {"counting", "numbered"}
      BY <2>2, <3>3 DEF NumberHeld
    <3>. QED
      BY <3>1, <3>2, <3>3
  <2>3. CASE /\ r'.pc # "numbered"
             /\ r'.pc = "counting" => r'.num = CountFor(p, Target(r))'
    BY <2>3 DEF NumberHeld
  <2>. QED
    BY <2>2, <2>3 DEF Moves
<1>2. ASSUME NEW d \in Queued', d.port = p PROVE QueuedBefore(d)'
  <2>1. /\ d \in Queued /\ QueuedBefore(d) /\ d.seq \in Nat /\ d.num \in Nat /\ d.out_port \in Port
        /\ arrived[p] \in Nat
    BY <1>2, DescriptorFacts, RingTypes DEF NumbersInOrder, SoundInv
  <2>2. ASSUME NEW c \in Contexts, Busy(p, c)'
        PROVE  \/ d.seq < Held(p, c)'.seq
               \/ /\ Locked(p, c)' /\ d.seq = Held(p, c)'.seq
                  /\ d.out_port \notin Held(p, c)'.targets
    BY <1>2, <2>1, <2>2 DEF Moves, QueuedBefore, Busy, Locked
  <2>3. CountFor(p, d.out_port) \in Nat
    BY <2>1, CountTypes DEF SoundInv
  <2>4. d.seq < arrived'[p] /\ d.num < CountFor(p, d.out_port)'
    BY <1>2, <2>1, <2>3 DEF QueuedBefore
  <2>. QED
    BY <1>2, <2>2, <2>4 DEF QueuedBefore
<1>3. \A d, e \in Queued' : d.port = p => NumbersFollow(d, e)'
  BY DEF NumbersInOrder, NumbersFollow
<1>. QED
  BY <1>1, <1>2, <1>3 DEF NumbersInOrder

\* The other contexts, and this one towards the other ports.
Elsewhere(p, c) ==
  \A q \in InPorts, d \in Contexts : q # p \/ d # c => Held(q, d)' = Held(q, d)

\* The number that is written is the one after the number that was read.
LEMMA CountWrites ==
  ASSUME SoundInv, NEW p \in InPorts, OneEach(p), RingInOrder(p), NumbersInOrder(p),
         NEW c \in Contexts, Elsewhere(p, c), Held(p, c).pc = "counting",
         Held(p, c)' = [Held(p, c) EXCEPT !.pc = "numbered"],
         \A q \in Port : CountFor(p, q)' =
           IF SequenceWord(q) = Counts(Held(p, c)) THEN Held(p, c).num + 1 ELSE CountFor(p, q),
         Queued' = Queued, arrived' = arrived
  PROVE  NumbersInOrder(p)'
<1> DEFINE r == Held(p, c)
           t == Target(r)
<1>1. Busy(p, c) /\ Locked(p, c)
  BY DEF Busy, Locked
<1>2. r \in Context /\ r.targets # {} /\ t \in Port /\ Counts(r) = SequenceWord(t) /\ r.num \in Nat
  <2>1. r \in Context /\ r.targets # {}
    BY <1>1, Holding
  <2>. QED
    BY <2>1, <1>1, TargetOf DEF Context
<1>3. r.num = CountFor(p, t)
  BY DEF NumbersInOrder, NumberHeld
<1>4. /\ r'.pc = "numbered" /\ r'.seq = r.seq /\ r'.num = r.num /\ r'.targets = r.targets
  BY <1>2 DEF Context
<1>5. Target(r') = t /\ Counts(r') = Counts(r)
  BY <1>4, SameTarget
<1>6. ASSUME NEW d \in Contexts PROVE NumberHeld(p, d)'
  <2>1. CASE d = c
    <3>1. \A x \in Queued : x.port = p /\ SequenceWord(x.out_port) = Counts(r) => x.num < r.num
      BY <1>2, <1>3 DEF NumbersInOrder, QueuedBefore, CountFor
    <3>2. PICK q \in Port : q = t
      BY <1>2
    <3>3. CountFor(p, q)' = r.num + 1
      BY <3>2, <1>2
    <3>4. r.num < count'[Island(p)][SequenceWord(t)]
      BY <3>2, <3>3, <1>2 DEF CountFor
    <3> HIDE DEF r, t
    <3>5. r'.num < count'[Island(p)][SequenceWord(Target(r'))]
      BY <3>4, <1>4, <1>5
    <3>. QED
      BY <2>1, <3>1, <3>5, <1>4, <1>5 DEF NumberHeld, CountFor, r
  <2>2. CASE d # c
    <3>1. ~Locked(p, d) /\ Held(p, d)' = Held(p, d)
      BY <2>2, <1>1, LockedAlone DEF Locked, Busy, Elsewhere
    <3>. QED
      BY <3>1 DEF NumberHeld, Locked
  <2>. QED
    BY <2>1, <2>2
<1>7. ASSUME NEW d \in Queued, d.port = p PROVE QueuedBefore(d)'
  <2>1. QueuedBefore(d) /\ d.out_port \in Port /\ d.num \in Nat /\ CountFor(p, d.out_port) \in Nat
    BY <1>7, DescriptorFacts, CountTypes DEF NumbersInOrder, SoundInv
  <2>2. SequenceWord(d.out_port) = Counts(r) => CountFor(p, d.out_port) = r.num
    BY <1>2, <1>3 DEF CountFor
  <2>3. d.num < CountFor(p, d.out_port)'
    BY <2>1, <2>2, <1>2, <1>7 DEF QueuedBefore
  <2>4. ASSUME NEW e \in Contexts
        PROVE  /\ Busy(p, e)' <=> Busy(p, e)
               /\ Locked(p, e)' <=> Locked(p, e)
               /\ Held(p, e)'.seq = Held(p, e).seq
               /\ Held(p, e)'.targets = Held(p, e).targets
    BY <1>4 DEF Elsewhere, Busy, Locked
  <2>. QED
    BY <2>1, <2>3, <2>4, <1>7 DEF QueuedBefore
<1>8. \A d, e \in Queued' : d.port = p => NumbersFollow(d, e)'
  BY DEF NumbersInOrder, NumbersFollow
<1>. QED
  BY <1>6, <1>7, <1>8 DEF NumbersInOrder

LEMMA CountQueues ==
  ASSUME SoundInv, NEW p \in InPorts, OneEach(p), RingInOrder(p), NumbersInOrder(p),
         NEW c \in Contexts, Elsewhere(p, c), Held(p, c).pc = "numbered",
         Held(p, c)'.pc = "inside", Held(p, c)'.seq = Held(p, c).seq,
         Held(p, c)'.targets = Held(p, c).targets \ {Target(Held(p, c))},
         NEW x, x.port = p, x.seq = Held(p, c).seq, x.out_port = Target(Held(p, c)),
         x.num = Held(p, c).num, Queued' = Queued \cup {x}, count' = count, arrived' = arrived
  PROVE  NumbersInOrder(p)'
<1> DEFINE r == Held(p, c)
           t == Target(r)
<1>1. Busy(p, c) /\ Locked(p, c)
  BY DEF Busy, Locked
<1>2. /\ r \in Context /\ r.targets # {} /\ t \in Port /\ t \in r.targets
      /\ Counts(r) = SequenceWord(t) /\ r.num \in Nat /\ r.seq \in Nat /\ r.seq < arrived[p]
  <2>1. r \in Context /\ r.targets # {} /\ r.seq < arrived[p]
    BY <1>1, Holding
  <2>. QED
    BY <2>1, <1>1, TargetOf DEF Context
<1>3. /\ r.num < CountFor(p, t)
      /\ \A d \in Queued : d.port = p /\ SequenceWord(d.out_port) = SequenceWord(t) => d.num < r.num
  BY <1>2 DEF NumbersInOrder, NumberHeld
<1> HIDE DEF t
<1>4. /\ r.seq = HeadOf(p)
      /\ \A d \in Contexts : Busy(p, d) /\ d # c => Held(p, d).seq # HeadOf(p) /\ ~Locked(p, d)
  BY <1>1, LockedAlone
<1>5. Busy(p, c)' /\ Locked(p, c)'
  BY DEF Busy, Locked
<1>6. ASSUME NEW d \in Contexts PROVE NumberHeld(p, d)'
  <2>1. CASE d = c
    BY <2>1 DEF NumberHeld
  <2>2. CASE d # c
    <3>1. ~Locked(p, d) /\ Held(p, d)' = Held(p, d)
      BY <2>2, <1>4 DEF Locked, Busy, Elsewhere
    <3>. QED
      BY <3>1 DEF NumberHeld, Locked
  <2>. QED
    BY <2>1, <2>2
<1>7. ASSUME NEW d \in Queued, d.port = p PROVE QueuedBefore(d)'
  <2>1. QueuedBefore(d)
    BY <1>7 DEF NumbersInOrder
  <2>2. ASSUME NEW e \in Contexts, Busy(p, e)'
        PROVE  \/ d.seq < Held(p, e)'.seq
               \/ /\ Locked(p, e)' /\ d.seq = Held(p, e)'.seq
                  /\ d.out_port \notin Held(p, e)'.targets
    <3>1. CASE e = c
      BY <2>1, <3>1, <1>1, <1>5, <1>7 DEF QueuedBefore
    <3>2. CASE e # c
      BY <2>1, <2>2, <3>2, <1>7 DEF QueuedBefore, Elsewhere, Busy, Locked
    <3>. QED
      BY <3>1, <3>2
  <2>. QED
    BY <2>1, <2>2, <1>7 DEF QueuedBefore, CountFor
<1>8. QueuedBefore(x)'
  <2>1. \A e \in Contexts : Busy(p, e) => HeadOf(p) <= Held(p, e).seq /\ Held(p, e).seq \in Nat
    BY RingTypes DEF RingInOrder, InWindow, Context
  <2>2. HeadOf(p) \in Nat
    BY RingTypes
  <2>3. ASSUME NEW e \in Contexts, Busy(p, e)'
        PROVE  \/ x.seq < Held(p, e)'.seq
               \/ Locked(p, e)' /\ x.seq = Held(p, e)'.seq /\ x.out_port \notin Held(p, e)'.targets
    <3>1. CASE e = c
      BY <3>1, <1>5
    <3>2. CASE e # c
      BY <2>1, <2>2, <2>3, <3>2, <1>4 DEF Elsewhere, Busy
    <3>. QED
      BY <3>1, <3>2
  <2>4. x.seq < arrived[p] /\ x.num < CountFor(p, t)
    BY <1>2, <1>3
  <2>. QED
    BY <2>3, <2>4 DEF QueuedBefore, CountFor, t
<1>9. ASSUME NEW d \in Queued, d.port = p PROVE NumbersFollow(d, x) /\ NumbersFollow(x, d)
  <2>1. d.num \in Nat /\ d.seq \in Nat
    BY DescriptorFacts DEF SoundInv
  <2>2. d.seq < x.seq \/ (d.seq = x.seq /\ d.out_port # x.out_port)
    <3>1. QueuedBefore(d)
      BY <1>9 DEF NumbersInOrder
    <3>2. d.seq < r.seq \/ (d.seq = r.seq /\ d.out_port \notin r.targets)
      BY <3>1, <1>1, <1>9 DEF QueuedBefore
    <3>. QED
      BY <3>2, <1>2 DEF t
  <2>3. SequenceWord(d.out_port) = SequenceWord(x.out_port) => d.num < x.num
    BY <1>3, <1>9 DEF t
  <2>4. x.num \in Nat /\ x.seq \in Nat
    BY <1>2
  <2>5. NumbersFollow(d, x)
    BY <2>1, <2>2, <2>3, <2>4 DEF NumbersFollow
  <2>6. NumbersFollow(x, d)
    BY <2>1, <2>2, <2>3, <2>4 DEF NumbersFollow
  <2>. QED
    BY <2>5, <2>6
<1>10. \A d, e \in Queued' : d.port = p => NumbersFollow(d, e)'
  <2>1. \A d, e \in Queued : d.port = p => NumbersFollow(d, e)
    BY DEF NumbersInOrder
  <2>2. NumbersFollow(x, x)
    BY <1>2 DEF NumbersFollow
  <2>3. \A d, e \in Queued' : d.port = p => NumbersFollow(d, e)
    BY <2>1, <2>2, <1>9 DEF NumbersFollow
  <2>. QED
    BY <2>3 DEF NumbersFollow
<1>. QED
  BY <1>6, <1>7, <1>8, <1>10 DEF NumbersInOrder

-----------------------------------------------------------------------------
(* The steps of a receiver context.  A step concerns one port: the others  *)
(* see nothing of it but the counts.                                       *)

LEMMA RxStep ==
  ASSUME SoundInv, NEW p \in InPorts, NEW c \in Contexts, NEW v,
         rx' = [rx EXCEPT ![Island(p)][c] = v],
         v.port = p \/ v = Idle,
         rx[Island(p)][c].port = p \/ rx[Island(p)][c] = Idle
  PROVE  Held(p, c)' = v /\ Elsewhere(p, c)
<1>1. Island(p) \in Islands /\ v.port \in {p, 0} /\ rx[Island(p)][c].port \in {p, 0}
  BY PortFacts DEF Idle
<1>2. Held(p, c)' = IF v.port = p THEN v ELSE Idle
  <2>1. NewHeld(p, c, v)
    BY <1>1, HeldStep
  <2>. QED
    BY <2>1 DEF NewHeld
<1>3. ASSUME NEW q \in InPorts, NEW d \in Contexts, q # p \/ d # c PROVE Held(q, d)' = Held(q, d)
  <2>1. CASE d # c \/ Island(q) # Island(p)
    BY <2>1, <1>1, HeldStep DEF SameHeld
  <2>2. CASE d = c /\ Island(q) = Island(p)
    <3>1. Held(q, c)' = IF v.port = q THEN v ELSE Idle
      <4>1. NewHeld(q, c, v)
        BY <2>2, <1>1, HeldStep
      <4>. QED
        BY <4>1 DEF NewHeld
    <3>2. q # p
      BY <1>3, <2>2
    <3>3. Held(q, c) = Idle
      BY <3>2, <2>2 DEF Held
    <3>4. Held(q, c)' = Idle
      BY <3>1, <3>2
    <3>. QED
      BY <2>2, <3>3, <3>4
  <2>. QED
    BY <2>1, <2>2
<1>. QED
  BY <1>2, <1>3 DEF Elsewhere

\* A context of port p that is not idle, as the step finds it.
LEMMA AtPort ==
  ASSUME SoundInv, OrderInv, NEW p \in InPorts, NEW c \in Contexts,
         rx[Island(p)][c].port = p, rx[Island(p)][c].pc # "idle"
  PROVE  /\ Held(p, c) = rx[Island(p)][c] /\ Busy(p, c) /\ OneEach(p)
         /\ Held(p, c) \in Context /\ Held(p, c).port = p
         /\ Held(p, c).seq \in Nat /\ Held(p, c).targets \subseteq Port
         /\ Held(p, c).pc \in {"counting", "numbered"} => Held(p, c).targets # {}
         /\ ReorderRingOf(p) = <<Island(p), get_ring_num(p)>> /\ ReorderRingOf(p) \in ReorderRings
         /\ \A q \in InPorts : q # p => ReorderRingOf(q) # ReorderRingOf(p)
         /\ Island(p) \in Islands
<1>1. Held(p, c) = rx[Island(p)][c] /\ Busy(p, c)
  BY DEF Held, Busy
<1>2. OneEach(p)
  BY DEF OrderInv
<1>. QED
  BY <1>1, <1>2, Holding, PortFacts

LEMMA SameLeft ==
  ASSUME LeftInOrder, UNCHANGED tmVars
  PROVE  LeftInOrder'
BY DEF LeftInOrder, tmVars, SequencerOf

LEMMA SameQueued ==
  ASSUME UNCHANGED <<ring, tx, tmVars>>
  PROVE  Queued' = Queued
BY DEF Queued, tmVars

\* What an orderly island owes to its ports.
LEMMA OrderlyPort ==
  ASSUME OrderInv, NEW p \in InPorts, Orderly(Island(p))
  PROVE  /\ p \notin overrun /\ Island(p) \notin met
         /\ OneEach(p) /\ RingInOrder(p) /\ Apart(Island(p)) /\ NumbersInOrder(p)
BY PortFacts DEF OrderInv, Orderly

\* The history only grows.
Remembers == overrun \subseteq overrun' /\ met \subseteq met'

LEMMA OrderlyBefore ==
  ASSUME Remembers, NEW i, Orderly(i)'
  PROVE  Orderly(i)
BY DEF Remembers, Orderly

LEMMA EachKeeps ==
  ASSUME SoundInv, NEW p \in InPorts, OneEach(p), arrived'[p] = arrived[p],
         \A c \in Contexts : Busy(p, c)' => Busy(p, c) /\ Held(p, c)'.seq = Held(p, c).seq
  PROVE  OneEach(p)'
BY DEF OneEach

LEMMA ApartKeeps ==
  ASSUME NEW i, Apart(i),
         \A c \in Contexts : rx'[i][c].pc = "counting" => rx'[i][c] = rx[i][c]
  PROVE  Apart(i)'
<1>. SUFFICES ASSUME NEW c \in Contexts, NEW d \in Contexts, NEW x \in SequenceWords,
                     Counting(i, c, x)', Counting(i, d, x)'
     PROVE  rx'[i][c].port = rx'[i][d].port
  BY DEF Apart
<1>1. rx'[i][c] = rx[i][c] /\ rx'[i][d] = rx[i][d]
  BY DEF Counting
<1>2. Counting(i, c, x) /\ Counting(i, d, x)
  BY <1>1 DEF Counting, Counts
<1>. QED
  BY <1>1, <1>2 DEF Apart

\* A step that no other port sees anything of but the counts.
LEMMA StepAt ==
  ASSUME SoundInv, OrderInv, NEW p \in InPorts, Remembers, overrun' \subseteq overrun \cup {p},
         \A q \in InPorts : q # p => /\ SameRing(q) /\ arrived'[q] = arrived[q]
                                     /\ \A d \in Contexts : Held(q, d)' = Held(q, d),
         OneEach(p)', p \notin overrun' => RingInOrder(p)',
         \A i \in Islands : i \notin met' => Apart(i)',
         \A q \in InPorts : Orderly(Island(q))' => NumbersInOrder(q)',
         UNCHANGED tmVars
  PROVE  OrderInv'
<1>1. \A q \in InPorts : OneEach(q)'
  <2>1. ASSUME NEW q \in InPorts, q # p PROVE OneEach(q)'
    BY <2>1, EachKeeps DEF OrderInv, Busy
  <2>. QED
    BY <2>1
<1>2. ASSUME NEW q \in InPorts, q \notin overrun' PROVE RingInOrder(q)'
  <2>1. CASE q # p
    <3>1. q \notin overrun /\ RingInOrder(q) /\ OneEach(q)
      BY <1>2 DEF Remembers, OrderInv
    <3>2. \A d \in Contexts : SameStage(q, d)
      BY <2>1, SameRegisters
    <3>. QED
      BY <2>1, <3>1, <3>2, RingKeeps
  <2>. QED
    BY <2>1, <1>2
<1>3. LeftInOrder'
  BY SameLeft DEF OrderInv
<1>. QED
  BY <1>1, <1>2, <1>3 DEF OrderInv

\* A step that writes no count and queues nothing.
LEMMA NumbersKeep ==
  ASSUME SoundInv, OrderInv, NEW p \in InPorts, Remembers, SoundInv',
         UNCHANGED <<count, ring, tx, tmVars>>,
         \A q \in InPorts : arrived[q] <= arrived'[q],
         \A q \in InPorts : q # p => \A d \in Contexts : Held(q, d)' = Held(q, d),
         \A d \in Contexts : Moves(p, d)
  PROVE  \A q \in InPorts : Orderly(Island(q))' => NumbersInOrder(q)'
<1>. SUFFICES ASSUME NEW q \in InPorts, Orderly(Island(q))' PROVE NumbersInOrder(q)'
  OBVIOUS
<1>1. Orderly(Island(q))
  BY OrderlyBefore
<1>2. NumbersInOrder(q) /\ OneEach(q)
  BY <1>1, OrderlyPort
<1>3. \A t \in Port : CountFor(q, t)' \in Nat /\ CountFor(q, t) <= CountFor(q, t)'
  <2>1. \A t \in Port : CountFor(q, t) \in Nat
    BY CountTypes DEF SoundInv
  <2>2. \A t \in Port : CountFor(q, t)' = CountFor(q, t)
    BY DEF CountFor
  <2>. QED
    BY <2>1, <2>2
<1>4. \A d \in Contexts : Moves(q, d)
  <2>1. ASSUME q # p, NEW d \in Contexts PROVE Moves(q, d)
    BY <2>1 DEF Moves, CountFor
  <2>. QED
    BY <2>1
<1>5. arrived'[q] \in Nat
  BY DEF SoundInv, TypeOK
<1>. QED
  BY <1>2, <1>3, <1>4, <1>5, SameQueued, CountKeeps

LEMMA ReceiveKeeps ==
  ASSUME SoundInv, OrderInv, NEW p \in InPorts, NEW c \in Contexts, Receive(p, c)
  PROVE  OrderInv'
<1> DEFINE v == [Idle EXCEPT !.pc = "received", !.port = p, !.seq = arrived[p]]
<1>1. arrived[p] \in Nat /\ HeadOf(p) \in Nat /\ RingSize \in Nat /\ OneEach(p) /\ SoundInv'
  BY RingTypes, ReceiveTypes DEF OrderInv
<1>2. v.pc = "received" /\ v.port = p /\ v.seq = arrived[p]
  BY DEF Idle
<1> HIDE DEF v
<1>3. /\ rx' = [rx EXCEPT ![Island(p)][c] = v]
      /\ arrived' = [arrived EXCEPT ![p] = @ + 1]
      /\ overrun' = IF arrived[p] - HeadOf(p) >= RingSize THEN overrun \cup {p} ELSE overrun
      /\ UNCHANGED <<head, word, count, met, ring, tx, tmVars>>
      /\ rx[Island(p)][c].pc = "idle"
  BY DEF Receive, v
<1>4. rx[Island(p)][c] = Idle
  BY <1>3, PortFacts DEF SoundInv, Sound
<1>5. Held(p, c)' = v /\ Elsewhere(p, c)
  <2>1. rx' = [rx EXCEPT ![Island(p)][c] = v]
    BY <1>3
  <2>2. v.port = p \/ v = Idle
    BY <1>2
  <2>. QED
    BY <2>1, <2>2, <1>4, RxStep
<1>6. ~Busy(p, c) /\ arrived'[p] = arrived[p] + 1 /\ \A q \in InPorts : q # p => arrived'[q] = arrived[q]
  BY <1>3, <1>4 DEF Busy, Held, SoundInv, TypeOK, Idle
<1>7. \A q \in InPorts : SameRing(q)
  BY <1>3 DEF SameRing, HeadOf, WordOf
<1>8. Remembers /\ overrun' \subseteq overrun \cup {p}
  BY <1>3 DEF Remembers
<1>9. OneEach(p)'
  <2>1. \A d \in Contexts : Busy(p, d) => Held(p, d).seq < arrived[p] /\ Held(p, d).seq \in Nat
    BY <1>1, Holding
  <2>. QED
    BY <2>1, <1>1, <1>2, <1>5, <1>6 DEF OneEach, Elsewhere, Busy
<1>10. ASSUME p \notin overrun' PROVE RingInOrder(p)'
  <2>1. arrived[p] < HeadOf(p) + RingSize
    BY <1>1, <1>3, <1>10
  <2>2. RingInOrder(p)
    BY <1>8, <1>10 DEF OrderInv, Remembers
  <2>. QED
    BY <2>1, <2>2, <1>1, <1>2, <1>5, <1>6, <1>7, RingReceives DEF Others, Elsewhere
<1>11. ASSUME NEW i \in Islands, i \notin met' PROVE Apart(i)'
  <2>1. Apart(i)
    BY <1>3, <1>11 DEF OrderInv
  <2>2. \A d \in Contexts : rx'[i][d].pc = "counting" => rx'[i][d] = rx[i][d]
    BY <1>2, <1>3 DEF SoundInv, TypeOK
  <2>. QED
    BY <2>1, <2>2, ApartKeeps
<1>12. \A q \in InPorts : Orderly(Island(q))' => NumbersInOrder(q)'
  <2>1. \A d \in Contexts : Moves(p, d)
    BY <1>2, <1>3, <1>5 DEF Moves, Elsewhere, Locked, CountFor
  <2>2. ASSUME NEW q \in InPorts PROVE arrived[q] <= arrived'[q]
    <3>1. arrived[q] \in Nat /\ (arrived'[q] = arrived[q] \/ arrived'[q] = arrived[q] + 1)
      BY <1>6, RingTypes
    <3>. QED
      BY <3>1
  <2>. QED
    BY <2>1, <2>2, <1>1, <1>3, <1>5, <1>8, NumbersKeep DEF Elsewhere
<1>. QED
  BY <1>3, <1>5, <1>6, <1>7, <1>8, <1>9, <1>10, <1>11, <1>12, StepAt DEF Elsewhere

\* A context keeps its packet and its place in the ring, or was idle to it.
LEMMA InsideStage ==
  ASSUME SoundInv, OrderInv, NEW p \in InPorts, NEW c \in Contexts, Remembers,
         Elsewhere(p, c), SameStage(p, c), UNCHANGED <<arrived, head, word, overrun, tmVars>>,
         \A i \in Islands : i \notin met' => Apart(i)',
         \A q \in InPorts : Orderly(Island(q))' => NumbersInOrder(q)'
  PROVE  OrderInv'
<1>1. \A q \in InPorts : SameRing(q)
  BY DEF SameRing, HeadOf, WordOf
<1>2. \A d \in Contexts : SameStage(p, d)
  BY SameRegisters DEF Elsewhere
<1>3. OneEach(p)'
  BY <1>2, EachKeeps DEF OrderInv, SameStage
<1>4. ASSUME p \notin overrun' PROVE RingInOrder(p)'
  BY <1>1, <1>2, <1>4, RingKeeps DEF OrderInv
<1>. QED
  BY <1>1, <1>3, <1>4, StepAt DEF Elsewhere

\* The registers of one context of island i change, to a stage other than the
\* read of a count.
LEMMA ApartStep ==
  ASSUME SoundInv, OrderInv, NEW p \in InPorts, NEW c \in Contexts, NEW v,
         rx' = [rx EXCEPT ![Island(p)][c] = v], v.pc # "counting", met' = met
  PROVE  \A i \in Islands : i \notin met' => Apart(i)'
<1>. SUFFICES ASSUME NEW i \in Islands, i \notin met' PROVE Apart(i)'
  OBVIOUS
<1>1. Apart(i)
  BY DEF OrderInv
<1>2. \A d \in Contexts : rx'[i][d].pc = "counting" => rx'[i][d] = rx[i][d]
  BY DEF SoundInv, TypeOK
<1>. QED
  BY <1>1, <1>2, ApartKeeps

LEMMA ExamineKeeps ==
  ASSUME SoundInv, OrderInv, NEW p \in InPorts, NEW c \in Contexts,
         rx[Island(p)][c].port = p, Examine(Island(p), c)
  PROVE  OrderInv'
<1> DEFINE r == rx[Island(p)][c]
           k == TheEntry(p, r.seq)
           b == k.fw /\ ~k.rootward /\ 0 \in k.fw_vector
           v == IF k.entl \/ k.fw
                THEN [r EXCEPT !.pc = "lock", !.targets = Targets(p, k), !.sent = b]
                ELSE Idle
<1>1. r.pc = "received"
  BY DEF Examine
<1>2. Held(p, c) = r /\ Busy(p, c) /\ r \in Context /\ OneEach(p) /\ Island(p) \in Islands
  BY <1>1, AtPort
<1>3. SoundInv'
  BY <1>2, ExamineTypes
<1>4. rx' = [rx EXCEPT ![Island(p)][c] = v]
      /\ UNCHANGED <<arrived, head, word, count, overrun, met, ring, tx, tmVars>>
  BY DEF Examine
<1> HIDE DEF b, k
<1>5. /\ v.pc \in {"lock", "idle"} /\ (v.port = p \/ v = Idle)
      /\ v.pc = "lock" => v.seq = r.seq
  BY <1>2 DEF Context, Idle
<1> HIDE DEF v
<1>6. Held(p, c)' = v /\ Elsewhere(p, c)
  <2>1. rx' = [rx EXCEPT ![Island(p)][c] = v]
    BY <1>4
  <2>2. v.port = p \/ v = Idle
    BY <1>5
  <2>. QED
    BY <2>1, <2>2, RxStep
<1>7. Remembers /\ \A q \in InPorts : SameRing(q)
  BY <1>4 DEF Remembers, SameRing, HeadOf, WordOf
<1>8. \A i \in Islands : i \notin met' => Apart(i)'
  BY <1>4, <1>5, ApartStep
<1>9. \A q \in InPorts : Orderly(Island(q))' => NumbersInOrder(q)'
  <2>1. \A d \in Contexts : Moves(p, d)
    BY <1>1, <1>2, <1>4, <1>5, <1>6 DEF Moves, Elsewhere, Locked, Busy, CountFor
  <2>2. \A q \in InPorts : arrived[q] <= arrived'[q]
    BY <1>4, RingTypes
  <2>. QED
    BY <2>1, <2>2, <1>3, <1>4, <1>6, <1>7, NumbersKeep DEF Elsewhere
<1>10. OneEach(p)'
  BY <1>1, <1>2, <1>4, <1>5, <1>6, EachKeeps DEF Elsewhere, Busy
<1>11. ASSUME p \notin overrun' PROVE RingInOrder(p)'
  <2>1. RingInOrder(p)
    BY <1>4, <1>11 DEF OrderInv
  <2>2. CASE v.pc = "lock"
    <3>1. SameStage(p, c)
      BY <2>2, <1>1, <1>2, <1>5, <1>6 DEF SameStage, Busy, Locked
    <3>2. \A d \in Contexts : SameStage(p, d)
      BY <3>1, <1>6, SameRegisters DEF Elsewhere
    <3>. QED
      BY <3>2, <2>1, <1>2, <1>4, <1>7, RingKeeps
  <2>3. CASE v.pc = "idle"
    BY <2>1, <2>3, <1>1, <1>2, <1>4, <1>6, <1>7, RingLeft DEF Others, Elsewhere
  <2>. QED
    BY <2>2, <2>3, <1>5
<1>. QED
  BY <1>4, <1>6, <1>7, <1>8, <1>9, <1>10, <1>11, StepAt DEF Elsewhere

LEMMA LockKeeps ==
  ASSUME SoundInv, OrderInv, NEW p \in InPorts, NEW c \in Contexts,
         rx[Island(p)][c].port = p, Lock(Island(p), c)
  PROVE  OrderInv'
<1> DEFINE r == Held(p, c)
           u == Word(r.seq)
           stage == IF u = Word(HeadOf(p)) THEN "inside" ELSE "waiting"
           v == [r EXCEPT !.pc = stage]
<1>1. rx[Island(p)][c].pc = "lock"
  BY DEF Lock
<1>2. /\ rx[Island(p)][c] = r /\ Busy(p, c) /\ r \in Context /\ r.port = p /\ OneEach(p)
      /\ ReorderRingOf(p) = <<Island(p), get_ring_num(p)>> /\ ReorderRingOf(p) \in ReorderRings
      /\ \A q \in InPorts : q # p => ReorderRingOf(q) # ReorderRingOf(p)
      /\ Island(p) \in Islands
  BY <1>1, AtPort
<1>3. SoundInv' /\ u \in 0 .. RingSize - 1
  BY <1>2, LockTypes, WordBound DEF Context
<1>4. /\ rx' = [rx EXCEPT ![Island(p)][c] = v]
      /\ UNCHANGED <<arrived, head, count, overrun, met, ring, tx, tmVars>>
      /\ word' = IF stage = "inside" THEN word ELSE [word EXCEPT ![ReorderRingOf(p)][u] = c]
  BY <1>2 DEF Lock, HeadOf
<1>5. (u = Word(HeadOf(p)) <=> stage = "inside") /\ stage \in {"inside", "waiting"}
  OBVIOUS
<1> HIDE DEF stage, u
<1>6. v.pc = stage /\ v.port = p /\ v.seq = r.seq /\ v.targets = r.targets
  BY <1>2, <1>5 DEF Context
<1> HIDE DEF v
<1>7. Held(p, c)' = v /\ Elsewhere(p, c)
  <2>1. rx' = [rx EXCEPT ![Island(p)][c] = v]
    BY <1>4
  <2>. QED
    BY <2>1, <1>6, RxStep
<1>8. Remembers
  BY <1>4 DEF Remembers
<1>9. /\ \A q \in InPorts : q # p => SameRing(q)
      /\ stage = "inside" => SameRing(p)
      /\ stage = "waiting" => WordOf(p)' = [WordOf(p) EXCEPT ![u] = c]
      /\ HeadOf(p)' = HeadOf(p)
  BY <1>2, <1>4 DEF SameRing, HeadOf, WordOf, SoundInv, TypeOK
<1>10. \A i \in Islands : i \notin met' => Apart(i)'
  BY <1>4, <1>5, <1>6, ApartStep
<1>11. \A q \in InPorts : Orderly(Island(q))' => NumbersInOrder(q)'
  <2>1. \A d \in Contexts : Moves(p, d)
    BY <1>1, <1>2, <1>4, <1>5, <1>6, <1>7 DEF Moves, Elsewhere, Locked, CountFor
  <2>2. \A q \in InPorts : arrived[q] <= arrived'[q]
    BY <1>4, RingTypes
  <2>. QED
    BY <2>1, <2>2, <1>3, <1>4, <1>7, <1>8, NumbersKeep DEF Elsewhere
<1>12. OneEach(p)'
  BY <1>2, <1>4, <1>6, <1>7, EachKeeps DEF Elsewhere, Busy
<1>13. ASSUME p \notin overrun' PROVE RingInOrder(p)'
  <2>1. RingInOrder(p)
    BY <1>4, <1>13 DEF OrderInv
  <2>2. CASE stage = "inside"
    BY <2>1, <2>2, <1>1, <1>2, <1>4, <1>5, <1>6, <1>7, <1>9, RingEnters DEF Others, Elsewhere, u
  <2>3. CASE stage = "waiting"
    BY <2>1, <2>3, <1>1, <1>2, <1>4, <1>5, <1>6, <1>7, <1>9, RingWaits DEF Others, Elsewhere, u
  <2>. QED
    BY <2>2, <2>3, <1>5
<1>. QED
  BY <1>4, <1>7, <1>8, <1>9, <1>10, <1>11, <1>12, <1>13, StepAt DEF Elsewhere

LEMMA ReadCountKeeps ==
  ASSUME SoundInv, OrderInv, NEW p \in InPorts, NEW c \in Contexts,
         rx[Island(p)][c].port = p, ReadCount(Island(p), c)
  PROVE  OrderInv'
<1> DEFINE r == Held(p, c)
           t == Target(r)
           others == \E d \in Contexts :
                       Counting(Island(p), d, Counts(r)) /\ rx[Island(p)][d].port # p
           v == [r EXCEPT !.pc = "counting", !.num = CountFor(p, t)]
<1>1. rx[Island(p)][c].pc = "inside" /\ rx[Island(p)][c].targets # {}
  BY DEF ReadCount
<1>2. /\ rx[Island(p)][c] = r /\ Busy(p, c) /\ r \in Context /\ r.port = p /\ OneEach(p)
      /\ Island(p) \in Islands
  BY <1>1, AtPort
<1>3. SoundInv' /\ t \in Port /\ Counts(r) = SequenceWord(t)
  BY <1>1, <1>2, ReadCountTypes, TargetOf
<1>4. /\ rx' = [rx EXCEPT ![Island(p)][c] = v]
      /\ UNCHANGED <<arrived, head, word, count, overrun, ring, tx, tmVars>>
      /\ met' = IF others THEN met \cup {Island(p)} ELSE met
  BY <1>2, <1>3 DEF ReadCount, CountFor
<1>5. /\ v.pc = "counting" /\ v.port = p /\ v.seq = r.seq /\ v.targets = r.targets
      /\ v.num = CountFor(p, t)
  BY <1>2 DEF Context
<1>6. Target(v) = t /\ Counts(v) = Counts(r)
  BY <1>5, SameTarget
<1> HIDE DEF v, others, t
<1>7. Held(p, c)' = v /\ Elsewhere(p, c)
  <2>1. rx' = [rx EXCEPT ![Island(p)][c] = v]
    BY <1>4
  <2>2. v.port = p
    BY <1>5
  <2>. QED
    BY <2>1, <2>2, RxStep
<1>8. Remembers
  BY <1>4 DEF Remembers
<1>9. SameStage(p, c)
  BY <1>1, <1>2, <1>5, <1>7 DEF SameStage, Busy, Locked
<1>10. ASSUME NEW i \in Islands, i \notin met' PROVE Apart(i)'
  <2>1. Apart(i) /\ (i = Island(p) => ~others)
    BY <1>4, <1>10 DEF OrderInv
  <2>2. \A d \in Contexts : i # Island(p) \/ d # c => rx'[i][d] = rx[i][d]
    BY <1>4 DEF SoundInv, TypeOK
  <2>3. CASE i # Island(p)
    BY <2>1, <2>2, <2>3, ApartKeeps
  <2>4. CASE i = Island(p)
    <3>1. rx'[i][c] = v
      BY <2>4, <1>2, <1>4 DEF SoundInv, TypeOK
    <3>2. ASSUME NEW d \in Contexts, NEW x \in SequenceWords, d # c, Counting(i, d, x)',
                 Counting(i, c, x)'
          PROVE  rx'[i][d].port = p
      <4>1. Counting(i, d, x) /\ x = Counts(r)
        BY <2>2, <3>1, <3>2, <1>6 DEF Counting, Counts
      <4>. QED
        BY <4>1, <2>1, <2>2, <2>4, <3>2 DEF others
    <3>3. ASSUME NEW d \in Contexts, NEW e \in Contexts, NEW x \in SequenceWords, d # c, e # c,
                 Counting(i, d, x)', Counting(i, e, x)'
          PROVE  rx'[i][d].port = rx'[i][e].port
      <4>1. Counting(i, d, x) /\ Counting(i, e, x) /\ rx'[i][d] = rx[i][d] /\ rx'[i][e] = rx[i][e]
        BY <2>2, <3>3 DEF Counting, Counts
      <4>. QED
        BY <4>1, <2>1 DEF Apart
    <3>. QED
      BY <3>1, <3>2, <3>3, <1>5 DEF Apart
  <2>. QED
    BY <2>3, <2>4
<1>11. \A q \in InPorts : Orderly(Island(q))' => NumbersInOrder(q)'
  <2>1. Moves(p, c)
    <3>1. CountFor(p, Target(Held(p, c)))' = CountFor(p, t)
      BY <1>4, <1>6, <1>7 DEF CountFor
    <3>. QED
      BY <3>1, <1>1, <1>2, <1>5, <1>7 DEF Moves, Locked
  <2>2. \A d \in Contexts : Moves(p, d)
    BY <2>1, <1>4, <1>7 DEF Moves, Elsewhere, CountFor
  <2>3. \A q \in InPorts : arrived[q] <= arrived'[q]
    BY <1>4, RingTypes
  <2>. QED
    BY <2>2, <2>3, <1>3, <1>4, <1>7, <1>8, NumbersKeep DEF Elsewhere
<1>. QED
  BY <1>4, <1>7, <1>8, <1>9, <1>10, <1>11, InsideStage

LEMMA WriteCountKeeps ==
  ASSUME SoundInv, OrderInv, NEW p \in InPorts, NEW c \in Contexts,
         rx[Island(p)][c].port = p, WriteCount(Island(p), c)
  PROVE  OrderInv'
<1> DEFINE r == Held(p, c)
           t == Target(r)
           v == [r EXCEPT !.pc = "numbered"]
<1>1. rx[Island(p)][c].pc = "counting"
  BY DEF WriteCount
<1>2. /\ rx[Island(p)][c] = r /\ Busy(p, c) /\ r \in Context /\ r.port = p /\ OneEach(p)
      /\ Island(p) \in Islands /\ r.targets # {}
  BY <1>1, AtPort
<1>3. SoundInv' /\ t \in Port /\ Counts(r) = SequenceWord(t) /\ Counts(r) \in SequenceWords
  BY <1>2, WriteCountTypes, TargetOf
<1>4. /\ rx' = [rx EXCEPT ![Island(p)][c] = v]
      /\ UNCHANGED <<arrived, head, word, overrun, met, ring, tx, tmVars>>
      /\ count' = [count EXCEPT ![Island(p)][Counts(r)] = r.num + 1]
  BY <1>2 DEF WriteCount
<1>5. v.pc = "numbered" /\ v.port = p /\ v.seq = r.seq /\ v.targets = r.targets /\ r.num \in Nat
  BY <1>2 DEF Context
<1>6. Held(p, c)' = v /\ Elsewhere(p, c)
  <2>1. rx' = [rx EXCEPT ![Island(p)][c] = v]
    BY <1>4
  <2>2. v.port = p
    BY <1>5
  <2>. HIDE DEF v
  <2>. QED
    BY <2>1, <2>2, RxStep
<1>7. Remembers
  BY <1>4 DEF Remembers
<1>8. SameStage(p, c)
  BY <1>1, <1>2, <1>5, <1>6 DEF SameStage, Busy, Locked
<1>9. \A i \in Islands : i \notin met' => Apart(i)'
  <2>. HIDE DEF v
  <2>. QED
    BY <1>4, <1>5, ApartStep
<1>10. \A q \in InPorts, d \in Port : CountFor(q, d)' =
         IF Island(q) = Island(p) /\ SequenceWord(d) = Counts(r) THEN r.num + 1 ELSE CountFor(q, d)
  <2>1. \A q \in InPorts, d \in Port : Island(q) \in Islands /\ SequenceWord(d) \in SequenceWords
    BY PortFacts, QueueFacts
  <2>2. count \in [Islands -> [SequenceWords -> Nat]]
    BY DEF SoundInv, TypeOK
  <2>. HIDE DEF r
  <2>. QED
    BY <2>1, <2>2, <1>2, <1>3, <1>4 DEF CountFor
<1>11. ASSUME NEW q \in InPorts, Orderly(Island(q))' PROVE NumbersInOrder(q)'
  <2>1. Orderly(Island(q)) /\ OneEach(q) /\ NumbersInOrder(q)
    BY <1>7, <1>11, OrderlyBefore, OrderlyPort
  <2>2. CASE q = p
    <3>1. RingInOrder(p)
      BY <2>1, <2>2, OrderlyPort
    <3>2. \A d \in Port : CountFor(p, d)' =
            IF SequenceWord(d) = Counts(Held(p, c)) THEN Held(p, c).num + 1 ELSE CountFor(p, d)
      BY <1>10
    <3>3. Queued' = Queued
      BY <1>4, SameQueued
    <3>. QED
      BY <2>1, <2>2, <3>1, <3>2, <3>3, <1>1, <1>2, <1>4, <1>6, CountWrites
  <2>3. CASE q # p
    <3>1. \A d \in Contexts : Held(q, d)' = Held(q, d)
      BY <2>3, <1>6 DEF Elsewhere
    <3>2. Island(q) = Island(p) => r.num = CountFor(p, t)
      <4>1. ASSUME Island(q) = Island(p) PROVE NumbersInOrder(p)
        BY <4>1, <2>1, OrderlyPort
      <4>. QED
        BY <4>1, <1>1, <1>2 DEF NumbersInOrder, NumberHeld
    <3>3. \A d \in Port : CountFor(q, d) \in Nat
      BY CountTypes DEF SoundInv
    <3>4. ASSUME NEW d \in Port PROVE CountFor(q, d)' \in Nat /\ CountFor(q, d) <= CountFor(q, d)'
      <4>1. CASE Island(q) = Island(p) /\ SequenceWord(d) = Counts(r)
        <5>1. CountFor(q, d) = r.num
          BY <4>1, <3>2, <1>3 DEF CountFor
        <5>. QED
          BY <5>1, <4>1, <1>5, <1>10
      <4>2. CASE ~(Island(q) = Island(p) /\ SequenceWord(d) = Counts(r))
        <5>1. CountFor(q, d)' = CountFor(q, d)
          BY <4>2, <1>10
        <5>. QED
          BY <5>1, <3>3
      <4>. QED
        BY <4>1, <4>2
    <3>5. ASSUME NEW d \in Contexts PROVE Moves(q, d)
      <4>1. ASSUME Held(q, d).pc = "counting"
            PROVE  CountFor(q, Target(Held(q, d)))' = CountFor(q, Target(Held(q, d)))
        <5>1. Busy(q, d)
          BY <4>1 DEF Busy
        <5>2. /\ Target(Held(q, d)) \in Port /\ Counts(Held(q, d)) = SequenceWord(Target(Held(q, d)))
              /\ Counts(Held(q, d)) \in SequenceWords
              /\ rx[Island(q)][d] = Held(q, d) /\ Held(q, d).port = q
          <6>1. Held(q, d).targets # {} /\ rx[Island(q)][d] = Held(q, d) /\ Held(q, d).port = q
            BY <2>1, <4>1, <5>1, Holding
          <6>. QED
            BY <6>1, <2>1, <5>1, TargetOf
        <5>3. ASSUME Island(q) = Island(p), Counts(Held(q, d)) = Counts(r) PROVE FALSE
          <6>1. Counting(Island(p), d, Counts(r)) /\ Counting(Island(p), c, Counts(r))
            BY <4>1, <5>2, <5>3, <1>1, <1>2 DEF Counting
          <6>2. rx[Island(p)][d].port = rx[Island(p)][c].port
            BY <6>1, <2>1, <5>3, <1>3, OrderlyPort DEF Apart
          <6>. QED
            BY <6>2, <5>2, <5>3, <2>3
        <5>4. PICK e \in Port : e = Target(Held(q, d))
          BY <5>2
        <5>5. CountFor(q, e)' = CountFor(q, e)
          BY <5>2, <5>3, <5>4, <1>10
        <5>6. Target(Held(q, d)') = e
          BY <5>4, <3>1
        <5>7. CountFor(q, Target(Held(q, d)))' = CountFor(q, e)'
          BY <5>6 DEF CountFor
        <5>. QED
          BY <5>4, <5>5, <5>7
      <4>. QED
        BY <3>1, <4>1 DEF Moves
    <3>6. Queued' = Queued /\ arrived'[q] = arrived[q] /\ arrived[q] \in Nat
      BY <1>4, SameQueued, RingTypes
    <3>. QED
      BY <2>1, <3>4, <3>5, <3>6, CountKeeps
  <2>. QED
    BY <2>2, <2>3
<1>. QED
  BY <1>4, <1>6, <1>7, <1>8, <1>9, <1>11, InsideStage

LEMMA QueueKeeps ==
  ASSUME SoundInv, OrderInv, NEW p \in InPorts, NEW c \in Contexts,
         rx[Island(p)][c].port = p, Queue(Island(p), c)
  PROVE  OrderInv'
<1> DEFINE r == Held(p, c)
           t == Target(r)
           v == [r EXCEPT !.pc = "inside", !.targets = @ \ {t}, !.sent = TRUE, !.num = 0]
           g == ~(r.sent /\ HasLeft(p, r.seq))
           x == [port |-> p, seq |-> r.seq, out_port |-> t, num |-> r.num,
                 clone |-> r.sent, intact |-> g]
           e == get_island_ring(t)
<1>1. rx[Island(p)][c].pc = "numbered"
  BY DEF Queue
<1>2. /\ rx[Island(p)][c] = r /\ Busy(p, c) /\ r \in Context /\ r.port = p /\ OneEach(p)
      /\ Island(p) \in Islands /\ r.targets # {}
  BY <1>1, AtPort
<1>3. SoundInv' /\ t \in Port /\ e \in EgressRings
  BY <1>2, QueueTypes, TargetOf, QueueFacts
<1>4. /\ rx' = [rx EXCEPT ![Island(p)][c] = v]
      /\ UNCHANGED <<arrived, head, word, count, overrun, met, tx, tmVars>>
      /\ ring' = [ring EXCEPT ![e] = Append(@, x)]
  BY <1>2 DEF Queue
<1>5. v.pc = "inside" /\ v.port = p /\ v.seq = r.seq /\ v.targets = r.targets \ {t}
  BY <1>2 DEF Context
<1> HIDE DEF g
<1>6. x.port = p /\ x.seq = r.seq /\ x.out_port = t /\ x.num = r.num
  OBVIOUS
<1> HIDE DEF v, x, e
<1>7. Held(p, c)' = v /\ Elsewhere(p, c)
  <2>1. rx' = [rx EXCEPT ![Island(p)][c] = v]
    BY <1>4
  <2>2. v.port = p
    BY <1>5
  <2>. QED
    BY <2>1, <2>2, RxStep
<1>8. \A f \in EgressRings : {ring'[f][k] : k \in DOMAIN ring'[f]} =
            {ring[f][k] : k \in DOMAIN ring[f]} \cup (IF f = e THEN {x} ELSE {})
  <2>1. ring[e] \in Seq(Descriptor) /\ ring'[e] = Append(ring[e], x)
    BY <1>3, <1>4 DEF SoundInv, TypeOK
  <2>2. \A f \in EgressRings : f # e => ring'[f] = ring[f]
    BY <1>4 DEF SoundInv, TypeOK
  <2>3. /\ DOMAIN ring'[e] = DOMAIN ring[e] \cup {Len(ring[e]) + 1}
        /\ ring'[e][Len(ring[e]) + 1] = x
        /\ \A k \in DOMAIN ring[e] : ring'[e][k] = ring[e][k]
    BY <2>1
  <2>. QED
    BY <2>2, <2>3
<1>9. Queued' = Queued \cup {x}
  <2>1. UNION {{ring'[f][k] : k \in DOMAIN ring'[f]} : f \in EgressRings}
          = (UNION {{ring[f][k] : k \in DOMAIN ring[f]} : f \in EgressRings}) \cup {x}
    <3> DEFINE before == [f \in EgressRings |-> {ring[f][k] : k \in DOMAIN ring[f]}]
               after == [f \in EgressRings |-> {ring'[f][k] : k \in DOMAIN ring'[f]}]
    <3>1. \A f \in EgressRings : after[f] = before[f] \cup (IF f = e THEN {x} ELSE {})
      BY <1>8
    <3>2. /\ UNION {{ring[f][k] : k \in DOMAIN ring[f]} : f \in EgressRings}
               = UNION {before[f] : f \in EgressRings}
          /\ UNION {{ring'[f][k] : k \in DOMAIN ring'[f]} : f \in EgressRings}
               = UNION {after[f] : f \in EgressRings}
      OBVIOUS
    <3> HIDE DEF before, after
    <3>3. UNION {after[f] : f \in EgressRings} = (UNION {before[f] : f \in EgressRings}) \cup {x}
      BY <1>3, <3>1
    <3>. QED
      BY <3>2, <3>3
  <2>2. UNCHANGED <<tx, tm, left>>
    BY <1>4 DEF tmVars
  <2> DEFINE rest == ((UNION {{tx[q][u] : u \in Threads} : q \in OutPorts}) \ {None})
                       \cup (UNION {tm[s] : s \in Sequencers})
                       \cup (UNION {{left[q][k] : k \in DOMAIN left[q]} : q \in OutPorts})
             queued == UNION {{ring[f][k] : k \in DOMAIN ring[f]} : f \in EgressRings}
  <2>3. Queued = queued \cup rest
    BY DEF Queued
  <2>4. Queued' = queued' \cup rest
    BY <2>2 DEF Queued
  <2>5. queued' = queued \cup {x}
    BY <2>1
  <2> HIDE DEF queued, rest
  <2>. QED
    BY <2>3, <2>4, <2>5
<1>10. Remembers
  BY <1>4 DEF Remembers
<1>11. SameStage(p, c)
  BY <1>1, <1>2, <1>5, <1>7 DEF SameStage, Busy, Locked
<1>12. \A i \in Islands : i \notin met' => Apart(i)'
  BY <1>4, <1>5, ApartStep
<1>13. ASSUME NEW q \in InPorts, Orderly(Island(q))' PROVE NumbersInOrder(q)'
  <2>1. Orderly(Island(q)) /\ OneEach(q) /\ RingInOrder(q) /\ NumbersInOrder(q)
    BY <1>10, <1>13, OrderlyBefore, OrderlyPort
  <2>2. CASE q = p
    <3>1. Held(p, c).pc = "numbered"
      BY <1>1, <1>2
    <3>2. Held(p, c)'.pc = "inside" /\ Held(p, c)'.seq = r.seq /\ Held(p, c)'.targets = r.targets \ {t}
      BY <1>5, <1>7
    <3>3. UNCHANGED <<arrived, count>>
      BY <1>4
    <3>. QED
      BY <2>1, <2>2, <3>1, <3>2, <3>3, <1>6, <1>7, <1>9, CountQueues
  <2>3. CASE q # p
    <3>1. \A d \in Queued' : d.port = q => d \in Queued
      BY <2>3, <1>6, <1>9
    <3>2. \A d \in Contexts : Moves(q, d)
      BY <2>3, <1>4, <1>7 DEF Moves, Elsewhere, CountFor
    <3>3. \A d \in Port : CountFor(q, d)' = CountFor(q, d) /\ CountFor(q, d) \in Nat
      BY <1>4, CountTypes DEF CountFor, SoundInv
    <3>4. \A d \in Port : CountFor(q, d)' \in Nat /\ CountFor(q, d) <= CountFor(q, d)'
      BY <3>3
    <3>5. arrived'[q] = arrived[q] /\ arrived[q] \in Nat
      BY <1>4, RingTypes
    <3>. QED
      BY <2>1, <3>1, <3>2, <3>4, <3>5, CountKeeps
  <2>. QED
    BY <2>2, <2>3
<1>. QED
  BY <1>4, <1>7, <1>10, <1>11, <1>12, <1>13, InsideStage

LEMMA UnlockKeeps ==
  ASSUME SoundInv, OrderInv, NEW p \in InPorts, NEW c \in Contexts,
         rx[Island(p)][c].port = p, Unlock(Island(p), c)
  PROVE  OrderInv'
<1> DEFINE next == Word(HeadOf(p) + 1)
           w == WordOf(p)[next]
<1>1. rx[Island(p)][c].pc = "inside"
  BY DEF Unlock
<1>2. /\ rx[Island(p)][c] = Held(p, c) /\ Busy(p, c) /\ Held(p, c).port = p /\ OneEach(p)
      /\ ReorderRingOf(p) = <<Island(p), get_ring_num(p)>> /\ ReorderRingOf(p) \in ReorderRings
      /\ \A q \in InPorts : q # p => ReorderRingOf(q) # ReorderRingOf(p)
      /\ Island(p) \in Islands /\ HeadOf(p) \in Nat
      /\ \A d \in Contexts : Held(p, d) \in Context
  BY <1>1, AtPort, RingTypes
<1>3. next \in 0 .. RingSize - 1
  BY <1>2, WordBound
<1>4. \A d \in Contexts : d = w => rx[Island(p)][d].pc = "waiting" /\ rx[Island(p)][d].port = p
  <2>1. ASSUME NEW d \in Contexts, d = w
        PROVE  rx[Island(p)][d].pc = "waiting" /\ rx[Island(p)][d].port = p
    <3>1. Awaits(ReorderRingOf(p), next, rx[ReorderRingOf(p)[1]][d])
      BY <2>1, <1>2, <1>3 DEF SoundInv, WordsAwaited, WordOf
    <3>2. rx[Island(p)][d].pc = "waiting" /\ ReorderRingOf(rx[Island(p)][d].port) = ReorderRingOf(p)
      BY <3>1, <1>2 DEF Awaits
    <3>3. rx[Island(p)][d].port \in InPorts
      BY <3>2, <1>2 DEF SoundInv, Sound
    <3>. QED
      BY <3>2, <3>3, RingsDiffer
  <2>. QED
    BY <2>1
<1>5. /\ head' = [head EXCEPT ![ReorderRingOf(p)] = @ + 1]
      /\ word' = [word EXCEPT ![ReorderRingOf(p)][next] = None]
      /\ rx' = [rx EXCEPT ![Island(p)] =
                  [d \in Contexts |-> IF d = c THEN Idle
                                      ELSE IF d = w THEN [rx[Island(p)][d] EXCEPT !.pc = "inside"]
                                      ELSE rx[Island(p)][d]]]
      /\ UNCHANGED <<arrived, count, overrun, met, ring, tx, tmVars>>
  BY <1>2 DEF Unlock, HeadOf, WordOf
<1> HIDE DEF next, w
<1>6. /\ rx'[Island(p)][c] = Idle
      /\ \A d \in Contexts : d # c /\ d = w => rx'[Island(p)][d] = [rx[Island(p)][d] EXCEPT !.pc = "inside"]
      /\ \A d \in Contexts : d # c /\ d # w => rx'[Island(p)][d] = rx[Island(p)][d]
      /\ \A i \in Islands : i # Island(p) => rx'[i] = rx[i]
  BY <1>2, <1>5 DEF SoundInv, TypeOK
<1>7. SoundInv' /\ \A d \in Contexts : rx[Island(p)][d] \in Context
  BY <1>2, UnlockTypes DEF SoundInv, TypeOK
<1>8. /\ Held(p, c)' = Idle
      /\ \A d \in Contexts : d # c /\ d = w => Held(p, d)' = [Held(p, d) EXCEPT !.pc = "inside"]
      /\ \A d \in Contexts : d # c /\ d # w => Held(p, d)' = Held(p, d)
  <2>1. ASSUME NEW d \in Contexts, d = w, d # c
        PROVE  Held(p, d)' = [Held(p, d) EXCEPT !.pc = "inside"]
    <3>1. rx'[Island(p)][d].port = p /\ rx[Island(p)][d].port = p
      BY <2>1, <1>4, <1>6, <1>7 DEF Context
    <3>. QED
      BY <3>1, <2>1, <1>6 DEF Held
  <2>2. Held(p, c)' = Idle
    BY <1>6 DEF Held
  <2>3. \A d \in Contexts : d # c /\ d # w => Held(p, d)' = Held(p, d)
    BY <1>6 DEF Held
  <2>. QED
    BY <2>1, <2>2, <2>3
<1>9. ASSUME NEW q \in InPorts, q # p, NEW d \in Contexts PROVE Held(q, d)' = Held(q, d)
  <2>1. CASE Island(q) # Island(p)
    BY <2>1, <1>6, PortFacts DEF Held
  <2>2. CASE Island(q) = Island(p) /\ d = c
    BY <2>2, <1>2, <1>6, <1>9 DEF Held
  <2>3. CASE Island(q) = Island(p) /\ d # c /\ d = w
    <3>1. rx'[Island(p)][d].port = p /\ rx[Island(p)][d].port = p
      BY <2>3, <1>4, <1>6, <1>7 DEF Context
    <3>. QED
      BY <3>1, <2>3, <1>9 DEF Held
  <2>4. CASE Island(q) = Island(p) /\ d # c /\ d # w
    BY <2>4, <1>6 DEF Held
  <2>. QED
    BY <2>1, <2>2, <2>3, <2>4
<1>10. Idle.pc = "idle"
  BY DEF Idle
<1>11. ASSUME NEW d \in Contexts, d # c, d = w
      PROVE  /\ Held(p, d)'.pc = "inside" /\ Held(p, d)'.seq = Held(p, d).seq
             /\ Held(p, d)'.targets = Held(p, d).targets /\ Held(p, d).pc = "waiting"
  <2>1. Held(p, d).pc = "waiting" /\ Held(p, d) \in Context
    BY <1>2, <1>4, <1>11 DEF Held
  <2>. QED
    BY <2>1, <1>8, <1>11 DEF Context
<1>12. /\ \A q \in InPorts : q # p => SameRing(q)
       /\ HeadOf(p)' = HeadOf(p) + 1
       /\ WordOf(p)' = [WordOf(p) EXCEPT ![next] = None]
       /\ Remembers
  BY <1>2, <1>5 DEF SameRing, HeadOf, WordOf, SoundInv, TypeOK, Remembers
<1>13. OneEach(p)'
  BY <1>2, <1>5, <1>8, <1>10, <1>11, EachKeeps DEF Busy
<1>14. ASSUME p \notin overrun' PROVE RingInOrder(p)'
  <2>1. RingInOrder(p)
    BY <1>5, <1>14 DEF OrderInv
  <2>. QED
    BY <2>1, <1>1, <1>2, <1>5, <1>8, <1>10, <1>12, RingUnlocks DEF next, w
<1>15. ASSUME NEW i \in Islands, i \notin met' PROVE Apart(i)'
  <2>1. Apart(i)
    BY <1>5, <1>15 DEF OrderInv
  <2>2. ASSUME NEW d \in Contexts, rx'[i][d].pc = "counting" PROVE rx'[i][d] = rx[i][d]
    <3>1. CASE i = Island(p) /\ d # c /\ d = w
      BY <3>1, <2>2, <1>6, <1>7 DEF Context
    <3>2. CASE ~(i = Island(p) /\ d # c /\ d = w)
      BY <3>2, <2>2, <1>6, <1>10
    <3>. QED
      BY <3>1, <3>2
  <2>. QED
    BY <2>1, <2>2, ApartKeeps
<1>16. \A q \in InPorts : Orderly(Island(q))' => NumbersInOrder(q)'
  <2>1. Moves(p, c)
    BY <1>8, <1>10 DEF Moves, Busy
  <2>2. ASSUME NEW d \in Contexts, d # c, d = w PROVE Moves(p, d)
    BY <2>2, <1>11 DEF Moves, Busy, Locked
  <2>3. ASSUME NEW d \in Contexts, d # c, d # w PROVE Moves(p, d)
    BY <2>3, <1>5, <1>8 DEF Moves, CountFor
  <2>4. \A d \in Contexts : Moves(p, d)
    BY <2>1, <2>2, <2>3
  <2>5. \A q \in InPorts : arrived[q] <= arrived'[q]
    BY <1>5, RingTypes
  <2>. QED
    BY <2>4, <2>5, <1>5, <1>7, <1>9, <1>12, NumbersKeep
<1>. QED
  BY <1>5, <1>9, <1>12, <1>13, <1>14, <1>15, <1>16, StepAt

-----------------------------------------------------------------------------
(* The steps of the senders and of the traffic manager.                    *)

LEMMA SenderKeeps ==
  ASSUME SoundInv, OrderInv, UNCHANGED rxVars, Queued' \subseteq Queued, LeftInOrder'
  PROVE  OrderInv'
<1>1. /\ UNCHANGED <<arrived, rx, count, overrun, met>>
      /\ \A q \in InPorts : SameRing(q)
      /\ \A q \in InPorts, d \in Contexts : Held(q, d)' = Held(q, d)
  BY DEF rxVars, SameRing, HeadOf, WordOf, Held
<1>2. \A q \in InPorts : OneEach(q)'
  BY <1>1 DEF OrderInv, OneEach, Busy
<1>3. ASSUME NEW q \in InPorts \ overrun' PROVE RingInOrder(q)'
  BY <1>1, <1>3, SameRegisters, RingKeeps DEF OrderInv
<1>4. ASSUME NEW i \in Islands \ met' PROVE Apart(i)'
  BY <1>1, <1>4, ApartKeeps DEF OrderInv
<1>5. ASSUME NEW q \in InPorts, Orderly(Island(q))' PROVE NumbersInOrder(q)'
  <2>1. Orderly(Island(q))
    BY <1>1, <1>5 DEF Orderly
  <2>2. OneEach(q) /\ NumbersInOrder(q)
    BY <2>1, OrderlyPort
  <2>3. \A t \in Port : CountFor(q, t)' = CountFor(q, t) /\ CountFor(q, t) \in Nat
    BY <1>1, CountTypes DEF CountFor, SoundInv
  <2>4. \A t \in Port : CountFor(q, t)' \in Nat /\ CountFor(q, t) <= CountFor(q, t)'
    BY <2>3
  <2>5. \A d \in Contexts : Moves(q, d)
    BY <1>1 DEF Moves, CountFor
  <2>6. arrived'[q] = arrived[q] /\ arrived[q] \in Nat
    BY <1>1, RingTypes
  <2>. QED
    BY <2>2, <2>4, <2>5, <2>6, CountKeeps
<1>. QED
  BY <1>2, <1>3, <1>4, <1>5 DEF OrderInv

LEMMA GetKeeps ==
  ASSUME SoundInv, OrderInv, NEW q \in OutPorts, NEW t \in Threads, Get(q, t)
  PROVE  OrderInv'
<1> DEFINE e == <<Island(q), ForwardRing[q]>>
<1>1. e \in EgressRings
  BY ForwardAssumption DEF EgressRings
<1>2. /\ ring[e] \in Seq(Descriptor) /\ ring[e] # <<>>
      /\ tx' = [tx EXCEPT ![q][t] = Head(ring[e])]
      /\ ring' = [ring EXCEPT ![e] = Tail(ring[e])]
      /\ UNCHANGED <<rxVars, tmVars>>
  BY <1>1 DEF Get, SoundInv, TypeOK
<1> HIDE DEF e
<1>3. /\ Head(ring[e]) = ring[e][1] /\ 1 \in DOMAIN ring[e] /\ ring[e][1] \in Descriptor
      /\ Tail(ring[e]) \in Seq(Descriptor)
      /\ \A k \in DOMAIN Tail(ring[e]) : k + 1 \in DOMAIN ring[e] /\ Tail(ring[e])[k] = ring[e][k + 1]
  BY <1>2
<1>5. Queued' \subseteq Queued
  <2>1. \A f \in EgressRings : \A k \in DOMAIN ring'[f] : \E j \in DOMAIN ring[f] : ring'[f][k] = ring[f][j]
    BY <1>1, <1>2, <1>3 DEF SoundInv, TypeOK
  <2>2. \A r \in OutPorts, u \in Threads : tx'[r][u] = tx[r][u] \/ tx'[r][u] = ring[e][1]
    BY <1>2, <1>3 DEF SoundInv, TypeOK
  <2>. SUFFICES ASSUME NEW d \in Queued' PROVE d \in Queued
    OBVIOUS
  <2>3. CASE \E f \in EgressRings : \E k \in DOMAIN ring'[f] : d = ring'[f][k]
    BY <2>1, <2>3 DEF Queued
  <2>4. CASE d # None /\ \E r \in OutPorts : \E u \in Threads : d = tx'[r][u]
    BY <2>2, <2>4, <1>1, <1>3 DEF Queued
  <2>5. CASE \/ \E s \in Sequencers : d \in tm[s]
             \/ \E r \in OutPorts : \E k \in DOMAIN left[r] : d = left[r][k]
    BY <2>5 DEF Queued
  <2>. QED
    BY <2>3, <2>4, <2>5, <1>2 DEF Queued, tmVars
<1>. QED
  BY <1>2, <1>5, SameLeft, SenderKeeps DEF OrderInv

LEMMA SendKeeps ==
  ASSUME SoundInv, OrderInv, NEW q \in OutPorts, NEW t \in Threads, Send(q, t)
  PROVE  OrderInv'
<1> DEFINE d == tx[q][t]
           s == SequencerOf(d)
<1>1. /\ d \in Descriptor /\ d # None
      /\ tm' = [tm EXCEPT ![s] = @ \cup {d}]
      /\ tx' = [tx EXCEPT ![q][t] = None]
      /\ UNCHANGED <<rxVars, ring, due, left>>
  BY DEF Send, SoundInv, TypeOK, SequencerOf
<1>2. d \in Queued
  BY <1>1 DEF Queued
<1> HIDE DEF d
<1>4. /\ \A r \in Sequencers : tm'[r] \subseteq tm[r] \cup (IF r = s THEN {d} ELSE {})
      /\ \A r \in OutPorts, u \in Threads : tx'[r][u] = tx[r][u] \/ tx'[r][u] = None
  BY <1>1 DEF SoundInv, TypeOK
<1>5. Queued' \subseteq Queued
  <2>. SUFFICES ASSUME NEW x \in Queued' PROVE x \in Queued
    OBVIOUS
  <2>1. CASE x # None /\ \E r \in OutPorts : \E u \in Threads : x = tx'[r][u]
    BY <2>1, <1>4 DEF Queued
  <2>2. CASE \E r \in Sequencers : x \in tm'[r]
    <3>1. x = d \/ \E r \in Sequencers : x \in tm[r]
      BY <2>2, <1>4
    <3>. QED
      BY <3>1, <1>2 DEF Queued
  <2>3. CASE \/ \E f \in EgressRings : \E k \in DOMAIN ring[f] : x = ring[f][k]
             \/ \E r \in OutPorts : \E k \in DOMAIN left[r] : x = left[r][k]
    BY <2>3 DEF Queued
  <2>. QED
    BY <2>1, <2>2, <2>3, <1>1 DEF Queued
<1>6. LeftInOrder'
  <2>1. \A r \in Sequencers : \A x \in tm'[r] : r = SequencerOf(x)
    BY <1>4 DEF OrderInv, LeftInOrder
  <2>. QED
    BY <2>1, <1>1 DEF OrderInv, LeftInOrder, SequencerOf
<1>. QED
  BY <1>1, <1>5, <1>6, SenderKeeps

LEMMA DepartKeeps ==
  ASSUME SoundInv, OrderInv, NEW s \in Sequencers, Depart(s)
  PROVE  OrderInv'
<1>1. PICK d \in tm[s] :
        /\ d.num = due[s]
        /\ tm' = [tm EXCEPT ![s] = @ \ {d}]
        /\ left' = [left EXCEPT ![d.out_port] = Append(@, d)]
  BY DEF Depart
<1>2. /\ due' = [due EXCEPT ![s] = @ + 1] /\ UNCHANGED <<rxVars, ring, tx>>
      /\ d \in Descriptor /\ d \in Queued /\ s = SequencerOf(d) /\ due[s] \in Nat
  <2>1. due' = [due EXCEPT ![s] = @ + 1] /\ UNCHANGED <<rxVars, ring, tx>>
    BY DEF Depart
  <2>2. d \in Descriptor /\ due[s] \in Nat
    BY <1>1 DEF SoundInv, TypeOK
  <2>3. d \in Queued
    BY <1>1 DEF Queued
  <2>4. s = SequencerOf(d)
    BY <1>1 DEF OrderInv, LeftInOrder
  <2>. QED
    BY <2>1, <2>2, <2>3, <2>4
<1>3. /\ \A q \in OutPorts : left[q] \in Seq(Descriptor)
      /\ \A q \in OutPorts : q # d.out_port => left'[q] = left[q]
      /\ \A q \in OutPorts : q = d.out_port => left'[q] = Append(left[q], d)
      /\ \A r \in Sequencers : tm'[r] \subseteq tm[r] /\ tm'[r] \subseteq Descriptor
  BY <1>1 DEF SoundInv, TypeOK
<1>4. ASSUME NEW q \in OutPorts, NEW k \in DOMAIN left'[q]
      PROVE  \/ k \in DOMAIN left[q] /\ left'[q][k] = left[q][k]
             \/ /\ q = d.out_port /\ left'[q][k] = d
                /\ \A j \in DOMAIN left'[q] : j < k => j \in DOMAIN left[q] /\ left'[q][j] = left[q][j]
  <2>1. CASE q # d.out_port
    BY <2>1, <1>3, <1>4
  <2>2. CASE q = d.out_port
    <3>1. left'[q] = Append(left[q], d) /\ left[q] \in Seq(Descriptor)
      BY <2>2, <1>3
    <3>2. /\ DOMAIN left'[q] = DOMAIN left[q] \cup {Len(left[q]) + 1}
          /\ DOMAIN left[q] = 1 .. Len(left[q]) /\ Len(left[q]) \in Nat
          /\ left'[q][Len(left[q]) + 1] = d
          /\ \A j \in DOMAIN left[q] : left'[q][j] = left[q][j]
      BY <3>1
    <3>3. CASE k = Len(left[q]) + 1
      BY <3>2, <3>3, <2>2, <1>4
    <3>. QED
      BY <3>2, <3>3, <1>4
  <2>. QED
    BY <2>1, <2>2
<1>6. Queued' \subseteq Queued
  <2>. SUFFICES ASSUME NEW x \in Queued' PROVE x \in Queued
    OBVIOUS
  <2>1. CASE \E r \in OutPorts : \E k \in DOMAIN left'[r] : x = left'[r][k]
    <3>1. x = d \/ \E r \in OutPorts : \E k \in DOMAIN left[r] : x = left[r][k]
      BY <2>1, <1>4
    <3>. QED
      BY <3>1, <1>2 DEF Queued
  <2>2. CASE \E r \in Sequencers : x \in tm'[r]
    BY <2>2, <1>3 DEF Queued
  <2>3. CASE \/ \E f \in EgressRings : \E k \in DOMAIN ring[f] : x = ring[f][k]
             \/ x # None /\ \E r \in OutPorts : \E u \in Threads : x = tx[r][u]
    BY <2>3 DEF Queued
  <2>. QED
    BY <2>1, <2>2, <2>3, <1>2 DEF Queued
<1>7. \A r \in Sequencers : due'[r] \in Nat /\ due[r] \in Nat /\ due'[r] >= due[r] /\ (r = s => due'[r] = due[r] + 1)
  BY <1>2 DEF SoundInv, TypeOK
<1>8. ASSUME NEW q \in OutPorts, NEW k \in DOMAIN left'[q]
      PROVE  /\ left'[q][k].out_port = q
             /\ SequencerOf(left'[q][k]) \in Sequencers
             /\ left'[q][k].num < due'[SequencerOf(left'[q][k])]
             /\ \A j \in DOMAIN left'[q] :
                  j < k /\ left'[q][j].port = left'[q][k].port => left'[q][j].num < left'[q][k].num
  <2>1. \A j \in DOMAIN left[q] :
          /\ left[q][j].out_port = q /\ SequencerOf(left[q][j]) \in Sequencers
          /\ left[q][j].num < due[SequencerOf(left[q][j])]
          /\ left[q][j].num \in Nat
          /\ \A i \in DOMAIN left[q] :
               i < j /\ left[q][i].port = left[q][j].port => left[q][i].num < left[q][j].num
    <3>1. \A j \in DOMAIN left[q] : left[q][j] \in Descriptor
      BY <1>3
    <3>2. \A j \in DOMAIN left[q] : left[q][j].num \in Nat
      BY <3>1 DEF Descriptor
    <3>. QED
      BY <3>2 DEF OrderInv, LeftInOrder
  <2>2. CASE k \in DOMAIN left[q] /\ left'[q][k] = left[q][k]
    <3>1. \A j \in DOMAIN left'[q] : j < k => j \in DOMAIN left[q] /\ left'[q][j] = left[q][j]
      <4>1. CASE q # d.out_port
        BY <4>1, <1>3
      <4>2. CASE q = d.out_port
        <5>1. left'[q] = Append(left[q], d) /\ left[q] \in Seq(Descriptor)
          BY <4>2, <1>3
        <5>. QED
          BY <5>1, <2>2
      <4>. QED
        BY <4>1, <4>2
    <3>2. left'[q][k].num < due'[SequencerOf(left'[q][k])]
      BY <2>1, <2>2, <1>7
    <3>. QED
      BY <2>1, <2>2, <3>1, <3>2
  <2>3. CASE /\ q = d.out_port /\ left'[q][k] = d
             /\ \A j \in DOMAIN left'[q] : j < k => j \in DOMAIN left[q] /\ left'[q][j] = left[q][j]
    <3>1. ASSUME NEW j \in DOMAIN left'[q], j < k, left'[q][j].port = d.port
          PROVE  left'[q][j].num < d.num
      <4>1. j \in DOMAIN left[q] /\ left'[q][j] = left[q][j]
        BY <2>3, <3>1
      <4>2. SequencerOf(left[q][j]) = s
        BY <4>1, <2>1, <2>3, <3>1, <1>2 DEF SequencerOf
      <4>. QED
        BY <4>1, <4>2, <2>1, <1>1
    <3>2. d.num < due'[s]
      BY <1>1, <1>2, <1>7
    <3>. QED
      BY <2>3, <3>1, <3>2, <1>2
  <2>. QED
    BY <2>2, <2>3, <1>4
<1>9. LeftInOrder'
  <2>1. \A r \in Sequencers : \A x \in tm'[r] : r = SequencerOf(x)
    BY <1>3 DEF OrderInv, LeftInOrder
  <2>. QED
    BY <2>1, <1>8 DEF LeftInOrder, SequencerOf
<1>. QED
  BY <1>2, <1>6, <1>9, SenderKeeps

-----------------------------------------------------------------------------
(* All steps.                                                              *)

LEMMA InitOrderInv == Init => OrderInv
<1>. SUFFICES ASSUME Init PROVE OrderInv
  OBVIOUS
<1>1. SoundInv
  BY InitTypes
<1>2. Idle.pc = "idle"
  BY DEF Idle
<1>3. \A p \in InPorts, c \in Contexts : Held(p, c) = Idle
  BY PortFacts DEF Init, Held
<1>4. \A p \in InPorts : /\ arrived[p] = 0 /\ HeadOf(p) = 0
                         /\ WordOf(p) = [w \in 0 .. RingSize - 1 |-> None]
  BY PortFacts DEF Init, HeadOf, WordOf
<1>5. ASSUME NEW p \in InPorts PROVE OneEach(p) /\ RingInOrder(p)
  <2>1. \A c \in Contexts : Held(p, c).pc = "idle" /\ ~Busy(p, c) /\ ~Locked(p, c)
    BY <1>2, <1>3 DEF Busy, Locked
  <2>2. OneEach(p) /\ HeadLocked(p)
    BY <2>1 DEF OneEach, HeadLocked
  <2>3. InWindow(p)
    BY <2>1, <1>1, <1>4, RingTypes DEF InWindow
  <2>4. SignalsMatch(p)
    BY <2>1, <1>4 DEF SignalsMatch
  <2>. QED
    BY <2>2, <2>3, <2>4 DEF RingInOrder
<1>6. \A i \in Islands : Apart(i)
  BY <1>2 DEF Init, Apart, Counting
<1>7. Queued = {}
  BY DEF Queued, Init
<1>8. \A p \in InPorts : NumbersInOrder(p)
  BY <1>2, <1>3, <1>7 DEF NumberHeld, NumbersInOrder
<1>9. LeftInOrder
  BY DEF LeftInOrder, Init
<1>. QED
  BY <1>5, <1>6, <1>8, <1>9 DEF OrderInv

LEMMA ReceiverKeeps ==
  ASSUME SoundInv, OrderInv, NEW i \in Islands, NEW c \in Contexts, ReceiverStep(i, c)
  PROVE  OrderInv'
<1>1. rx[i][c].pc # "idle"
  BY DEF ReceiverStep, Examine, Lock, ReadCount, WriteCount, Queue, Unlock
<1>2. PICK p \in InPorts : p = rx[i][c].port /\ i = Island(p)
  BY <1>1 DEF SoundInv, Sound
<1>. QED
  BY <1>2, ExamineKeeps, LockKeeps, ReadCountKeeps, WriteCountKeeps, QueueKeeps, UnlockKeeps
     DEF ReceiverStep

LEMMA NextOrderInv == SoundInv /\ OrderInv /\ [Next]_vars => OrderInv'
<1>. SUFFICES ASSUME SoundInv, OrderInv, [Next]_vars PROVE OrderInv'
  OBVIOUS
<1>1. ASSUME UNCHANGED <<rxVars, ring, tx, tmVars>> PROVE OrderInv'
  BY <1>1, SameQueued, SameLeft, SenderKeeps DEF OrderInv
<1>2. CASE UNCHANGED vars
  BY <1>1, <1>2 DEF vars
<1>3. ASSUME NEW p \in InPorts, NEW c \in Contexts, Receive(p, c) PROVE OrderInv'
  BY <1>3, ReceiveKeeps
<1>4. ASSUME NEW i \in Islands, NEW c \in Contexts, ReceiverStep(i, c) PROVE OrderInv'
  BY <1>4, ReceiverKeeps
<1>5. ASSUME NEW q \in OutPorts, NEW t \in Threads, Get(q, t) \/ Send(q, t)
      PROVE  OrderInv'
  BY <1>5, GetKeeps, SendKeeps
<1>6. ASSUME NEW q \in Port, EntlStep(q) PROVE OrderInv'
  BY <1>1, <1>6 DEF EntlStep, Wake, ReadEvent, PickBuffer, Answer
<1>7. ASSUME NEW s \in Sequencers, Depart(s) PROVE OrderInv'
  BY <1>7, DepartKeeps
<1>. QED
  BY <1>2, <1>3, <1>4, <1>5, <1>6, <1>7 DEF Next

LEMMA OrderAlways == Spec => [](SoundInv /\ OrderInv)
<1>1. SoundInv /\ OrderInv /\ [Next]_vars => (SoundInv /\ OrderInv)'
  BY NextTypes, NextOrderInv
<1>. QED
  BY InitTypes, InitOrderInv, <1>1, PTL DEF Spec

\* Packets are read one by one, every ring that was not overrun is in order,
\* and on an orderly island every number is where it should be.
THEOREM ForwardingInvariance == Spec => [](TypeOK /\ OrderInv)
<1>1. SoundInv /\ OrderInv => TypeOK /\ OrderInv
  BY DEF SoundInv
<1>. QED
  BY OrderAlways, <1>1, PTL

\* The packets of one port leave on any other in the order the NBI delivered
\* them, each of them once, whatever the pace of contexts and threads.
THEOREM PacketsLeaveInOrder == Spec => []LeaveInOrder
<1>1. SoundInv /\ OrderInv => LeaveInOrder
  <2>. SUFFICES ASSUME SoundInv, OrderInv, NEW q \in OutPorts,
                       NEW j \in DOMAIN left[q], NEW k \in DOMAIN left[q],
                       j < k, left[q][j].port = left[q][k].port,
                       Orderly(Island(left[q][j].port))
       PROVE  left[q][j].seq < left[q][k].seq
    BY DEF LeaveInOrder
  <2> DEFINE d == left[q][j]
             e == left[q][k]
  <2>1. d \in Queued /\ e \in Queued
    BY DEF Queued
  <2>2. d.port = e.port /\ d.out_port = e.out_port /\ d.num < e.num
    BY DEF OrderInv, LeftInOrder
  <2>3. /\ d.num \in Nat /\ e.num \in Nat /\ d.seq \in Nat /\ e.seq \in Nat
        /\ d.port \in InPorts
    BY <2>1, DescriptorFacts DEF SoundInv
  <2>4. NumbersFollow(d, e)
    BY <2>1, <2>3, OrderlyPort DEF NumbersInOrder
  <2> HIDE DEF d, e
  <2>5. d.seq < e.seq
    BY <2>2, <2>3, <2>4 DEF NumbersFollow
  <2>. QED
    BY <2>5 DEF d, e
<1>. QED
  BY <1>1, OrderAlways, PTL

\* No sequencer is given one number for two packets that were counted in one
\* word, though get_sequence_num reads and writes it in two instructions.
THEOREM NumbersAreUnique == Spec => []NumbersUnique
<1>1. SoundInv /\ OrderInv => NumbersUnique
  <2>. SUFFICES ASSUME SoundInv, OrderInv, NEW s \in Sequencers,
                       NEW d \in Numbered(s), NEW e \in Numbered(s), d.num = e.num,
                       SequenceWord(d.out_port) = SequenceWord(e.out_port),
                       Orderly(Island(d.port))
       PROVE  d = e
    BY DEF NumbersUnique
  <2>1. d \in Queued /\ e \in Queued /\ s = SequencerOf(d) /\ s = SequencerOf(e)
    BY DEF Numbered, Queued, OrderInv, LeftInOrder, SequencerOf
  <2>2. d.port \in InPorts /\ e.port \in InPorts
    BY <2>1, DescriptorFacts DEF SoundInv
  <2>3. NumbersFollow(d, e)
    BY <2>1, <2>2, OrderlyPort DEF NumbersInOrder
  <2>4. d.port = e.port
    <3>1. d.port \in 0 .. 7 /\ e.port \in 0 .. 7
      BY <2>2, ForwardAssumption DEF Port
    <3>2. d.port + 1 = e.port + 1
      BY <2>1 DEF get_sequencer, SequencerOf
    <3>. QED
      BY <3>1, <3>2
  <2>. QED
    BY <2>3, <2>4 DEF NumbersFollow
<1>. QED
  BY <1>1, OrderAlways, PTL

\* No two contexts that serve one port are between the read and the write of
\* one count, unless the port had more packets under way than words.
THEOREM RegionIsMutexed == Spec => []MutexedRegion
<1>1. SoundInv /\ OrderInv => MutexedRegion
  <2>. SUFFICES ASSUME SoundInv, OrderInv, NEW i \in Islands, NEW c \in Contexts, NEW d \in Contexts,
                       c # d, rx[i][c].pc = "counting", rx[i][d].pc = "counting",
                       rx[i][c].port = rx[i][d].port, rx[i][c].port \notin overrun
       PROVE  FALSE
    BY DEF MutexedRegion, Counting
  <2>1. PICK p \in InPorts : p = rx[i][c].port /\ i = Island(p)
    BY DEF SoundInv, Sound
  <2>2. Locked(p, c) /\ Locked(p, d) /\ Busy(p, d)
    BY <2>1 DEF Locked, Busy, Held
  <2>. QED
    BY <2>1, <2>2, LockedAlone DEF OrderInv
<1>. QED
  BY <1>1, OrderAlways, PTL

-----------------------------------------------------------------------------
(* Events.  An answer frees a buffer that the registers of context 0 named *)
(* when they were read the second time; a packet is written into them by   *)
(* the one context that holds it, once.                                    *)

LEMMA StampFacts ==
  /\ \A p \in InPorts, n \in Nat : <<p, n>> # None /\ <<p, n>> \in Stamp
  /\ \A b \in Stamp \ {None} : b = <<b[1], b[2]>> /\ b[1] \in InPorts /\ b[2] \in Nat
<1>1. None \notin InPorts \X Nat
  BY ForwardAssumption
<1>. QED
  BY <1>1 DEF Stamp

LEMMA EntlTypes ==
  ASSUME EventTypes, NEW q \in Port
  PROVE  /\ reflected[q].packet \in Stamp /\ reflected[q].owned \in BOOLEAN
         /\ reflected[q].signal \in BOOLEAN
         /\ reflected[q] \in [packet : Stamp, owned : BOOLEAN, signal : BOOLEAN]
         /\ entl[q] \in [pc : {"wait", "woken", "received", "ready"},
                         packet : Stamp, buffer : Stamp, overtaken : BOOLEAN]
         /\ answers[q] \in Seq([packet : Stamp, buffer : Stamp, overtaken : BOOLEAN])
BY DEF EventTypes

LEMMA Entries ==
  ASSUME NEW S, NEW s \in Seq(S)
  PROVE  \A k \in DOMAIN s : s[k] \in S
OBVIOUS

LEMMA KnownTypes ==
  ASSUME EventTypes, NEW q \in Port
  PROVE  Known(q) \subseteq Stamp
<1>1. \A k \in DOMAIN answers[q] : answers[q][k].buffer \in Stamp
  <2>1. answers[q] \in Seq([packet : Stamp, buffer : Stamp, overtaken : BOOLEAN])
    BY EntlTypes
  <2>2. \A k \in DOMAIN answers[q] :
          answers[q][k] \in [packet : Stamp, buffer : Stamp, overtaken : BOOLEAN]
    BY <2>1, Entries
  <2>. QED
    BY <2>2
<1>2. reflected[q].packet \in Stamp /\ entl[q].buffer \in Stamp
  BY EntlTypes
<1>. QED
  BY <1>1, <1>2 DEF Known

\* A context reads a new packet, or keeps one that it still has to examine.
Arriving ==
  /\ \A p \in InPorts : arrived[p] <= arrived'[p] /\ arrived'[p] \in Nat
  /\ \A p \in InPorts, c \in Contexts : Held(p, c)'.pc = "received" =>
       Held(p, c)' = Held(p, c) \/ Held(p, c)'.seq = arrived[p]

LEMMA StillNew ==
  ASSUME SoundInv, EventTypes, NEW q \in Port, EventsNew(q), Arriving,
         Known(q)' \subseteq Known(q) \cup {None}
  PROVE  EventsNew(q)'
<1>1. ASSUME NEW b \in Known(q)' \ {None} PROVE b[2] < arrived'[b[1]]
  <2>1. b \in Known(q) /\ b \in Stamp \ {None} /\ b[2] < arrived[b[1]]
    BY <1>1, KnownTypes DEF EventsNew
  <2>2. b[1] \in InPorts /\ b[2] \in Nat
    BY <2>1, StampFacts
  <2>3. arrived[b[1]] <= arrived'[b[1]] /\ arrived'[b[1]] \in Nat /\ arrived[b[1]] \in Nat
    BY <2>2, RingTypes DEF Arriving
  <2>. QED
    BY <2>1, <2>2, <2>3
<1>2. ASSUME NEW p \in InPorts, NEW c \in Contexts, Held(p, c)'.pc = "received",
             <<p, Held(p, c)'.seq>> \in Known(q)'
      PROVE  FALSE
  <2>1. CASE Held(p, c)' = Held(p, c)
    <3>1. <<p, Held(p, c).seq>> # None
      BY RingTypes, StampFacts DEF Context
    <3>. QED
      BY <2>1, <3>1, <1>2 DEF EventsNew
  <2>2. CASE Held(p, c)'.seq = arrived[p]
    <3>1. arrived[p] \in Nat /\ <<p, arrived[p]>> # None
      BY RingTypes, StampFacts
    <3>2. <<p, arrived[p]>> \in Known(q) \ {None}
      BY <2>2, <3>1, <1>2
    <3>3. arrived[p] < arrived[p]
      BY <3>2 DEF EventsNew
    <3>. QED
      BY <3>1, <3>3
  <2>. QED
    BY <2>1, <2>2, <1>2 DEF Arriving
<1>. QED
  BY <1>1, <1>2 DEF EventsNew

\* A step that leaves the registers, context 0 and its answers alone.
LEMMA EventsKeep ==
  ASSUME SoundInv, EventInv, Arriving, UNCHANGED entlVars
  PROVE  EventInv'
<1>1. EventTypes' /\ BufferFreedOnce'
  BY DEF EventInv, entlVars, EventTypes, BufferFreedOnce
<1>2. ASSUME NEW q \in Port PROVE EventsNew(q)' /\ EventStages(q)'
  <2>1. Known(q)' = Known(q)
    BY DEF Known, entlVars
  <2>2. EventStages(q)'
    BY DEF EventInv, EventStages, entlVars
  <2>. QED
    BY <2>1, <2>2, StillNew DEF EventInv
<1>. QED
  BY <1>1, <1>2 DEF EventInv

\* A step of context 0 of one port's sender.
LEMMA OneSender ==
  ASSUME SoundInv, EventInv, Arriving, NEW q \in Port, EventTypes', BufferFreedOnce',
         \A r \in Port : r # q => /\ reflected'[r] = reflected[r] /\ entl'[r] = entl[r]
                                  /\ answers'[r] = answers[r],
         EventsNew(q)', EventStages(q)'
  PROVE  EventInv'
<1>1. ASSUME NEW r \in Port, r # q PROVE EventsNew(r)' /\ EventStages(r)'
  <2>1. Known(r)' = Known(r)
    BY <1>1 DEF Known
  <2>2. EventStages(r)'
    BY <1>1 DEF EventInv, EventStages
  <2>. QED
    BY <2>1, <2>2, StillNew DEF EventInv
<1>. QED
  BY <1>1 DEF EventInv

LEMMA NothingArrives ==
  ASSUME SoundInv, UNCHANGED rxVars
  PROVE  Arriving
<1>1. \A p \in InPorts : arrived[p] \in Nat
  BY RingTypes
<1>. QED
  BY <1>1 DEF Arriving, rxVars, Held

LEMMA ReceiveNew ==
  ASSUME SoundInv, NEW p \in InPorts, NEW c \in Contexts, Receive(p, c)
  PROVE  Arriving
<1> DEFINE v == [Idle EXCEPT !.pc = "received", !.port = p, !.seq = arrived[p]]
<1>1. /\ rx' = [rx EXCEPT ![Island(p)][c] = v] /\ arrived' = [arrived EXCEPT ![p] = @ + 1]
      /\ rx[Island(p)][c].pc = "idle"
  BY DEF Receive
<1>2. v.port = p /\ v.seq = arrived[p]
  BY DEF Idle
<1> HIDE DEF v
<1>3. rx[Island(p)][c] = Idle
  BY <1>1, PortFacts DEF SoundInv, Sound
<1>4. Held(p, c)' = v /\ Elsewhere(p, c)
  <2>1. rx' = [rx EXCEPT ![Island(p)][c] = v]
    BY <1>1
  <2>2. v.port = p \/ v = Idle
    BY <1>2
  <2>. QED
    BY <2>1, <2>2, <1>3, RxStep
<1>5. ASSUME NEW q \in InPorts PROVE arrived[q] <= arrived'[q] /\ arrived'[q] \in Nat
  <2>1. arrived[q] \in Nat /\ (arrived'[q] = arrived[q] \/ arrived'[q] = arrived[q] + 1)
    BY <1>1, RingTypes DEF SoundInv, TypeOK
  <2>. QED
    BY <2>1
<1>. QED
  BY <1>2, <1>4, <1>5 DEF Arriving, Elsewhere

\* Every other step of a receiver context takes its packet further.
LEMMA MovesOn ==
  ASSUME SoundInv, arrived' = arrived,
         \A i \in Islands, c \in Contexts :
           rx'[i][c].pc = "received" => rx'[i][c] = rx[i][c]
  PROVE  Arriving
<1>1. \A p \in InPorts : arrived[p] \in Nat /\ Island(p) \in Islands
  BY RingTypes, PortFacts
<1>2. Idle.pc = "idle"
  BY DEF Idle
<1>. QED
  BY <1>1, <1>2 DEF Arriving, Held

LEMMA OneMovesOn ==
  ASSUME SoundInv, arrived' = arrived, NEW i \in Islands, NEW c \in Contexts, NEW v,
         rx' = [rx EXCEPT ![i][c] = v], v.pc # "received"
  PROVE  Arriving
<1>1. \A j \in Islands, d \in Contexts :
        rx'[j][d].pc = "received" => rx'[j][d] = rx[j][d]
  BY DEF SoundInv, TypeOK
<1>. QED
  BY <1>1, MovesOn

LEMMA ReceiverNew ==
  ASSUME SoundInv, NEW i \in Islands, NEW c \in Contexts,
         \/ Lock(i, c) \/ ReadCount(i, c) \/ WriteCount(i, c) \/ Queue(i, c) \/ Unlock(i, c)
  PROVE  Arriving /\ UNCHANGED entlVars
<1> DEFINE r == rx[i][c]
<1>1. r \in Context
  BY DEF SoundInv, TypeOK
<1>2. CASE Lock(i, c)
  <2>1. rx' = [rx EXCEPT ![i][c] = [r EXCEPT !.pc = "inside"]]
        \/ rx' = [rx EXCEPT ![i][c] = [r EXCEPT !.pc = "waiting"]]
    BY <1>2 DEF Lock
  <2>2. [r EXCEPT !.pc = "inside"].pc # "received" /\ [r EXCEPT !.pc = "waiting"].pc # "received"
    BY <1>1 DEF Context
  <2>3. arrived' = arrived /\ UNCHANGED entlVars
    BY <1>2 DEF Lock
  <2> HIDE DEF r
  <2>. QED
    BY <2>1, <2>2, <2>3, OneMovesOn
<1>3. CASE ReadCount(i, c)
  <2>1. PICK n : rx' = [rx EXCEPT ![i][c] = [r EXCEPT !.pc = "counting", !.num = n]]
    BY <1>3 DEF ReadCount
  <2>2. [r EXCEPT !.pc = "counting", !.num = n].pc # "received"
    BY <1>1 DEF Context
  <2>3. arrived' = arrived /\ UNCHANGED entlVars
    BY <1>3 DEF ReadCount
  <2> HIDE DEF r
  <2>. QED
    BY <2>1, <2>2, <2>3, OneMovesOn
<1>4. CASE WriteCount(i, c)
  <2>1. rx' = [rx EXCEPT ![i][c] = [r EXCEPT !.pc = "numbered"]]
    BY <1>4 DEF WriteCount
  <2>2. [r EXCEPT !.pc = "numbered"].pc # "received"
    BY <1>1 DEF Context
  <2>3. arrived' = arrived /\ UNCHANGED entlVars
    BY <1>4 DEF WriteCount
  <2> HIDE DEF r
  <2>. QED
    BY <2>1, <2>2, <2>3, OneMovesOn
<1>5. CASE Queue(i, c)
  <2>1. PICK T : rx' = [rx EXCEPT ![i][c] = [r EXCEPT !.pc = "inside", !.targets = T, !.sent = TRUE, !.num = 0]]
    BY <1>5 DEF Queue
  <2>2. [r EXCEPT !.pc = "inside", !.targets = T, !.sent = TRUE, !.num = 0].pc # "received"
    BY <1>1 DEF Context
  <2>3. arrived' = arrived /\ UNCHANGED entlVars
    BY <1>5 DEF Queue
  <2> HIDE DEF r
  <2>. QED
    BY <2>1, <2>2, <2>3, OneMovesOn
<1>6. CASE Unlock(i, c)
  <2>1. arrived' = arrived /\ UNCHANGED entlVars
    BY <1>6 DEF Unlock
  <2>2. PICK e : rx' = [rx EXCEPT ![i] = [d \in Contexts |->
                          IF d = c THEN Idle
                          ELSE IF d = e THEN [rx[i][d] EXCEPT !.pc = "inside"]
                          ELSE rx[i][d]]]
    BY <1>6 DEF Unlock
  <2>3. ASSUME NEW j \in Islands, NEW d \in Contexts, rx'[j][d].pc = "received"
        PROVE  rx'[j][d] = rx[j][d]
    <3>1. rx \in [Islands -> [Contexts -> Context]] /\ rx[i][d] \in Context
      BY DEF SoundInv, TypeOK
    <3>2. [rx[i][d] EXCEPT !.pc = "inside"].pc = "inside" /\ Idle.pc = "idle"
      BY <3>1 DEF Context, Idle
    <3>. QED
      BY <2>2, <2>3, <3>1, <3>2
  <2>. QED
    BY <2>1, <2>3, MovesOn
<1>. QED
  BY <1>2, <1>3, <1>4, <1>5, <1>6

\* What a step makes of the registers, of context 0 and of its answers.
Reply == [packet : Stamp, buffer : Stamp, overtaken : BOOLEAN]
Registers == [packet : Stamp, owned : BOOLEAN, signal : BOOLEAN]
Stages == [pc : {"wait", "woken", "received", "ready"},
           packet : Stamp, buffer : Stamp, overtaken : BOOLEAN]

LEMMA ReflectStage ==
  ASSUME NEW a, NEW r \in Registers, NEW e \in Stages, Staged(a, r, e),
         NEW b, b # None, NotFreed(a, b), e.buffer # b,
         NEW o, o => ~TheEntry(b[1], b[2]).fw
  PROVE  Staged(a, [packet |-> b, owned |-> o, signal |-> TRUE],
                [e EXCEPT !.overtaken = @ \/ e.pc \in {"woken", "received"}])
<1> DEFINE s == [packet |-> b, owned |-> o, signal |-> TRUE]
           t == e.overtaken \/ e.pc \in {"woken", "received"}
           f == [e EXCEPT !.overtaken = t]
<1>1. s.packet = b /\ s.owned = o /\ s.signal = TRUE
  OBVIOUS
<1>2. /\ f.pc = e.pc /\ f.packet = e.packet /\ f.buffer = e.buffer /\ f.overtaken = t
      /\ t \in BOOLEAN /\ e.overtaken \in BOOLEAN
  BY DEF Stages
<1>3. FreedLast(a, b)
  BY DEF NotFreed, FreedLast
<1>4. e.pc = "wait" => f = Waiting
  <2>1. ASSUME e.pc = "wait" PROVE f = Waiting
    <3>1. e = Waiting
      BY <2>1 DEF Staged
    <3>2. t = FALSE
      BY <2>1, <3>1 DEF Waiting
    <3>3. f = [e EXCEPT !.overtaken = FALSE]
      BY <3>2
    <3>4. e.overtaken = FALSE
      BY <3>1 DEF Waiting
    <3>5. [e EXCEPT !.overtaken = FALSE] = e
      BY <3>4 DEF Stages
    <3> HIDE DEF f
    <3>. QED
      BY <3>1, <3>3, <3>5
  <2>. QED
    BY <2>1
<1> HIDE DEF s, f
<1>5. e.pc \in {"woken", "received"} => t = TRUE /\ f.buffer = None
  BY <1>2 DEF Staged
<1>6. e.pc = "ready" => (t <=> e.overtaken)
  OBVIOUS
<1> HIDE DEF t
<1>7. Staged(a, s, f)
  BY <1>1, <1>2, <1>3, <1>4, <1>5, <1>6 DEF Staged
<1>. QED
  BY <1>7 DEF s, f, t

LEMMA WakeStage ==
  ASSUME NEW a, NEW r \in Registers, NEW e \in Stages, Staged(a, r, e), e.pc = "wait", r.signal
  PROVE  Staged(a, [r EXCEPT !.signal = FALSE], [e EXCEPT !.pc = "woken"])
<1> DEFINE s == [r EXCEPT !.signal = FALSE]
           f == [e EXCEPT !.pc = "woken"]
<1>1. s.packet = r.packet /\ s.owned = r.owned /\ s.signal = FALSE
  BY DEF Registers
<1>2. f.pc = "woken" /\ f.packet = e.packet /\ f.buffer = e.buffer /\ f.overtaken = e.overtaken
  BY DEF Stages
<1>3. e.overtaken = FALSE /\ e.buffer = None
  BY DEF Staged, Waiting
<1> HIDE DEF s, f
<1>4. Staged(a, s, f)
  BY <1>1, <1>2, <1>3 DEF Staged
<1>. QED
  BY <1>4 DEF s, f

LEMMA ReadStage ==
  ASSUME NEW a, NEW r \in Registers, NEW e \in Stages, Staged(a, r, e), e.pc = "woken"
  PROVE  Staged(a, r, [e EXCEPT !.pc = "received", !.packet = r.packet])
<1> DEFINE f == [e EXCEPT !.pc = "received", !.packet = r.packet]
<1>1. /\ f.pc = "received" /\ f.packet = r.packet
      /\ f.buffer = e.buffer /\ f.overtaken = e.overtaken
  BY DEF Stages
<1> HIDE DEF f
<1>2. Staged(a, r, f)
  BY <1>1 DEF Staged
<1>. QED
  BY <1>2 DEF f

LEMMA PickStage ==
  ASSUME NEW a, NEW r \in Registers, NEW e \in Stages, Staged(a, r, e), e.pc = "received"
  PROVE  Staged(a, r, [e EXCEPT !.pc = "ready", !.buffer = IF r.owned THEN r.packet ELSE None])
<1> DEFINE f == [e EXCEPT !.pc = "ready", !.buffer = IF r.owned THEN r.packet ELSE None]
<1>1. /\ f.pc = "ready" /\ f.packet = e.packet /\ f.overtaken = e.overtaken
      /\ f.buffer = IF r.owned THEN r.packet ELSE None
  BY DEF Stages
<1>2. r.packet # None
  BY DEF Staged
<1> HIDE DEF f
<1>3. Staged(a, r, f)
  BY <1>1, <1>2 DEF Staged
<1>. QED
  BY <1>3 DEF f

\* The answer is the last one, and no other freed its buffer but the one before.
LEMMA AnswerStage ==
  ASSUME NEW a \in Seq(Reply), NEW r \in Registers, NEW e \in Stages, Staged(a, r, e),
         e.pc = "ready", FreedOnce(a),
         NEW n, n = Append(a, [packet |-> e.packet, buffer |-> e.buffer, overtaken |-> e.overtaken])
                \/ n = a
  PROVE  n \in Seq(Reply) /\ Staged(n, r, Waiting) /\ FreedOnce(n)
<1> DEFINE x == [packet |-> e.packet, buffer |-> e.buffer, overtaken |-> e.overtaken]
<1>1. /\ x \in Reply /\ x.packet = e.packet /\ x.buffer = e.buffer /\ x.overtaken = e.overtaken
      /\ r.packet # None /\ (r.owned => ~TheEntry(r.packet[1], r.packet[2]).fw)
      /\ r.signal => NotFreed(a, r.packet) /\ (e.buffer = r.packet => e.overtaken)
      /\ Waiting.pc = "wait"
  BY DEF Staged, Stages, Reply, Waiting
<1>2. n \in Seq(Reply)
  BY <1>1
<1>3. \/ n = a
      \/ /\ Len(n) = Len(a) + 1 /\ DOMAIN n = 1 .. Len(a) + 1 /\ n[Len(a) + 1] = x
         /\ \A k \in 1 .. Len(a) : n[k] = a[k]
  BY <1>1
<1>4. Len(a) \in Nat /\ DOMAIN a = 1 .. Len(a)
  OBVIOUS
<1> HIDE DEF x
<1>5. r.signal => FreedLast(n, r.packet)
  BY <1>1, <1>3, <1>4 DEF NotFreed, FreedLast
<1>6. Staged(n, r, Waiting)
  BY <1>1, <1>5 DEF Staged
<1>7. FreedOnce(n)
  <2>1. CASE n = a
    BY <2>1
  <2>2. CASE /\ Len(n) = Len(a) + 1 /\ DOMAIN n = 1 .. Len(a) + 1 /\ n[Len(a) + 1] = x
             /\ \A k \in 1 .. Len(a) : n[k] = a[k]
    <3>1. ASSUME NEW k \in DOMAIN n, n[k].buffer # None
          PROVE  /\ ~TheEntry(n[k].buffer[1], n[k].buffer[2]).fw
                 /\ n[k].overtaken \/ n[k].buffer = n[k].packet
                 /\ \A j \in DOMAIN n : j < k /\ n[j].buffer = n[k].buffer =>
                      k = j + 1 /\ n[j].overtaken /\ ~n[k].overtaken
      <4>1. CASE k \in 1 .. Len(a)
        BY <2>2, <3>1, <4>1, <1>4 DEF FreedOnce
      <4>2. CASE k = Len(a) + 1
        <5>1. /\ ~TheEntry(x.buffer[1], x.buffer[2]).fw
              /\ IF x.overtaken THEN NotFreed(a, x.buffer)
                 ELSE FreedLast(a, x.buffer) /\ x.buffer = x.packet
          BY <2>2, <3>1, <4>2, <1>1 DEF Staged
        <5>2. ASSUME NEW j \in DOMAIN n, j < k, n[j].buffer = n[k].buffer
              PROVE  k = j + 1 /\ n[j].overtaken /\ ~n[k].overtaken
          <6>1. j \in 1 .. Len(a) /\ n[j] = a[j] /\ n[k] = x
            BY <2>2, <4>2, <5>2, <1>4
          <6>. QED
            BY <6>1, <5>1, <5>2, <4>2, <1>4 DEF NotFreed, FreedLast
        <5>. QED
          BY <5>1, <5>2, <2>2, <4>2
      <4>. QED
        BY <4>1, <4>2, <2>2, <1>4
    <3>. QED
      BY <3>1 DEF FreedOnce
  <2>. QED
    BY <2>1, <2>2, <1>3
<1>. QED
  BY <1>2, <1>6, <1>7

\* A packet is reflected: nothing that context 0 ever knew of is the packet.
LEMMA ExamineEvents ==
  ASSUME SoundInv, \A p \in InPorts : OneEach(p), EventInv,
         NEW i \in Islands, NEW c \in Contexts, Examine(i, c)
  PROVE  EventInv'
<1>1. PICK r \in Context : r = rx[i][c] /\ r.pc = "received"
  BY DEF Examine, SoundInv, TypeOK
<1>2. PICK p \in InPorts : p = r.port /\ i = Island(p)
  BY <1>1 DEF SoundInv, Sound
<1>3. PICK n \in Nat : n = r.seq
  BY <1>1 DEF Context
<1>4. Held(p, c) = r /\ Busy(p, c)
  BY <1>1, <1>2 DEF Held, Busy
<1>5. PICK k \in Packet : k = TheEntry(p, n)
  <2>1. n + 1 \in DOMAIN Arrivals[p]
    BY <1>3, <1>4, Holding
  <2>. QED
    BY <2>1, TargetsArePorts DEF TheEntry
<1>6. PICK q \in Port : q = EntlSender[p]
  BY ForwardAssumption
<1>7. PICK b \in Stamp \ {None} : b = <<p, n>>
  BY StampFacts
<1>8. n < arrived[p] /\ b[1] = p /\ b[2] = n
  BY <1>3, <1>4, <1>7, Holding
<1>9. PICK v : rx' = [rx EXCEPT ![i][c] = v] /\ v.pc # "received" /\ (v.port = p \/ v = Idle)
  <2> DEFINE u == [r EXCEPT !.pc = "lock", !.targets = Targets(p, k),
                           !.sent = k.fw /\ ~k.rootward /\ 0 \in k.fw_vector]
  <2>1. u.pc = "lock" /\ u.port = p /\ Idle.pc = "idle"
    BY <1>1, <1>2 DEF Context, Idle
  <2>2. rx' = [rx EXCEPT ![i][c] = u] \/ rx' = [rx EXCEPT ![i][c] = Idle]
    BY <1>1, <1>2, <1>3, <1>5 DEF Examine
  <2> HIDE DEF u
  <2>. QED
    BY <2>1, <2>2
<1>10. UNCHANGED <<arrived, answers>>
  BY DEF Examine
<1>11. Arriving
  BY <1>9, <1>10, OneMovesOn
<1>12. CASE ~k.entl
  <2>1. UNCHANGED <<reflected, entl, answers>>
    BY <1>1, <1>2, <1>3, <1>5, <1>12 DEF Examine
  <2>. QED
    BY <2>1, <1>11, EventsKeep DEF entlVars
<1>13. CASE k.entl
  <2>1. PICK o \in BOOLEAN : o = ~k.fw
    BY <1>5 DEF Packet
  <2> DEFINE s == [packet |-> b, owned |-> o, signal |-> TRUE]
             e == entl[q]
             f == [e EXCEPT !.overtaken = @ \/ e.pc \in {"woken", "received"}]
  <2>2. reflected' = [reflected EXCEPT ![q] = s] /\ entl' = [entl EXCEPT ![q] = f]
    <3>1. reflected' = [reflected EXCEPT ![q] = [packet |-> b, owned |-> ~k.fw, signal |-> TRUE]]
      BY <1>1, <1>2, <1>3, <1>5, <1>6, <1>7, <1>13 DEF Examine
    <3>2. entl' = [entl EXCEPT ![q].overtaken = @ \/ entl[q].pc \in {"woken", "received"}]
      BY <1>1, <1>2, <1>3, <1>5, <1>6, <1>13 DEF Examine
    <3>. QED
      BY <3>1, <3>2, <2>1
  <2>3. /\ reflected[q] \in Registers /\ e \in Stages
        /\ EventsNew(q) /\ Staged(answers[q], reflected[q], e)
    BY EntlTypes DEF EventInv, EventStages, Registers, Stages
  <2>4. s \in Registers /\ f \in Stages /\ s.packet = b /\ f.buffer = e.buffer
    <3>1. s \in Registers /\ s.packet = b
      BY <2>1, <1>7 DEF Registers
    <3>2. f \in Stages /\ f.buffer = e.buffer
      BY <2>3 DEF Stages
    <3>. QED
      BY <3>1, <3>2
  <2>5. b \notin Known(q)
    BY <1>1, <1>3, <1>4, <1>7, <2>3 DEF EventsNew
  <2>6. NotFreed(answers[q], b) /\ e.buffer # b
    BY <2>5 DEF NotFreed, Known
  <2>7. o => ~TheEntry(b[1], b[2]).fw
    BY <2>1, <1>5, <1>8
  <2>8. Staged(answers[q], s, f)
    BY <2>3, <2>6, <2>7, <1>7, ReflectStage
  <2> HIDE DEF s, f
  <2>9. /\ reflected'[q] = s /\ entl'[q] = f
        /\ \A t \in Port : t # q => reflected'[t] = reflected[t] /\ entl'[t] = entl[t]
        /\ EventTypes'
    BY <2>2, <2>4, <1>10 DEF EventInv, EventTypes, Registers, Stages
  <2>10. Held(p, c)' = v /\ Elsewhere(p, c)
    <3>1. rx' = [rx EXCEPT ![Island(p)][c] = v]
      BY <1>2, <1>9
    <3>2. v.port = p \/ v = Idle
      BY <1>9
    <3>3. rx[Island(p)][c].port = p
      BY <1>1, <1>2
    <3>. QED
      BY <3>1, <3>2, <3>3, RxStep
  <2>11. EventsNew(q)'
    <3>1. Known(q)' \subseteq Known(q) \cup {b}
      BY <2>4, <2>9, <1>10 DEF Known
    <3>2. ASSUME NEW x \in Known(q)' \ {None} PROVE x[2] < arrived'[x[1]]
      BY <3>1, <3>2, <2>3, <1>8, <1>10 DEF EventsNew
    <3>3. ASSUME NEW t \in InPorts, NEW d \in Contexts, Held(t, d)'.pc = "received"
          PROVE  <<t, Held(t, d)'.seq>> \notin Known(q)'
      <4>1. t # p \/ d # c
        BY <3>3, <2>10, <1>9
      <4>2. Held(t, d)' = Held(t, d) /\ Held(t, d).pc = "received" /\ Busy(t, d)
        BY <4>1, <3>3, <2>10 DEF Elsewhere, Busy
      <4>3. <<t, Held(t, d).seq>> \notin Known(q)
        BY <4>2, <2>3 DEF EventsNew
      <4>4. <<t, Held(t, d).seq>> # b
        BY <4>1, <4>2, <1>3, <1>4, <1>7 DEF OneEach
      <4>. QED
        BY <4>2, <4>3, <4>4, <3>1
    <3>. QED
      BY <3>2, <3>3 DEF EventsNew
  <2>12. EventStages(q)' /\ BufferFreedOnce'
    BY <2>8, <2>9, <1>10 DEF EventStages, EventInv, BufferFreedOnce
  <2>. QED
    BY <2>9, <2>11, <2>12, <1>10, <1>11, OneSender
<1>. QED
  BY <1>12, <1>13

\* A step of context 0.
LEMMA SenderEvents ==
  ASSUME SoundInv, EventInv, NEW q \in Port, EntlStep(q)
  PROVE  EventInv'
<1> DEFINE a == answers[q]
           r == reflected[q]
           e == entl[q]
<1>1. /\ a \in Seq(Reply) /\ r \in Registers /\ e \in Stages
      /\ EventsNew(q) /\ Staged(a, r, e) /\ FreedOnce(a)
  BY EntlTypes DEF EventInv, EventStages, BufferFreedOnce, Registers, Stages, Reply
<1>2. /\ answers \in [Port -> Seq(Reply)] /\ reflected \in [Port -> Registers]
      /\ entl \in [Port -> Stages]
  BY DEF EventInv, EventTypes, Registers, Stages, Reply
<1>3. Arriving
  BY NothingArrives DEF EntlStep, Wake, ReadEvent, PickBuffer, Answer
\* What the step makes of the three: the buffers it may know are those of before.
<1>4. ASSUME NEW n \in Seq(Reply), NEW s \in Registers, NEW f \in Stages,
             answers' = [answers EXCEPT ![q] = n], reflected' = [reflected EXCEPT ![q] = s],
             entl' = [entl EXCEPT ![q] = f], s.packet = r.packet,
             f.buffer \in {e.buffer, r.packet, None},
             \A k \in DOMAIN n : (k \in DOMAIN a /\ n[k] = a[k]) \/ n[k].buffer = e.buffer,
             Staged(n, s, f), FreedOnce(n)
      PROVE  EventInv'
  <2>1. /\ answers'[q] = n /\ reflected'[q] = s /\ entl'[q] = f
        /\ \A t \in Port : t # q => /\ answers'[t] = answers[t] /\ reflected'[t] = reflected[t]
                                    /\ entl'[t] = entl[t]
        /\ answers' \in [Port -> Seq(Reply)] /\ reflected' \in [Port -> Registers]
        /\ entl' \in [Port -> Stages]
    BY <1>2, <1>4
  <2>2. EventTypes'
    BY <2>1 DEF EventTypes, Registers, Stages, Reply
  <2>3. BufferFreedOnce'
    BY <2>1, <1>4 DEF EventInv, BufferFreedOnce
  <2>4. Known(q)' \subseteq Known(q) \cup {None}
    <3>1. Known(q)' = {s.packet, f.buffer} \cup {n[k].buffer : k \in DOMAIN n}
      BY <2>1 DEF Known
    <3>. QED
      BY <3>1, <1>4 DEF Known
  <2>5. EventsNew(q)'
    BY <2>4, <1>1, <1>3, StillNew DEF EventInv
  <2>6. EventStages(q)'
    BY <2>1, <1>4 DEF EventStages
  <2>. QED
    BY <2>1, <2>2, <2>3, <2>5, <2>6, <1>3, OneSender
<1>5. answers = [answers EXCEPT ![q] = a] /\ reflected = [reflected EXCEPT ![q] = r]
  BY <1>2
<1>6. CASE Wake(q)
  <2> DEFINE s == [r EXCEPT !.signal = FALSE]
             f == [e EXCEPT !.pc = "woken"]
  <2>1. /\ e.pc = "wait" /\ r.signal /\ UNCHANGED answers
        /\ reflected' = [reflected EXCEPT ![q] = s] /\ entl' = [entl EXCEPT ![q] = f]
    BY <1>6 DEF Wake
  <2>2. s \in Registers /\ f \in Stages /\ s.packet = r.packet /\ f.buffer = e.buffer
    BY <1>1 DEF Registers, Stages
  <2>3. Staged(a, s, f)
    BY <2>1, <1>1, WakeStage
  <2> HIDE DEF s, f, a, e, r
  <2>. QED
    BY <2>1, <2>2, <2>3, <1>1, <1>4, <1>5
<1>7. CASE ReadEvent(q)
  <2> DEFINE f == [e EXCEPT !.pc = "received", !.packet = r.packet]
  <2>1. e.pc = "woken" /\ UNCHANGED <<answers, reflected>> /\ entl' = [entl EXCEPT ![q] = f]
    BY <1>7 DEF ReadEvent
  <2>2. f \in Stages /\ f.buffer = e.buffer
    BY <1>1 DEF Registers, Stages
  <2>3. Staged(a, r, f)
    BY <2>1, <1>1, ReadStage
  <2> HIDE DEF f, a, e, r
  <2>. QED
    BY <2>1, <2>2, <2>3, <1>1, <1>4, <1>5
<1>8. CASE PickBuffer(q)
  <2> DEFINE b == IF r.owned THEN r.packet ELSE None
             f == [e EXCEPT !.pc = "ready", !.buffer = b]
  <2>1. e.pc = "received" /\ UNCHANGED <<answers, reflected>> /\ entl' = [entl EXCEPT ![q] = f]
    BY <1>8 DEF PickBuffer
  <2>2. b \in Stamp /\ b \in {r.packet, None}
    BY <1>1 DEF Registers, Stamp
  <2>3. f \in Stages /\ f.buffer = b
    <3> HIDE DEF b
    <3>. QED
      BY <2>2, <1>1 DEF Stages
  <2>4. Staged(a, r, f)
    BY <2>1, <1>1, PickStage
  <2> HIDE DEF b, f, a, e, r
  <2>. QED
    BY <2>1, <2>2, <2>3, <2>4, <1>1, <1>4, <1>5
<1>9. CASE Answer(q)
  <2> DEFINE x == [packet |-> e.packet, buffer |-> e.buffer, overtaken |-> e.overtaken]
  <2>1. PICK n : /\ answers' = [answers EXCEPT ![q] = n] /\ (n = Append(a, x) \/ n = a)
    <3>1. answers' = [answers EXCEPT ![q] = Append(a, x)] \/ answers' = answers
      BY <1>9 DEF Answer
    <3>. QED
      BY <3>1, <1>5
  <2>2. e.pc = "ready" /\ UNCHANGED reflected /\ entl' = [entl EXCEPT ![q] = Waiting]
    BY <1>9 DEF Answer
  <2>3. n \in Seq(Reply) /\ Staged(n, r, Waiting) /\ FreedOnce(n)
    BY <2>1, <2>2, <1>1, AnswerStage
  <2>4. \A k \in DOMAIN n : (k \in DOMAIN a /\ n[k] = a[k]) \/ n[k].buffer = e.buffer
    <3>1. x.buffer = e.buffer
      OBVIOUS
    <3> HIDE DEF x, a
    <3>. QED
      BY <3>1, <2>1, <1>1
  <2>5. Waiting \in Stages /\ Waiting.buffer = None
    BY DEF Waiting, Stages, Stamp
  <2> HIDE DEF x, a, e, r
  <2>. QED
    BY <2>1, <2>2, <2>3, <2>4, <2>5, <1>1, <1>4, <1>5
<1>. QED
  BY <1>6, <1>7, <1>8, <1>9 DEF EntlStep

LEMMA InitEventInv == Init => EventInv
<1>. SUFFICES ASSUME Init PROVE EventInv
  OBVIOUS
<1>1. /\ reflected = [q \in Port |-> [packet |-> None, owned |-> FALSE, signal |-> FALSE]]
      /\ entl = [q \in Port |-> Waiting] /\ answers = [q \in Port |-> <<>>]
  BY DEF Init
<1>2. EventTypes
  BY <1>1 DEF EventTypes, Waiting, Stamp
<1>3. BufferFreedOnce
  BY <1>1 DEF BufferFreedOnce, FreedOnce
<1>4. ASSUME NEW q \in Port PROVE EventsNew(q)
  <2>1. Known(q) = {None}
    BY <1>1 DEF Known, Waiting
  <2>2. \A p \in InPorts, c \in Contexts : Held(p, c).pc = "idle"
    BY PortFacts DEF Init, Held, Idle
  <2>. QED
    BY <2>1, <2>2 DEF EventsNew
<1>5. ASSUME NEW q \in Port PROVE EventStages(q)
  BY <1>1 DEF EventStages, Staged, Waiting
<1>. QED
  BY <1>2, <1>3, <1>4, <1>5 DEF EventInv

LEMMA NextEventInv ==
  SoundInv /\ (\A p \in InPorts : OneEach(p)) /\ EventInv /\ [Next]_vars => EventInv'
<1>. SUFFICES ASSUME SoundInv, \A p \in InPorts : OneEach(p), EventInv, [Next]_vars
     PROVE  EventInv'
  OBVIOUS
<1>1. ASSUME UNCHANGED <<rxVars, entlVars>> PROVE EventInv'
  BY <1>1, NothingArrives, EventsKeep
<1>2. CASE UNCHANGED vars
  BY <1>1, <1>2 DEF vars
<1>3. ASSUME NEW p \in InPorts, NEW c \in Contexts, Receive(p, c) PROVE EventInv'
  <2>1. UNCHANGED entlVars
    BY <1>3 DEF Receive
  <2>. QED
    BY <2>1, <1>3, ReceiveNew, EventsKeep
<1>4. ASSUME NEW i \in Islands, NEW c \in Contexts, ReceiverStep(i, c) PROVE EventInv'
  BY <1>4, ExamineEvents, ReceiverNew, EventsKeep DEF ReceiverStep
<1>5. ASSUME NEW q \in OutPorts, NEW t \in Threads, Get(q, t) \/ Send(q, t)
      PROVE  EventInv'
  BY <1>1, <1>5 DEF Get, Send
<1>6. ASSUME NEW q \in Port, EntlStep(q) PROVE EventInv'
  BY <1>6, SenderEvents
<1>7. ASSUME NEW s \in Sequencers, Depart(s) PROVE EventInv'
  BY <1>1, <1>7 DEF Depart
<1>. QED
  BY <1>2, <1>3, <1>4, <1>5, <1>6, <1>7 DEF Next

\* What the registers of every context 0 hold at each of its stages, whatever
\* is written into them between its two reads, by whichever ports.
THEOREM EventInvariance == Spec => []EventInv
<1>1. SoundInv /\ OrderInv /\ EventInv /\ [Next]_vars => EventInv'
  BY NextEventInv DEF OrderInv
<1>. QED
  BY OrderAlways, InitEventInv, <1>1, PTL DEF Spec

\* The buffer of an event goes to the NBI to be freed once, but for the one
\* that the answer before took in place of its own.
THEOREM BuffersAreFreedOnce == Spec => []BufferFreedOnce
<1>1. EventInv => BufferFreedOnce
  BY DEF EventInv
<1>. QED
  BY EventInvariance, <1>1, PTL
=============================================================================
