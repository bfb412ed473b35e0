------------------------- MODULE EntlStateMachineProofs -------------------------
(***************************************************************************)
(* What entl_received and entl_next_send keep and guarantee, for any end,  *)
(* any packet and any modulus: the lemmas the proofs about links rest on.  *)
(***************************************************************************)
EXTENDS EntlStateMachine, TLAPS

LEMMA SideFacts ==
  /\ A \in Side /\ B \in Side
  /\ \A s \in Side : /\ Peer(s) \in Side /\ Peer(s) # s /\ Peer(Peer(s)) = s
                     /\ \A t \in Side : t = s \/ t = Peer(s)
BY EndsAssumption DEF Side, Peer

LEMMA EventNumbers ==
  /\ 0 \in EventNumber /\ 1 \in EventNumber
  /\ \A v \in Nat : NextValue(v) \in EventNumber /\ Plus2(v) \in EventNumber
  /\ EventNumber \subseteq Nat
<1>1. \A v \in Nat : v % Modulus \in 0 .. Modulus - 1
  BY ModulusAssumption
<1>. QED
  BY <1>1, ModulusAssumption DEF EventNumber, NextValue, Plus2

LEMMA NextValueTwice ==
  \A v \in EventNumber : NextValue(NextValue(v)) = Plus2(v) /\ Plus2(v) # v
<1>. SUFFICES ASSUME NEW v \in EventNumber
     PROVE  NextValue(NextValue(v)) = Plus2(v) /\ Plus2(v) # v
  OBVIOUS
<1>1. CASE v + 2 < Modulus
  BY <1>1, ModulusAssumption DEF EventNumber, NextValue, Plus2
<1>2. CASE v + 2 = Modulus
  BY <1>2, ModulusAssumption DEF EventNumber, NextValue, Plus2
<1>3. CASE v + 1 = Modulus
  BY <1>3, ModulusAssumption DEF EventNumber, NextValue, Plus2
<1>. QED
  BY <1>1, <1>2, <1>3, ModulusAssumption DEF EventNumber

-----------------------------------------------------------------------------
(* What the pieces of entl_received and entl_next_send keep of the types.   *)

LEMMA MachineUpdates ==
  ASSUME NEW n \in Machine, NEW st \in State, NEW v \in EventNumber, NEW w \in Nat
  PROVE  /\ Accept(n, v, st) \in Machine
         /\ Spend(n, st) \in Machine
         /\ SetError(n) \in Machine
         /\ EntlStateHello(n, w) \in Machine
         /\ SetRandom(n, w) \in Machine
         /\ CountHello(n) \in Machine
         /\ StartWaiting(n) \in Machine
<1>1. /\ NextValue(v) \in EventNumber /\ Plus2(n.next) \in EventNumber
      /\ 0 \in EventNumber
  BY EventNumbers DEF Machine
<1>2. "HELLO" \in State /\ "WAIT" \in State
  BY DEF State
<1>3. Accept(n, v, st) \in Machine
  BY <1>1 DEF Machine, Accept
<1>4. Spend(n, st) \in Machine
  BY <1>1 DEF Machine, Spend
<1>5. SetError(n) \in Machine
  BY DEF Machine, SetError
<1>6. EntlStateHello(n, w) \in Machine
  BY <1>1, <1>2 DEF Machine, EntlStateHello
<1>7. SetRandom(n, w) \in Machine
  BY DEF Machine, SetRandom
<1>8. CountHello(n) \in Machine
  BY DEF Machine, CountHello
<1>9. StartWaiting(n) \in Machine
  BY <1>1, <1>2 DEF Machine, StartWaiting
<1>. QED
  BY <1>3, <1>4, <1>5, <1>6, <1>7, <1>8, <1>9

Typed == mcn \in [Side -> Machine] /\ act \in [Side -> SUBSET Flag]

LEMMA BecomeType ==
  ASSUME Typed, NEW s \in Side, NEW n \in Machine, NEW flags \in SUBSET Flag,
         Become(s, n, flags)
  PROVE  Typed'
BY DEF Typed, Become

LEMMA BackToHelloType ==
  ASSUME Typed, NEW s \in Side, NEW n \in Machine, NEW flags \in SUBSET Flag,
         BackToHello(s, n, flags)
  PROVE  Typed'
<1>1. PICK w \in Redraw[s] : Become(s, EntlStateHello(n, w), flags)
  BY DEF BackToHello
<1>2. w \in Nat
  BY RedrawAssumption
<1>3. EntlStateHello(n, w) \in Machine
  BY <1>2, MachineUpdates, EventNumbers DEF State
<1>. QED
  BY <1>1, <1>3, BecomeType

LEMMA SequenceErrorType ==
  ASSUME Typed, NEW s \in Side, NEW flags \in SUBSET Flag, SequenceError(s, flags)
  PROVE  Typed'
<1>1. SetError(mcn[s]) \in Machine
  BY MachineUpdates, EventNumbers DEF Typed, State
<1>. QED
  BY <1>1, BackToHelloType DEF SequenceError

LEMMA IgnoreType ==
  ASSUME Typed, NEW s \in Side, NEW flags \in SUBSET Flag, Ignore(s, flags)
  PROVE  Typed'
BY BecomeType DEF Ignore, Typed

LEMMA AcceptType ==
  ASSUME Typed, NEW s \in Side, NEW v \in EventNumber, NEW st \in State,
         NEW flags \in SUBSET Flag, Become(s, Accept(mcn[s], v, st), flags)
  PROVE  Typed'
BY BecomeType, MachineUpdates DEF Typed

LEMMA SpendType ==
  ASSUME Typed, NEW s \in Side, NEW st \in State,
         NEW flags \in SUBSET Flag, Become(s, Spend(mcn[s], st), flags)
  PROVE  Typed'
BY BecomeType, MachineUpdates, EventNumbers DEF Typed

LEMMA ExpectedValue ==
  ASSUME Typed, NEW s \in Side, NEW m, NEW type, Expected(s, m, type)
  PROVE  m.value \in EventNumber
BY EventNumbers DEF Typed, Machine, Expected

LEMMA ReceivedType ==
  ASSUME Typed, NEW s \in Side, NEW m \in Packet, NEW full, Received(s, m, full)
  PROVE  Typed'
<1>. USE DEF Flag, State
<1>1. CASE ReceivedHello(s, m)
  <2>1. ASSUME Become(s, StartWaiting(mcn[s]), {"SEND"})
        PROVE  Typed'
    BY <2>1, MachineUpdates, BecomeType, EventNumbers DEF Typed
  <2>2. ASSUME NEW v \in Redraw[s], Become(s, SetRandom(mcn[s], v), {"SEND"})
        PROVE  Typed'
    BY <2>2, MachineUpdates, BecomeType, EventNumbers, RedrawAssumption DEF Typed
  <2>3. ASSUME Become(s, Accept(mcn[s], 0, "SEND"), {"SEND"})
        PROVE  Typed'
    BY <2>3, AcceptType, EventNumbers
  <2>. QED
    BY <1>1, <2>1, <2>2, <2>3, IgnoreType DEF ReceivedHello
<1>2. CASE ReceivedWait(s, m)
  <2>1. ASSUME Become(s, CountHello(mcn[s]), {})
        PROVE  Typed'
    BY <2>1, MachineUpdates, BecomeType, EventNumbers DEF Typed
  <2>2. ASSUME m.value = NextValue(mcn[s].sent),
               Become(s, Accept(mcn[s], m.value, "SEND"), {"SEND"})
        PROVE  Typed'
    <3>1. mcn[s].sent \in Nat
      BY EventNumbers DEF Typed, Machine
    <3>. QED
      BY <2>2, <3>1, AcceptType, EventNumbers
  <2>3. mcn[s] \in Machine
    BY DEF Typed
  <2>. QED
    BY <1>2, <2>1, <2>2, <2>3, BackToHelloType, SequenceErrorType DEF ReceivedWait
<1>3. CASE ReceivedSend(s, m)
  <2>1. ASSUME Become(s, SetError(mcn[s]), {"ERROR"})
        PROVE  Typed'
    BY <2>1, MachineUpdates, BecomeType, EventNumbers DEF Typed
  <2>. QED
    BY <1>3, <2>1, IgnoreType, SequenceErrorType DEF ReceivedSend
<1>4. CASE ReceivedReceive(s, m, full)
  BY <1>4, AcceptType, ExpectedValue, IgnoreType, SequenceErrorType DEF ReceivedReceive
<1>5. CASE ReceivedRA(s, m)
  BY <1>5, AcceptType, ExpectedValue, SequenceErrorType DEF ReceivedRA
<1>6. CASE ReceivedRAL(s, m)
  <2>1. ASSUME NEW sig \in SUBSET {"SIG_AIT"}, m.value \in EventNumber,
               Become(s, Accept(mcn[s], m.value, "SAL"), {"SEND"} \cup sig)
        PROVE  Typed'
    <3>1. {"SEND"} \cup sig \in SUBSET Flag
      OBVIOUS
    <3>. QED
      BY <2>1, <3>1, AcceptType
  <2>. QED
    BY <1>6, <2>1, ExpectedValue, SequenceErrorType DEF ReceivedRAL
<1>7. CASE ReceivedSA(s, m) \/ ReceivedSB(s, m)
  BY <1>7, IgnoreType, SequenceErrorType DEF ReceivedSA, ReceivedSB, ReceivedAcking
<1>8. CASE ReceivedRB(s, m)
  BY <1>8, AcceptType, ExpectedValue, IgnoreType, SequenceErrorType DEF ReceivedRB
<1>9. CASE ReceivedRBL(s, m)
  <2>1. ASSUME NEW sig \in SUBSET {"SIG_AIT"}, m.value \in EventNumber,
               Become(s, Accept(mcn[s], m.value, "SEND"), {"SEND"} \cup sig)
        PROVE  Typed'
    <3>1. {"SEND"} \cup sig \in SUBSET Flag
      OBVIOUS
    <3>. QED
      BY <2>1, <3>1, AcceptType
  <2>. QED
    BY <1>9, <2>1, ExpectedValue, IgnoreType, SequenceErrorType DEF ReceivedRBL
<1>. QED
  BY <1>1, <1>2, <1>3, <1>4, <1>5, <1>6, <1>7, <1>8, <1>9 DEF Received

LEMMA PacketTypes ==
  ASSUME NEW v \in Nat, NEW op \in {"AIT", "ALO"}, NEW k \in Nat
  PROVE  /\ \A type \in {"HELLO", "ENTL", "AITR", "AITA"} : Pkt(type, v) \in Packet
         /\ Aits(v, op, k) \in Packet
BY DEF Packet, Pkt, Aits

LEMMA TransmitType ==
  ASSUME chan \in [Side -> Seq(Packet)], NEW s \in Side, NEW m \in Packet,
         Transmit(s, m)
  PROVE  chan' \in [Side -> Seq(Packet)]
<1>1. Peer(s) \in Side
  BY SideFacts
<1>2. Append(chan[Peer(s)], m) \in Seq(Packet)
  BY <1>1
<1>. QED
  BY <1>1, <1>2 DEF Transmit

LEMMA NextSendType ==
  ASSUME Typed, chan \in [Side -> Seq(Packet)], NEW s \in Side,
         NEW kind, NEW ok, NEW k \in Nat, NextSend(s, kind, ok, k)
  PROVE  Typed' /\ chan' \in [Side -> Seq(Packet)]
<1>. USE DEF Flag, State
<1>0. mcn[s].next \in Nat /\ mcn[s].value \in Nat
  BY EventNumbers DEF Typed, Machine
<1>1. CASE SendHello(s)
  BY <1>0, <1>1, IgnoreType, PacketTypes, TransmitType DEF SendHello
<1>2. CASE SendWait(s)
  BY <1>2, IgnoreType, PacketTypes, TransmitType DEF SendWait
<1>3. CASE SendEvent(s, kind)
  BY <1>0, <1>3, SpendType, PacketTypes, TransmitType DEF SendEvent
<1>4. CASE SendTransfer(s, kind, ok, k)
  <2>1. Typed'
    BY <1>4, SpendType DEF SendTransfer
  <2>2. chan' \in [Side -> Seq(Packet)]
    BY <1>0, <1>4, PacketTypes, TransmitType DEF SendTransfer
  <2>. QED
    BY <2>1, <2>2
<1>5. CASE SendAita(s)
  BY <1>0, <1>5, SpendType, PacketTypes, TransmitType DEF SendAita
<1>6. CASE SendAitr(s)
  <2>1. (IF mcn[s].state = "SB" THEN "RB" ELSE "RBL") \in State
    OBVIOUS
  <2>. QED
    BY <1>0, <1>6, <2>1, SpendType, PacketTypes, TransmitType DEF SendAitr
<1>7. CASE SendNothing(s)
  BY <1>7, IgnoreType DEF SendNothing
<1>. QED
  BY <1>1, <1>2, <1>3, <1>4, <1>5, <1>6, <1>7 DEF NextSend

-----------------------------------------------------------------------------
(* What the updates of a machine set, and which branch a state leads to.    *)

LEMMA Numbers ==
  /\ NextValue(0) = 1 /\ NextValue(1) = Plus2(0) /\ 0 # 1
  /\ Plus2(0) # 0 /\ 0 \in EventNumber /\ 1 \in EventNumber
<1>1. NextValue(0) = 1
  BY ModulusAssumption DEF NextValue
<1>. QED
  BY <1>1, NextValueTwice, EventNumbers

LEMMA Fields ==
  ASSUME NEW n \in Machine, NEW st, NEW v
  PROVE  /\ LET u == Accept(n, v, st) IN
            /\ u.state = st /\ u.know = v /\ u.sent = n.sent /\ u.next = NextValue(v)
            /\ u.value = n.value /\ u.count = n.count /\ u.failed = n.failed
         /\ LET u == Spend(n, st) IN
            /\ u.state = st /\ u.know = n.know /\ u.sent = n.next
            /\ u.next = Plus2(n.next)
            /\ u.value = n.value /\ u.count = n.count /\ u.failed = n.failed
         /\ LET u == CountHello(n) IN
            /\ u.state = n.state /\ u.know = n.know /\ u.sent = n.sent
            /\ u.next = n.next
            /\ u.value = n.value /\ u.count = n.count + 1 /\ u.failed = n.failed
         /\ LET u == StartWaiting(n) IN
            /\ u.state = "WAIT" /\ u.know = 0 /\ u.sent = 0 /\ u.next = 0
            /\ u.value = n.value /\ u.count = 0 /\ u.failed = n.failed
<1>1. LET u == Accept(n, v, st) IN
      /\ u.state = st /\ u.know = v /\ u.sent = n.sent /\ u.next = NextValue(v)
      /\ u.value = n.value /\ u.count = n.count /\ u.failed = n.failed
  BY DEF Machine, Accept
<1>2. LET u == Spend(n, st) IN
      /\ u.state = st /\ u.know = n.know /\ u.sent = n.next
      /\ u.next = Plus2(n.next)
      /\ u.value = n.value /\ u.count = n.count /\ u.failed = n.failed
  BY DEF Machine, Spend
<1>3. LET u == CountHello(n) IN
      /\ u.state = n.state /\ u.know = n.know /\ u.sent = n.sent
      /\ u.next = n.next
      /\ u.value = n.value /\ u.count = n.count + 1 /\ u.failed = n.failed
  BY DEF Machine, CountHello
<1>4. LET u == StartWaiting(n) IN
      /\ u.state = "WAIT" /\ u.know = 0 /\ u.sent = 0 /\ u.next = 0
      /\ u.value = n.value /\ u.count = 0 /\ u.failed = n.failed
  BY DEF Machine, StartWaiting
<1>. QED
  BY <1>1, <1>2, <1>3, <1>4

LEMMA ReceivedByState ==
  ASSUME NEW s, NEW m, NEW full, Received(s, m, full)
  PROVE  /\ mcn[s].state = "HELLO" => ReceivedHello(s, m)
         /\ mcn[s].state = "WAIT" => ReceivedWait(s, m)
         /\ mcn[s].state = "SEND" => ReceivedSend(s, m)
         /\ mcn[s].state = "RECEIVE" => ReceivedReceive(s, m, full)
         /\ mcn[s].state = "RA" => ReceivedRA(s, m)
         /\ mcn[s].state = "RAL" => ReceivedRAL(s, m)
         /\ mcn[s].state \in {"SA", "SAL"} => ReceivedSA(s, m)
         /\ mcn[s].state \in {"SB", "SBL"} => ReceivedSB(s, m)
         /\ mcn[s].state = "RB" => ReceivedRB(s, m)
         /\ mcn[s].state = "RBL" => ReceivedRBL(s, m)
<1>1. /\ ReceivedHello(s, m) => mcn[s].state = "HELLO"
      /\ ReceivedWait(s, m) => mcn[s].state = "WAIT"
      /\ ReceivedSend(s, m) => mcn[s].state = "SEND"
  BY DEF ReceivedHello, ReceivedWait, ReceivedSend
<1>2. /\ ReceivedReceive(s, m, full) => mcn[s].state = "RECEIVE"
      /\ ReceivedRA(s, m) => mcn[s].state = "RA"
      /\ ReceivedRAL(s, m) => mcn[s].state = "RAL"
  BY DEF ReceivedReceive, ReceivedRA, ReceivedRAL
<1>3. /\ ReceivedSA(s, m) => mcn[s].state \in {"SA", "SAL"}
      /\ ReceivedSB(s, m) => mcn[s].state \in {"SB", "SBL"}
      /\ ReceivedRB(s, m) => mcn[s].state = "RB"
      /\ ReceivedRBL(s, m) => mcn[s].state = "RBL"
  BY DEF ReceivedSA, ReceivedSB, ReceivedAcking, ReceivedRB, ReceivedRBL
<1>. QED
  BY <1>1, <1>2, <1>3 DEF Received

-----------------------------------------------------------------------------
(* A call at one end leaves the other as it is; queues of packets.          *)

LEMMA BecomeHere ==
  ASSUME Typed, NEW s \in Side, NEW n, NEW flags, Become(s, n, flags)
  PROVE  mcn'[s] = n /\ mcn'[Peer(s)] = mcn[Peer(s)] /\ act'[s] = flags
BY SideFacts DEF Typed, Become

LEMMA ReceivedHere ==
  ASSUME Typed, NEW s \in Side, NEW m, NEW full, Received(s, m, full)
  PROVE  mcn'[Peer(s)] = mcn[Peer(s)]
<1>1. ASSUME NEW n, NEW flags, Become(s, n, flags)
      PROVE  mcn'[Peer(s)] = mcn[Peer(s)]
  BY <1>1, BecomeHere
<1>2. ASSUME NEW n, NEW flags, Ignore(s, flags) \/ SequenceError(s, flags)
                               \/ BackToHello(s, n, flags)
      PROVE  mcn'[Peer(s)] = mcn[Peer(s)]
  BY <1>1, <1>2 DEF Ignore, SequenceError, BackToHello
<1>3. CASE ReceivedHello(s, m) \/ ReceivedWait(s, m) \/ ReceivedSend(s, m)
  BY <1>1, <1>2, <1>3 DEF ReceivedHello, ReceivedWait, ReceivedSend
<1>4. CASE ReceivedReceive(s, m, full)
  BY <1>1, <1>2, <1>4 DEF ReceivedReceive
<1>5. CASE ReceivedRA(s, m) \/ ReceivedRAL(s, m)
  BY <1>1, <1>2, <1>5 DEF ReceivedRA, ReceivedRAL
<1>6. CASE ReceivedSA(s, m) \/ ReceivedSB(s, m)
  BY <1>1, <1>2, <1>6 DEF ReceivedSA, ReceivedSB, ReceivedAcking
<1>7. CASE ReceivedRB(s, m) \/ ReceivedRBL(s, m)
  BY <1>1, <1>2, <1>7 DEF ReceivedRB, ReceivedRBL
<1>. QED
  BY <1>3, <1>4, <1>5, <1>6, <1>7 DEF Received

LEMMA NextSendHere ==
  ASSUME Typed, NEW s \in Side, NEW kind, NEW ok, NEW k, NextSend(s, kind, ok, k)
  PROVE  mcn'[Peer(s)] = mcn[Peer(s)]
<1>1. ASSUME NEW n, NEW flags, Become(s, n, flags) \/ Ignore(s, flags)
      PROVE  mcn'[Peer(s)] = mcn[Peer(s)]
  BY <1>1, BecomeHere DEF Ignore
<1>2. CASE SendHello(s) \/ SendWait(s) \/ SendEvent(s, kind)
  BY <1>1, <1>2 DEF SendHello, SendWait, SendEvent
<1>3. CASE SendTransfer(s, kind, ok, k)
  BY <1>1, <1>3 DEF SendTransfer
<1>4. CASE SendAita(s) \/ SendAitr(s) \/ SendNothing(s)
  BY <1>1, <1>4 DEF SendAita, SendAitr, SendNothing
<1>. QED
  BY <1>2, <1>3, <1>4 DEF NextSend

LEMMA TailFacts ==
  ASSUME NEW S, NEW c \in Seq(S), c # <<>>
  PROVE  /\ Head(c) = c[1] /\ 1 \in 1 .. Len(c) /\ c[1] \in S
         /\ Len(Tail(c)) = Len(c) - 1 /\ Len(c) \in Nat
         /\ \A i \in 1 .. Len(c) - 1 : Tail(c)[i] = c[i + 1] /\ i + 1 \in 1 .. Len(c)
<1>1. Len(c) \in Nat /\ Len(c) > 0
  OBVIOUS
<1>2. Head(c) = c[1] /\ c[1] \in S
  BY <1>1
<1>3. Len(Tail(c)) = Len(c) - 1
  BY <1>1
<1>4. \A i \in 1 .. Len(c) - 1 : Tail(c)[i] = c[i + 1]
  BY <1>1, <1>3
<1>. QED
  BY <1>1, <1>2, <1>3, <1>4

LEMMA AppendFacts ==
  ASSUME NEW c \in Seq(Packet), NEW m \in Packet
  PROVE  /\ Len(Append(c, m)) = Len(c) + 1 /\ Len(c) \in Nat
         /\ Append(c, m)[Len(c) + 1] = m
         /\ \A i \in 1 .. Len(c) : Append(c, m)[i] = c[i]
OBVIOUS
=============================================================================
