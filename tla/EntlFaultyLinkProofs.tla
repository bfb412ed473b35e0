--------------------------- MODULE EntlFaultyLinkProofs ---------------------------
(***************************************************************************)
(* What a link keeps to whatever its callers, its wire and its ends do     *)
(* wrong: TokenInv and DeliveryInv of EntlFaultyLink are inductive.        *)
(*                                                                         *)
(* The proofs look at a step of entl_received or entl_next_send through    *)
(* the machine n of the end before it and the machine p after it.          *)
(***************************************************************************)
EXTENDS EntlFaultyLink, EntlLinkProofs

\* Neither the state nor an event number changes.
Still(n, p) ==
  p.state = n.state /\ p.know = n.know /\ p.sent = n.sent /\ p.next = n.next

Greets(n, p) ==
  /\ n.state # "HELLO" /\ p.state = "HELLO"
  /\ p.know = 0 /\ p.sent = 0 /\ p.next = 0
  /\ p.failed \/ n.state = "WAIT"

Invites(n, p, m) ==
  /\ n.state = "HELLO" /\ p.state = "WAIT"
  /\ p.know = 0 /\ p.sent = 0 /\ p.next = 0
  /\ m.type = "HELLO" /\ n.value > m.value

\* The state packet m leads to.
TakenTo(st, m, to) ==
  \/ st \in {"HELLO", "WAIT"} /\ m.type = "ENTL" /\ to = "SEND"
  \/ st = "RECEIVE" /\ m.type \in {"ENTL", "AITS"} /\ to = "SEND"
  \/ st = "RECEIVE" /\ Message(m) /\ to = "SB"
  \/ st = "RECEIVE" /\ m.type = "AITS" /\ to = "SBL"
  \/ st = "RA" /\ m.type = "AITR" /\ to = "SA"
  \/ st = "RA" /\ m.type = "ENTL" /\ to = "SEND"
  \/ st = "RAL" /\ m.type = "AITR" /\ to = "SAL"
  \/ st \in {"RB", "RBL"} /\ m.type = "AITA" /\ to = "SEND"

Takes(n, p, m) ==
  /\ TakenTo(n.state, m, p.state)
  /\ m.value = IF n.state = "HELLO" THEN 0
               ELSE IF n.state = "WAIT" THEN NextValue(n.sent) ELSE Plus2(n.know)
  /\ p.know = m.value /\ p.sent = n.sent /\ p.next = NextValue(m.value)

LEMMA HelloFields ==
  ASSUME NEW n \in Machine, NEW w
  PROVE  LET u == EntlStateHello(n, w) IN
         /\ u.state = "HELLO" /\ u.know = 0 /\ u.sent = 0 /\ u.next = 0
         /\ u.value = w /\ u.failed = n.failed
BY DEF Machine, EntlStateHello

\* What entl_received does with packet m, and which flags it returns.
LEMMA ReceivedCases ==
  ASSUME TypeOK, NEW s \in Side, NEW m \in Packet, NEW full, Received(s, m, full),
         NEW n, n = mcn[s], NEW p, p = mcn'[s]
  PROVE  /\ p.value \in {n.value} \cup Redraw[s]
         /\ n.failed => p.failed
         /\ Still(n, p) \/ Greets(n, p) \/ Invites(n, p, m) \/ Takes(n, p, m)
         /\ "PROC_AIT" \in act'[s] <=> n.state = "RECEIVE" /\ p.state = "SB"
         /\ n.state = "RB" => ("SIG_AIT" \in act'[s] <=> p.state = "SEND")
         /\ n.state \in {"SB", "RB"} /\ p.state = n.state => Echo(m, n.know)
         /\ Invites(n, p, m) => act'[s] # {}
<1>. DEFINE V(q) == q.value \in {n.value} \cup Redraw[s] /\ (n.failed => q.failed)
            F == "PROC_AIT" \in act'[s] <=> n.state = "RECEIVE" /\ p.state = "SB"
            G == n.state = "RB" => ("SIG_AIT" \in act'[s] <=> p.state = "SEND")
<1>n. n \in Machine
  BY DEF TypeOK
<1>b. \A q, flags : Become(s, q, flags) => p = q /\ act'[s] = flags
  BY OnlyThisEnd
<1>1. \A flags : Ignore(s, flags) => Still(n, p) /\ V(p) /\ act'[s] = flags
  BY <1>b DEF Ignore, Still
<1>2. \A flags : Become(s, SetError(mcn[s]), flags)
                 => Still(n, p) /\ V(p) /\ act'[s] = flags
  <2>1. Still(n, SetError(n)) /\ V(SetError(n))
    BY <1>n DEF Machine, SetError, Still
  <2>. QED
    BY <1>b, <2>1
<1>3. \A flags : Become(s, CountHello(mcn[s]), flags)
                 => Still(n, p) /\ V(p) /\ act'[s] = flags
  <2>1. Still(n, CountHello(n)) /\ V(CountHello(n))
    BY <1>n, Fields DEF Still
  <2>. QED
    BY <1>b, <2>1
<1>4. \A flags : \A v \in Redraw[s] : Become(s, SetRandom(mcn[s], v), flags)
                 => Still(n, p) /\ V(p) /\ act'[s] = flags
  <2>1. \A v \in Redraw[s] : Still(n, SetRandom(n, v)) /\ V(SetRandom(n, v))
    BY <1>n DEF Machine, SetRandom, Still
  <2>. QED
    BY <1>b, <2>1
<1>5. \A flags : SequenceError(s, flags) /\ n.state # "HELLO"
                 => Greets(n, p) /\ V(p) /\ act'[s] = flags
  <2>1. SetError(n) \in Machine /\ SetError(n).failed
    BY <1>n DEF Machine, SetError
  <2>2. \A v \in Redraw[s] :
          LET q == EntlStateHello(SetError(n), v) IN
          V(q) /\ (n.state # "HELLO" => Greets(n, q))
    BY <2>1, HelloFields DEF Greets
  <2>. QED
    BY <1>b, <2>2 DEF SequenceError, BackToHello
<1>6. \A flags : BackToHello(s, mcn[s], flags) /\ n.state = "WAIT"
                 => Greets(n, p) /\ V(p) /\ act'[s] = flags
  <2>1. \A v \in Redraw[s] :
          LET q == EntlStateHello(n, v) IN
          V(q) /\ (n.state = "WAIT" => Greets(n, q))
    BY <1>n, HelloFields DEF Greets
  <2>. QED
    BY <1>b, <2>1 DEF BackToHello
<1>7. \A flags : /\ Become(s, StartWaiting(mcn[s]), flags)
                 /\ n.state = "HELLO" /\ m.type = "HELLO" /\ n.value > m.value
                 => Invites(n, p, m) /\ V(p) /\ act'[s] = flags
  <2>1. /\ V(StartWaiting(n))
        /\ n.state = "HELLO" /\ m.type = "HELLO" /\ n.value > m.value
           => Invites(n, StartWaiting(n), m)
    BY <1>n, Fields DEF Invites
  <2>. QED
    BY <1>b, <2>1
<1>8. \A v, st, flags : Become(s, Accept(mcn[s], v, st), flags)
        => /\ p.state = st /\ p.know = v /\ p.sent = n.sent /\ p.next = NextValue(v)
           /\ V(p) /\ act'[s] = flags
  <2>1. \A v, st : LET q == Accept(n, v, st) IN
          /\ q.state = st /\ q.know = v /\ q.sent = n.sent /\ q.next = NextValue(v)
          /\ V(q)
    BY <1>n, Fields
  <2>. QED
    BY <1>b, <2>1
<1>. HIDE DEF V
<1>11. CASE ReceivedHello(s, m)
  <2>1. n.state = "HELLO"
    BY <1>11 DEF ReceivedHello
  <2>2. /\ V(p) /\ act'[s] = {"SEND"}
        /\ Still(n, p) \/ Invites(n, p, m) \/ Takes(n, p, m)
    <3>1. CASE m.type = "HELLO" /\ n.value > m.value
               /\ Become(s, StartWaiting(n), {"SEND"})
      BY <1>7, <2>1, <3>1
    <3>2. CASE \E v \in Redraw[s] : Become(s, SetRandom(n, v), {"SEND"})
      BY <1>4, <3>2
    <3>3. CASE Ignore(s, {"SEND"})
      BY <1>1, <3>3
    <3>4. CASE /\ m.type = "ENTL" /\ m.value = 0
               /\ Become(s, Accept(n, 0, "SEND"), {"SEND"})
      BY <1>8, <2>1, <3>4 DEF Takes, TakenTo
    <3>. QED
      BY <1>11, <3>1, <3>2, <3>3, <3>4 DEF ReceivedHello
  <2>. QED
    BY <2>1, <2>2 DEF V, Invites
<1>12. CASE ReceivedWait(s, m)
  <2>1. n.state = "WAIT"
    BY <1>12 DEF ReceivedWait
  <2>2. /\ V(p) /\ act'[s] \in {{}, {"SEND"}}
        /\ Still(n, p) \/ Greets(n, p) \/ Takes(n, p, m)
    <3>1. CASE Become(s, CountHello(n), {})
      BY <1>3, <3>1
    <3>2. CASE BackToHello(s, n, {"SEND"}) \/ SequenceError(s, {"SEND"})
      BY <1>5, <1>6, <2>1, <3>2
    <3>3. CASE /\ m.type = "ENTL" /\ m.value = NextValue(n.sent)
               /\ Become(s, Accept(n, m.value, "SEND"), {"SEND"})
      BY <1>8, <2>1, <3>3 DEF Takes, TakenTo
    <3>. QED
      BY <1>12, <3>1, <3>2, <3>3 DEF ReceivedWait
  <2>. QED
    BY <2>1, <2>2 DEF V, Invites
<1>13. CASE ReceivedSend(s, m)
  <2>1. n.state = "SEND"
    BY <1>13 DEF ReceivedSend
  <2>2. V(p) /\ act'[s] \in {{}, {"ERROR"}} /\ (Still(n, p) \/ Greets(n, p))
    BY <1>1, <1>2, <1>5, <1>13, <2>1 DEF ReceivedSend
  <2>. QED
    BY <2>1, <2>2 DEF V, Invites
<1>14. CASE ReceivedReceive(s, m, full)
  <2>1. n.state = "RECEIVE"
    BY <1>14 DEF ReceivedReceive
  <2>2. /\ V(p) /\ (Still(n, p) \/ Greets(n, p) \/ Takes(n, p, m))
        /\ \/ act'[s] \in {{}, {"SEND"}, {"ERROR"}} /\ p.state # "SB"
           \/ act'[s] = {"SEND", "PROC_AIT"} /\ p.state = "SB"
    <3>1. CASE Ignore(s, {}) \/ SequenceError(s, {"ERROR"})
      BY <1>1, <1>5, <2>1, <3>1 DEF Still, Greets
    <3>2. CASE /\ m.type \in {"ENTL", "AITS"} /\ m.value = Plus2(n.know)
               /\ Become(s, Accept(n, m.value, "SEND"), {"SEND"})
      BY <1>8, <2>1, <3>2 DEF Takes, TakenTo
    <3>3. CASE /\ m.type = "AITS" /\ m.op = "AIT" /\ m.value = Plus2(n.know)
               /\ Become(s, Accept(n, m.value, "SB"), {"SEND", "PROC_AIT"})
      BY <1>8, <2>1, <3>3 DEF Takes, TakenTo, Message
    <3>4. CASE /\ m.type = "AITS" /\ m.value = Plus2(n.know)
               /\ Become(s, Accept(n, m.value, "SBL"), {"SEND"})
      BY <1>8, <2>1, <3>4 DEF Takes, TakenTo
    <3>. QED
      BY <1>14, <3>1, <3>2, <3>3, <3>4 DEF ReceivedReceive, Expected
  <2>. QED
    BY <2>1, <2>2 DEF V, Invites
<1>15. CASE ReceivedRA(s, m)
  <2>1. n.state = "RA"
    BY <1>15 DEF ReceivedRA
  <2>2. /\ V(p) /\ (Greets(n, p) \/ Takes(n, p, m))
        /\ act'[s] \in {{"SEND"}, {"ERROR"}}
    <3>1. CASE SequenceError(s, {"ERROR"})
      BY <1>5, <2>1, <3>1
    <3>2. CASE /\ m.type = "AITR" /\ m.value = Plus2(n.know)
               /\ Become(s, Accept(n, m.value, "SA"), {"SEND"})
      BY <1>8, <2>1, <3>2 DEF Takes, TakenTo
    <3>3. CASE /\ m.type = "ENTL" /\ m.value = Plus2(n.know)
               /\ Become(s, Accept(n, m.value, "SEND"), {"SEND"})
      BY <1>8, <2>1, <3>3 DEF Takes, TakenTo
    <3>. QED
      BY <1>15, <3>1, <3>2, <3>3 DEF ReceivedRA, Expected
  <2>. QED
    BY <2>1, <2>2 DEF V, Invites
<1>16. CASE ReceivedRAL(s, m)
  <2>1. n.state = "RAL"
    BY <1>16 DEF ReceivedRAL
  <2>2. /\ V(p) /\ (Greets(n, p) \/ Takes(n, p, m))
        /\ "PROC_AIT" \notin act'[s]
    <3>1. CASE SequenceError(s, {"ERROR"})
      BY <1>5, <2>1, <3>1
    <3>2. ASSUME NEW sig \in SUBSET {"SIG_AIT"}, m.type = "AITR",
                 m.value = Plus2(n.know),
                 Become(s, Accept(n, m.value, "SAL"), {"SEND"} \cup sig)
          PROVE  /\ V(p) /\ (Greets(n, p) \/ Takes(n, p, m))
                 /\ "PROC_AIT" \notin act'[s]
      <4>1. act'[s] = {"SEND"} \cup sig /\ V(p) /\ Takes(n, p, m)
        BY <1>8, <2>1, <3>2 DEF Takes, TakenTo
      <4>2. "PROC_AIT" \notin {"SEND"} \cup sig
        BY <3>2
      <4>. QED
        BY <4>1, <4>2
    <3>. QED
      BY <1>16, <3>1, <3>2 DEF ReceivedRAL, Expected
  <2>. QED
    BY <2>1, <2>2 DEF V, Invites
<1>17. CASE ReceivedSA(s, m) \/ ReceivedSB(s, m)
  <2>1. n.state \in {"SA", "SAL", "SB", "SBL"}
    BY <1>17 DEF ReceivedSA, ReceivedSB, ReceivedAcking
  <2>2. /\ V(p) /\ act'[s] \in {{}, {"ERROR"}}
        /\ \/ Still(n, p) /\ (n.state = "SB" => Echo(m, n.know))
           \/ Greets(n, p)
    BY <1>1, <1>5, <1>17, <2>1 DEF ReceivedSA, ReceivedSB, ReceivedAcking, Repeated, Echo
  <2>. QED
    BY <2>1, <2>2 DEF V, Invites, Greets
<1>18. CASE ReceivedRB(s, m)
  <2>1. n.state = "RB"
    BY <1>18 DEF ReceivedRB
  <2>2. /\ V(p) /\ (Still(n, p) \/ Greets(n, p) \/ Takes(n, p, m))
        /\ \/ act'[s] \in {{}, {"ERROR"}} /\ p.state # "SEND"
           \/ act'[s] = {"SEND", "SIG_AIT"} /\ p.state = "SEND"
        /\ p.state = "RB" => Echo(m, n.know)
    <3>1. CASE Repeated(s, m, "AITS") /\ Ignore(s, {})
      BY <1>1, <2>1, <3>1 DEF Still, Repeated, Echo
    <3>3. CASE SequenceError(s, {"ERROR"})
      BY <1>5, <2>1, <3>3 DEF Greets
    <3>2. CASE /\ m.type = "AITA" /\ m.value = Plus2(n.know)
               /\ Become(s, Accept(n, m.value, "SEND"), {"SEND", "SIG_AIT"})
      BY <1>8, <2>1, <3>2 DEF Takes, TakenTo
    <3>. QED
      BY <1>18, <3>1, <3>2, <3>3 DEF ReceivedRB, Expected
  <2>. QED
    BY <2>1, <2>2 DEF V, Invites
<1>19. CASE ReceivedRBL(s, m)
  <2>1. n.state = "RBL"
    BY <1>19 DEF ReceivedRBL
  <2>2. /\ V(p) /\ (Still(n, p) \/ Greets(n, p) \/ Takes(n, p, m))
        /\ "PROC_AIT" \notin act'[s]
    <3>1. CASE Ignore(s, {}) \/ SequenceError(s, {"ERROR"})
      BY <1>1, <1>5, <2>1, <3>1
    <3>2. ASSUME NEW sig \in SUBSET {"SIG_AIT"}, m.type = "AITA",
                 m.value = Plus2(n.know),
                 Become(s, Accept(n, m.value, "SEND"), {"SEND"} \cup sig)
          PROVE  /\ V(p) /\ (Still(n, p) \/ Greets(n, p) \/ Takes(n, p, m))
                 /\ "PROC_AIT" \notin act'[s]
      <4>1. act'[s] = {"SEND"} \cup sig /\ V(p) /\ Takes(n, p, m)
        BY <1>8, <2>1, <3>2 DEF Takes, TakenTo
      <4>2. "PROC_AIT" \notin {"SEND"} \cup sig
        BY <3>2
      <4>. QED
        BY <4>1, <4>2
    <3>. QED
      BY <1>19, <3>1, <3>2 DEF ReceivedRBL, Expected
  <2>. QED
    BY <2>1, <2>2 DEF V, Invites
<1>. QED
  BY <1>11, <1>12, <1>13, <1>14, <1>15, <1>16, <1>17, <1>18, <1>19 DEF Received

\* The packet that gives the token away; k is the head of the queue.
Gives(n, p, m, kind, k) ==
  /\ m.value = n.next /\ p.sent = n.next /\ p.next = Plus2(n.next)
  /\ \/ /\ n.state = "SEND" /\ p.state = "RECEIVE" /\ m.type = "ENTL"
        /\ ~MayTransfer(n) \/ kind \notin Kind
     \/ /\ n.state = "SEND" /\ p.state = "RAL" /\ MayTransfer(n)
        /\ m.type = "AITS" /\ m.op = "ALO" /\ kind \in {"ALO", "BOTH"}
     \/ /\ n.state = "SEND" /\ p.state = "RA" /\ MayTransfer(n)
        /\ Message(m) /\ m.id = k /\ kind \in {"AIT", "BOTH"}
     \/ n.state \in {"SA", "SAL"} /\ p.state = "RECEIVE" /\ m.type = "AITA"
     \/ /\ n.state \in {"SB", "SBL"} /\ p.state \in {"RB", "RBL"}
        /\ m.type = "AITR" /\ (p.state = "RB" <=> n.state = "SB")

\* A command that alo_initiate refuses: the number is spent on no packet.
Spends(n, p, kind) ==
  /\ n.state = "SEND" /\ p.state = "SEND" /\ MayTransfer(n) /\ kind = "ALO"
  /\ p.sent = n.next /\ p.next = Plus2(n.next)

LEMMA PacketFields ==
  ASSUME NEW v \in Nat, NEW k \in Nat
  PROVE  /\ \A type \in {"HELLO", "ENTL", "AITR", "AITA"} :
              Pkt(type, v) \in Packet /\ Pkt(type, v).type = type
              /\ Pkt(type, v).value = v
         /\ \A op \in {"AIT", "ALO"} :
              /\ Aits(v, op, k) \in Packet /\ Aits(v, op, k).type = "AITS"
              /\ Aits(v, op, k).value = v /\ Aits(v, op, k).op = op
              /\ Aits(v, op, k).id = k
BY DEF Packet, Pkt, Aits

\* What entl_next_send does, and when it tells the caller to drop its head.
LEMMA NextSendCases ==
  ASSUME TypeOK, NEW s \in Side, NEW kind, NEW ok, NEW k \in Nat,
         NextSend(s, kind, ok, k),
         NEW n, n = mcn[s], NEW p, p = mcn'[s]
  PROVE  /\ p.value = n.value /\ p.failed = n.failed /\ p.know = n.know
         /\ \/ /\ p = n /\ chan' = chan
               /\ n.failed \/ n.state \in WaitingState
            \/ ~n.failed /\ Spends(n, p, kind) /\ chan' = chan
            \/ \E m \in Packet :
                 /\ ~n.failed /\ Transmit(s, m)
                 /\ \/ p = n /\ n.state = "HELLO" /\ m = Pkt("HELLO", n.value)
                    \/ p = n /\ n.state = "WAIT" /\ m = Pkt("ENTL", 0)
                    \/ Gives(n, p, m, kind, k)
         /\ "DROP_AIT" \in act'[s] <=> ~n.failed /\ n.state \in {"SA", "SAL"}
<1>n. n \in Machine /\ n.next \in Nat /\ n.value \in Nat
  BY EventNumbers DEF TypeOK, Machine
<1>b. \A q, flags : Become(s, q, flags) => p = q /\ act'[s] = flags
  BY OnlyThisEnd
<1>1. \A flags : Ignore(s, flags) => p = n /\ act'[s] = flags
  BY <1>b DEF Ignore
<1>2. \A st, flags : Become(s, Spend(mcn[s], st), flags)
        => /\ p.state = st /\ p.know = n.know /\ p.sent = n.next
           /\ p.next = Plus2(n.next) /\ p.value = n.value /\ p.failed = n.failed
           /\ act'[s] = flags
  <2>1. \A st : LET q == Spend(n, st) IN
          /\ q.state = st /\ q.know = n.know /\ q.sent = n.next
          /\ q.next = Plus2(n.next) /\ q.value = n.value /\ q.failed = n.failed
    BY <1>n, Fields
  <2>. QED
    BY <1>b, <2>1
<1>3. CASE SendHello(s)
  <2>1. /\ n.state = "HELLO" /\ ~n.failed /\ p = n /\ act'[s] = {"SEND"}
        /\ Transmit(s, Pkt("HELLO", n.value)) /\ Pkt("HELLO", n.value) \in Packet
    BY <1>n, <1>1, <1>3, PacketFields DEF SendHello
  <2>. QED
    BY <2>1
<1>4. CASE SendWait(s)
  <2>1. /\ n.state = "WAIT" /\ ~n.failed /\ p = n /\ act'[s] = {"SEND"}
        /\ Transmit(s, Pkt("ENTL", 0)) /\ Pkt("ENTL", 0) \in Packet
    BY <1>1, <1>4, PacketFields DEF SendWait
  <2>. QED
    BY <2>1
<1>5. CASE SendEvent(s, kind)
  <2>. DEFINE m == Pkt("ENTL", n.next)
  <2>1. /\ n.state = "SEND" /\ ~n.failed /\ act'[s] = {"SEND"}
        /\ p.state = "RECEIVE" /\ p.know = n.know /\ p.sent = n.next
        /\ p.next = Plus2(n.next) /\ p.value = n.value /\ p.failed = n.failed
        /\ ~MayTransfer(n) \/ kind \notin Kind
    BY <1>2, <1>5 DEF SendEvent
  <2>2. Transmit(s, m) /\ m \in Packet /\ m.type = "ENTL" /\ m.value = n.next
    BY <1>n, <1>5, PacketFields DEF SendEvent
  <2>3. Gives(n, p, m, kind, k)
    BY <2>1, <2>2 DEF Gives
  <2>. HIDE DEF m
  <2>. QED
    BY <2>1, <2>2, <2>3
<1>6. CASE SendTransfer(s, kind, ok, k)
  <2>1. n.state = "SEND" /\ ~n.failed /\ MayTransfer(n)
    BY <1>6 DEF SendTransfer
  <2>2. CASE /\ kind \in {"ALO", "BOTH"}
             /\ Become(s, Spend(n, "RAL"), {"SEND"})
             /\ Transmit(s, Aits(n.next, "ALO", k))
    <3>. DEFINE m == Aits(n.next, "ALO", k)
    <3>1. /\ p.state = "RAL" /\ act'[s] = {"SEND"} /\ p.know = n.know
          /\ p.sent = n.next /\ p.next = Plus2(n.next)
          /\ p.value = n.value /\ p.failed = n.failed
      BY <1>2, <2>2
    <3>2. /\ Transmit(s, m) /\ m \in Packet /\ m.type = "AITS" /\ m.op = "ALO"
          /\ m.value = n.next
      BY <1>n, <2>2, PacketFields
    <3>3. Gives(n, p, m, kind, k)
      BY <2>1, <2>2, <3>1, <3>2 DEF Gives
    <3>. HIDE DEF m
    <3>. QED
      BY <2>1, <3>1, <3>2, <3>3
  <2>3. CASE /\ kind \in {"AIT", "BOTH"}
             /\ Become(s, Spend(n, "RA"), {"SEND"})
             /\ Transmit(s, Aits(n.next, "AIT", k))
    <3>. DEFINE m == Aits(n.next, "AIT", k)
    <3>1. /\ p.state = "RA" /\ act'[s] = {"SEND"} /\ p.know = n.know
          /\ p.sent = n.next /\ p.next = Plus2(n.next)
          /\ p.value = n.value /\ p.failed = n.failed
      BY <1>2, <2>3
    <3>2. /\ Transmit(s, m) /\ m \in Packet /\ Message(m) /\ m.id = k
          /\ m.value = n.next
      BY <1>n, <2>3, PacketFields DEF Message
    <3>3. Gives(n, p, m, kind, k)
      BY <2>1, <2>3, <3>1, <3>2 DEF Gives
    <3>. HIDE DEF m
    <3>. QED
      BY <2>1, <3>1, <3>2, <3>3
  <2>4. CASE /\ kind = "ALO" /\ Become(s, Spend(n, "SEND"), {}) /\ UNCHANGED chan
    <3>1. /\ p.state = "SEND" /\ act'[s] = {} /\ p.know = n.know
          /\ p.sent = n.next /\ p.next = Plus2(n.next)
          /\ p.value = n.value /\ p.failed = n.failed
      BY <1>2, <2>4
    <3>. QED
      BY <2>1, <2>4, <3>1 DEF Spends
  <2>. QED
    BY <1>6, <2>2, <2>3, <2>4 DEF SendTransfer
<1>7. CASE SendAita(s)
  <2>. DEFINE m == Pkt("AITA", n.next)
  <2>1. /\ n.state \in {"SA", "SAL"} /\ ~n.failed
        /\ act'[s] = {"SEND", "SIG_AIT", "DROP_AIT"}
        /\ p.state = "RECEIVE" /\ p.know = n.know /\ p.sent = n.next
        /\ p.next = Plus2(n.next) /\ p.value = n.value /\ p.failed = n.failed
    BY <1>2, <1>7 DEF SendAita
  <2>2. Transmit(s, m) /\ m \in Packet /\ m.type = "AITA" /\ m.value = n.next
    BY <1>n, <1>7, PacketFields DEF SendAita
  <2>3. Gives(n, p, m, kind, k)
    BY <2>1, <2>2 DEF Gives
  <2>. HIDE DEF m
  <2>. QED
    BY <2>1, <2>2, <2>3
<1>8. CASE SendAitr(s)
  <2>. DEFINE m == Pkt("AITR", n.next)
  <2>1. /\ n.state \in {"SB", "SBL"} /\ ~n.failed /\ act'[s] = {"SEND"}
        /\ p.state = (IF n.state = "SB" THEN "RB" ELSE "RBL")
        /\ p.know = n.know /\ p.sent = n.next
        /\ p.next = Plus2(n.next) /\ p.value = n.value /\ p.failed = n.failed
    BY <1>2, <1>8 DEF SendAitr
  <2>2. Transmit(s, m) /\ m \in Packet /\ m.type = "AITR" /\ m.value = n.next
    BY <1>n, <1>8, PacketFields DEF SendAitr
  <2>3. Gives(n, p, m, kind, k)
    BY <2>1, <2>2 DEF Gives
  <2>. HIDE DEF m
  <2>. QED
    BY <2>1, <2>2, <2>3
<1>9. CASE SendNothing(s)
  <2>1. /\ p = n /\ act'[s] = {} /\ chan' = chan
        /\ n.failed \/ n.state \in WaitingState
    BY <1>1, <1>9 DEF SendNothing, WaitingState
  <2>. QED
    BY <2>1 DEF WaitingState
<1>. QED
  BY <1>3, <1>4, <1>5, <1>6, <1>7, <1>8, <1>9 DEF NextSend

-----------------------------------------------------------------------------
(* What a step does to the wires.                                           *)

\* The wire towards s loses or repeats its first packet, or stays as it is.
Thinned(s) ==
  /\ chan'[Peer(s)] = chan[Peer(s)]
  /\ \E f \in [DOMAIN chan'[s] -> DOMAIN chan[s]] :
       \A i \in DOMAIN chan'[s] :
         /\ chan'[s][i] = chan[s][f[i]]
         /\ \A j \in DOMAIN chan'[s] : i <= j => f[i] <= f[j]

\* s sends m.
Grown(s, m) ==
  /\ chan'[s] = chan[s]
  /\ Len(chan'[Peer(s)]) = Len(chan[Peer(s)]) + 1
  /\ DOMAIN chan'[Peer(s)] = DOMAIN chan[Peer(s)] \cup {Len(chan[Peer(s)]) + 1}
  /\ \A i \in DOMAIN chan[Peer(s)] :
       chan'[Peer(s)][i] = chan[Peer(s)][i] /\ i < Len(chan[Peer(s)]) + 1
  /\ chan'[Peer(s)][Len(chan[Peer(s)]) + 1] = m

LEMMA ThinnedByTail ==
  ASSUME TypeOK, NEW s \in Side, chan[s] # <<>>,
         chan' = [chan EXCEPT ![s] = Tail(@)]
  PROVE  /\ Thinned(s) /\ 1 \in DOMAIN chan[s]
         /\ chan[s][1] \in Packet /\ Head(chan[s]) = chan[s][1]
<1>1. chan[s] \in Seq(Packet) /\ Peer(s) # s /\ Peer(s) \in Side
  BY SideFacts DEF TypeOK
<1>2. chan'[s] = Tail(chan[s]) /\ chan'[Peer(s)] = chan[Peer(s)]
  BY <1>1 DEF TypeOK
<1>3. /\ Head(chan[s]) = chan[s][1] /\ 1 \in 1 .. Len(chan[s]) /\ chan[s][1] \in Packet
      /\ Len(Tail(chan[s])) = Len(chan[s]) - 1 /\ Len(chan[s]) \in Nat
      /\ \A i \in 1 .. Len(chan[s]) - 1 :
           Tail(chan[s])[i] = chan[s][i + 1] /\ i + 1 \in 1 .. Len(chan[s])
  BY <1>1, TailFacts
<1>4. DOMAIN chan[s] = 1 .. Len(chan[s]) /\ DOMAIN chan'[s] = 1 .. Len(chan[s]) - 1
  <2>1. \A c \in Seq(Packet) : DOMAIN c = 1 .. Len(c)
    OBVIOUS
  <2>2. Tail(chan[s]) \in Seq(Packet)
    BY <1>1
  <2>. QED
    BY <1>1, <1>2, <1>3, <2>1, <2>2
<1>. DEFINE f == [i \in DOMAIN chan'[s] |-> i + 1]
<1>5. f \in [DOMAIN chan'[s] -> DOMAIN chan[s]]
  BY <1>3, <1>4
<1>6. \A i \in DOMAIN chan'[s] :
        /\ chan'[s][i] = chan[s][f[i]]
        /\ \A j \in DOMAIN chan'[s] : i <= j => f[i] <= f[j]
  BY <1>2, <1>3, <1>4
<1>. QED
  BY <1>2, <1>3, <1>4, <1>5, <1>6 DEF Thinned

LEMMA ThinnedByRepeat ==
  ASSUME TypeOK, NEW s \in Side, chan[s] # <<>>,
         chan' = [chan EXCEPT ![s] = <<Head(@)>> \o @]
  PROVE  Thinned(s)
<1>1. chan[s] \in Seq(Packet) /\ Peer(s) # s /\ Peer(s) \in Side
  BY SideFacts DEF TypeOK
<1>2. chan'[s] = <<Head(chan[s])>> \o chan[s] /\ chan'[Peer(s)] = chan[Peer(s)]
  BY <1>1 DEF TypeOK
<1>3. /\ Head(chan[s]) = chan[s][1] /\ 1 \in 1 .. Len(chan[s])
      /\ chan[s][1] \in Packet /\ Len(chan[s]) \in Nat
  BY <1>1, TailFacts
<1>4. <<Head(chan[s])>> \in Seq(Packet) /\ Len(<<Head(chan[s])>>) = 1
      /\ <<Head(chan[s])>>[1] = chan[s][1]
  BY <1>3
<1>5. /\ DOMAIN chan[s] = 1 .. Len(chan[s])
      /\ DOMAIN chan'[s] = 1 .. Len(chan[s]) + 1
      /\ \A i \in 1 .. Len(chan[s]) + 1 :
           chan'[s][i] = IF i = 1 THEN chan[s][1] ELSE chan[s][i - 1]
  BY <1>1, <1>2, <1>3, <1>4
<1>. DEFINE f == [i \in DOMAIN chan'[s] |-> IF i = 1 THEN 1 ELSE i - 1]
<1>f. \A i \in DOMAIN chan'[s] : f[i] = IF i = 1 THEN 1 ELSE i - 1
  OBVIOUS
<1>6. f \in [DOMAIN chan'[s] -> DOMAIN chan[s]]
  BY <1>3, <1>5
<1>. HIDE DEF f
<1>7. \A i \in DOMAIN chan'[s] :
        /\ chan'[s][i] = chan[s][f[i]]
        /\ \A j \in DOMAIN chan'[s] : i <= j => f[i] <= f[j]
  <2>. SUFFICES ASSUME NEW i \in DOMAIN chan'[s]
       PROVE  /\ chan'[s][i] = chan[s][f[i]]
              /\ \A j \in DOMAIN chan'[s] : i <= j => f[i] <= f[j]
    OBVIOUS
  <2>1. \A j \in DOMAIN chan'[s] : j \in Int /\ j >= 1
    BY <1>3, <1>5
  <2>2. chan'[s][i] = chan[s][f[i]]
    BY <1>f, <1>5
  <2>3. \A j \in DOMAIN chan'[s] : i <= j => f[i] <= f[j]
    BY <1>f, <2>1
  <2>. QED
    BY <2>2, <2>3
<1>. QED
  BY <1>2, <1>6, <1>7 DEF Thinned

LEMMA GrownByTransmit ==
  ASSUME TypeOK, NEW s \in Side, NEW m \in Packet, Transmit(s, m)
  PROVE  Grown(s, m)
<1>1. chan[Peer(s)] \in Seq(Packet) /\ Peer(s) # s /\ Peer(s) \in Side
  BY SideFacts DEF TypeOK
<1>2. chan'[Peer(s)] = Append(chan[Peer(s)], m) /\ chan'[s] = chan[s]
  BY <1>1 DEF Transmit, TypeOK
<1>3. /\ Len(Append(chan[Peer(s)], m)) = Len(chan[Peer(s)]) + 1
      /\ Len(chan[Peer(s)]) \in Nat
      /\ Append(chan[Peer(s)], m)[Len(chan[Peer(s)]) + 1] = m
      /\ \A i \in 1 .. Len(chan[Peer(s)]) :
           Append(chan[Peer(s)], m)[i] = chan[Peer(s)][i]
  BY <1>1, AppendFacts
<1>4. /\ DOMAIN chan[Peer(s)] = 1 .. Len(chan[Peer(s)])
      /\ DOMAIN chan'[Peer(s)] = 1 .. Len(chan[Peer(s)]) + 1
  BY <1>1, <1>2, <1>3
<1>. QED
  BY <1>2, <1>3, <1>4 DEF Grown

\* A caller hands the first packet to entl_received.
Hears(s, m) ==
  /\ 1 \in DOMAIN chan[s] /\ chan[s][1] = m /\ Thinned(s)
  /\ mcn'[Peer(s)] = mcn[Peer(s)]
  /\ mcn'[s].value \in {mcn[s].value} \cup Redraw[s]
  /\ mcn[s].failed => mcn'[s].failed
  /\ \/ Still(mcn[s], mcn'[s]) \/ Greets(mcn[s], mcn'[s])
     \/ Invites(mcn[s], mcn'[s], m) \/ Takes(mcn[s], mcn'[s], m)

LEMMA ReceiveHears ==
  ASSUME TypeOK, NEW s \in Side, Receive(s)
  PROVE  \E m \in Packet : Hears(s, m)
<1>1. PICK full \in FullReports(s) : Received(s, Head(chan[s]), full)
  BY DEF Receive
<1>2. /\ Thinned(s) /\ 1 \in DOMAIN chan[s]
      /\ chan[s][1] \in Packet /\ Head(chan[s]) = chan[s][1]
  BY ThinnedByTail DEF Receive
<1>3. mcn'[Peer(s)] = mcn[Peer(s)]
  BY <1>1, ReceivedOnlyHere
<1>4. PICK n : n = mcn[s]
  OBVIOUS
<1>5. PICK p : p = mcn'[s]
  OBVIOUS
<1>6. PICK m \in Packet : m = chan[s][1]
  BY <1>2
<1>7. /\ p.value \in {n.value} \cup Redraw[s]
      /\ n.failed => p.failed
      /\ Still(n, p) \/ Greets(n, p) \/ Invites(n, p, m) \/ Takes(n, p, m)
  BY <1>1, <1>2, <1>4, <1>5, <1>6, ReceivedCases
<1>. QED
  BY <1>2, <1>3, <1>4, <1>5, <1>6, <1>7 DEF Hears

\* entl_next_send adds nothing to the wire, or packet m.
SaysNothing(s, kind) ==
  /\ chan' = chan
  /\ \/ mcn'[s] = mcn[s] /\ (mcn[s].failed \/ mcn[s].state \in WaitingState)
     \/ ~mcn[s].failed /\ Spends(mcn[s], mcn'[s], kind)

Says(s, m, kind, k) ==
  /\ Grown(s, m) /\ ~mcn[s].failed
  /\ \/ /\ mcn'[s] = mcn[s] /\ mcn[s].state = "HELLO"
        /\ m = Pkt("HELLO", mcn[s].value)
     \/ mcn'[s] = mcn[s] /\ mcn[s].state = "WAIT" /\ m = Pkt("ENTL", 0)
     \/ Gives(mcn[s], mcn'[s], m, kind, k)

LEMMA SendSays ==
  ASSUME TypeOK, NEW s \in Side, Send(s)
  PROVE  /\ mcn'[Peer(s)] = mcn[Peer(s)]
         /\ mcn'[s].value = mcn[s].value /\ mcn'[s].failed = mcn[s].failed
         /\ mcn'[s].know = mcn[s].know
         /\ \/ SaysNothing(s, Offered(s))
            \/ \E m \in Packet : Says(s, m, Offered(s), dropped[s] + 1)
         /\ "DROP_AIT" \in act'[s]
              <=> ~mcn[s].failed /\ mcn[s].state \in {"SA", "SAL"}
<1>1. PICK ok \in Initiates : NextSend(s, Offered(s), ok, dropped[s] + 1)
  BY DEF Send
<1>2. mcn'[Peer(s)] = mcn[Peer(s)]
  BY <1>1, NextSendOnlyHere
<1>3. dropped[s] + 1 \in Nat
  BY DEF TypeOK
<1>4. PICK n : n = mcn[s]
  OBVIOUS
<1>5. PICK p : p = mcn'[s]
  OBVIOUS
<1>6. PICK kind : kind = Offered(s)
  OBVIOUS
<1>7. PICK k \in Nat : k = dropped[s] + 1
  BY <1>3
<1>8. /\ p.value = n.value /\ p.failed = n.failed /\ p.know = n.know
      /\ \/ /\ p = n /\ chan' = chan
            /\ n.failed \/ n.state \in WaitingState
         \/ ~n.failed /\ Spends(n, p, kind) /\ chan' = chan
         \/ \E m \in Packet :
              /\ ~n.failed /\ Transmit(s, m)
              /\ \/ p = n /\ n.state = "HELLO" /\ m = Pkt("HELLO", n.value)
                 \/ p = n /\ n.state = "WAIT" /\ m = Pkt("ENTL", 0)
                 \/ Gives(n, p, m, kind, k)
      /\ "DROP_AIT" \in act'[s] <=> ~n.failed /\ n.state \in {"SA", "SAL"}
  BY <1>1, <1>4, <1>5, <1>6, <1>7, NextSendCases
<1>9. SaysNothing(s, kind) \/ \E m \in Packet : Says(s, m, kind, k)
  BY <1>4, <1>5, <1>8, GrownByTransmit DEF SaysNothing, Says
<1>. QED
  BY <1>2, <1>4, <1>5, <1>6, <1>7, <1>8, <1>9

-----------------------------------------------------------------------------
(* TokenInv.                                                                *)

LEMMA OldPackets ==
  ASSUME NEW s \in Side, Thinned(s)
  PROVE  \A i \in DOMAIN chan'[s] : \E j \in DOMAIN chan[s] : chan'[s][i] = chan[s][j]
BY DEF Thinned

LEMMA SpentThinned ==
  ASSUME NEW s \in Side, Thinned(s), AllSpent(s), mcn'[s].know = mcn[s].know
  PROVE  AllSpent(s)'
BY OldPackets DEF AllSpent, Spent

LEMMA SpentSame ==
  ASSUME NEW s \in Side, chan'[s] = chan[s], AllSpent(s),
         mcn'[s].know = mcn[s].know
  PROVE  AllSpent(s)'
BY DEF AllSpent, Spent

\* An end that hears nothing but what is spent takes no event.
LEMMA SpentIsNotTaken ==
  ASSUME TypeOK, NEW s \in Side, NEW m, Spent(s, m),
         mcn[s].state \notin {"HELLO", "WAIT"}, NEW p
  PROVE  ~Takes(mcn[s], p, m)
<1>1. mcn[s].know \in EventNumber
  BY DEF TypeOK, Machine
<1>2. Plus2(mcn[s].know) # mcn[s].know
  BY <1>1, NextValueTwice
<1>. QED
  BY <1>2 DEF Spent, Takes, TakenTo, Message

Live == ~restarted /\ \A s \in Side : ~mcn[s].failed

TokenPhase(u) == Unheard(u) \/ \E s \in Side : TokenAt(s) \/ TokenFrom(s)

LEMMA UnheardReceive ==
  ASSUME TypeOK, NEW u \in Side, Outdraws(u), Drawn, Live', Unheard(u),
         NEW s \in Side, NEW m \in Packet, Hears(s, m)
  PROVE  TokenPhase(u)'
<1>. DEFINE l == Peer(u)
<1>0. l \in Side /\ l # u /\ Peer(l) = u /\ (s = u \/ s = l)
  BY SideFacts
<1>1. ~mcn'[u].failed /\ ~mcn'[l].failed
  BY <1>0 DEF Live
<1>2. /\ mcn[u].state \in {"HELLO", "WAIT"} /\ mcn[u].sent = 0
      /\ mcn[l].know = 0 /\ AllSpent(l)
      /\ \A i \in DOMAIN chan[l] : chan[l][i].type \in {"HELLO", "ENTL"}
      /\ \A i \in DOMAIN chan[u] :
           \/ chan[u][i].type = "HELLO"
           \/ /\ mcn[l].state = "RECEIVE"
              /\ chan[u][i].type = "ENTL" /\ chan[u][i].value = 1
      /\ \/ mcn[l].state = "HELLO" /\ mcn[l].sent = 0
         \/ mcn[l].state = "SEND" /\ mcn[l].sent = 0 /\ mcn[l].next = 1
         \/ mcn[l].state = "RECEIVE"
  BY DEF Unheard
<1>4. CASE s = u
  <2>1. mcn'[l] = mcn[l] /\ chan'[l] = chan[l] /\ AllSpent(l)'
    BY <1>0, <1>2, <1>4, SpentSame DEF Hears, Thinned
  <2>2. \A i \in DOMAIN chan'[u] :
           \/ chan'[u][i].type = "HELLO"
           \/ /\ mcn'[l].state = "RECEIVE"
              /\ chan'[u][i].type = "ENTL" /\ chan'[u][i].value = 1
    BY <1>2, <1>4, <2>1, OldPackets DEF Hears
  <2>3. CASE mcn'[u].state \in {"HELLO", "WAIT"} /\ mcn'[u].sent = 0
    BY <1>2, <2>1, <2>2, <2>3 DEF Unheard, TokenPhase
  <2>4. CASE Takes(mcn[u], mcn'[u], m)
    <3>1. m.type = "ENTL" /\ m.value = 1 /\ mcn[l].state = "RECEIVE"
      BY <1>2, <1>4, <2>4 DEF Hears, Takes, TakenTo
    <3>2. mcn'[u].state = "SEND" /\ mcn'[u].know = 1
      BY <1>2, <2>4, <3>1 DEF Takes, TakenTo
    <3>3. AllSpent(u)'
      BY <2>2, <3>2 DEF AllSpent, Spent
    <3>4. TokenAt(u)'
      BY <2>1, <3>1, <3>2, <3>3 DEF TokenAt, HolderState, WaitingState
    <3>. QED
      BY <3>4 DEF TokenPhase
  <2>. QED
    BY <1>2, <1>4, <2>3, <2>4 DEF Hears, Still, Greets, Invites
<1>5. CASE s = l
  <2>0. chan[l][1] = m /\ 1 \in DOMAIN chan[l]
    BY <1>5 DEF Hears
  <2>1. mcn'[u] = mcn[u] /\ chan'[u] = chan[u]
    BY <1>0, <1>5 DEF Hears, Thinned
  <2>2. \A i \in DOMAIN chan'[l] : chan'[l][i].type \in {"HELLO", "ENTL"}
    BY <1>2, <1>5, OldPackets DEF Hears
  <2>3. ~Greets(mcn[l], mcn'[l])
    BY <1>1, <1>2 DEF Greets
  <2>4. ~Invites(mcn[l], mcn'[l], m)
    <3>1. m.type = "HELLO" => m.value \in drawn[u] /\ mcn[l].value \in drawn[l]
      BY <1>0, <2>0 DEF Drawn
    <3>2. m.type = "HELLO" => m.value > mcn[l].value /\ m.value \in Nat /\ mcn[l].value \in Nat
      BY <1>0, <3>1 DEF Outdraws, Packet, TypeOK, Machine
    <3>. QED
      BY <3>2 DEF Invites
  <2>5. CASE Still(mcn[l], mcn'[l])
    <3>1. AllSpent(l)'
      BY <1>0, <1>2, <1>5, <2>5, SpentThinned DEF Hears, Still
    <3>. QED
      BY <1>2, <2>1, <2>2, <2>5, <3>1 DEF Unheard, TokenPhase, Still
  <2>6. CASE Takes(mcn[l], mcn'[l], m)
    <3>1. Spent(l, m)
      BY <1>2, <2>0 DEF AllSpent
    <3>2. mcn[l].state = "HELLO"
      BY <1>0, <1>2, <2>6, <3>1, SpentIsNotTaken
    <3>3. /\ mcn'[l].state = "SEND" /\ mcn'[l].know = 0 /\ mcn'[l].sent = 0
          /\ mcn'[l].next = 1
      BY <1>2, <2>6, <3>2, Numbers DEF Takes, TakenTo
    <3>4. AllSpent(l)'
      BY <1>0, <1>2, <1>5, <3>3, SpentThinned DEF Hears
    <3>. QED
      BY <1>2, <2>1, <2>2, <3>2, <3>3, <3>4 DEF Unheard, TokenPhase
  <2>. QED
    BY <1>5, <2>3, <2>4, <2>5, <2>6 DEF Hears
<1>. QED
  BY <1>0, <1>4, <1>5

LEMMA UnheardSend ==
  ASSUME TypeOK, NEW u \in Side, Live, Unheard(u),
         NEW s \in Side, mcn'[Peer(s)] = mcn[Peer(s)], mcn'[s].know = mcn[s].know,
         NEW kind, NEW k,
         SaysNothing(s, kind) \/ \E m \in Packet : Says(s, m, kind, k)
  PROVE  TokenPhase(u)'
<1>. DEFINE l == Peer(u)
<1>0. /\ l \in Side /\ l # u /\ Peer(l) = u /\ (s = u \/ s = l)
      /\ ~mcn[s].failed
  BY SideFacts DEF Live
<1>2. /\ mcn[u].state \in {"HELLO", "WAIT"} /\ mcn[u].sent = 0
      /\ mcn[l].know = 0 /\ AllSpent(l)
      /\ \A i \in DOMAIN chan[l] : chan[l][i].type \in {"HELLO", "ENTL"}
      /\ \A i \in DOMAIN chan[u] :
           \/ chan[u][i].type = "HELLO"
           \/ /\ mcn[l].state = "RECEIVE"
              /\ chan[u][i].type = "ENTL" /\ chan[u][i].value = 1
      /\ \/ mcn[l].state = "HELLO" /\ mcn[l].sent = 0
         \/ mcn[l].state = "SEND" /\ mcn[l].sent = 0 /\ mcn[l].next = 1
         \/ mcn[l].state = "RECEIVE"
  BY DEF Unheard
<1>3. CASE SaysNothing(s, kind)
  <2>1. ~Spends(mcn[s], mcn'[s], kind)
    BY <1>0, <1>2 DEF Spends, MayTransfer
  <2>2. chan' = chan /\ mcn'[u] = mcn[u] /\ mcn'[l] = mcn[l]
    BY <1>0, <1>3, <2>1 DEF SaysNothing
  <2>3. AllSpent(l)'
    BY <1>0, <1>2, <2>2, SpentSame
  <2>. QED
    BY <1>2, <2>2, <2>3 DEF TokenPhase, Unheard
<1>4. ASSUME NEW m \in Packet, Says(s, m, kind, k), s = u
      PROVE  TokenPhase(u)'
  <2>1. ~Gives(mcn[u], mcn'[u], m, kind, k)
    BY <1>2 DEF Gives
  <2>2. /\ mcn'[u] = mcn[u] /\ mcn'[l] = mcn[l]
        /\ m.type \in {"HELLO", "ENTL"} /\ Spent(l, m)
    BY <1>0, <1>2, <1>4, <2>1 DEF Says, Pkt, Spent
  <2>3. chan'[u] = chan[u]
        /\ \A i \in DOMAIN chan'[l] : chan'[l][i] = m \/ \E j \in DOMAIN chan[l] : chan'[l][i] = chan[l][j]
    BY <1>4 DEF Says, Grown
  <2>4. AllSpent(l)' /\ \A i \in DOMAIN chan'[l] : chan'[l][i].type \in {"HELLO", "ENTL"}
    BY <1>2, <2>2, <2>3 DEF AllSpent, Spent
  <2>. QED
    BY <1>2, <2>2, <2>3, <2>4 DEF TokenPhase, Unheard
<1>5. ASSUME NEW m \in Packet, Says(s, m, kind, k), s = l
      PROVE  TokenPhase(u)'
  <2>1. chan'[l] = chan[l] /\ mcn'[u] = mcn[u]
        /\ \A i \in DOMAIN chan'[u] : chan'[u][i] = m \/ \E j \in DOMAIN chan[u] : chan'[u][i] = chan[u][j]
    BY <1>0, <1>5 DEF Says, Grown
  <2>2. AllSpent(l)'
    BY <1>0, <1>2, <1>5, <2>1, SpentSame
  <2>3. CASE mcn[l].state = "HELLO"
    <3>1. mcn'[l] = mcn[l] /\ m.type = "HELLO"
      BY <1>5, <2>3 DEF Says, Gives, Pkt
    <3>. QED
      BY <1>2, <2>1, <2>2, <2>3, <3>1 DEF TokenPhase, Unheard
  <2>4. CASE mcn[l].state = "SEND" /\ mcn[l].sent = 0 /\ mcn[l].next = 1
    <3>1. /\ mcn'[l].state = "RECEIVE" /\ m.type = "ENTL" /\ m.value = 1
          /\ mcn'[l].know = 0
      BY <1>2, <1>5, <2>4 DEF Says, Gives, MayTransfer
    <3>. QED
      BY <1>2, <2>1, <2>2, <2>4, <3>1 DEF TokenPhase, Unheard
  <2>5. mcn[l].state # "RECEIVE"
    BY <1>5 DEF Says, Gives
  <2>. QED
    BY <1>2, <2>3, <2>4, <2>5
<1>. QED
  BY <1>0, <1>3, <1>4, <1>5

\* What TokenFrom says of a wire stays true when packets leave or are repeated.
LEMMA WireBehind ==
  ASSUME TypeOK, TypeOK', NEW s \in Side, Thinned(s), NEW y \in Side, NEW v,
         \A i \in DOMAIN chan[y] :
           \/ Spent(y, chan[y][i])
           \/ \A j \in DOMAIN chan[y] : j >= i => chan[y][j].value = v
  PROVE  \A i \in DOMAIN chan'[y] :
           \/ Spent(y, chan'[y][i])
           \/ \A j \in DOMAIN chan'[y] : j >= i => chan'[y][j].value = v
<1>1. CASE y = Peer(s)
  BY <1>1 DEF Thinned
<1>2. CASE y = s
  <2>1. PICK f \in [DOMAIN chan'[y] -> DOMAIN chan[y]] :
          \A i \in DOMAIN chan'[y] :
            /\ chan'[y][i] = chan[y][f[i]]
            /\ \A j \in DOMAIN chan'[y] : i <= j => f[i] <= f[j]
    BY <1>2 DEF Thinned
  <2>2. chan[y] \in Seq(Packet) /\ chan'[y] \in Seq(Packet)
    BY DEF TypeOK
  <2>3. DOMAIN chan[y] \subseteq Int /\ DOMAIN chan'[y] \subseteq Int
    BY <2>2
  <2>. SUFFICES ASSUME NEW i \in DOMAIN chan'[y], ~Spent(y, chan'[y][i]),
                       NEW j \in DOMAIN chan'[y], j >= i
       PROVE  chan'[y][j].value = v
    OBVIOUS
  <2>4. f[i] <= f[j] /\ chan'[y][i] = chan[y][f[i]] /\ chan'[y][j] = chan[y][f[j]]
        /\ f[i] \in Int /\ f[j] \in Int
    BY <2>1, <2>3
  <2>5. f[j] >= f[i] /\ f[i] \in DOMAIN chan[y] /\ f[j] \in DOMAIN chan[y]
    BY <2>1, <2>4
  <2>6. \/ Spent(y, chan[y][f[i]])
        \/ \A b \in DOMAIN chan[y] : b >= f[i] => chan[y][b].value = v
    BY <2>5
  <2>. QED
    BY <2>4, <2>5, <2>6
<1>. QED
  BY <1>1, <1>2, SideFacts

\* A packet is lost or repeated.
LEMMA PhaseThinned ==
  ASSUME TypeOK, TypeOK', NEW u \in Side, TokenPhase(u), NEW s \in Side, Thinned(s), mcn' = mcn
  PROVE  TokenPhase(u)'
<1>1. \A t \in Side : AllSpent(t) => AllSpent(t)'
  <2>. SUFFICES ASSUME NEW t \in Side, AllSpent(t) PROVE AllSpent(t)'
    OBVIOUS
  <2>1. CASE t = s
    BY <2>1, SpentThinned
  <2>2. CASE t = Peer(s)
    BY <2>2, SpentSame DEF Thinned
  <2>. QED
    BY <2>1, <2>2, SideFacts
<1>2. \A t \in Side : \A i \in DOMAIN chan'[t] :
        \E j \in DOMAIN chan[t] : chan'[t][i] = chan[t][j]
  BY OldPackets, SideFacts DEF Thinned
<1>3. CASE Unheard(u)
  <2>1. Peer(u) \in Side
    BY SideFacts
  <2>2. Unheard(u)'
    BY <1>1, <1>2, <1>3, <2>1 DEF Unheard
  <2>. QED
    BY <2>2 DEF TokenPhase
<1>4. ASSUME NEW y \in Side, TokenAt(y) PROVE TokenPhase(u)'
  <2>1. TokenAt(y)'
    BY <1>1, <1>4, SideFacts DEF TokenAt
  <2>. QED
    BY <2>1 DEF TokenPhase
<1>5. ASSUME NEW x \in Side, TokenFrom(x) PROVE TokenPhase(u)'
  <2>0. PICK y \in Side : y = Peer(x)
    BY SideFacts
  <2>v. PICK v : v = mcn[x].sent
    OBVIOUS
  <2>1. /\ mcn[x].state \in WaitingState /\ mcn[y].state \in WaitingState
        /\ AllSpent(x)
        /\ \A i \in DOMAIN chan[y] :
             \/ Spent(y, chan[y][i])
             \/ \A j \in DOMAIN chan[y] : j >= i => chan[y][j].value = mcn[x].sent
    BY <1>5, <2>0 DEF TokenFrom
  <2>2. \A i \in DOMAIN chan'[y] :
             \/ Spent(y, chan'[y][i])
             \/ \A j \in DOMAIN chan'[y] : j >= i => chan'[y][j].value = v
    BY <2>1, <2>v, WireBehind
  <2>3. TokenFrom(x)'
    BY <1>1, <2>0, <2>1, <2>2, <2>v DEF TokenFrom, Spent
  <2>. QED
    BY <2>3 DEF TokenPhase
<1>. QED
  BY <1>3, <1>4, <1>5 DEF TokenPhase

\* A holder does not take an event, nor one that hears what is spent.
LEMMA SpentReceive ==
  ASSUME TypeOK, Live', NEW s \in Side, NEW m \in Packet, Hears(s, m),
         mcn[s].state \in HolderState \cup WaitingState,
         mcn[s].state \in WaitingState => Spent(s, m)
  PROVE  Still(mcn[s], mcn'[s])
<1>1. ~mcn'[s].failed
  BY DEF Live
<1>2. ~Greets(mcn[s], mcn'[s]) /\ ~Invites(mcn[s], mcn'[s], m)
  BY <1>1 DEF Greets, Invites, HolderState, WaitingState
<1>3. ~Takes(mcn[s], mcn'[s], m)
  BY SpentIsNotTaken DEF Takes, TakenTo, HolderState, WaitingState
<1>. QED
  BY <1>2, <1>3 DEF Hears

LEMMA TokenAtReceive ==
  ASSUME TypeOK, Live', NEW y \in Side, TokenAt(y),
         NEW s \in Side, NEW m \in Packet, Hears(s, m)
  PROVE  TokenAt(y)'
<1>1. s = y \/ s = Peer(y)
  BY SideFacts
<1>2. /\ mcn[y].state \in HolderState /\ mcn[Peer(y)].state \in WaitingState
      /\ AllSpent(y) /\ AllSpent(Peer(y)) /\ Peer(y) \in Side
  BY SideFacts DEF TokenAt
<1>3. Spent(s, m)
  BY <1>1, <1>2 DEF AllSpent, Hears
<1>4. Still(mcn[s], mcn'[s]) /\ mcn'[Peer(s)] = mcn[Peer(s)]
  BY <1>1, <1>2, <1>3, SpentReceive DEF Hears
<1>5. AllSpent(s)' /\ AllSpent(Peer(s))'
  BY <1>1, <1>2, <1>4, SpentThinned, SpentSame, SideFacts DEF Hears, Still, Thinned
<1>. QED
  BY <1>1, <1>2, <1>4, <1>5, SideFacts DEF TokenAt, Still

LEMMA TokenAtSend ==
  ASSUME TypeOK, Live, NEW y \in Side, TokenAt(y), NEW u \in Side,
         NEW s \in Side, mcn'[Peer(s)] = mcn[Peer(s)], mcn'[s].know = mcn[s].know,
         NEW kind, NEW k,
         SaysNothing(s, kind) \/ \E m \in Packet : Says(s, m, kind, k)
  PROVE  TokenPhase(u)'
<1>0. PICK z \in Side : z = Peer(y) /\ Peer(z) = y /\ z # y /\ (s = y \/ s = z)
  BY SideFacts
<1>1. /\ mcn[y].state \in HolderState /\ mcn[z].state \in WaitingState
      /\ AllSpent(y) /\ AllSpent(z) /\ ~mcn[s].failed
  BY <1>0 DEF TokenAt, Live
<1>2. CASE SaysNothing(s, kind)
  <2>1. chan' = chan /\ mcn'[y].state \in HolderState /\ mcn'[z].state \in WaitingState
    BY <1>0, <1>1, <1>2 DEF SaysNothing, Spends, HolderState, WaitingState
  <2>2. mcn'[y].know = mcn[y].know /\ mcn'[z].know = mcn[z].know
    BY <1>0
  <2>3. TokenAt(y)'
    BY <1>0, <1>1, <2>1, <2>2, SpentSame DEF TokenAt
  <2>. QED
    BY <2>3 DEF TokenPhase
<1>3. ASSUME NEW m \in Packet, Says(s, m, kind, k)
      PROVE  TokenPhase(u)'
  <2>1. s = y /\ Gives(mcn[y], mcn'[y], m, kind, k)
    BY <1>0, <1>1, <1>3 DEF Says, Gives, HolderState, WaitingState
  <2>2. /\ mcn'[y].state \in WaitingState /\ mcn'[z] = mcn[z]
        /\ m.value = mcn'[y].sent
    BY <1>0, <2>1 DEF Gives, WaitingState
  <2>3. chan'[y] = chan[y] /\ AllSpent(y)'
    BY <1>0, <1>1, <1>3, <2>1, SpentSame DEF Says, Grown
  <2>4. \A i \in DOMAIN chan'[z] :
          \/ chan'[z][i].type = "HELLO" \/ chan'[z][i].value = mcn'[z].know
          \/ \A j \in DOMAIN chan'[z] : j >= i => chan'[z][j].value = m.value
    <3>1. PICK e : e = Len(chan[z]) + 1
      OBVIOUS
    <3>2. /\ DOMAIN chan'[z] = DOMAIN chan[z] \cup {e} /\ chan'[z][e] = m
          /\ \A i \in DOMAIN chan[z] : chan'[z][i] = chan[z][i]
          /\ \A i \in DOMAIN chan[z] : i < e
      BY <1>0, <1>3, <2>1, <3>1 DEF Says, Grown
    <3>3. chan[z] \in Seq(Packet)
      BY DEF TypeOK
    <3>4. DOMAIN chan[z] \subseteq Int /\ e \in Int
      BY <3>1, <3>3
    <3>5. \A i \in DOMAIN chan[z] :
            chan'[z][i].type = "HELLO" \/ chan'[z][i].value = mcn'[z].know
      BY <1>1, <2>2, <3>2 DEF AllSpent, Spent
    <3>6. \A j \in DOMAIN chan'[z] : j >= e => chan'[z][j].value = m.value
      BY <3>2, <3>4
    <3>. QED
      BY <3>2, <3>5, <3>6
  <2>5. TokenFrom(y)'
    BY <1>0, <1>1, <2>2, <2>3, <2>4 DEF TokenFrom, Spent
  <2>. QED
    BY <2>5 DEF TokenPhase
<1>. QED
  BY <1>2, <1>3

LEMMA TokenFromReceive ==
  ASSUME TypeOK, TypeOK', Live', NEW x \in Side, TokenFrom(x), NEW u \in Side,
         NEW s \in Side, NEW m \in Packet, Hears(s, m)
  PROVE  TokenPhase(u)'
<1>0. PICK y \in Side : y = Peer(x) /\ Peer(y) = x /\ y # x /\ (s = x \/ s = y)
  BY SideFacts
<1>v. PICK v : v = mcn[x].sent
  OBVIOUS
<1>1. /\ mcn[x].state \in WaitingState /\ mcn[y].state \in WaitingState
      /\ AllSpent(x)
      /\ \A i \in DOMAIN chan[y] :
           \/ Spent(y, chan[y][i])
           \/ \A j \in DOMAIN chan[y] : j >= i => chan[y][j].value = v
  BY <1>0, <1>v DEF TokenFrom
<1>2. \A i \in DOMAIN chan'[y] :
        \/ Spent(y, chan'[y][i])
        \/ \A j \in DOMAIN chan'[y] : j >= i => chan'[y][j].value = v
  BY <1>1, WireBehind DEF Hears
<1>3. CASE Still(mcn[s], mcn'[s])
  <2>1. /\ mcn'[x].state \in WaitingState /\ mcn'[y].state \in WaitingState
        /\ mcn'[x].sent = v
        /\ mcn'[x].know = mcn[x].know /\ mcn'[y].know = mcn[y].know
    BY <1>0, <1>1, <1>3, <1>v DEF Hears, Still
  <2>2. AllSpent(x)'
    BY <1>0, <1>1, <2>1, SpentThinned, SpentSame DEF Hears, Thinned
  <2>3. \A i \in DOMAIN chan'[y] :
          \/ chan'[y][i].type = "HELLO" \/ chan'[y][i].value = mcn'[y].know
          \/ \A j \in DOMAIN chan'[y] : j >= i => chan'[y][j].value = v
    BY <1>2, <2>1 DEF Spent
  <2>4. TokenFrom(x)'
    BY <1>0, <2>1, <2>2, <2>3 DEF TokenFrom, Spent
  <2>. QED
    BY <2>4 DEF TokenPhase
<1>4. CASE ~Still(mcn[s], mcn'[s])
  <2>1. s = y /\ ~Spent(y, m)
    BY <1>0, <1>1, <1>4, SpentReceive DEF Hears, AllSpent
  <2>2. Takes(mcn[y], mcn'[y], m)
    BY <1>1, <1>4, <2>1 DEF Hears, Greets, Invites, WaitingState, Live
  <2>3. 1 \in DOMAIN chan[y] /\ chan[y][1] = m /\ chan[y] \in Seq(Packet)
    BY <2>1 DEF Hears, TypeOK
  <2>4. \A j \in DOMAIN chan[y] : chan[y][j].value = v /\ j >= 1
    BY <1>1, <2>1, <2>3
  <2>5. mcn'[y].know = v /\ mcn'[y].state \in HolderState
    BY <1>1, <2>2, <2>3, <2>4 DEF Takes, TakenTo, HolderState
  <2>6. AllSpent(y)'
    BY <2>1, <2>4, <2>5, OldPackets DEF AllSpent, Spent, Hears
  <2>7. mcn'[x] = mcn[x] /\ AllSpent(x)'
    BY <1>0, <1>1, <2>1, SpentSame DEF Hears, Thinned
  <2>8. TokenAt(y)'
    BY <1>0, <1>1, <2>5, <2>6, <2>7 DEF TokenAt
  <2>. QED
    BY <2>8 DEF TokenPhase
<1>. QED
  BY <1>3, <1>4

LEMMA TokenFromSend ==
  ASSUME TypeOK, Live, NEW x \in Side, TokenFrom(x),
         NEW s \in Side, mcn'[Peer(s)] = mcn[Peer(s)],
         NEW kind, NEW k,
         SaysNothing(s, kind) \/ \E m \in Packet : Says(s, m, kind, k)
  PROVE  TokenFrom(x)'
<1>1. mcn[s].state \in WaitingState /\ ~mcn[s].failed
  BY SideFacts DEF TokenFrom, Live
<1>2. \A m \in Packet : ~Says(s, m, kind, k)
  BY <1>1 DEF Says, Gives, WaitingState
<1>3. chan' = chan /\ mcn'[s] = mcn[s]
  BY <1>1, <1>2 DEF SaysNothing, Spends, WaitingState
<1>. QED
  BY <1>3, SideFacts DEF TokenFrom, AllSpent, Spent

-----------------------------------------------------------------------------
(* The steps of the faulty link.                                            *)

LEMMA FaultType ==
  ASSUME TypeOK, NEW s \in Side,
         EarlyCall(s) \/ Repeat(s) \/ Restart(s) \/ EntlStateError(s)
  PROVE  TypeOK'
<1>1. CASE EarlyCall(s)
  BY <1>1 DEF EarlyCall, TypeOK, callerVars
<1>2. CASE Repeat(s)
  <2>1. chan[s] \in Seq(Packet) /\ chan[s] # <<>>
    BY <1>2 DEF Repeat, TypeOK
  <2>2. <<Head(chan[s])>> \o chan[s] \in Seq(Packet)
    <3>1. Head(chan[s]) \in Packet
      BY <2>1
    <3>2. <<Head(chan[s])>> \in Seq(Packet)
      BY <3>1
    <3>. QED
      BY <2>1, <3>2
  <2>. QED
    BY <1>2, <2>2 DEF Repeat, TypeOK, callerVars
<1>3. CASE Restart(s)
  <2>1. Booted(MyValue[s]) \in Machine
    BY EventNumbers, CallerAssumption DEF Booted, Machine, State
  <2>2. mcn' \in [Side -> Machine] /\ act' \in [Side -> SUBSET Flag]
    BY <1>3, <2>1 DEF Restart, TypeOK
  <2>. QED
    BY <1>3, <2>2 DEF Restart, TypeOK
<1>4. CASE EntlStateError(s)
  <2>1. SetError(mcn[s]) \in Machine
    BY DEF TypeOK, Machine, SetError
  <2>. QED
    BY <1>4, <2>1 DEF EntlStateError, TypeOK, callerVars
<1>. QED
  BY <1>1, <1>2, <1>3, <1>4

LEMMA FaultyType == TypeOK /\ [FaultyNext]_faultyVars => TypeOK'
<1>. SUFFICES ASSUME TypeOK, [FaultyNext]_faultyVars PROVE TypeOK'
  OBVIOUS
<1>1. CASE FaultyNext
  BY <1>1, NextType, FaultType DEF FaultyNext
<1>2. CASE UNCHANGED faultyVars
  BY <1>2, NextType DEF faultyVars
<1>. QED
  BY <1>1, <1>2

\* Type correctness of the faulty link: neither a call too many, a repeated
\* packet, a restart nor a reported error takes a variable out of its type.
THEOREM FaultyTypes == FaultySpec => []TypeOK
<1>1. FaultyInit => TypeOK
  BY InitType DEF FaultyInit
<1>. QED
  BY <1>1, FaultyType, PTL DEF FaultySpec

\* What a step of FaultyNext is to the machines and the wires.
LEMMA FaultySteps ==
  ASSUME TypeOK, FaultyNext
  PROVE  \/ mcn' = mcn /\ chan' = chan
         \/ \E s \in Side : Thinned(s) /\ mcn' = mcn
         \/ \E s \in Side : \E m \in Packet : Hears(s, m)
         \/ \E s \in Side : Send(s)
         \/ \E s \in Side : Restart(s)
         \/ \E s \in Side : EntlStateError(s)
<1>1. ASSUME NEW s \in Side, Offer(s) \/ EarlyCall(s)
      PROVE  mcn' = mcn /\ chan' = chan
  BY <1>1 DEF Offer, EarlyCall
<1>2. ASSUME NEW s \in Side, Lose(s)
      PROVE  Thinned(s) /\ mcn' = mcn
  BY <1>2, ThinnedByTail DEF Lose
<1>3. ASSUME NEW s \in Side, Repeat(s)
      PROVE  Thinned(s) /\ mcn' = mcn
  BY <1>3, ThinnedByRepeat DEF Repeat
<1>. QED
  BY <1>1, <1>2, <1>3, ReceiveHears DEF FaultyNext, Next

LEMMA Failures ==
  ASSUME TypeOK, FaultyNext, Live'
  PROVE  /\ Live
         /\ \A s \in Side : ~Restart(s) /\ ~EntlStateError(s)
<1>1. ~restarted
  BY DEF Live, FaultyNext, Fault, EarlyCall, Repeat, Restart, EntlStateError
<1>2. \A s \in Side : ~Restart(s)
  BY DEF Live, Restart, Fault
<1>3. \A s \in Side : ~EntlStateError(s)
  <2>. SUFFICES ASSUME NEW s \in Side, EntlStateError(s) PROVE FALSE
    OBVIOUS
  <2>1. mcn'[s] = SetError(mcn[s])
    BY DEF EntlStateError, TypeOK
  <2>2. mcn'[s].failed
    BY <2>1 DEF SetError, TypeOK, Machine
  <2>. QED
    BY <2>2 DEF Live
<1>4. \A s \in Side : mcn[s].failed => mcn'[s].failed
  <2>1. ASSUME NEW s \in Side, NEW m \in Packet, Hears(s, m)
        PROVE  \A t \in Side : mcn[t].failed => mcn'[t].failed
    BY <2>1, SideFacts DEF Hears
  <2>2. ASSUME NEW s \in Side, Send(s)
        PROVE  \A t \in Side : mcn[t].failed => mcn'[t].failed
    BY <2>2, SendSays, SideFacts
  <2>. QED
    BY <1>2, <1>3, <2>1, <2>2, FaultySteps
<1>. QED
  BY <1>1, <1>2, <1>3, <1>4 DEF Live

LEMMA PhaseKept ==
  ASSUME TypeOK, TypeOK', NEW u \in Side, Outdraws(u), Drawn, TokenPhase(u),
         FaultyNext, Live'
  PROVE  TokenPhase(u)'
<1>1. Live /\ \A s \in Side : ~Restart(s) /\ ~EntlStateError(s)
  BY Failures
<1>2. CASE mcn' = mcn /\ chan' = chan
  <2>1. CASE Unheard(u)
    BY <1>2, <2>1 DEF TokenPhase, Unheard, AllSpent, Spent
  <2>2. ASSUME NEW s \in Side, TokenAt(s) \/ TokenFrom(s)
        PROVE  TokenAt(s)' \/ TokenFrom(s)'
    BY <1>2, <2>2 DEF TokenAt, TokenFrom, AllSpent, Spent
  <2>. QED
    BY <2>1, <2>2 DEF TokenPhase
<1>3. ASSUME NEW s \in Side, Thinned(s), mcn' = mcn
      PROVE  TokenPhase(u)'
  BY <1>3, PhaseThinned
<1>4. ASSUME NEW s \in Side, NEW m \in Packet, Hears(s, m)
      PROVE  TokenPhase(u)'
  <2>1. CASE Unheard(u)
    BY <1>4, <2>1, UnheardReceive
  <2>2. ASSUME NEW y \in Side, TokenAt(y) PROVE TokenPhase(u)'
    <3>1. TokenAt(y)'
      BY <1>4, <2>2, TokenAtReceive
    <3>. QED
      BY <3>1 DEF TokenPhase
  <2>3. ASSUME NEW x \in Side, TokenFrom(x) PROVE TokenPhase(u)'
    BY <1>4, <2>3, TokenFromReceive
  <2>. QED
    BY <2>1, <2>2, <2>3 DEF TokenPhase
<1>5. ASSUME NEW s \in Side, Send(s)
      PROVE  TokenPhase(u)'
  <2>0. PICK kind : kind = Offered(s)
    OBVIOUS
  <2>k. PICK k : k = dropped[s] + 1
    OBVIOUS
  <2>1. /\ mcn'[Peer(s)] = mcn[Peer(s)] /\ mcn'[s].know = mcn[s].know
        /\ SaysNothing(s, kind) \/ \E m \in Packet : Says(s, m, kind, k)
    BY <1>5, <2>0, <2>k, SendSays
  <2>2. CASE Unheard(u)
    BY <1>1, <2>1, <2>2, UnheardSend
  <2>3. ASSUME NEW y \in Side, TokenAt(y) PROVE TokenPhase(u)'
    BY <1>1, <2>1, <2>3, TokenAtSend
  <2>4. ASSUME NEW x \in Side, TokenFrom(x) PROVE TokenPhase(u)'
    <3>1. TokenFrom(x)'
      BY <1>1, <2>1, <2>4, TokenFromSend
    <3>. QED
      BY <3>1 DEF TokenPhase
  <2>. QED
    BY <2>2, <2>3, <2>4 DEF TokenPhase
<1>. QED
  BY <1>1, <1>2, <1>3, <1>4, <1>5, FaultySteps

LEMMA DrawnGrows ==
  ASSUME FaultyNext
  PROVE  \A t \in Side : drawn[t] \subseteq drawn'[t] /\ mcn'[t].value \in drawn'[t]
BY DEF FaultyNext, Recorded

LEMMA OutdrawsBefore ==
  ASSUME NEW u \in Side, [FaultyNext]_faultyVars, Outdraws(u)'
  PROVE  Outdraws(u)
<1>1. drawn[u] \subseteq drawn'[u] /\ drawn[Peer(u)] \subseteq drawn'[Peer(u)]
  BY DrawnGrows, SideFacts DEF faultyVars
<1>. QED
  BY <1>1 DEF Outdraws

\* Every greeting on the wire carries a number that its sender has drawn.
GreetingsDrawn ==
  \A s \in Side : \A i \in DOMAIN chan[s] :
    chan[s][i].type = "HELLO" => chan[s][i].value \in drawn[Peer(s)]

LEMMA DrawnKept ==
  ASSUME TypeOK, Drawn, FaultyNext
  PROVE  Drawn'
<1>0. \A s \in Side : drawn[s] \subseteq drawn'[s] /\ mcn'[s].value \in drawn'[s]
  BY DrawnGrows
<1>1. /\ \A s \in Side : mcn[s].value \in drawn[s]
      /\ \A s \in Side : \A i \in DOMAIN chan[s] :
           chan[s][i].type = "HELLO" => chan[s][i].value \in drawn'[Peer(s)]
  BY <1>0, SideFacts DEF Drawn
<1>2. ASSUME chan' = chan PROVE GreetingsDrawn'
  BY <1>1, <1>2 DEF GreetingsDrawn
<1>3. ASSUME NEW s \in Side, Thinned(s)
      PROVE  GreetingsDrawn'
  <2>1. \A t \in Side : \A i \in DOMAIN chan'[t] :
          \E j \in DOMAIN chan[t] : chan'[t][i] = chan[t][j]
    BY <1>3, OldPackets, SideFacts DEF Thinned
  <2>. QED
    BY <1>1, <2>1 DEF GreetingsDrawn
<1>4. ASSUME NEW s \in Side, Send(s)
      PROVE  GreetingsDrawn'
  <2>0. PICK kind : kind = Offered(s)
    OBVIOUS
  <2>k. PICK k : k = dropped[s] + 1
    OBVIOUS
  <2>1. SaysNothing(s, kind) \/ \E m \in Packet : Says(s, m, kind, k)
    BY <1>4, <2>0, <2>k, SendSays
  <2>2. CASE SaysNothing(s, kind)
    BY <1>2, <2>2 DEF SaysNothing
  <2>3. ASSUME NEW m \in Packet, Says(s, m, kind, k) PROVE GreetingsDrawn'
    <3>1. m.type = "HELLO" => m.value \in drawn[s]
      BY <1>1, <2>3 DEF Says, Gives, Message, Pkt
    <3>2. /\ chan'[s] = chan[s]
          /\ \A i \in DOMAIN chan'[Peer(s)] :
               \/ chan'[Peer(s)][i] = m
               \/ \E j \in DOMAIN chan[Peer(s)] :
                    chan'[Peer(s)][i] = chan[Peer(s)][j]
      BY <2>3 DEF Says, Grown
    <3>3. \A i \in DOMAIN chan'[Peer(s)] :
            chan'[Peer(s)][i].type = "HELLO" => chan'[Peer(s)][i].value \in drawn'[s]
      <4>1. s \in Side /\ Peer(s) \in Side /\ Peer(Peer(s)) = s
        BY SideFacts
      <4>. QED
        BY <1>0, <1>1, <3>1, <3>2, <4>1
    <3>4. \A t \in Side : t = s \/ t = Peer(s)
      BY SideFacts
    <3>5. Peer(Peer(s)) = s
      BY SideFacts
    <3>. QED
      BY <1>1, <3>2, <3>3, <3>4, <3>5 DEF GreetingsDrawn
  <2>. QED
    BY <2>1, <2>2, <2>3
<1>5. ASSUME NEW s \in Side, Restart(s) \/ EntlStateError(s)
      PROVE  chan' = chan
  BY <1>5 DEF Restart, EntlStateError
<1>6. ASSUME NEW s \in Side, NEW m \in Packet, Hears(s, m)
      PROVE  Thinned(s)
  BY <1>6 DEF Hears
<1>7. GreetingsDrawn'
  BY <1>2, <1>3, <1>4, <1>5, <1>6, FaultySteps
<1>. QED
  BY <1>0, <1>7 DEF Drawn, GreetingsDrawn

LEMMA InitTokenInv ==
  ASSUME FaultyInit, NEW u \in Side
  PROVE  TokenInv(u)
<1>1. \A s \in Side : mcn[s] = Booted(MyValue[s]) /\ chan[s] = <<>>
  BY DEF FaultyInit, Init
<1>2. \A s \in Side : /\ mcn[s].state = "HELLO" /\ mcn[s].value = MyValue[s]
                      /\ mcn[s].sent = 0 /\ mcn[s].know = 0
                      /\ DOMAIN chan[s] = {}
  <2>1. \A v : /\ Booted(v).state = "HELLO" /\ Booted(v).value = v
               /\ Booted(v).sent = 0 /\ Booted(v).know = 0
    BY DEF Booted
  <2>2. \A s \in Side : DOMAIN chan[s] = {}
    BY <1>1
  <2>. QED
    BY <1>1, <2>1, <2>2
<1>3. Drawn
  BY <1>2 DEF Drawn, FaultyInit
<1>4. Unheard(u)
  BY <1>2, SideFacts DEF Unheard, AllSpent
<1>. QED
  BY <1>3, <1>4 DEF TokenInv

LEMMA NextTokenInv ==
  ASSUME NEW u \in Side, Outdraws(u)
  PROVE  TypeOK /\ TokenInv(u) /\ [FaultyNext]_faultyVars => TokenInv(u)'
<1>. SUFFICES ASSUME TypeOK, TokenInv(u), [FaultyNext]_faultyVars
     PROVE  TokenInv(u)'
  OBVIOUS
<1>0. TypeOK' /\ Drawn /\ (Live => TokenPhase(u))
  BY FaultyType DEF TokenInv, Live, TokenPhase
<1>1. CASE FaultyNext
  <2>1. Drawn'
    BY <1>0, <1>1, DrawnKept
  <2>2. Live' => TokenPhase(u)'
    BY <1>0, <1>1, Failures, PhaseKept
  <2>. QED
    BY <2>1, <2>2 DEF TokenInv, Live, TokenPhase
<1>2. CASE UNCHANGED faultyVars
  <2>1. mcn' = mcn /\ chan' = chan /\ restarted' = restarted
    BY <1>2 DEF faultyVars, vars
  <2>2. Drawn' /\ (Live' => Live)
    BY <1>0, <1>2, <2>1 DEF Drawn, Live, faultyVars
  <2>3. TokenPhase(u) => TokenPhase(u)'
    BY <2>1 DEF TokenPhase, Unheard, TokenAt, TokenFrom, AllSpent, Spent
  <2>. QED
    BY <1>0, <2>2, <2>3 DEF TokenInv, Live, TokenPhase
<1>. QED
  BY <1>1, <1>2

\* As long as the numbers one end has drawn are greater than all of the other
\* the link stays within the phases of TokenInv, until an end restarts or an
\* error silences one; nothing is said of the link after that, or once draws tie.
THEOREM HolderInvariance == FaultySpec => []HolderInv
<1>1. FaultyInit => TypeOK /\ HolderInv
  BY InitType, InitTokenInv DEF FaultyInit, HolderInv
<1>2. (TypeOK /\ HolderInv) /\ [FaultyNext]_faultyVars => (TypeOK /\ HolderInv)'
  <2>. SUFFICES ASSUME TypeOK, HolderInv, [FaultyNext]_faultyVars,
                       NEW u \in Side, Outdraws(u)'
       PROVE  TokenInv(u)'
    BY FaultyType DEF HolderInv
  <2>1. Outdraws(u) /\ TokenInv(u)
    BY OutdrawsBefore DEF HolderInv
  <2>. QED
    BY <2>1, NextTokenInv
<1>. QED
  BY <1>1, <1>2, PTL DEF FaultySpec

\* As long as the draws of the two ends have neither tied nor crossed, no mixture
\* of lost and repeated packets, calls too many and reported errors gives both
\* ends the token, until one of them restarts.
THEOREM LiveHolderUnique == FaultySpec => []OneLiveHolder
<1>1. TypeOK /\ HolderInv => OneLiveHolder
  <2>. SUFFICES ASSUME NEW u \in Side, TokenInv(u), ~restarted,
                       \A s \in Side : ~mcn[s].failed
       PROVE  \E s \in Side : mcn[s].state \notin HolderState
    BY DEF OneLiveHolder, HolderInv, DrawsApart
  <2>1. CASE Unheard(u)
    BY <2>1 DEF Unheard, HolderState
  <2>2. ASSUME NEW y \in Side, TokenAt(y) \/ TokenFrom(y)
        PROVE  mcn[Peer(y)].state \notin HolderState /\ Peer(y) \in Side
    BY <2>2, SideFacts DEF TokenAt, TokenFrom, HolderState, WaitingState
  <2>. QED
    BY <2>1, <2>2 DEF TokenInv
<1>. QED
  BY <1>1, FaultyTypes, HolderInvariance, PTL

-----------------------------------------------------------------------------
(* What Follows says of a wire, and how it lives through a step.            *)

Echoes(y, n, j, v) == \A i \in n + 1 .. j : Echo(chan[y][i], v)

\* What is behind the AITA that lets y deliver message k.
Behind(y, j, k) ==
  \A l \in j + 1 .. Len(chan[y]) : Message(chan[y][l]) => chan[y][l].id > k

LEMMA FollowsMeans ==
  ASSUME NEW x, NEW y, NEW n, NEW v, NEW k
  PROVE  Follows(x, y, n, v, k) <=>
         /\ Echoes(y, n, Len(chan[y]), v) => Answerable(x, v, k)
         /\ \A j \in n + 1 .. Len(chan[y]) :
              /\ Echoes(y, n, j - 1, v)
              /\ chan[y][j].type = "AITA" /\ chan[y][j].value = Plus2(v)
              => Transferred(x, k) /\ Behind(y, j, k)
BY DEF Follows, Echoes, Behind

\* The sender x keeps its promises about message k, of event v.
Keeps(x, v, k) ==
  /\ Answerable(x, v, k) => Answerable(x, v, k)'
  /\ Transferred(x, k) => Transferred(x, k)'

LEMMA FollowsSame ==
  ASSUME NEW x, NEW y, NEW n, NEW v, NEW k, chan'[y] = chan[y], Keeps(x, v, k),
         Follows(x, y, n, v, k)
  PROVE  Follows(x, y, n, v, k)'
BY DEF Follows, Keeps

\* A repetition of the packet y heard last says nothing new.
LEMMA FollowsEcho ==
  ASSUME TypeOK, NEW x, NEW y \in Side, NEW v, NEW k, 1 \in DOMAIN chan[y],
         Echo(chan[y][1], v)
  PROVE  Follows(x, y, 0, v, k) <=> Follows(x, y, 1, v, k)
<1>1. PICK z \in Nat : z = Len(chan[y]) /\ z >= 1
  BY DEF TypeOK
<1>2. ASSUME NEW j \in Int, j >= 1
      PROVE  Echoes(y, 0, j, v) <=> Echoes(y, 1, j, v)
  <2>1. \A i \in 0 + 1 .. j : i = 1 \/ i \in 1 + 1 .. j
    BY <1>2
  <2>2. \A i \in 1 + 1 .. j : i \in 0 + 1 .. j
    BY <1>2
  <2>. QED
    BY <2>1, <2>2 DEF Echoes
<1>3. chan[y][1].type # "AITA"
  BY DEF Echo
<1>4. /\ \A j \in 0 + 1 .. z : j = 1 \/ (j \in 1 + 1 .. z /\ j - 1 >= 1 /\ j - 1 \in Int)
      /\ \A j \in 1 + 1 .. z : j \in 0 + 1 .. z /\ j - 1 >= 1 /\ j - 1 \in Int
  BY <1>1
<1>5. Echoes(y, 0, z, v) <=> Echoes(y, 1, z, v)
  BY <1>1, <1>2
<1>6. \A j \in 1 + 1 .. z : Echoes(y, 0, j - 1, v) <=> Echoes(y, 1, j - 1, v)
  BY <1>2, <1>4
<1>. QED
  BY <1>1, <1>3, <1>4, <1>5, <1>6, FollowsMeans

\* The first packet left the wire towards y.
Shifted(y) ==
  /\ 1 \in DOMAIN chan[y]
  /\ chan'[Peer(y)] = chan[Peer(y)]
  /\ Len(chan'[y]) = Len(chan[y]) - 1
  /\ \A i \in 1 .. Len(chan[y]) - 1 : chan'[y][i] = chan[y][i + 1]

LEMMA FollowsShift ==
  ASSUME TypeOK, NEW x, NEW y \in Side, NEW n \in Nat, NEW v, NEW k,
         Shifted(y), Keeps(x, v, k), Follows(x, y, n + 1, v, k)
  PROVE  Follows(x, y, n, v, k)'
<1>1. PICK z \in Nat : z = Len(chan[y]) /\ z >= 1
  BY DEF TypeOK, Shifted
<1>2. PICK c : c = chan[y]
  OBVIOUS
<1>3. PICK d : d = chan'[y]
  OBVIOUS
<1>4. Len(d) = z - 1 /\ \A i \in 1 .. z - 1 : d[i] = c[i + 1]
  BY <1>1, <1>2, <1>3 DEF Shifted
<1>5. /\ (\A i \in n + 1 + 1 .. z : Echo(c[i], v)) => Answerable(x, v, k)
      /\ \A j \in n + 1 + 1 .. z :
           /\ \A i \in n + 1 + 1 .. j - 1 : Echo(c[i], v)
           /\ c[j].type = "AITA" /\ c[j].value = Plus2(v)
           => /\ Transferred(x, k)
              /\ \A l \in j + 1 .. z : Message(c[l]) => c[l].id > k
  BY <1>1, <1>2 DEF Follows
<1>6. ASSUME NEW j \in Int, j <= z - 1, \A i \in n + 1 .. j : Echo(d[i], v)
      PROVE  \A i \in n + 1 + 1 .. j + 1 : Echo(c[i], v)
  <2>. SUFFICES ASSUME NEW i \in n + 1 + 1 .. j + 1 PROVE Echo(c[i], v)
    OBVIOUS
  <2>1. i - 1 \in n + 1 .. j /\ i - 1 \in 1 .. z - 1 /\ (i - 1) + 1 = i
    BY <1>6
  <2>2. d[i - 1] = c[i]
    BY <1>4, <2>1
  <2>. QED
    BY <1>6, <2>1, <2>2
<1>7. (\A i \in n + 1 .. z - 1 : Echo(d[i], v)) => Answerable(x, v, k)'
  <2>. SUFFICES ASSUME \A i \in n + 1 .. z - 1 : Echo(d[i], v)
       PROVE  Answerable(x, v, k)'
    OBVIOUS
  <2>0. PICK w \in Int : w = z - 1 /\ w <= z - 1
    <3>1. z - 1 \in Int /\ z - 1 <= z - 1
      BY <1>1
    <3>. QED
      BY <3>1
  <2>a. \A i \in n + 1 .. w : Echo(d[i], v)
    BY <2>0
  <2>1. \A i \in n + 1 + 1 .. w + 1 : Echo(c[i], v)
    BY <1>6, <2>0, <2>a
  <2>2. w + 1 = z
    BY <1>1, <2>0
  <2>. QED
    BY <1>5, <2>1, <2>2 DEF Keeps
<1>8. ASSUME NEW j \in n + 1 .. z - 1, \A i \in n + 1 .. j - 1 : Echo(d[i], v),
             d[j].type = "AITA", d[j].value = Plus2(v)
      PROVE  /\ Transferred(x, k)'
             /\ \A l \in j + 1 .. z - 1 : Message(d[l]) => d[l].id > k
  <2>0. PICK w \in Int : w = j - 1 /\ w <= z - 1
    <3>1. j - 1 \in Int /\ j - 1 <= z - 1
      BY <1>1
    <3>. QED
      BY <3>1
  <2>a. \A i \in n + 1 .. w : Echo(d[i], v)
    BY <1>8, <2>0
  <2>1. \A i \in n + 1 + 1 .. w + 1 : Echo(c[i], v)
    BY <1>6, <2>0, <2>a
  <2>2. /\ j + 1 \in n + 1 + 1 .. z /\ w + 1 = (j + 1) - 1
        /\ d[j] = c[j + 1]
    BY <1>1, <1>4, <2>0
  <2>3. /\ Transferred(x, k)
        /\ \A l \in j + 1 + 1 .. z : Message(c[l]) => c[l].id > k
    BY <1>5, <1>8, <2>1, <2>2
  <2>4. \A l \in j + 1 .. z - 1 : l + 1 \in j + 1 + 1 .. z /\ d[l] = c[l + 1]
    BY <1>1, <1>4, <1>8
  <2>. QED
    BY <2>3, <2>4 DEF Keeps
<1>. QED
  BY <1>3, <1>4, <1>7, <1>8 DEF Follows

\* The first packet towards y was repeated.
Doubled(y) ==
  /\ 1 \in DOMAIN chan[y]
  /\ chan'[Peer(y)] = chan[Peer(y)]
  /\ Len(chan'[y]) = Len(chan[y]) + 1
  /\ chan'[y][1] = chan[y][1]
  /\ \A i \in 1 .. Len(chan[y]) : chan'[y][i + 1] = chan[y][i]

LEMMA FollowsLift ==
  ASSUME TypeOK, NEW x, NEW y \in Side, NEW n \in Nat, NEW v, NEW k,
         Doubled(y), Keeps(x, v, k), Follows(x, y, n, v, k)
  PROVE  Follows(x, y, n + 1, v, k)'
<1>1. PICK z \in Nat : z = Len(chan[y]) /\ z >= 1
  BY DEF TypeOK, Doubled
<1>2. PICK c : c = chan[y]
  OBVIOUS
<1>3. PICK d : d = chan'[y]
  OBVIOUS
<1>4. Len(d) = z + 1 /\ \A i \in 1 .. z : d[i + 1] = c[i]
  BY <1>1, <1>2, <1>3 DEF Doubled
<1>5. /\ (\A i \in n + 1 .. z : Echo(c[i], v)) => Answerable(x, v, k)
      /\ \A j \in n + 1 .. z :
           /\ \A i \in n + 1 .. j - 1 : Echo(c[i], v)
           /\ c[j].type = "AITA" /\ c[j].value = Plus2(v)
           => /\ Transferred(x, k)
              /\ \A l \in j + 1 .. z : Message(c[l]) => c[l].id > k
  BY <1>1, <1>2 DEF Follows
<1>6. ASSUME NEW j \in Int, j <= z, \A i \in n + 1 + 1 .. j + 1 : Echo(d[i], v)
      PROVE  \A i \in n + 1 .. j : Echo(c[i], v)
  <2>. SUFFICES ASSUME NEW i \in n + 1 .. j PROVE Echo(c[i], v)
    OBVIOUS
  <2>1. i + 1 \in n + 1 + 1 .. j + 1 /\ i \in 1 .. z
    BY <1>6
  <2>2. d[i + 1] = c[i]
    BY <1>4, <2>1
  <2>. QED
    BY <1>6, <2>1, <2>2
<1>7. (\A i \in n + 1 + 1 .. z + 1 : Echo(d[i], v)) => Answerable(x, v, k)'
  BY <1>1, <1>5, <1>6 DEF Keeps
<1>8. ASSUME NEW j \in n + 1 + 1 .. z + 1,
             \A i \in n + 1 + 1 .. j - 1 : Echo(d[i], v),
             d[j].type = "AITA", d[j].value = Plus2(v)
      PROVE  /\ Transferred(x, k)'
             /\ \A l \in j + 1 .. z + 1 : Message(d[l]) => d[l].id > k
  <2>0. PICK i \in n + 1 .. z : j = i + 1 /\ i \in Int /\ j - 1 = (i - 1) + 1
    <3>1. j - 1 \in n + 1 .. z /\ j = (j - 1) + 1 /\ j - 1 \in Int
      BY <1>1, <1>8
    <3>. QED
      BY <3>1
  <2>1. \A h \in n + 1 .. i - 1 : Echo(c[h], v)
    BY <1>1, <1>6, <1>8, <2>0
  <2>2. d[j] = c[i]
    BY <1>1, <1>4, <2>0
  <2>3. /\ Transferred(x, k)
        /\ \A l \in i + 1 .. z : Message(c[l]) => c[l].id > k
    BY <1>5, <1>8, <2>1, <2>2
  <2>4. \A l \in j + 1 .. z + 1 : l - 1 \in i + 1 .. z /\ d[l] = c[l - 1]
    <3>. SUFFICES ASSUME NEW l \in j + 1 .. z + 1
         PROVE  l - 1 \in i + 1 .. z /\ d[l] = c[l - 1]
      OBVIOUS
    <3>1. l - 1 \in i + 1 .. z /\ l - 1 \in 1 .. z /\ (l - 1) + 1 = l
      BY <1>1, <2>0
    <3>. QED
      BY <1>4, <3>1
  <2>. QED
    BY <2>3, <2>4 DEF Keeps
<1>. QED
  BY <1>3, <1>4, <1>7, <1>8 DEF Follows

LEMMA FollowsRepeat ==
  ASSUME TypeOK, NEW x, NEW y \in Side, NEW v, NEW k,
         Doubled(y), Keeps(x, v, k), Follows(x, y, 0, v, k)
  PROVE  Follows(x, y, 0, v, k)'
<1>1. PICK z \in Nat : z = Len(chan[y]) /\ z >= 1
  BY DEF TypeOK, Doubled
<1>2. PICK c : c = chan[y]
  OBVIOUS
<1>3. PICK d : d = chan'[y]
  OBVIOUS
<1>4. Len(d) = z + 1 /\ d[1] = c[1] /\ \A i \in 1 .. z : d[i + 1] = c[i]
  BY <1>1, <1>2, <1>3 DEF Doubled
<1>5. /\ (\A i \in 1 + 1 .. z + 1 : Echo(d[i], v)) => Answerable(x, v, k)'
      /\ \A j \in 1 + 1 .. z + 1 :
           /\ \A i \in 1 + 1 .. j - 1 : Echo(d[i], v)
           /\ d[j].type = "AITA" /\ d[j].value = Plus2(v)
           => /\ Transferred(x, k)'
              /\ \A l \in j + 1 .. z + 1 : Message(d[l]) => d[l].id > k
  <2>1. Follows(x, y, 0 + 1, v, k)'
    BY FollowsLift
  <2>. QED
    BY <1>3, <1>4, <2>1 DEF Follows
<1>6. (\A i \in 0 + 1 .. z + 1 : Echo(d[i], v)) => Answerable(x, v, k)'
  BY <1>1, <1>5
<1>7. ASSUME NEW j \in 0 + 1 .. z + 1, \A i \in 0 + 1 .. j - 1 : Echo(d[i], v),
             d[j].type = "AITA", d[j].value = Plus2(v)
      PROVE  /\ Transferred(x, k)'
             /\ \A l \in j + 1 .. z + 1 : Message(d[l]) => d[l].id > k
  <2>1. CASE j # 1
    <3>1. j \in 1 + 1 .. z + 1 /\ \A i \in 1 + 1 .. j - 1 : i \in 0 + 1 .. j - 1
      BY <1>1, <2>1
    <3>. QED
      BY <1>5, <1>7, <3>1
  <2>2. CASE j = 1
    <3>1. d[2] = c[1] /\ 2 \in 1 + 1 .. z + 1 /\ 1 \in 1 .. z
      <4>1. 1 + 1 = 2 /\ 1 \in 1 .. z
        BY <1>1
      <4>. QED
        BY <1>1, <1>4, <4>1
    <3>2. d[2].type = "AITA" /\ d[2].value = Plus2(v)
      BY <1>4, <1>7, <2>2, <3>1
    <3>3. \A i \in 1 + 1 .. 2 - 1 : FALSE
      OBVIOUS
    <3>4. /\ Transferred(x, k)'
          /\ \A l \in 2 + 1 .. z + 1 : Message(d[l]) => d[l].id > k
      BY <1>5, <3>1, <3>2, <3>3
    <3>5. ~Message(d[2])
      BY <3>2 DEF Message
    <3>6. \A l \in j + 1 .. z + 1 : l = 2 \/ l \in 2 + 1 .. z + 1
      BY <1>1, <2>2
    <3>. QED
      BY <3>4, <3>5, <3>6
  <2>. QED
    BY <2>1, <2>2
<1>. QED
  BY <1>3, <1>4, <1>6, <1>7 DEF Follows

\* x sends m behind what is on the wire.
LEMMA FollowsGrow ==
  ASSUME TypeOK, NEW x \in Side, NEW y \in Side, y = Peer(x),
         NEW n \in Nat, NEW v, NEW k, NEW m, n <= Len(chan[y]),
         Grown(x, m), Follows(x, y, n, v, k),
         Answerable(x, v, k) /\ Echo(m, v) => Answerable(x, v, k)',
         Answerable(x, v, k) /\ m.type = "AITA" => Transferred(x, k)',
         Transferred(x, k) => Transferred(x, k)',
         Transferred(x, k) /\ Message(m) => m.id > k
  PROVE  Follows(x, y, n, v, k)'
<1>1. PICK z \in Nat : z = Len(chan[y]) /\ n <= z
  BY DEF TypeOK
<1>2. PICK c : c = chan[y] /\ DOMAIN c = 1 .. z
  BY <1>1 DEF TypeOK
<1>3. PICK d : d = chan'[y]
  OBVIOUS
<1>4. Len(d) = z + 1 /\ d[z + 1] = m /\ \A i \in 1 .. z : d[i] = c[i]
  BY <1>1, <1>2, <1>3 DEF Grown
<1>5. /\ (\A i \in n + 1 .. z : Echo(c[i], v)) => Answerable(x, v, k)
      /\ \A j \in n + 1 .. z :
           /\ \A i \in n + 1 .. j - 1 : Echo(c[i], v)
           /\ c[j].type = "AITA" /\ c[j].value = Plus2(v)
           => /\ Transferred(x, k)
              /\ \A l \in j + 1 .. z : Message(c[l]) => c[l].id > k
  BY <1>1, <1>2 DEF Follows
<1>6. ASSUME NEW j \in Int, j <= z, \A i \in n + 1 .. j : Echo(d[i], v)
      PROVE  \A i \in n + 1 .. j : Echo(c[i], v)
  BY <1>4, <1>6
<1>7. (\A i \in n + 1 .. z + 1 : Echo(d[i], v)) => Answerable(x, v, k)'
  <2>. SUFFICES ASSUME \A i \in n + 1 .. z + 1 : Echo(d[i], v)
       PROVE  Answerable(x, v, k)'
    OBVIOUS
  <2>1. z + 1 \in n + 1 .. z + 1 /\ \A i \in n + 1 .. z : i \in n + 1 .. z + 1
    BY <1>1
  <2>2. Echo(m, v)
    BY <1>4, <2>1
  <2>3. \A i \in n + 1 .. z : Echo(d[i], v)
    BY <2>1
  <2>4. z \in Int /\ z <= z
    BY <1>1
  <2>5. \A i \in n + 1 .. z : Echo(c[i], v)
    BY <1>6, <2>3, <2>4
  <2>. QED
    BY <1>5, <2>2, <2>5
<1>8. ASSUME NEW j \in n + 1 .. z + 1, \A i \in n + 1 .. j - 1 : Echo(d[i], v),
             d[j].type = "AITA", d[j].value = Plus2(v)
      PROVE  /\ Transferred(x, k)'
             /\ \A l \in j + 1 .. z + 1 : Message(d[l]) => d[l].id > k
  <2>0. j - 1 \in Int /\ j - 1 <= z /\ \A i \in n + 1 .. j - 1 : Echo(c[i], v)
    BY <1>1, <1>6, <1>8
  <2>1. CASE j = z + 1
    <3>1. Answerable(x, v, k) /\ m.type = "AITA"
      <4>1. j - 1 = z
        BY <1>1, <2>1
      <4>. QED
        BY <1>4, <1>5, <1>8, <2>0, <2>1, <4>1
    <3>2. \A l \in j + 1 .. z + 1 : FALSE
      BY <1>1, <2>1
    <3>. QED
      BY <3>1, <3>2
  <2>2. CASE j # z + 1
    <3>1. j \in n + 1 .. z /\ j \in 1 .. z
      BY <1>1, <2>2
    <3>2. /\ Transferred(x, k)
          /\ \A l \in j + 1 .. z : Message(c[l]) => c[l].id > k
      BY <1>4, <1>5, <1>8, <2>0, <3>1
    <3>3. \A l \in j + 1 .. z + 1 : \/ l = z + 1 /\ d[l] = m
                                    \/ l \in j + 1 .. z /\ d[l] = c[l]
      BY <1>1, <1>4, <3>1
    <3>. QED
      BY <3>2, <3>3
  <2>. QED
    BY <2>1, <2>2
<1>. QED
  BY <1>3, <1>4, <1>7, <1>8 DEF Follows

-----------------------------------------------------------------------------
(* DeliveryInv.                                                             *)

\* No host reads on in this step when it is to send event 0.
Heedful == \A s \in Side : ~ReadsOn(s)

LEMMA HeedfulSteps ==
  ASSUME FaultyNext, ~overread'
  PROVE  ~overread /\ Heedful
BY DEF FaultyNext, Recorded, Heedful

\* A caller hands the first packet to entl_received and does what it is told.
Delivers(s, m) ==
  /\ Shifted(s) /\ chan[s][1] = m
  /\ mcn'[Peer(s)] = mcn[Peer(s)] /\ wake'[Peer(s)] = wake[Peer(s)]
  /\ mcn[s].failed => mcn'[s].failed
  /\ \/ Still(mcn[s], mcn'[s]) \/ Greets(mcn[s], mcn'[s])
     \/ Invites(mcn[s], mcn'[s], m) \/ Takes(mcn[s], mcn'[s], m)
  /\ mcn[s].state \in {"SB", "RB"} /\ mcn'[s].state = mcn[s].state
       => Echo(m, mcn[s].know)
  /\ mcn[s].state = "WAIT" => ~wake[s]
  /\ Invites(mcn[s], mcn'[s], m) => wake'[s]
  /\ UNCHANGED <<queued, dropped, done>>
  /\ kept'[Peer(s)] = kept[Peer(s)] /\ got'[Peer(s)] = got[Peer(s)]
  /\ kept'[s] = IF mcn[s].state = "RECEIVE" /\ mcn'[s].state = "SB"
                THEN m.id ELSE kept[s]
  /\ got'[s] = IF mcn[s].state = "RB" /\ mcn'[s].state = "SEND"
               THEN Append(got[s], kept[s]) ELSE got[s]

LEMMA ReceiveDelivers ==
  ASSUME TypeOK, NEW s \in Side, Receive(s), Heedful
  PROVE  \E m \in Packet : Delivers(s, m)
<1>1. PICK full \in FullReports(s) : Received(s, Head(chan[s]), full)
  BY DEF Receive
<1>2. /\ chan[s] # <<>> /\ chan[s] \in Seq(Packet)
      /\ chan' = [chan EXCEPT ![s] = Tail(@)]
  BY DEF TypeOK, Receive
<1>3. /\ Head(chan[s]) = chan[s][1] /\ 1 \in 1 .. Len(chan[s]) /\ chan[s][1] \in Packet
      /\ Len(Tail(chan[s])) = Len(chan[s]) - 1
      /\ \A i \in 1 .. Len(chan[s]) - 1 : Tail(chan[s])[i] = chan[s][i + 1]
  BY <1>2, TailFacts
<1>4. chan'[s] = Tail(chan[s]) /\ chan'[Peer(s)] = chan[Peer(s)]
      /\ DOMAIN chan[s] = 1 .. Len(chan[s])
  BY <1>2, SideFacts DEF TypeOK
<1>5. Shifted(s)
  BY <1>3, <1>4 DEF Shifted
<1>6. mcn'[Peer(s)] = mcn[Peer(s)]
  BY <1>1, ReceivedOnlyHere
<1>7. PICK n : n = mcn[s]
  OBVIOUS
<1>8. PICK p : p = mcn'[s]
  OBVIOUS
<1>9. PICK m \in Packet : m = chan[s][1]
  BY <1>3
<1>10. /\ n.failed => p.failed
       /\ Still(n, p) \/ Greets(n, p) \/ Invites(n, p, m) \/ Takes(n, p, m)
       /\ "PROC_AIT" \in act'[s] <=> n.state = "RECEIVE" /\ p.state = "SB"
       /\ n.state = "RB" => ("SIG_AIT" \in act'[s] <=> p.state = "SEND")
       /\ n.state \in {"SB", "RB"} /\ p.state = n.state => Echo(m, n.know)
       /\ Invites(n, p, m) => act'[s] # {}
  BY <1>1, <1>3, <1>7, <1>8, <1>9, ReceivedCases
<1>11. /\ mcn[s].state = "WAIT" => ~wake[s]
       /\ wake'[s] = (s \in Polling \/ act'[s] # {})
       /\ wake'[Peer(s)] = wake[Peer(s)]
  BY SideFacts DEF Receive, TypeOK, Heedful, ReadsOn
<1>12. /\ UNCHANGED <<queued, dropped, done>>
       /\ kept'[Peer(s)] = kept[Peer(s)] /\ got'[Peer(s)] = got[Peer(s)]
       /\ kept'[s] = IF "PROC_AIT" \in act'[s] THEN m.id ELSE kept[s]
       /\ got'[s] = IF n.state = "RB" /\ "SIG_AIT" \in act'[s]
                    THEN Append(got[s], kept[s]) ELSE got[s]
  BY <1>7, <1>9, ReceiveEffects
<1>. QED
  BY <1>5, <1>6, <1>7, <1>8, <1>9, <1>10, <1>11, <1>12 DEF Delivers

\* What does not concern the wire towards y.
LEMMA DeliveriesSame ==
  ASSUME TypeOK, NEW x \in Side, NEW y \in Side, Deliveries(x, y),
         chan'[y] = chan[y], got'[y] = got[y], done'[x] = done[x],
         dropped[x] <= dropped'[x], dropped'[x] \in Nat,
         \A v \in Nat : \A k : Keeps(x, v, k),
         mcn'[y].state \in {"SB", "RB"} =>
           /\ mcn[y].state \in {"SB", "RB"} /\ mcn'[y].know = mcn[y].know
           /\ kept'[y] = kept[y]
  PROVE  Deliveries(x, y)'
<1>1. /\ \A n \in DOMAIN chan[y] : chan[y][n].value \in Nat
      /\ mcn[y].know \in Nat
      /\ dropped[x] \in Nat /\ \A i \in DOMAIN done[x] : done[x][i] \in Nat
  <2>1. chan[y] \in Seq(Packet) /\ mcn[y] \in Machine
        /\ done[x] \in Seq(Nat) /\ dropped[x] \in Nat
    BY DEF TypeOK
  <2>2. \A n \in DOMAIN chan[y] : chan[y][n] \in Packet
    BY <2>1
  <2>3. \A m \in Packet : m.value \in Nat
    BY EventNumbers DEF Packet
  <2>4. mcn[y].know \in Nat
    BY <2>1, EventNumbers DEF Machine
  <2>. QED
    BY <2>1, <2>2, <2>3, <2>4
<1>2. \A i \in DOMAIN done'[x] : done'[x][i] <= dropped'[x]
  BY <1>1 DEF Deliveries
<1>3. ASSUME NEW n \in DOMAIN chan[y], Message(chan[y][n]), NEW v, NEW k,
             v = chan[y][n].value, k = chan[y][n].id
      PROVE  Newer(y, k)' /\ Follows(x, y, n, v, k)'
  <2>1. v \in Nat
    BY <1>1, <1>3
  <2>2. Newer(y, k) /\ Follows(x, y, n, v, k)
    BY <1>3 DEF Deliveries
  <2>3. Newer(y, k)'
    BY <2>2 DEF Newer
  <2>. QED
    BY <2>1, <2>2, <2>3, FollowsSame
<1>4. CASE mcn'[y].state \in {"SB", "RB"}
  <2>1. PICK v \in Nat : v = mcn[y].know
    BY <1>1
  <2>2. PICK k : k = kept[y]
    OBVIOUS
  <2>3. Newer(y, k) /\ Follows(x, y, 0, v, k)
    BY <1>4, <2>1, <2>2 DEF Deliveries
  <2>4. Newer(y, k)' /\ Follows(x, y, 0, v, k)'
    BY <2>3, FollowsSame DEF Newer
  <2>. QED
    BY <1>2, <1>3, <1>4, <2>1, <2>2, <2>4 DEF Deliveries, Transferred
<1>. QED
  BY <1>2, <1>3, <1>4 DEF Deliveries, Transferred

\* The sender of a message hears something.
LEMMA KeepsByReceive ==
  ASSUME TypeOK, NEW x \in Side, Numbering(x), NEW m \in Packet, Delivers(x, m),
         NEW v \in Nat, NEW k
  PROVE  Keeps(x, v, k)
<1>1. done' = done /\ dropped' = dropped
  BY DEF Delivers
<1>2. Transferred(x, k) => Transferred(x, k)'
  BY <1>1 DEF Transferred
<1>3. ASSUME Answerable(x, v, k) PROVE Answerable(x, v, k)'
  <2>1. CASE mcn[x].failed
    BY <2>1 DEF Delivers, Answerable
  <2>2. CASE mcn[x].state = "HELLO"
    <3>1. CASE Invites(mcn[x], mcn'[x], m)
      BY <3>1 DEF Delivers, Invites, Answerable
    <3>2. CASE Takes(mcn[x], mcn'[x], m)
      <4>1. /\ mcn'[x].state = "SEND" /\ mcn'[x].know = 0 /\ mcn'[x].sent = 0
        BY <2>2, <3>2 DEF Takes, TakenTo, Numbering
      <4>. QED
        BY <4>1 DEF Answerable, MayTransfer
    <3>3. CASE Still(mcn[x], mcn'[x]) \/ Greets(mcn[x], mcn'[x])
      BY <2>2, <3>3 DEF Still, Greets, Answerable
    <3>. QED
      BY <3>1, <3>2, <3>3 DEF Delivers
  <2>3. CASE mcn[x].state = "SEND" /\ ~MayTransfer(mcn[x])
    <3>1. Still(mcn[x], mcn'[x]) \/ Greets(mcn[x], mcn'[x])
      BY <2>3 DEF Delivers, Invites, Takes, TakenTo
    <3>. QED
      BY <2>3, <3>1 DEF Still, Greets, Answerable, MayTransfer
  <2>4. CASE /\ k = dropped[x] + 1 /\ Offers[x][k] # "ALO"
             /\ \/ mcn[x].state = "RA" /\ mcn[x].sent = v
                \/ mcn[x].state = "SA"
                \/ mcn[x].state = "SEND" /\ mcn[x].next = Plus2(v)
    <3>0. k = dropped'[x] + 1
      BY <1>1, <2>4
    <3>1. CASE Greets(mcn[x], mcn'[x])
      BY <3>1 DEF Greets, Answerable
    <3>2. CASE Still(mcn[x], mcn'[x])
      BY <2>4, <3>0, <3>2 DEF Still, Answerable
    <3>3. CASE Takes(mcn[x], mcn'[x], m)
      <4>1. /\ mcn[x].state = "RA" /\ mcn[x].sent = v
            /\ \/ mcn'[x].state = "SA"
               \/ mcn'[x].state = "SEND" /\ mcn'[x].next = NextValue(Plus2(mcn[x].know))
        BY <2>4, <3>3 DEF Takes, TakenTo
      <4>2. v = NextValue(mcn[x].know) /\ mcn[x].know \in EventNumber
        BY <4>1 DEF Numbering, TypeOK, Machine
      <4>3. NextValue(Plus2(mcn[x].know)) = Plus2(v)
        BY <4>2, NextValueTwice, EventNumbers
      <4>. QED
        BY <2>4, <3>0, <4>1, <4>3 DEF Answerable
    <3>. QED
      BY <2>4, <3>1, <3>2, <3>3 DEF Delivers, Invites
  <2>. QED
    BY <1>3, <2>1, <2>2, <2>3, <2>4 DEF Answerable, Delivers
<1>. QED
  BY <1>2, <1>3 DEF Keeps

\* The receiver of a message hears something.
LEMMA ReceiverHears ==
  ASSUME TypeOK, TypeOK', NEW x \in Side, NEW y \in Side, x = Peer(y), Deliveries(x, y),
         NEW m \in Packet, Delivers(y, m)
  PROVE  Deliveries(x, y)'
<1>0. /\ mcn'[x] = mcn[x] /\ wake'[x] = wake[x]
      /\ done' = done /\ dropped' = dropped
  BY DEF Delivers
<1>1. \A v, k : Keeps(x, v, k)
  BY <1>0 DEF Keeps, Answerable, Transferred
<1>2. PICK z \in Nat : /\ z = Len(chan[y]) /\ DOMAIN chan[y] = 1 .. z /\ z >= 1
                       /\ DOMAIN chan'[y] = 1 .. z - 1
                       /\ \A i \in 1 .. z - 1 : chan'[y][i] = chan[y][i + 1]
                       /\ Shifted(y) /\ chan[y][1] = m
  <2>1. PICK z \in Nat : z = Len(chan[y]) /\ DOMAIN chan[y] = 1 .. z
    BY DEF TypeOK
  <2>2. Len(chan'[y]) = z - 1 /\ chan'[y] \in Seq(Packet) /\ 1 \in DOMAIN chan[y]
        /\ \A i \in 1 .. z - 1 : chan'[y][i] = chan[y][i + 1]
    BY <2>1 DEF Delivers, Shifted, TypeOK
  <2>. QED
    BY <2>1, <2>2 DEF Delivers
<1>3. /\ \A i, j \in DOMAIN got[y] : i < j => got[y][i] < got[y][j]
      /\ \A i \in DOMAIN got[y] : Transferred(x, got[y][i])
      /\ \A i \in DOMAIN done[x] : done[x][i] <= dropped[x]
      /\ \A n \in DOMAIN chan[y] : Message(chan[y][n]) =>
           /\ Newer(y, chan[y][n].id)
           /\ Follows(x, y, n, chan[y][n].value, chan[y][n].id)
      /\ mcn[y].state \in {"SB", "RB"} =>
           Newer(y, kept[y]) /\ Follows(x, y, 0, mcn[y].know, kept[y])
  BY DEF Deliveries
<1>4. ASSUME NEW n \in 1 .. z - 1, Message(chan'[y][n]), NEW v, NEW k,
             v = chan'[y][n].value, k = chan'[y][n].id
      PROVE  Newer(y, k) /\ Follows(x, y, n, v, k)'
  <2>1. n + 1 \in DOMAIN chan[y] /\ chan'[y][n] = chan[y][n + 1] /\ n \in Nat
    BY <1>2
  <2>2. v = chan[y][n + 1].value /\ k = chan[y][n + 1].id
    BY <1>4, <2>1
  <2>3. Newer(y, k) /\ Follows(x, y, n + 1, v, k)
    BY <1>3, <1>4, <2>1, <2>2
  <2>4. Follows(x, y, n, v, k)'
    BY <1>1, <1>2, <2>1, <2>3, FollowsShift
  <2>. QED
    BY <2>3, <2>4
<1>5. CASE mcn[y].state = "RB" /\ mcn'[y].state = "SEND"
  <2>1. PICK k : k = kept[y] /\ k \in Nat
    BY DEF TypeOK
  <2>2. got'[y] = Append(got[y], k)
    BY <1>5, <2>1 DEF Delivers
  <2>3. m.type = "AITA" /\ m.value = Plus2(mcn[y].know)
    BY <1>5 DEF Delivers, Still, Greets, Invites, Takes, TakenTo
  <2>4. Newer(y, k) /\ Follows(x, y, 0, mcn[y].know, k)
    BY <1>3, <1>5, <2>1
  <2>5. Transferred(x, k) /\ \A l \in 2 .. z : Message(chan[y][l]) => chan[y][l].id > k
    <3>1. 1 \in 0 + 1 .. Len(chan[y]) /\ Echoes(y, 0, 1 - 1, mcn[y].know)
      BY <1>2 DEF Echoes
    <3>2. Transferred(x, k) /\ Behind(y, 1, k)
      BY <1>2, <2>3, <2>4, <3>1, FollowsMeans
    <3>. QED
      BY <1>2, <3>2 DEF Behind
  <2>6. PICK g \in Nat : g = Len(got[y]) /\ DOMAIN got[y] = 1 .. g
    BY DEF TypeOK
  <2>7. /\ DOMAIN got'[y] = 1 .. g + 1 /\ got'[y][g + 1] = k
        /\ \A i \in 1 .. g : got'[y][i] = got[y][i]
    <3>1. got[y] \in Seq(Nat)
      BY DEF TypeOK
    <3>. QED
      BY <2>1, <2>2, <2>6, <3>1
  <2>8. \A i \in 1 .. g : got[y][i] < k
    BY <2>4, <2>6 DEF Newer
  <2>9. \A i, j \in DOMAIN got'[y] : i < j => got'[y][i] < got'[y][j]
    <3>. SUFFICES ASSUME NEW i \in 1 .. g + 1, NEW j \in 1 .. g + 1, i < j
         PROVE  got'[y][i] < got'[y][j]
      BY <2>7
    <3>1. i \in 1 .. g
      BY <2>6
    <3>2. CASE j = g + 1
      BY <2>7, <2>8, <3>1, <3>2
    <3>3. CASE j # g + 1
      <4>1. j \in 1 .. g
        BY <2>6, <3>3
      <4>. QED
        BY <1>3, <2>6, <2>7, <3>1, <4>1
    <3>. QED
      BY <3>2, <3>3
  <2>10. ASSUME NEW i \in DOMAIN got'[y], NEW q, q = got'[y][i]
         PROVE  Transferred(x, q)'
    <3>1. i = g + 1 \/ i \in 1 .. g
      BY <2>6, <2>7
    <3>2. Transferred(x, q)
      BY <1>3, <2>5, <2>6, <2>7, <2>10, <3>1
    <3>. QED
      BY <1>0, <3>2 DEF Transferred
  <2>11. ASSUME NEW n \in 1 .. z - 1, Message(chan'[y][n]), NEW q, q = chan'[y][n].id
         PROVE  Newer(y, q)'
    <3>1. n + 1 \in 2 .. z /\ chan'[y][n] = chan[y][n + 1]
      BY <1>2
    <3>2. q > k /\ Newer(y, q)
      BY <1>4, <2>5, <2>11, <3>1
    <3>3. \A i \in 1 .. g : got[y][i] < q
      BY <2>6, <3>2 DEF Newer
    <3>4. q \in Nat /\ k < q
      <4>1. chan[y][n + 1] \in Packet
        BY <1>2, <3>1 DEF TypeOK
      <4>2. q \in Nat
        BY <2>11, <3>1, <4>1 DEF Packet
      <4>. QED
        BY <2>1, <3>2, <4>2
    <3>5. \A i \in 1 .. g + 1 : i = g + 1 \/ i \in 1 .. g
      BY <2>6
    <3>6. \A i \in DOMAIN got'[y] : got'[y][i] < q
      BY <2>7, <3>3, <3>4, <3>5
    <3>. QED
      BY <3>6 DEF Newer
  <2>12. \A i \in DOMAIN done'[x] : done'[x][i] <= dropped'[x]
    BY <1>0, <1>3
  <2>. QED
    BY <1>2, <1>4, <1>5, <2>9, <2>10, <2>11, <2>12 DEF Deliveries
<1>6. CASE ~(mcn[y].state = "RB" /\ mcn'[y].state = "SEND")
  <2>1. got'[y] = got[y]
    BY <1>6 DEF Delivers
  <2>2. ASSUME mcn'[y].state \in {"SB", "RB"}, NEW v, NEW k, v = mcn'[y].know, k = kept'[y]
        PROVE  Newer(y, k)' /\ Follows(x, y, 0, v, k)'
    <3>1. Newer(y, k) /\ Follows(x, y, 1, v, k)
      <4>1. CASE Still(mcn[y], mcn'[y])
        <5>1. /\ mcn[y].state \in {"SB", "RB"} /\ kept[y] = k
              /\ Echo(m, v) /\ mcn[y].know = v
          BY <2>2, <4>1 DEF Delivers, Still
        <5>2. Newer(y, k) /\ Follows(x, y, 0, v, k)
          BY <1>3, <5>1
        <5>. QED
          BY <1>2, <5>1, <5>2, FollowsEcho
      <4>2. CASE Takes(mcn[y], mcn'[y], m)
        <5>1. mcn[y].state = "RECEIVE" /\ mcn'[y].state = "SB" /\ Message(m) /\ v = m.value
          BY <2>2, <4>2 DEF Takes, TakenTo
        <5>2. k = m.id
          BY <2>2, <5>1 DEF Delivers
        <5>. QED
          BY <1>2, <1>3, <5>1, <5>2
      <4>. QED
        BY <2>2, <4>1, <4>2 DEF Delivers, Greets, Invites
    <3>2. Follows(x, y, 0 + 1, v, k)
      BY <3>1
    <3>3. Follows(x, y, 0, v, k)'
      BY <1>1, <1>2, <3>2, FollowsShift
    <3>4. Newer(y, k)'
      BY <2>1, <3>1 DEF Newer
    <3>. QED
      BY <3>3, <3>4
  <2>3. \A i \in DOMAIN got'[y] : \A q : q = got'[y][i] => Transferred(x, q)'
    BY <1>0, <1>3, <2>1 DEF Transferred
  <2>4. \A i, j \in DOMAIN got'[y] : i < j => got'[y][i] < got'[y][j]
    BY <1>3, <2>1
  <2>5. \A i \in DOMAIN done'[x] : done'[x][i] <= dropped'[x]
    BY <1>0, <1>3
  <2>6. \A q : Newer(y, q) => Newer(y, q)'
    BY <2>1 DEF Newer
  <2>. QED
    BY <1>2, <1>4, <2>2, <2>3, <2>4, <2>5, <2>6 DEF Deliveries
<1>. QED
  BY <1>5, <1>6

\* What the next packet m of x changes for the messages it sent before, and
\* what it says of m itself.
Accounts(x, m) ==
  /\ \A v, k : Answerable(x, v, k) /\ Echo(m, v) => Answerable(x, v, k)'
  /\ \A v, k : Answerable(x, v, k) /\ m.type = "AITA" => Transferred(x, k)'
  /\ \A k : Transferred(x, k) => Transferred(x, k)'
  /\ \A k : Transferred(x, k) /\ Message(m) => m.id > k
  /\ \A v, k : Message(m) /\ v = m.value /\ k = m.id => Answerable(x, v, k)'
  /\ \A i \in DOMAIN done'[x] : done'[x][i] <= dropped'[x]

LEMMA SendAccounts ==
  ASSUME TypeOK, NEW x \in Side, NEW y \in Side, Deliveries(x, y), Queues(x),
         Send(x), NEW m \in Packet, Says(x, m, Offered(x), dropped[x] + 1)
  PROVE  Accounts(x, m)
<1>1. PICK n \in Machine : n = mcn[x] /\ n.next \in EventNumber
  BY DEF TypeOK, Machine
<1>2. PICK p : p = mcn'[x]
  OBVIOUS
<1>3. PICK kind : kind = Offered(x)
  OBVIOUS
<1>4. PICK d \in Nat : d = dropped[x]
  BY DEF TypeOK
<1>5. PICK e \in Nat : e = d + 1 /\ d < e
  <2>1. d + 1 \in Nat /\ d < d + 1
    OBVIOUS
  <2>. QED
    BY <2>1
<1>6. /\ ~n.failed
      /\ \/ p = n /\ n.state \in {"HELLO", "WAIT"} /\ m.type \in {"HELLO", "ENTL"}
         \/ Gives(n, p, m, kind, e)
  BY <1>1, <1>2, <1>3, <1>4, <1>5 DEF Says, Pkt
<1>7. /\ p.failed = n.failed
      /\ "DROP_AIT" \in act'[x] <=> n.state \in {"SA", "SAL"}
  BY <1>1, <1>2, <1>6, SendSays
<1>8. n.state \notin {"SA", "SAL"} => dropped' = dropped /\ done' = done
  BY <1>7, SendEffects
<1>9. n.state \in {"SA", "SAL"} =>
        /\ dropped'[x] = e
        /\ n.state = "SA" => done'[x] = Append(done[x], e)
        /\ n.state # "SA" => done' = done
  BY <1>1, <1>4, <1>5, <1>7, SendEffects
<1>10. \A i \in DOMAIN done[x] : done[x][i] <= d /\ done[x][i] \in Nat
  BY <1>4 DEF Deliveries, TypeOK
<1>11. \A k : Transferred(x, k) => k \in Nat /\ k < e
  BY <1>5, <1>10 DEF Transferred
<1>12. n.state = "SA" =>
         /\ \A i \in DOMAIN done'[x] :
              done'[x][i] = e \/ \E j \in DOMAIN done[x] : done'[x][i] = done[x][j]
         /\ \A i \in DOMAIN done[x] : i \in DOMAIN done'[x] /\ done'[x][i] = done[x][i]
         /\ \E i \in DOMAIN done'[x] : done'[x][i] = e
  <2>. SUFFICES ASSUME n.state = "SA", done'[x] = Append(done[x], e)
       PROVE  /\ \A i \in DOMAIN done'[x] :
                   done'[x][i] = e \/ \E j \in DOMAIN done[x] : done'[x][i] = done[x][j]
              /\ \A i \in DOMAIN done[x] :
                   i \in DOMAIN done'[x] /\ done'[x][i] = done[x][i]
              /\ \E i \in DOMAIN done'[x] : done'[x][i] = e
    BY <1>9
  <2>1. done[x] \in Seq(Nat)
    BY DEF TypeOK
  <2>2. PICK z \in Nat : z = Len(done[x]) /\ DOMAIN done[x] = 1 .. z
    BY <2>1
  <2>3. /\ DOMAIN done'[x] = 1 .. z + 1 /\ done'[x][z + 1] = e
        /\ \A i \in 1 .. z : done'[x][i] = done[x][i]
    BY <2>1, <2>2
  <2>4. \A i \in 1 .. z + 1 : i = z + 1 \/ i \in 1 .. z
    OBVIOUS
  <2>5. z + 1 \in 1 .. z + 1 /\ \A i \in 1 .. z : i \in 1 .. z + 1
    OBVIOUS
  <2>. QED
    BY <2>2, <2>3, <2>4, <2>5
<1>13. \A k : Transferred(x, k) => Transferred(x, k)'
  BY <1>8, <1>9, <1>12 DEF Transferred
<1>14. \A i \in DOMAIN done'[x] : done'[x][i] <= dropped'[x]
  <2>1. CASE n.state = "SA"
    <3>1. \A i \in DOMAIN done'[x] : done'[x][i] \in Nat /\ done'[x][i] <= e
      BY <1>5, <1>10, <1>12, <2>1
    <3>. QED
      BY <1>9, <2>1, <3>1
  <2>2. CASE n.state = "SAL"
    <3>1. \A i \in DOMAIN done'[x] : done'[x][i] \in Nat /\ done'[x][i] <= e
      BY <1>5, <1>9, <1>10, <2>2
    <3>. QED
      BY <1>9, <2>2, <3>1
  <2>3. CASE n.state \notin {"SA", "SAL"}
    BY <1>4, <1>8, <1>10, <2>3
  <2>. QED
    BY <2>1, <2>2, <2>3
<1>15. ASSUME NEW v, NEW k, Answerable(x, v, k), Echo(m, v) PROVE FALSE
  <2>1. /\ n.state = "SEND" /\ MayTransfer(n) /\ v = n.next
    BY <1>6, <1>15 DEF Gives, Echo, Message
  <2>2. n.next = Plus2(n.next)
    BY <1>1, <1>6, <1>15, <2>1 DEF Answerable
  <2>. QED
    BY <1>1, <2>2, NextValueTwice
<1>16. ASSUME NEW v, NEW k, Answerable(x, v, k), m.type = "AITA"
       PROVE  Transferred(x, k)'
  <2>1. n.state \in {"SA", "SAL"}
    BY <1>6, <1>16 DEF Gives, Message
  <2>2. n.state = "SA" /\ k = e
    BY <1>1, <1>4, <1>5, <1>6, <1>16, <2>1 DEF Answerable
  <2>. QED
    BY <1>12, <2>2 DEF Transferred
<1>17. ASSUME NEW v, NEW k, Message(m), v = m.value, k = m.id
       PROVE  Answerable(x, v, k)'
  <2>1. /\ n.state = "SEND" /\ p.state = "RA" /\ p.sent = v /\ k = e
        /\ kind \in {"AIT", "BOTH"}
    BY <1>6, <1>17 DEF Gives, Message
  <2>2. Offers[x][k] # "ALO" /\ k = dropped'[x] + 1
    <3>1. Offers[x][d + 1] \in {"AIT", "BOTH"}
      BY <1>3, <1>4, <2>1 DEF Offered
    <3>. QED
      BY <1>4, <1>5, <1>8, <2>1, <3>1
  <2>. QED
    BY <1>2, <2>1, <2>2 DEF Answerable
<1>18. ASSUME NEW k, Transferred(x, k), Message(m)
       PROVE  m.id > k
  <2>1. m.id = e
    BY <1>6, <1>18 DEF Gives, Message
  <2>. QED
    BY <1>11, <1>18, <2>1
<1>. QED
  BY <1>13, <1>14, <1>15, <1>16, <1>17, <1>18 DEF Accounts

\* The sender of a message says something.
LEMMA SenderSays ==
  ASSUME TypeOK, TypeOK', NEW x \in Side, NEW y \in Side, y = Peer(x),
         Deliveries(x, y), Queues(x),
         Send(x), NEW m \in Packet, Says(x, m, Offered(x), dropped[x] + 1)
  PROVE  Deliveries(x, y)'
<1>1. Accounts(x, m)
  BY SendAccounts
<1>2. got' = got /\ kept' = kept /\ mcn'[y] = mcn[y]
  BY SendEffects, SendSays
<1>3. PICK z \in Nat : /\ z = Len(chan[y]) /\ DOMAIN chan[y] = 1 .. z
                       /\ DOMAIN chan'[y] = 1 .. z + 1
                       /\ \A i \in 1 .. z : chan'[y][i] = chan[y][i]
                       /\ chan'[y][z + 1] = m /\ Grown(x, m) /\ Len(chan'[y]) = z + 1
  <2>1. PICK z \in Nat : z = Len(chan[y]) /\ DOMAIN chan[y] = 1 .. z
    <3>1. chan[y] \in Seq(Packet)
      BY DEF TypeOK
    <3>. QED
      BY <3>1
  <2>2. /\ Grown(x, m) /\ Len(chan'[y]) = z + 1 /\ chan'[y][z + 1] = m
        /\ \A i \in 1 .. z : chan'[y][i] = chan[y][i]
    BY <2>1 DEF Says, Grown
  <2>3. chan'[y] \in Seq(Packet)
    BY DEF TypeOK
  <2>. QED
    BY <2>1, <2>2, <2>3
<1>4. /\ \A i, j \in DOMAIN got[y] : i < j => got[y][i] < got[y][j]
      /\ \A i \in DOMAIN got[y] : Transferred(x, got[y][i])
      /\ \A n \in DOMAIN chan[y] : Message(chan[y][n]) =>
           /\ Newer(y, chan[y][n].id)
           /\ Follows(x, y, n, chan[y][n].value, chan[y][n].id)
      /\ mcn[y].state \in {"SB", "RB"} =>
           Newer(y, kept[y]) /\ Follows(x, y, 0, mcn[y].know, kept[y])
  BY DEF Deliveries
<1>5. \A k : Newer(y, k) => Newer(y, k)'
  BY <1>2 DEF Newer
<1>6. ASSUME NEW n \in Nat, n <= z, NEW v, NEW k, Follows(x, y, n, v, k)
      PROVE  Follows(x, y, n, v, k)'
  <2>1. /\ Answerable(x, v, k) /\ Echo(m, v) => Answerable(x, v, k)'
        /\ Answerable(x, v, k) /\ m.type = "AITA" => Transferred(x, k)'
        /\ Transferred(x, k) => Transferred(x, k)'
        /\ Transferred(x, k) /\ Message(m) => m.id > k
    BY <1>1 DEF Accounts
  <2>. QED
    BY <1>3, <1>6, <2>1, FollowsGrow
<1>7. ASSUME NEW n \in DOMAIN chan'[y], Message(chan'[y][n]), NEW v, NEW k,
             v = chan'[y][n].value, k = chan'[y][n].id
      PROVE  Newer(y, k)' /\ Follows(x, y, n, v, k)'
  <2>1. CASE n = z + 1
    <3>1. Message(m) /\ v = m.value /\ k = m.id
      BY <1>3, <1>7, <2>1
    <3>2. Answerable(x, v, k)'
      BY <1>1, <3>1 DEF Accounts
    <3>3. Newer(y, k)
      <4>1. got[y] \in Seq(Nat) /\ m \in Packet
        BY DEF TypeOK
      <4>2. k \in Nat /\ \A i \in DOMAIN got[y] : got[y][i] \in Nat
        BY <3>1, <4>1 DEF Packet
      <4>3. \A i \in DOMAIN got[y] : k > got[y][i]
        BY <1>1, <1>4, <3>1 DEF Accounts
      <4>4. \A i \in DOMAIN got[y] : got[y][i] < k
        BY <4>2, <4>3
      <4>. QED
        BY <4>4 DEF Newer
    <3>4. \A j \in z + 1 + 1 .. z + 1 : FALSE
      OBVIOUS
    <3>5. Follows(x, y, n, v, k)'
      BY <1>3, <2>1, <3>2, <3>4 DEF Follows
    <3>. QED
      BY <1>5, <3>3, <3>5
  <2>2. CASE n # z + 1
    <3>1. n \in 1 .. z /\ n \in Nat /\ n <= z
      BY <1>3, <2>2
    <3>2. Message(chan[y][n]) /\ v = chan[y][n].value /\ k = chan[y][n].id
      BY <1>3, <1>7, <3>1
    <3>3. Newer(y, k) /\ Follows(x, y, n, v, k)
      BY <1>3, <1>4, <3>1, <3>2
    <3>. QED
      BY <1>5, <1>6, <3>1, <3>3
  <2>. QED
    BY <2>1, <2>2
<1>8. ASSUME mcn'[y].state \in {"SB", "RB"}, NEW v, NEW k, v = mcn'[y].know, k = kept'[y]
      PROVE  Newer(y, k)' /\ Follows(x, y, 0, v, k)'
  <2>1. Newer(y, k) /\ Follows(x, y, 0, v, k)
    BY <1>2, <1>4, <1>8
  <2>2. 0 \in Nat /\ 0 <= z
    OBVIOUS
  <2>. QED
    BY <1>5, <1>6, <2>1, <2>2
<1>9. \A i \in DOMAIN got'[y] : \A q : q = got'[y][i] => Transferred(x, q)'
  BY <1>1, <1>2, <1>4 DEF Accounts
<1>10. \A i, j \in DOMAIN got'[y] : i < j => got'[y][i] < got'[y][j]
  BY <1>2, <1>4
<1>11. \A i \in DOMAIN done'[x] : done'[x][i] <= dropped'[x]
  BY <1>1 DEF Accounts
<1>. QED
  BY <1>7, <1>8, <1>9, <1>10, <1>11 DEF Deliveries

LEMMA SenderSends ==
  ASSUME TypeOK, TypeOK', NEW x \in Side, NEW y \in Side, y = Peer(x),
         Deliveries(x, y), Queues(x), Send(x)
  PROVE  Deliveries(x, y)'
<1>1. CASE SaysNothing(x, Offered(x))
  <2>1. chan' = chan /\ got' = got /\ kept' = kept /\ mcn'[y] = mcn[y]
    BY <1>1, SendEffects, SendSays DEF SaysNothing
  <2>2. dropped' = dropped /\ done' = done
    <3>1. mcn[x].failed \/ mcn[x].state \notin {"SA", "SAL"}
      BY <1>1 DEF SaysNothing, Spends, WaitingState
    <3>. QED
      BY <3>1, SendSays, SendEffects
  <2>3. dropped[x] \in Nat
    BY DEF TypeOK
  <2>4. \A k : Transferred(x, k) => Transferred(x, k)'
    BY <2>2 DEF Transferred
  <2>5. ASSUME NEW v, NEW k, Answerable(x, v, k) PROVE Answerable(x, v, k)'
    <3>1. CASE Spends(mcn[x], mcn'[x], Offered(x)) /\ ~mcn[x].failed
      <4>1. Offers[x][dropped[x] + 1] = "ALO"
        BY <3>1 DEF Spends, Offered
      <4>. QED
        BY <2>5, <3>1, <4>1 DEF Answerable, Spends
    <3>2. CASE mcn'[x] = mcn[x] /\ (mcn[x].failed \/ mcn[x].state \in WaitingState)
      BY <2>2, <2>5, <3>2 DEF Answerable, WaitingState
    <3>. QED
      BY <1>1, <3>1, <3>2 DEF SaysNothing
  <2>. QED
    BY <2>1, <2>2, <2>3, <2>4, <2>5, DeliveriesSame DEF Keeps
<1>2. ASSUME NEW m \in Packet, Says(x, m, Offered(x), dropped[x] + 1)
      PROVE  Deliveries(x, y)'
  BY <1>2, SenderSays
<1>. QED
  BY <1>1, <1>2, SendSays

\* The receiver of a message says something.
LEMMA ReceiverSends ==
  ASSUME TypeOK, NEW x \in Side, NEW y \in Side, x = Peer(y), y = Peer(x),
         Deliveries(x, y), Send(y)
  PROVE  Deliveries(x, y)'
<1>1. /\ mcn'[x] = mcn[x] /\ mcn'[y].know = mcn[y].know
      /\ got' = got /\ kept' = kept
      /\ dropped'[x] = dropped[x] /\ done'[x] = done[x]
  BY SendSays, SendEffects
<1>2. wake'[x] = wake[x]
  BY SideFacts DEF Send, TypeOK
<1>3. /\ chan'[y] = chan[y]
      /\ mcn'[y].state \in {"SB", "RB"} => mcn[y].state \in {"SB", "RB"}
  <2>1. CASE SaysNothing(y, Offered(y))
    BY <2>1 DEF SaysNothing, Spends
  <2>2. ASSUME NEW m \in Packet, Says(y, m, Offered(y), dropped[y] + 1)
        PROVE  /\ chan'[y] = chan[y]
               /\ mcn'[y].state \in {"SB", "RB"} => mcn[y].state \in {"SB", "RB"}
    BY <2>2 DEF Says, Grown, Gives
  <2>. QED
    BY <2>1, <2>2, SendSays
<1>4. \A v, k : Keeps(x, v, k)
  BY <1>1, <1>2 DEF Keeps, Answerable, Transferred
<1>5. dropped[x] \in Nat
  BY DEF TypeOK
<1>. QED
  BY <1>1, <1>3, <1>4, <1>5, DeliveriesSame

LEMMA RepeatDoubles ==
  ASSUME TypeOK, NEW y \in Side, Repeat(y)
  PROVE  Doubled(y)
<1>1. chan[y] \in Seq(Packet) /\ chan[y] # <<>> /\ Peer(y) # y /\ Peer(y) \in Side
  BY SideFacts DEF TypeOK, Repeat
<1>2. chan'[y] = <<Head(chan[y])>> \o chan[y] /\ chan'[Peer(y)] = chan[Peer(y)]
  BY <1>1 DEF TypeOK, Repeat
<1>3. /\ Head(chan[y]) = chan[y][1] /\ 1 \in 1 .. Len(chan[y])
      /\ chan[y][1] \in Packet /\ Len(chan[y]) \in Nat
  BY <1>1, TailFacts
<1>4. <<Head(chan[y])>> \in Seq(Packet) /\ Len(<<Head(chan[y])>>) = 1
      /\ <<Head(chan[y])>>[1] = chan[y][1]
  BY <1>3
<1>5. /\ DOMAIN chan[y] = 1 .. Len(chan[y]) /\ Len(chan'[y]) = Len(chan[y]) + 1
      /\ \A i \in 1 .. Len(chan[y]) + 1 :
           chan'[y][i] = IF i = 1 THEN chan[y][1] ELSE chan[y][i - 1]
  BY <1>1, <1>2, <1>3, <1>4
<1>6. \A i \in 1 .. Len(chan[y]) :
        i + 1 \in 1 .. Len(chan[y]) + 1 /\ i + 1 # 1 /\ i + 1 - 1 = i
  BY <1>3
<1>. QED
  BY <1>2, <1>3, <1>5, <1>6 DEF Doubled

\* The receiver of a message is handed its first packet twice.
LEMMA ReceiverRepeats ==
  ASSUME TypeOK, TypeOK', NEW x \in Side, NEW y \in Side, Deliveries(x, y), Repeat(y)
  PROVE  Deliveries(x, y)'
<1>1. UNCHANGED <<mcn, wake, queued, dropped, kept, done, got>>
  BY DEF Repeat, callerVars
<1>2. \A v, k : Keeps(x, v, k)
  BY <1>1 DEF Keeps, Answerable, Transferred
<1>3. Doubled(y)
  BY RepeatDoubles DEF Repeat
<1>4. PICK z \in Nat : /\ DOMAIN chan[y] = 1 .. z /\ z >= 1
                       /\ DOMAIN chan'[y] = 1 .. z + 1
                       /\ chan'[y][1] = chan[y][1]
                       /\ \A i \in 1 .. z : chan'[y][i + 1] = chan[y][i]
  <2>1. chan[y] \in Seq(Packet) /\ chan'[y] \in Seq(Packet)
    BY DEF TypeOK
  <2>2. PICK z \in Nat : z = Len(chan[y]) /\ DOMAIN chan[y] = 1 .. z
    BY <2>1
  <2>3. Len(chan'[y]) = z + 1 /\ 1 \in DOMAIN chan[y] /\ chan'[y][1] = chan[y][1]
        /\ \A i \in 1 .. z : chan'[y][i + 1] = chan[y][i]
    BY <1>3, <2>2 DEF Doubled
  <2>4. DOMAIN chan'[y] = 1 .. z + 1
    BY <2>1, <2>3
  <2>. QED
    BY <2>2, <2>3, <2>4
<1>5. /\ \A i, j \in DOMAIN got[y] : i < j => got[y][i] < got[y][j]
      /\ \A i \in DOMAIN got[y] : Transferred(x, got[y][i])
      /\ \A i \in DOMAIN done[x] : done[x][i] <= dropped[x]
      /\ \A n \in DOMAIN chan[y] : Message(chan[y][n]) =>
           /\ Newer(y, chan[y][n].id)
           /\ Follows(x, y, n, chan[y][n].value, chan[y][n].id)
      /\ mcn[y].state \in {"SB", "RB"} =>
           Newer(y, kept[y]) /\ Follows(x, y, 0, mcn[y].know, kept[y])
  BY DEF Deliveries
<1>6. \A k : Newer(y, k) => Newer(y, k)'
  BY <1>1 DEF Newer
<1>7. ASSUME NEW n \in DOMAIN chan'[y], Message(chan'[y][n]), NEW v, NEW k,
             v = chan'[y][n].value, k = chan'[y][n].id
      PROVE  Newer(y, k)' /\ Follows(x, y, n, v, k)'
  <2>1. PICK i \in Nat : /\ n = i + 1 /\ Newer(y, k) /\ Follows(x, y, i, v, k)
    <3>1. CASE n = 1
      <4>1. /\ 1 \in DOMAIN chan[y] /\ Message(chan[y][1])
            /\ v = chan[y][1].value /\ k = chan[y][1].id
        BY <1>4, <1>7, <3>1
      <4>2. Newer(y, k) /\ Follows(x, y, 1, v, k) /\ Echo(chan[y][1], v)
        BY <1>5, <4>1 DEF Message, Echo
      <4>3. Follows(x, y, 0, v, k)
        BY <4>1, <4>2, FollowsEcho
      <4>. QED
        BY <3>1, <4>2, <4>3
    <3>2. CASE n # 1
      <4>1. PICK i \in 1 .. z : n = i + 1
        <5>1. n - 1 \in 1 .. z /\ n = n - 1 + 1
          BY <1>4, <3>2
        <5>. QED
          BY <5>1
      <4>2. /\ i \in DOMAIN chan[y] /\ Message(chan[y][i])
            /\ v = chan[y][i].value /\ k = chan[y][i].id
        BY <1>4, <1>7, <4>1
      <4>3. Newer(y, k) /\ Follows(x, y, i, v, k)
        BY <1>5, <4>2
      <4>. QED
        BY <4>1, <4>3
    <3>. QED
      BY <3>1, <3>2
  <2>2. Follows(x, y, i + 1, v, k)'
    BY <1>2, <1>3, <2>1, FollowsLift
  <2>. QED
    BY <1>6, <2>1, <2>2
<1>8. ASSUME mcn'[y].state \in {"SB", "RB"}, NEW v, NEW k, v = mcn'[y].know, k = kept'[y]
      PROVE  Newer(y, k)' /\ Follows(x, y, 0, v, k)'
  <2>1. Newer(y, k) /\ Follows(x, y, 0, v, k)
    BY <1>1, <1>5, <1>8
  <2>. QED
    BY <1>2, <1>3, <1>6, <2>1, FollowsRepeat
<1>9. \A i \in DOMAIN got'[y] : \A q : q = got'[y][i] => Transferred(x, q)'
  BY <1>1, <1>5 DEF Transferred
<1>10. \A i, j \in DOMAIN got'[y] : i < j => got'[y][i] < got'[y][j]
  BY <1>1, <1>5
<1>11. \A i \in DOMAIN done'[x] : done'[x][i] <= dropped'[x]
  BY <1>1, <1>5
<1>. QED
  BY <1>7, <1>8, <1>9, <1>10, <1>11 DEF Deliveries

\* A step in which no packet moves, and in which x changes nothing but its
\* greeting: it is offered a transfer, called too often, reloaded or told of
\* an error, or y is.
LEMMA DeliveriesAside ==
  ASSUME TypeOK, TypeOK', NEW x \in Side, NEW y \in Side, x = Peer(y), y = Peer(x),
         Deliveries(x, y), Queues(x), NEW s \in Side,
         Offer(s) \/ EarlyCall(s) \/ EntlStateError(s) \/ Restart(s)
  PROVE  Deliveries(x, y)'
<1>0. x # y /\ (s = x \/ s = y)
  BY SideFacts
<1>1. chan' = chan /\ got' = got /\ done' = done
  BY DEF Offer, EarlyCall, EntlStateError, Restart, callerVars
<1>2. dropped'[x] \in Nat /\ dropped[x] <= dropped'[x]
  <2>1. dropped[x] \in Nat /\ dropped[x] <= queued[x] /\ dropped'[x] \in Nat
    BY DEF TypeOK, Queues
  <2>2. dropped'[x] = dropped[x] \/ dropped'[x] = queued[x]
    BY DEF Offer, EarlyCall, EntlStateError, Restart, callerVars, TypeOK
  <2>. QED
    BY <2>1, <2>2
<1>3. mcn'[y].state \in {"SB", "RB"} =>
        /\ mcn[y].state \in {"SB", "RB"} /\ mcn'[y].know = mcn[y].know
        /\ kept'[y] = kept[y]
  <2>1. CASE Offer(s) \/ EarlyCall(s)
    BY <2>1 DEF Offer, EarlyCall, callerVars
  <2>2. CASE EntlStateError(s)
    <3>1. kept' = kept /\ (mcn'[y] = mcn[y] \/ mcn'[y] = SetError(mcn[y]))
      BY <2>2 DEF EntlStateError, callerVars, TypeOK
    <3>2. /\ SetError(mcn[y]).state = mcn[y].state
          /\ SetError(mcn[y]).know = mcn[y].know
      BY DEF TypeOK, Machine, SetError
    <3>. QED
      BY <3>1, <3>2
  <2>3. CASE Restart(s) /\ s = y
    BY <2>3 DEF Restart, TypeOK, Booted
  <2>4. CASE Restart(s) /\ s = x
    BY <1>0, <2>4 DEF Restart, TypeOK
  <2>. QED
    BY <1>0, <2>1, <2>2, <2>3, <2>4
<1>4. \A v, k : Keeps(x, v, k)
  <2>1. \A k : Transferred(x, k) => Transferred(x, k)'
    BY <1>1 DEF Transferred
  <2>2. ASSUME NEW v, NEW k, Answerable(x, v, k) PROVE Answerable(x, v, k)'
    <3>1. CASE Offer(s)
      BY <2>2, <3>1 DEF Offer, Answerable
    <3>2. CASE EarlyCall(s)
      <4>1. /\ mcn' = mcn /\ dropped' = dropped /\ (wake[x] => wake'[x])
        BY <3>2 DEF EarlyCall, callerVars, TypeOK
      <4>. QED
        BY <2>2, <4>1 DEF Answerable
    <3>3. CASE EntlStateError(s) /\ s = x
      <4>1. mcn'[x] = SetError(mcn[x]) /\ SetError(mcn[x]).failed
        BY <3>3 DEF EntlStateError, TypeOK, Machine, SetError
      <4>. QED
        BY <4>1 DEF Answerable
    <3>4. CASE Restart(s) /\ s = x
      <4>1. mcn'[x].state = "HELLO"
        BY <3>4 DEF Restart, TypeOK, Booted
      <4>. QED
        BY <4>1 DEF Answerable
    <3>5. CASE (EntlStateError(s) \/ Restart(s)) /\ s = y
      <4>1. mcn'[x] = mcn[x] /\ dropped'[x] = dropped[x] /\ wake'[x] = wake[x]
        BY <1>0, <3>5 DEF EntlStateError, Restart, callerVars, TypeOK
      <4>. QED
        BY <2>2, <4>1 DEF Answerable
    <3>. QED
      BY <1>0, <3>1, <3>2, <3>3, <3>4, <3>5
  <2>. QED
    BY <2>1, <2>2 DEF Keeps
<1>. QED
  BY <1>1, <1>2, <1>3, <1>4, DeliveriesSame

LEMMA DeliveriesKept ==
  ASSUME TypeOK, TypeOK', ~Lossy, NEW x \in Side, NEW y \in Side, x = Peer(y), y = Peer(x),
         Deliveries(x, y), Queues(x), Numbering(x), FaultyNext, Heedful
  PROVE  Deliveries(x, y)'
<1>0. x # y /\ \A s \in Side : s = x \/ s = y
  BY SideFacts
<1>1. ASSUME NEW s \in Side,
             Offer(s) \/ EarlyCall(s) \/ EntlStateError(s) \/ Restart(s)
      PROVE  Deliveries(x, y)'
  BY <1>1, DeliveriesAside
<1>2. ASSUME Receive(y) PROVE Deliveries(x, y)'
  <2>1. PICK m \in Packet : Delivers(y, m)
    BY <1>2, ReceiveDelivers
  <2>. QED
    BY <2>1, ReceiverHears
<1>3. ASSUME Receive(x) PROVE Deliveries(x, y)'
  <2>1. PICK m \in Packet : Delivers(x, m)
    BY <1>3, ReceiveDelivers
  <2>2. /\ chan'[y] = chan[y] /\ got'[y] = got[y] /\ kept'[y] = kept[y]
        /\ mcn'[y] = mcn[y] /\ done' = done /\ dropped' = dropped
    BY <2>1 DEF Delivers, Shifted
  <2>3. \A v \in Nat : \A k : Keeps(x, v, k)
    BY <2>1, KeepsByReceive
  <2>4. dropped[x] \in Nat
    BY DEF TypeOK
  <2>. QED
    BY <2>2, <2>3, <2>4, DeliveriesSame
<1>4. ASSUME Repeat(x) PROVE Deliveries(x, y)'
  <2>1. /\ chan'[y] = chan[y] /\ UNCHANGED <<mcn, wake, queued, dropped, kept, done, got>>
    BY <1>0, <1>4 DEF Repeat, callerVars, TypeOK
  <2>2. \A v, k : Keeps(x, v, k)
    BY <2>1 DEF Keeps, Answerable, Transferred
  <2>3. dropped[x] \in Nat
    BY DEF TypeOK
  <2>. QED
    BY <2>1, <2>2, <2>3, DeliveriesSame
<1>5. \A s \in Side : ~Lose(s)
  BY DEF Lose
<1>6. \A s \in Side : Send(s) => Deliveries(x, y)'
  BY <1>0, SenderSends, ReceiverSends
<1>7. \A s \in Side : Repeat(s) => Deliveries(x, y)'
  BY <1>0, <1>4, ReceiverRepeats
<1>8. \A s \in Side : Receive(s) => Deliveries(x, y)'
  BY <1>0, <1>2, <1>3
<1>. QED
  BY <1>1, <1>5, <1>6, <1>7, <1>8 DEF FaultyNext, Next

\* A step of the peer leaves the queue and the numbers of x alone.
LEMMA BooksAside ==
  ASSUME NEW x \in Side, mcn'[x] = mcn[x],
         queued'[x] = queued[x], dropped'[x] = dropped[x]
  PROVE  /\ Queues(x) => Queues(x)'
         /\ Numbering(x) => Numbering(x)'
BY DEF Queues, Numbering, Waiting, Offered

LEMMA BooksReceive ==
  ASSUME TypeOK, NEW x \in Side, NEW m \in Packet, Delivers(x, m),
         Queues(x), Numbering(x)
  PROVE  Queues(x)' /\ Numbering(x)'
<1>1. queued'[x] = queued[x] /\ dropped'[x] = dropped[x]
  BY DEF Delivers
<1>2. \/ Still(mcn[x], mcn'[x])
      \/ mcn'[x].state = "HELLO" /\ mcn'[x].sent = 0
      \/ mcn'[x].state = "WAIT"
      \/ Takes(mcn[x], mcn'[x], m)
  BY DEF Delivers, Greets, Invites
<1>3. Takes(mcn[x], mcn'[x], m) =>
        /\ mcn'[x].state \notin {"HELLO", "RA", "RAL"}
        /\ mcn'[x].state \in {"SA", "SAL"} => mcn[x].state \in {"RA", "RAL"}
        /\ mcn'[x].next = NextValue(mcn'[x].know)
  BY DEF Takes, TakenTo
<1>4. Queues(x)'
  BY <1>1, <1>2, <1>3 DEF Queues, Waiting, Still
<1>5. Numbering(x)'
  BY <1>1, <1>2, <1>3 DEF Numbering, Offered, Waiting, Still
<1>. QED
  BY <1>4, <1>5

LEMMA BooksSend ==
  ASSUME TypeOK, NEW x \in Side, Send(x), Queues(x), Numbering(x)
  PROVE  Queues(x)' /\ Numbering(x)'
<1>1. queued' = queued /\ mcn'[x].know = mcn[x].know
      /\ dropped[x] \in Nat /\ queued[x] \in Nat
  BY SendEffects, SendSays DEF TypeOK
<1>2. /\ ~mcn[x].failed /\ mcn[x].state \in {"SA", "SAL"}
           => dropped'[x] = dropped[x] + 1
      /\ mcn[x].failed \/ mcn[x].state \notin {"SA", "SAL"}
           => dropped' = dropped
  BY SendEffects, SendSays
<1>3. CASE SaysNothing(x, Offered(x))
  <2>1. mcn[x].failed \/ mcn[x].state \notin {"SA", "SAL"}
    BY <1>3 DEF SaysNothing, Spends, WaitingState
  <2>2. Queues(x)'
    BY <1>1, <1>2, <1>3, <2>1 DEF SaysNothing, Spends, Queues, Waiting
  <2>3. Numbering(x)'
    BY <1>1, <1>2, <1>3, <2>1 DEF SaysNothing, Spends, Numbering, Offered, Waiting
  <2>. QED
    BY <2>2, <2>3
<1>4. ASSUME NEW m \in Packet, Says(x, m, Offered(x), dropped[x] + 1)
      PROVE  Queues(x)' /\ Numbering(x)'
  <2>1. ~mcn[x].failed
    BY <1>4 DEF Says
  <2>2. CASE mcn'[x] = mcn[x] /\ mcn[x].state \in {"HELLO", "WAIT"}
    BY <1>1, <1>2, <2>2, BooksAside
  <2>3. CASE Gives(mcn[x], mcn'[x], m, Offered(x), dropped[x] + 1)
    <3>1. mcn'[x].state \in WaitingState /\ mcn'[x].state \notin {"HELLO", "SEND", "SA", "SAL"}
      BY <2>3 DEF Gives, WaitingState
    <3>2. Queues(x)'
      <4>1. CASE mcn[x].state \in {"SA", "SAL"}
        <5>1. mcn'[x].state = "RECEIVE" /\ Waiting(x) > 0
          BY <2>3, <4>1 DEF Gives, Queues
        <5>. QED
          BY <1>1, <1>2, <2>1, <4>1, <5>1 DEF Queues, Waiting
      <4>2. CASE mcn[x].state \notin {"SA", "SAL"}
        <5>1. mcn'[x].state \in {"RA", "RAL"} => Waiting(x) > 0
          BY <2>3, <4>2 DEF Gives, Offered
        <5>. QED
          BY <1>1, <1>2, <3>1, <4>2, <5>1 DEF Queues, Waiting
      <4>. QED
        BY <4>1, <4>2
    <3>3. Numbering(x)'
      <4>1. mcn'[x].state = "RA" => mcn'[x].sent = NextValue(mcn[x].know)
        BY <2>3 DEF Gives, Numbering
      <4>. QED
        BY <1>1, <3>1, <4>1 DEF Numbering
    <3>. QED
      BY <3>2, <3>3
  <2>. QED
    BY <1>4, <2>2, <2>3 DEF Says
<1>. QED
  BY <1>3, <1>4, SendSays

LEMMA BooksKept ==
  ASSUME TypeOK, NEW x \in Side, Queues(x), Numbering(x), FaultyNext, Heedful
  PROVE  Queues(x)' /\ Numbering(x)'
<1>0. Peer(x) # x /\ Peer(x) \in Side /\ Peer(Peer(x)) = x
      /\ \A s \in Side : s = x \/ s = Peer(x)
  BY SideFacts
<1>1. dropped[x] \in Nat /\ queued[x] \in Nat
      /\ Offers[x] \in Seq(Kind) /\ Len(Offers[x]) \in Nat
  BY CallerAssumption DEF TypeOK
<1>2. ASSUME Offer(x) PROVE Queues(x)' /\ Numbering(x)'
  <2>1. /\ mcn' = mcn /\ dropped' = dropped /\ queued'[x] = queued[x] + 1
        /\ queued[x] < Len(Offers[x])
    BY <1>2 DEF Offer, TypeOK
  <2>2. Offered(x) = "ALO" => Offered(x)' = "ALO"
    BY <1>1, <2>1 DEF Offered, Waiting
  <2>. QED
    BY <1>1, <2>1, <2>2 DEF Queues, Numbering, Waiting
<1>3. ASSUME NEW s \in Side, EarlyCall(s) \/ Repeat(s) \/ Lose(s)
      PROVE  Queues(x)' /\ Numbering(x)'
  <2>1. mcn' = mcn /\ queued' = queued /\ dropped' = dropped
    BY <1>3 DEF EarlyCall, Repeat, Lose, callerVars
  <2>. QED
    BY <2>1, BooksAside
<1>4. ASSUME Restart(x) PROVE Queues(x)' /\ Numbering(x)'
  <2>1. /\ mcn'[x].state = "HELLO" /\ mcn'[x].sent = 0
        /\ queued' = queued /\ dropped'[x] = queued[x]
    BY <1>4 DEF Restart, TypeOK, Booted
  <2>. QED
    BY <1>1, <2>1 DEF Queues, Numbering
<1>5. ASSUME EntlStateError(x) PROVE Queues(x)' /\ Numbering(x)'
  <2>1. mcn'[x] = SetError(mcn[x]) /\ queued' = queued /\ dropped' = dropped
    BY <1>5 DEF EntlStateError, TypeOK, callerVars
  <2>2. LET n == SetError(mcn[x]) IN
        /\ n.state = mcn[x].state /\ n.know = mcn[x].know
        /\ n.sent = mcn[x].sent /\ n.next = mcn[x].next
    BY DEF TypeOK, Machine, SetError
  <2>. QED
    BY <2>1, <2>2 DEF Queues, Numbering, Waiting, Offered
<1>6. ASSUME Receive(x) PROVE Queues(x)' /\ Numbering(x)'
  BY <1>6, ReceiveDelivers, BooksReceive
<1>7. ASSUME NEW y \in Side, y = Peer(x),
             Offer(y) \/ Restart(y) \/ EntlStateError(y) \/ Receive(y) \/ Send(y)
      PROVE  Queues(x)' /\ Numbering(x)'
  <2>1. mcn'[x] = mcn[x] /\ queued'[x] = queued[x] /\ dropped'[x] = dropped[x]
    <3>1. CASE Offer(y) \/ Restart(y) \/ EntlStateError(y)
      BY <1>0, <1>7, <3>1 DEF Offer, Restart, EntlStateError, callerVars, TypeOK
    <3>2. CASE Receive(y)
      BY <1>0, <1>7, <3>2, ReceiveDelivers DEF Delivers
    <3>3. CASE Send(y)
      BY <1>0, <1>7, <3>3, SendSays, SendEffects
    <3>. QED
      BY <1>7, <3>1, <3>2, <3>3
  <2>. QED
    BY <2>1, BooksAside
<1>. QED
  BY <1>0, <1>2, <1>3, <1>4, <1>5, <1>6, <1>7, BooksSend DEF FaultyNext, Next

LEMMA InitDeliveryInv == FaultyInit => DeliveryInv
<1>. SUFFICES ASSUME FaultyInit, NEW x \in Side, NEW y \in Side, y = Peer(x)
     PROVE  Queues(x) /\ Numbering(x) /\ Deliveries(x, y)
  BY SideFacts DEF DeliveryInv
<1>1. /\ mcn[x].state = "HELLO" /\ mcn[x].sent = 0 /\ mcn[y].state = "HELLO"
      /\ queued[x] = 0 /\ dropped[x] = 0
      /\ DOMAIN chan[y] = {} /\ DOMAIN got[y] = {} /\ DOMAIN done[x] = {}
  BY DEF FaultyInit, Init, Booted
<1>2. Queues(x)
  BY <1>1, CallerAssumption DEF Queues
<1>. QED
  BY <1>1, <1>2 DEF Numbering, Deliveries

LEMMA NextDeliveryInv ==
  ASSUME ~Lossy
  PROVE  TypeOK /\ DeliveryInv /\ [FaultyNext]_faultyVars => DeliveryInv'
<1>. SUFFICES ASSUME TypeOK, DeliveryInv, [FaultyNext]_faultyVars, ~overread',
                     NEW x \in Side, NEW y \in Side, y = Peer(x), x = Peer(y)
     PROVE  Queues(x)' /\ Numbering(x)' /\ Deliveries(x, y)'
  BY SideFacts DEF DeliveryInv
<1>0. ~overread /\ (FaultyNext => Heedful)
  BY HeedfulSteps DEF faultyVars
<1>1. Queues(x) /\ Numbering(x) /\ Deliveries(x, y)
  BY <1>0 DEF DeliveryInv
<1>2. CASE FaultyNext
  BY <1>0, <1>1, <1>2, FaultyType, BooksKept, DeliveriesKept
<1>3. CASE UNCHANGED faultyVars
  <2>1. UNCHANGED <<mcn, chan, wake, queued, dropped, kept, done, got>>
    BY <1>3 DEF faultyVars, vars, callerVars
  <2>2. \A v, k : Keeps(x, v, k)
    BY <2>1 DEF Keeps, Answerable, Transferred
  <2>3. dropped[x] \in Nat
    BY DEF TypeOK
  <2>. QED
    BY <1>1, <2>1, <2>2, <2>3, BooksAside, DeliveriesSame
<1>. QED
  BY <1>2, <1>3

\* On a wire that loses nothing, and unless a host read on when it was to send
\* event 0, every message on the wire or kept is delivered only with the AITA
\* that its sender sends when it drops it.
THEOREM DeliveryInvariance == ASSUME ~Lossy PROVE FaultySpec => []DeliveryInv
<1>1. FaultyInit => TypeOK /\ DeliveryInv
  BY InitType, InitDeliveryInv DEF FaultyInit
<1>2. (TypeOK /\ DeliveryInv) /\ [FaultyNext]_faultyVars => (TypeOK /\ DeliveryInv)'
  BY FaultyType, NextDeliveryInv
<1>. QED
  BY <1>1, <1>2, PTL DEF FaultySpec

\* So a message is delivered at most once, in the order of the queue, and only
\* after its sender dropped it as transferred, however often packets are
\* repeated, callers wake for nothing, ends are reloaded or errors reported, as
\* long as no host reads on when it is to send event 0.
THEOREM DeliveredOnce == ASSUME ~Lossy PROVE FaultySpec => [](overread \/ AitAtMostOnce)
<1>1. DeliveryInv => overread \/ AitAtMostOnce
  BY DEF DeliveryInv, Deliveries, Transferred, AitAtMostOnce
<1>. QED
  BY <1>1, DeliveryInvariance, PTL
=============================================================================
