------------------------- MODULE EntlThreadedLinkProofs -------------------------
(***************************************************************************)
(* The receiver contexts and context 0 of EntlThreadedLink, for any number *)
(* of contexts and buffers: no wake-up is lost, every buffer has one       *)
(* owner, and no interleaving of the two puts an end out of sequence.      *)
(***************************************************************************)
EXTENDS EntlThreadedLink, EntlStateMachineProofs, SequenceTheorems, FiniteSetTheorems

\* entl_received never leaves an event to send without telling its caller.
LEMMA ReceivedPrompts ==
  ASSUME Typed, NEW m, NEW full, Received(A, m, full),
         mcn'[A].state \in Holding, ~mcn'[A].failed,
         act'[A] \cap {"SEND", "ERROR"} = {}
  PROVE  mcn[A].state \in Holding /\ ~mcn[A].failed
<1>. USE SideFacts DEF Holding
<1>0. \A n, flags : Become(A, n, flags) => mcn'[A] = n /\ act'[A] = flags
  BY DEF Typed, Become
<1>1. ASSUME NEW flags, Ignore(A, flags)
      PROVE  mcn'[A] = mcn[A]
  BY <1>0, <1>1 DEF Ignore
<1>2. \A flags : ~SequenceError(A, flags)
  <2>. SUFFICES ASSUME NEW flags, SequenceError(A, flags) PROVE FALSE
    OBVIOUS
  <2>1. PICK w \in Redraw[A] : Become(A, EntlStateHello(SetError(mcn[A]), w), flags)
    BY DEF SequenceError, BackToHello
  <2>2. SetError(mcn[A]) \in Machine
    BY MachineUpdates, EventNumbers DEF Typed, State
  <2>3. EntlStateHello(SetError(mcn[A]), w).state = "HELLO"
    BY <2>2 DEF EntlStateHello, Machine
  <2>. QED
    BY <1>0, <2>1, <2>3
<1>3. \A n, flags : "SEND" \in flags => ~Become(A, n, flags)
  BY <1>0
<1>4. \A flags : ~Become(A, CountHello(mcn[A]), flags) \/ mcn[A].state \in Holding
  BY <1>0 DEF CountHello, Typed, Machine
<1>5. \A n, flags : "SEND" \in flags => ~BackToHello(A, n, flags)
  BY <1>3 DEF BackToHello
<1>6. \A flags : ~Become(A, SetError(mcn[A]), flags)
  BY <1>0 DEF SetError, Typed, Machine
<1>7. CASE ReceivedHello(A, m)
  BY <1>1, <1>3, <1>7 DEF ReceivedHello, Ignore
<1>8. CASE ReceivedWait(A, m)
  BY <1>0, <1>2, <1>3, <1>4, <1>5, <1>8 DEF ReceivedWait, CountHello, Typed, Machine
<1>9. CASE ReceivedSend(A, m)
  BY <1>1, <1>2, <1>6, <1>9 DEF ReceivedSend
<1>10. CASE ReceivedReceive(A, m, full)
  <2>1. Ignore(A, {}) \/ SequenceError(A, {"ERROR"})
    <3>1. \A n : ~Become(A, n, {"SEND"})
      BY <1>3
    <3>2. \A n : ~Become(A, n, {"SEND", "PROC_AIT"})
      BY <1>3
    <3>. QED
      BY <1>10, <3>1, <3>2, ZenonT(30) DEF ReceivedReceive
  <2>. QED
    BY <1>1, <1>2, <2>1
<1>11. ~ReceivedRA(A, m) /\ ~ReceivedRAL(A, m)
  <2>1. \A n : ~Become(A, n, {"SEND"})
    BY <1>3
  <2>2. \A n, sig1 : ~Become(A, n, {"SEND"} \cup sig1)
    BY <1>3
  <2>. QED
    BY <1>2, <2>1, <2>2, ZenonT(30) DEF ReceivedRA, ReceivedRAL
<1>12. CASE ReceivedSA(A, m) \/ ReceivedSB(A, m)
  BY <1>1, <1>2, <1>12 DEF ReceivedSA, ReceivedSB, ReceivedAcking
<1>13. CASE ReceivedRB(A, m) \/ ReceivedRBL(A, m)
  BY <1>1, <1>2, <1>3, <1>13 DEF ReceivedRB, ReceivedRBL
<1>. QED
  BY <1>7, <1>8, <1>9, <1>10, <1>11, <1>12, <1>13 DEF Received

\* entl_next_send with nothing but events to send leaves none unsent, and it
\* composes one packet when it does not return NOP.
LEMMA NextSendSpends ==
  ASSUME Typed, chan \in [Side -> Seq(Packet)], NextSend(A, "NONE", TRUE, 0)
  PROVE  /\ ~(mcn'[A].state \in Holding /\ ~mcn'[A].failed)
         /\ act'[A] # {} => chan'[B] # <<>>
<1>. USE SideFacts DEF Holding
<1>0. \A n, flags : Become(A, n, flags) => mcn'[A] = n /\ act'[A] = flags
  BY DEF Typed, Become
<1>1. \A st : Spend(mcn[A], st).state = st
  BY DEF Spend, Typed, Machine
<1>2. ASSUME NEW m, Transmit(A, m)
      PROVE  chan'[B] # <<>>
  <2>1. chan'[B] = Append(chan[B], m)
    BY <1>2 DEF Transmit, Peer
  <2>2. chan[B] \in Seq(Packet)
    OBVIOUS
  <2>. QED
    BY <2>1, <2>2
<1>3. CASE SendHello(A) \/ SendWait(A)
  BY <1>0, <1>2, <1>3 DEF SendHello, SendWait, Ignore
<1>4. CASE SendEvent(A, "NONE")
  BY <1>0, <1>1, <1>2, <1>4 DEF SendEvent
<1>5. CASE SendTransfer(A, "NONE", TRUE, 0)
  BY <1>5 DEF SendTransfer
<1>6. CASE SendAita(A)
  BY <1>0, <1>1, <1>2, <1>6 DEF SendAita
<1>7. CASE SendAitr(A)
  BY <1>0, <1>1, <1>2, <1>7 DEF SendAitr
<1>8. CASE SendNothing(A)
  BY <1>0, <1>8 DEF SendNothing, Ignore
<1>. QED
  BY <1>3, <1>4, <1>5, <1>6, <1>7, <1>8 DEF NextSend

-----------------------------------------------------------------------------
(* Types.  The conjuncts beside TypeOK say where context 0's buffer is from *)
(* and that the packet it is about to write is there.                       *)

WordWaits ==
  tx.pc \in {"choose", "pick", "clear", "rewrite"} => chan[B] # <<>>

BufferChosen ==
  /\ tx.pc = "pick" => keep # NoBuffer
  /\ tx.pc = "clear" => tx.buf \in Buffers
  /\ tx.pc \in {"clear", "rewrite", "send"} =>
       tx.buf \in Buffers \cup {Own} /\ (tx.free <=> tx.buf # Own)

OwnKept ==
  \A i \in DOMAIN egress : egress[i].free <=> egress[i].buf # Own

TInv == TypeOK /\ WordWaits /\ BufferChosen /\ OwnKept

LEMMA InitTypes == Init => TInv
<1>1. \A v \in Nat : Booted(v) \in Machine
  BY EventNumbers DEF Booted, Machine, State
<1>2. Pkt("HELLO", 0) \in Packet
  BY PacketTypes
<1>. SUFFICES ASSUME Init PROVE TInv
  OBVIOUS
<1>3. mcn \in [Side -> Machine] /\ act \in [Side -> SUBSET Flag]
  BY <1>1, ThreadAssumption DEF Init
<1>4. chan \in [Side -> Seq(Packet)]
  BY DEF Init
<1>5. content \in [Buffers \cup {Own} -> Packet]
  BY <1>2 DEF Init
<1>6. tx \in [pc : {"wait", "call", "choose", "pick", "clear", "rewrite", "send"},
              buf : Buffers \cup {Own, NoBuffer}, free : BOOLEAN]
  BY DEF Init
<1>7. WordWaits /\ BufferChosen /\ OwnKept
  BY DEF Init, WordWaits, BufferChosen, OwnKept
<1>8. rx \in [Receivers -> {"start", "idle", "reading", "signalling"}]
  BY DEF Init
<1>9. line \in Seq(Entry) /\ egress \in Seq(Posted) /\ wire \in Seq(Packet)
  BY DEF Init
<1>10. /\ sig \in BOOLEAN /\ alarm \in BOOLEAN /\ keep \in Buffers \cup {NoBuffer}
       /\ pool \subseteq Buffers
       /\ heard \in BOOLEAN /\ overtaken \in BOOLEAN /\ overwrote \in BOOLEAN
  BY DEF Init
<1>. QED
  BY <1>3, <1>4, <1>5, <1>6, <1>7, <1>8, <1>9, <1>10 DEF TInv, TypeOK

LEMMA ReceiverTypes ==
  ASSUME TInv, NEW r \in Receivers, ReceiverStep(r)
  PROVE  TInv'
<1>. USE DEF TInv, TypeOK, WordWaits, BufferChosen, OwnKept
<1>1. CASE Hello(r) \/ SignalContext0(r)
  <2>1. /\ sig' = TRUE /\ rx' = [rx EXCEPT ![r] = "idle"]
        /\ UNCHANGED <<mcn, act, chan, line, alarm, keep, tx, content, pool, egress, wire>>
        /\ UNCHANGED <<heard, overtaken, overwrote>>
    BY <1>1 DEF Hello, SignalContext0, machineVars, bufferVars, history
  <2>2. TypeOK'
    BY <2>1
  <2>3. WordWaits' /\ BufferChosen' /\ OwnKept'
    BY <2>1
  <2>. QED
    BY <2>2, <2>3
<1>2. CASE Take(r)
  <2>1. chan[A] \in Seq(Packet) /\ chan[A] # <<>>
    BY <1>2, SideFacts DEF Take
  <2>2. Head(chan[A]) \in Packet /\ Tail(chan[A]) \in Seq(Packet)
    BY <2>1
  <2>3. chan' \in [Side -> Seq(Packet)] /\ chan'[B] = chan[B]
    BY <1>2, <2>2, EndsAssumption DEF Take, Side
  <2>4. PICK b \in pool :
          /\ pool' = pool \ {b}
          /\ content' = [content EXCEPT ![b] = Head(chan[A])]
          /\ line' = Append(line, [ctx |-> r, buf |-> b])
    BY <1>2 DEF Take
  <2>5. line' \in Seq(Entry) /\ pool' \subseteq Buffers
        /\ content' \in [Buffers \cup {Own} -> Packet]
    BY <2>2, <2>4 DEF Entry
  <2>6. rx' \in [Receivers -> {"start", "idle", "reading", "signalling"}]
    BY <1>2 DEF Take
  <2>7. UNCHANGED <<mcn, act, sig, alarm, keep, tx, egress, wire, heard, overtaken, overwrote>>
    BY <1>2 DEF Take, history
  <2>8. TypeOK'
    BY <2>3, <2>5, <2>6, <2>7
  <2>9. WordWaits' /\ BufferChosen' /\ OwnKept'
    BY <2>3, <2>7
  <2>. QED
    BY <2>8, <2>9
<1>3. CASE Deliver(r)
  <2>1. PICK i \in DOMAIN line :
          /\ line' = RemoveAt(line, i)
          /\ Received(A, content[line[i].buf], FALSE)
          /\ keep' = line[i].buf
          /\ overtaken' = (overtaken \/ i # 1)
          /\ rx' = [rx EXCEPT ![r] =
               IF act'[A] \cap {"SEND", "ERROR"} # {} THEN "signalling" ELSE "idle"]
          /\ UNCHANGED <<chan, sig, alarm, tx, bufferVars, heard, overwrote>>
    BY <1>3 DEF Deliver
  <2>2. line[i] \in Entry
    OBVIOUS
  <2>3. line[i].buf \in Buffers /\ content[line[i].buf] \in Packet
    BY <2>2 DEF Entry
  <2>4. mcn' \in [Side -> Machine] /\ act' \in [Side -> SUBSET Flag]
    BY <2>1, <2>3, ReceivedType, SideFacts DEF Typed
  <2>5. line' \in Seq(Entry)
    BY <2>1 DEF RemoveAt
  <2>6. keep' \in Buffers /\ keep' # NoBuffer
    BY <2>1, <2>3, ThreadAssumption
  <2>. QED
    BY <2>1, <2>4, <2>5, <2>6 DEF bufferVars
<1>. QED
  BY <1>1, <1>2, <1>3 DEF ReceiverStep

LEMMA CallTypes == ASSUME TInv, Call PROVE TInv'
<1>. USE DEF TInv, TypeOK, WordWaits, BufferChosen, OwnKept
<1>1. mcn' \in [Side -> Machine] /\ act' \in [Side -> SUBSET Flag]
      /\ chan' \in [Side -> Seq(Packet)]
  BY NextSendType, SideFacts DEF Call, Typed
<1>2. act'[A] # {} => chan'[B] # <<>>
  BY NextSendSpends DEF Call, Typed
<1>3. /\ tx'.pc \in {"wait", "choose"} /\ tx'.buf = tx.buf /\ tx'.free = tx.free
      /\ tx'.pc = "choose" => act'[A] # {}
  BY DEF Call, Goto
<1>4. tx' \in [pc : {"wait", "call", "choose", "pick", "clear", "rewrite", "send"},
               buf : Buffers \cup {Own, NoBuffer}, free : BOOLEAN]
  BY DEF Call, Goto
<1>5. /\ UNCHANGED <<rx, line, sig, alarm, keep, heard, overtaken, overwrote>>
      /\ UNCHANGED <<content, pool, egress, wire>>
  BY DEF Call, bufferVars, history
<1>6. TypeOK'
  BY <1>1, <1>4, <1>5
<1>7. WordWaits' /\ BufferChosen' /\ OwnKept'
  BY <1>2, <1>3, <1>5
<1>. QED
  BY <1>6, <1>7

LEMMA Context0Types == ASSUME TInv, Ring \/ Context0Step PROVE TInv'
<1>. USE DEF TInv, TypeOK, WordWaits, BufferChosen, OwnKept
<1>1. CASE Ring \/ WaitWithTimeout
  BY <1>1 DEF Ring, WaitWithTimeout, Goto, machineVars, bufferVars, history
<1>2. CASE Call
  BY <1>2, CallTypes
<1>3. CASE ChooseOwn
  BY <1>3 DEF ChooseOwn, machineVars, bufferVars, history
<1>8. CASE ChooseKept
  BY <1>8 DEF ChooseKept, Goto, machineVars, bufferVars, history
<1>4. CASE Pick
  BY <1>4, ThreadAssumption DEF Pick, machineVars, bufferVars, history
<1>5. CASE Clear
  BY <1>5 DEF Clear, Goto, machineVars, bufferVars, history
<1>6. CASE Rewrite
  <2>1. chan[B] \in Seq(Packet) /\ chan[B] # <<>>
    BY <1>6, SideFacts DEF Rewrite
  <2>2. Head(chan[B]) \in Packet
    BY <2>1
  <2>3. content' \in [Buffers \cup {Own} -> Packet]
    BY <1>6, <2>2 DEF Rewrite
  <2>4. chan' \in [Side -> Seq(Packet)]
    <3>1. <<>> \in Seq(Packet)
      OBVIOUS
    <3>2. chan' = [chan EXCEPT ![B] = <<>>]
      BY <1>6 DEF Rewrite
    <3>. QED
      BY <3>1, <3>2
  <2>7. overwrote' \in BOOLEAN
    BY <1>6 DEF Rewrite
  <2>5. tx' = [tx EXCEPT !.pc = "send"]
    BY <1>6 DEF Rewrite, Goto
  <2>6. BufferChosen'
    BY <1>6, <2>5 DEF Rewrite
  <2>. QED
    BY <1>6, <2>3, <2>4, <2>5, <2>6, <2>7 DEF Rewrite
<1>7. CASE SendPacket
  <2>1. [buf |-> tx.buf, free |-> tx.free] \in Posted
    BY <1>7 DEF SendPacket, Posted
  <2>2. egress' \in Seq(Posted)
    BY <1>7, <2>1 DEF SendPacket
  <2>3. tx' = [tx EXCEPT !.pc = "wait"]
    BY <1>7 DEF SendPacket, Goto
  <2>4. WordWaits' /\ BufferChosen'
    BY <2>3
  <2>6. OwnKept'
    <3>1. egress' = Append(egress, [buf |-> tx.buf, free |-> tx.free])
          /\ (tx.free <=> tx.buf # Own)
      BY <1>7 DEF SendPacket
    <3>2. \A i \in DOMAIN egress' :
            \/ i \in DOMAIN egress /\ egress'[i] = egress[i]
            \/ egress'[i] = [buf |-> tx.buf, free |-> tx.free]
      BY <3>1
    <3>. QED
      BY <3>1, <3>2
  <2>5. /\ UNCHANGED <<mcn, act, chan, rx, line, sig, alarm, keep, heard>>
        /\ UNCHANGED <<content, pool, wire, overtaken, overwrote>>
    BY <1>7 DEF SendPacket, machineVars, history
  <2>. QED
    BY <2>2, <2>3, <2>4, <2>5, <2>6
<1>. QED
  BY <1>1, <1>2, <1>3, <1>4, <1>5, <1>6, <1>7, <1>8 DEF Context0Step

LEMMA OutsideTypes ==
  ASSUME TInv, Depart \/ HostReceive \/ HostSend \/ LoseToHost \/ LoseFromHost
  PROVE  TInv'
<1>. USE DEF TInv, TypeOK, WordWaits, BufferChosen, OwnKept
<1>1. CASE Depart
  <2>1. Head(egress) \in Posted /\ Tail(egress) \in Seq(Posted)
    BY <1>1 DEF Depart
  <2>2. content[Head(egress).buf] \in Packet
    BY <2>1 DEF Posted
  <2>3. wire' \in Seq(Packet)
    BY <1>1, <2>2 DEF Depart
  <2>4. OwnKept'
    <3>1. \A i \in DOMAIN egress' : i + 1 \in DOMAIN egress /\ egress'[i] = egress[i + 1]
      BY <1>1 DEF Depart
    <3>. QED
      BY <3>1
  <2>5. pool' \subseteq Buffers
    <3>1. Head(egress).free => Head(egress).buf # Own
      BY <1>1 DEF Depart
    <3>. QED
      BY <1>1, <2>1, <3>1 DEF Depart, Posted
  <2>6. /\ UNCHANGED <<mcn, act, chan, rx, line, sig, alarm, keep, tx, content>>
        /\ UNCHANGED <<heard, overtaken, overwrote>>
        /\ egress' \in Seq(Posted)
    BY <1>1, <2>1 DEF Depart, machineVars, history
  <2>. QED
    BY <2>3, <2>4, <2>5, <2>6
<1>2. CASE HostReceive
  <2>1. Head(wire) \in Packet /\ Tail(wire) \in Seq(Packet)
    BY <1>2 DEF HostReceive
  <2>2. mcn' \in [Side -> Machine] /\ act' \in [Side -> SUBSET Flag]
    BY <1>2, <2>1, ReceivedType, SideFacts DEF HostReceive, Typed
  <2>3. heard' \in BOOLEAN
    BY <1>2 DEF HostReceive
  <2>4. /\ wire' \in Seq(Packet)
        /\ UNCHANGED <<chan, rx, line, sig, alarm, keep, tx, content, pool, egress>>
        /\ UNCHANGED <<overtaken, overwrote>>
    BY <1>2, <2>1 DEF HostReceive, history
  <2>. QED
    BY <2>2, <2>3, <2>4
<1>3. CASE HostSend
  <2>1. PICK kind \in HostKinds : NextSend(B, kind, TRUE, 0)
    BY <1>3 DEF HostSend
  <2>2. mcn' \in [Side -> Machine] /\ act' \in [Side -> SUBSET Flag]
        /\ chan' \in [Side -> Seq(Packet)]
    BY <2>1, NextSendType, SideFacts DEF Typed
  <2>3. chan'[B] = chan[B]
    BY <2>1, EndsAssumption DEF NextSend, SendHello, SendWait, SendEvent,
       SendTransfer, SendAita, SendAitr, SendNothing, Transmit, Peer, Side
  <2>4. /\ heard' = FALSE
        /\ UNCHANGED <<rx, line, sig, alarm, keep, tx, content, pool, egress, wire, overtaken, overwrote>>
    BY <1>3 DEF HostSend, bufferVars, history
  <2>5. TypeOK'
    BY <2>2, <2>4, ZenonT(30)
  <2>6. WordWaits' /\ BufferChosen' /\ OwnKept'
    BY <2>3, <2>4
  <2>. QED
    BY <2>5, <2>6
<1>4. CASE LoseToHost \/ LoseFromHost
  <2>1. chan[A] \in Seq(Packet)
    BY SideFacts
  <2>2. LoseFromHost => Tail(chan[A]) \in Seq(Packet)
    BY <2>1 DEF LoseFromHost
  <2>3. LoseFromHost => chan' \in [Side -> Seq(Packet)] /\ chan'[B] = chan[B]
    BY <2>2, EndsAssumption DEF LoseFromHost, Side
  <2>4. CASE LoseToHost
    <3>1. wire' \in Seq(Packet)
      BY <2>4 DEF LoseToHost
    <3>2. /\ UNCHANGED <<mcn, act, chan, rx, line, sig, alarm, keep, tx, content, pool, egress>>
          /\ UNCHANGED <<heard, overtaken, overwrote>>
      BY <2>4 DEF LoseToHost, machineVars, history
    <3>3. TypeOK'
      BY <3>1, <3>2
    <3>4. WordWaits' /\ BufferChosen' /\ OwnKept'
      BY <3>2
    <3>. QED
      BY <3>3, <3>4
  <2>5. CASE LoseFromHost
    <3>1. /\ UNCHANGED <<mcn, act, rx, line, sig, alarm, keep, tx, content, pool, egress, wire>>
          /\ UNCHANGED <<heard, overtaken, overwrote>>
      BY <2>5 DEF LoseFromHost, bufferVars, history
    <3>2. TypeOK'
      BY <2>3, <2>5, <3>1
    <3>3. WordWaits' /\ BufferChosen' /\ OwnKept'
      BY <2>3, <2>5, <3>1
    <3>. QED
      BY <3>2, <3>3
  <2>. QED
    BY <1>4, <2>4, <2>5
<1>. QED
  BY <1>1, <1>2, <1>3, <1>4

LEMMA NextTypes == TInv /\ [Next]_vars => TInv'
<1>1. ASSUME TInv, Next PROVE TInv'
  BY <1>1, ReceiverTypes, Context0Types, OutsideTypes DEF Next
<1>2. ASSUME TInv, UNCHANGED vars PROVE TInv'
  BY <1>2 DEF vars, machineVars, bufferVars, history, TInv, TypeOK, WordWaits,
     BufferChosen, OwnKept
<1>. QED
  BY <1>1, <1>2

LEMMA TypesHold == Spec => []TInv
BY InitTypes, NextTypes, PTL DEF Spec

\* Every variable keeps its type for any number of contexts and buffers, with
\* overtaking and loss: context 0 never reads an address word that
\* entl_next_send has not left, and never sends away a buffer that is not its.
THEOREM ThreadTypes == Spec => []TypeOK
<1>1. TInv => TypeOK
  BY DEF TInv
<1>. QED
  BY <1>1, TypesHold, PTL

-----------------------------------------------------------------------------
(* No wake-up is lost.                                                      *)

LEMMA HostElsewhere ==
  ASSUME Typed, HostReceive \/ HostSend
  PROVE  mcn'[A] = mcn[A]
<1>1. B \in Side /\ Peer(B) = A
  BY SideFacts, EndsAssumption DEF Peer
<1>. QED
  BY <1>1, ReceivedHere, NextSendHere DEF HostReceive, HostSend

LEMMA PromptedNext ==
  ASSUME TInv, AnswerPrompted, [Next]_vars
  PROVE  AnswerPrompted'
<1>. USE DEF AnswerPrompted
<1>0. Typed /\ chan \in [Side -> Seq(Packet)]
      /\ rx \in [Receivers -> {"start", "idle", "reading", "signalling"}]
      /\ tx.pc \in {"wait", "call", "choose", "pick", "clear", "rewrite", "send"}
  BY DEF TInv, TypeOK, Typed
<1>1. ASSUME NEW r \in Receivers, ReceiverStep(r)
      PROVE  AnswerPrompted'
  <2>1. CASE Hello(r) \/ SignalContext0(r)
    BY <2>1 DEF Hello, SignalContext0
  <2>2. CASE Take(r)
    <3>1. UNCHANGED <<mcn, sig, tx>>
      BY <2>2 DEF Take
    <3>2. \A q \in Receivers : rx[q] = "signalling" => rx'[q] = "signalling"
      BY <1>0, <2>2 DEF Take
    <3>. QED
      BY <3>1, <3>2
  <2>3. CASE Deliver(r)
    <3>1. PICK i \in DOMAIN line :
            /\ rx[r] = "reading"
            /\ Received(A, content[line[i].buf], FALSE)
            /\ rx' = [rx EXCEPT ![r] =
                 IF act'[A] \cap {"SEND", "ERROR"} # {} THEN "signalling" ELSE "idle"]
            /\ UNCHANGED <<sig, tx>>
      BY <2>3 DEF Deliver
    <3>2. \A q \in Receivers : rx[q] = "signalling" => rx'[q] = "signalling"
      BY <1>0, <3>1
    <3>3. CASE act'[A] \cap {"SEND", "ERROR"} # {}
      BY <1>0, <3>1, <3>3
    <3>4. CASE act'[A] \cap {"SEND", "ERROR"} = {}
      <4>1. mcn'[A].state \in Holding /\ ~mcn'[A].failed =>
              mcn[A].state \in Holding /\ ~mcn[A].failed
        BY <1>0, <3>1, <3>4, ReceivedPrompts
      <4>. QED
        BY <3>1, <3>2, <4>1
    <3>. QED
      BY <3>3, <3>4
  <2>. QED
    BY <1>1, <2>1, <2>2, <2>3 DEF ReceiverStep
<1>2. CASE WaitWithTimeout
  BY <1>0, <1>2 DEF WaitWithTimeout, Goto, TInv, TypeOK
<1>3. CASE Call
  BY <1>0, <1>3, NextSendSpends DEF Call
<1>4. CASE ChooseOwn \/ ChooseKept \/ Pick \/ Clear \/ Rewrite \/ SendPacket
  <2>1. UNCHANGED <<mcn, rx, sig>> /\ tx.pc # "call"
    BY <1>4 DEF ChooseOwn, ChooseKept, Pick, Clear, Rewrite, SendPacket, machineVars
  <2>. QED
    BY <2>1
<1>5. CASE Ring \/ Depart \/ LoseToHost \/ LoseFromHost \/ UNCHANGED vars
  <2>1. UNCHANGED <<mcn, rx, sig, tx>>
    BY <1>5 DEF Ring, Depart, LoseToHost, LoseFromHost, vars, machineVars
  <2>. QED
    BY <2>1
<1>6. CASE HostReceive \/ HostSend
  <2>1. UNCHANGED <<rx, sig, tx>>
    BY <1>6 DEF HostReceive, HostSend
  <2>. QED
    BY <1>0, <1>6, <2>1, HostElsewhere
<1>. QED
  BY <1>1, <1>2, <1>3, <1>4, <1>5, <1>6 DEF Next, Context0Step

\* No wake-up is lost, however many receiver contexts share entl_send_sig and
\* wherever in its loop context 0 is: entl_received never leaves an event to
\* send without asking its caller to signal, and entl_next_send spends it.
THEOREM NoLostWakeUp == Spec => []AnswerPrompted
<1>1. Init => AnswerPrompted
  BY SideFacts DEF Init, AnswerPrompted, Booted, Holding
<1>2. TInv /\ AnswerPrompted /\ [Next]_vars => AnswerPrompted'
  BY PromptedNext
<1>. QED
  BY <1>1, <1>2, TypesHold, PTL DEF Spec

-----------------------------------------------------------------------------
(* One owner for every buffer.  Inductive once it is said that the buffer   *)
(* context 0 has picked and not yet cleared is keep_pkt_num's or nobody's.  *)

PickedIsFree ==
  tx.pc = "clear" => tx.buf \notin pool \cup Reading \cup Leaving

OInv == BufferOwnedOnce /\ PickedIsFree

\* RemoveAt( q, i ) keeps the order and the places of the others.
LEMMA RemoveAtElements ==
  ASSUME NEW S, NEW q \in Seq(S), NEW i \in DOMAIN q, NEW j \in DOMAIN RemoveAt(q, i)
  PROVE  \E k \in DOMAIN q : /\ k # i
                             /\ RemoveAt(q, i)[j] = q[k]
                             /\ k = IF j < i THEN j ELSE j + 1
<1>. DEFINE front == SubSeq(q, 1, i - 1)
            back == SubSeq(q, i + 1, Len(q))
<1>1. Len(q) \in Nat /\ i \in 1 .. Len(q) /\ DOMAIN q = 1 .. Len(q)
  OBVIOUS
<1>2. /\ front \in Seq(S) /\ Len(front) = i - 1
      /\ \A k \in 1 .. i - 1 : front[k] = q[k]
  BY <1>1
<1>3. /\ back \in Seq(S) /\ Len(back) = Len(q) - i
      /\ \A k \in 1 .. Len(q) - i : back[k] = q[i + k]
  BY <1>1
<1>. HIDE DEF front, back
<1>4. /\ DOMAIN (front \o back) = 1 .. Len(q) - 1
      /\ \A k \in 1 .. i - 1 : (front \o back)[k] = q[k]
      /\ \A k \in i .. Len(q) - 1 : (front \o back)[k] = q[k + 1]
  <2>1. /\ front \o back \in Seq(S)
        /\ Len(front \o back) = Len(front) + Len(back)
        /\ \A k \in 1 .. Len(front) + Len(back) :
             (front \o back)[k] = IF k <= Len(front) THEN front[k]
                                  ELSE back[k - Len(front)]
    BY <1>2, <1>3, ConcatProperties
  <2>2. Len(front) + Len(back) = Len(q) - 1
    BY <1>1, <1>2, <1>3
  <2>3. ASSUME NEW k \in 1 .. i - 1 PROVE (front \o back)[k] = q[k]
    BY <1>1, <1>2, <2>1, <2>2
  <2>4. ASSUME NEW k \in i .. Len(q) - 1 PROVE (front \o back)[k] = q[k + 1]
    <3>1. k - (i - 1) \in 1 .. Len(q) - i /\ i + (k - (i - 1)) = k + 1
      BY <1>1
    <3>2. (front \o back)[k] = back[k - (i - 1)]
      BY <1>1, <1>2, <2>1, <2>2
    <3>. QED
      BY <1>3, <3>1, <3>2
  <2>. QED
    BY <2>1, <2>2, <2>3, <2>4
<1>5. RemoveAt(q, i) = front \o back
  BY DEF RemoveAt, front, back
<1>6. j \in 1 .. Len(q) - 1
  BY <1>4, <1>5
<1>7. ASSUME j < i
      PROVE  j \in DOMAIN q /\ j # i /\ RemoveAt(q, i)[j] = q[j]
  <2>1. j \in 1 .. i - 1 /\ j \in 1 .. Len(q) /\ j # i
    BY <1>1, <1>6, <1>7
  <2>2. (front \o back)[j] = q[j]
    BY <1>4, <2>1
  <2>. QED
    BY <1>1, <1>5, <2>1, <2>2
<1>8. ASSUME ~(j < i)
      PROVE  j + 1 \in DOMAIN q /\ j + 1 # i /\ RemoveAt(q, i)[j] = q[j + 1]
  <2>1. j \in i .. Len(q) - 1
    BY <1>1, <1>6, <1>8
  <2>2. (front \o back)[j] = q[j + 1]
    BY <1>4, <2>1
  <2>3. j + 1 \in 1 .. Len(q) /\ j + 1 # i
    BY <1>1, <2>1
  <2>. QED
    BY <1>1, <1>5, <2>2, <2>3
<1>. QED
  BY <1>7, <1>8

LEMMA OwnersKept ==
  ASSUME OInv, UNCHANGED <<line, egress, pool, keep, tx>>
  PROVE  OInv'
BY DEF OInv, PickedIsFree, BufferOwnedOnce, Reading, Kept, Written, Leaving

LEMMA TakeOwners ==
  ASSUME TInv, OInv, NEW r \in Receivers, Take(r)
  PROVE  OInv'
<1>. USE DEF OInv, PickedIsFree, BufferOwnedOnce
<1>1. line \in Seq(Entry) /\ UNCHANGED <<keep, tx, egress>>
  BY DEF TInv, TypeOK, Take
<1>2. PICK b \in pool : /\ pool' = pool \ {b}
                        /\ line' = Append(line, [ctx |-> r, buf |-> b])
  BY DEF Take
<1>3. /\ DOMAIN line' = DOMAIN line \cup {Len(line) + 1}
      /\ \A i \in DOMAIN line : line'[i] = line[i]
      /\ line'[Len(line) + 1].buf = b
  BY <1>1, <1>2
<1>4. b \notin Reading
  OBVIOUS
<1>5. Reading' = Reading \cup {b}
  BY <1>3 DEF Reading
<1>6. \A i \in DOMAIN line : line[i].buf # b
  BY <1>4 DEF Reading
<1>7. \A i, j \in DOMAIN line' : line'[i].buf = line'[j].buf => i = j
  BY <1>3, <1>6
<1>8. UNCHANGED <<Kept, Written, Leaving>>
  BY <1>1 DEF Kept, Written, Leaving
<1>. QED
  BY <1>1, <1>2, <1>5, <1>7, <1>8

LEMMA DeliverOwners ==
  ASSUME TInv, OInv, NEW r \in Receivers, Deliver(r)
  PROVE  OInv'
<1>. USE DEF OInv, PickedIsFree, BufferOwnedOnce
<1>1. /\ line \in Seq(Entry) /\ UNCHANGED <<tx, egress, pool>>
  BY DEF TInv, TypeOK, Deliver, bufferVars
<1>2. PICK i \in DOMAIN line : line' = RemoveAt(line, i) /\ keep' = line[i].buf
  BY DEF Deliver
<1>3. \A j \in DOMAIN line' : \E k \in DOMAIN line :
        k # i /\ line'[j] = line[k] /\ k = IF j < i THEN j ELSE j + 1
  BY <1>1, <1>2, RemoveAtElements
<1>4. i \in Nat /\ DOMAIN line' \subseteq Nat
  BY <1>1, <1>2 DEF RemoveAt
<1>5. \A j, l \in DOMAIN line' : line'[j].buf = line'[l].buf => j = l
  BY <1>3, <1>4
<1>6. Reading' \subseteq Reading /\ line[i].buf \in Reading \ Reading'
  BY <1>3 DEF Reading
<1>7. Kept' \subseteq {line[i].buf}
  BY <1>2 DEF Kept
<1>8. UNCHANGED <<Written, Leaving>>
  BY <1>1 DEF Written, Leaving
<1>. QED
  BY <1>1, <1>5, <1>6, <1>7, <1>8

LEMMA Context0Owners ==
  ASSUME TInv, OInv, Context0Step
  PROVE  OInv'
<1>. USE DEF OInv, PickedIsFree, BufferOwnedOnce
<1>0. tx \in [pc : {"wait", "call", "choose", "pick", "clear", "rewrite", "send"},
               buf : Buffers \cup {Own, NoBuffer}, free : BOOLEAN]
  BY DEF TInv, TypeOK
<1>1. CASE WaitWithTimeout \/ Call \/ ChooseKept
  <2>1. /\ tx.pc \in {"wait", "call", "choose"}
        /\ tx'.pc \in {"wait", "call", "choose", "pick"}
        /\ UNCHANGED <<line, egress, pool, keep>>
    BY <1>0, <1>1 DEF WaitWithTimeout, Call, ChooseKept, Goto, bufferVars
  <2>2. UNCHANGED <<Reading, Kept, Written, Leaving>>
    BY <2>1 DEF Reading, Kept, Written, Leaving
  <2>. QED
    BY <2>1, <2>2
<1>2. CASE ChooseOwn
  <2>1. Written' = {}
    BY <1>2 DEF ChooseOwn, Written
  <2>2. UNCHANGED <<line, egress, pool, keep>> /\ tx'.pc = "rewrite"
    BY <1>2 DEF ChooseOwn, bufferVars
  <2>3. UNCHANGED <<Reading, Kept, Leaving>>
    BY <2>2 DEF Reading, Kept, Leaving
  <2>. QED
    BY <2>1, <2>2, <2>3
<1>3. CASE Pick
  <2>1. keep # NoBuffer /\ tx'.buf = keep /\ tx'.pc = "clear" /\ tx.pc = "pick"
        /\ UNCHANGED <<line, egress, pool, keep>>
    BY <1>3 DEF Pick, TInv, BufferChosen, bufferVars
  <2>2. UNCHANGED <<Reading, Kept, Written, Leaving>>
    BY <2>1 DEF Reading, Kept, Written, Leaving
  <2>3. keep \in Kept
    BY <2>1 DEF Kept
  <2>. QED
    BY <2>1, <2>2, <2>3
<1>4. CASE Clear
  <2>1. tx.pc = "clear" /\ tx'.pc = "rewrite" /\ tx'.buf = tx.buf /\ keep' = NoBuffer
        /\ UNCHANGED <<line, egress, pool>>
    BY <1>0, <1>4 DEF Clear, Goto, bufferVars
  <2>2. Kept' = {} /\ Written' \subseteq {tx.buf}
    BY <2>1 DEF Kept, Written
  <2>3. UNCHANGED <<Reading, Leaving>>
    BY <2>1 DEF Reading, Leaving
  <2>. QED
    BY <2>1, <2>2, <2>3
<1>5. CASE Rewrite
  <2>1. tx.pc = "rewrite" /\ tx'.pc = "send" /\ tx'.buf = tx.buf
        /\ UNCHANGED <<line, egress, pool, keep>>
    BY <1>0, <1>5 DEF Rewrite, Goto
  <2>2. UNCHANGED <<Reading, Kept, Written, Leaving>>
    BY <2>1 DEF Reading, Kept, Written, Leaving
  <2>. QED
    BY <2>1, <2>2
<1>6. CASE SendPacket
  <2>1. /\ tx.pc = "send" /\ tx'.pc = "wait"
        /\ UNCHANGED <<line, pool, keep>>
        /\ egress' = Append(egress, [buf |-> tx.buf, free |-> tx.free])
        /\ egress \in Seq(Posted)
        /\ (tx.free <=> tx.buf # Own)
    BY <1>0, <1>6 DEF SendPacket, Goto, TInv, TypeOK, BufferChosen
  <2>2. /\ DOMAIN egress' = DOMAIN egress \cup {Len(egress) + 1}
        /\ \A i \in DOMAIN egress : egress'[i] = egress[i]
        /\ egress'[Len(egress) + 1] = [buf |-> tx.buf, free |-> tx.free]
    BY <2>1
  <2>3. Written = {tx.buf} \ {Own} /\ Written' = {}
    BY <2>1 DEF Written
  <2>4. Leaving' = Leaving \cup Written
    BY <2>2, <2>3 DEF Leaving
  <2>5. UNCHANGED <<Reading, Kept>>
    BY <2>1 DEF Reading, Kept
  <2>6. \A i \in DOMAIN egress : egress[i].free <=> egress[i].buf # Own
    BY DEF TInv, OwnKept
  <2>7. tx.free => \A i \in DOMAIN egress : egress[i].buf # tx.buf
    BY <2>1, <2>3 DEF Leaving
  <2>8. \A i, j \in DOMAIN egress' :
          egress'[i].buf = egress'[j].buf /\ egress'[i].free => i = j
    BY <2>1, <2>2, <2>6, <2>7
  <2>. QED
    BY <2>1, <2>3, <2>4, <2>5, <2>8
<1>. QED
  BY <1>1, <1>2, <1>3, <1>4, <1>5, <1>6 DEF Context0Step

LEMMA DepartOwners ==
  ASSUME TInv, OInv, Depart
  PROVE  OInv'
<1>. USE DEF OInv, PickedIsFree, BufferOwnedOnce
<1>1. /\ egress \in Seq(Posted) /\ egress # <<>> /\ egress' = Tail(egress)
      /\ UNCHANGED <<line, keep, tx>>
      /\ pool' = IF Head(egress).free THEN pool \cup {Head(egress).buf} ELSE pool
  BY DEF TInv, TypeOK, Depart
<1>2. /\ 1 \in DOMAIN egress /\ Head(egress) = egress[1]
      /\ \A i \in DOMAIN egress' :
           i \in Nat /\ i > 0 /\ i + 1 \in DOMAIN egress /\ egress'[i] = egress[i + 1]
  BY <1>1
<1>3. \A i, j \in DOMAIN egress' :
        egress'[i].buf = egress'[j].buf /\ egress'[i].free => i = j
  BY <1>2
<1>4. Leaving' \subseteq Leaving
  BY <1>2 DEF Leaving
<1>5. egress[1].free => egress[1].buf \in Leaving \ Leaving'
  <2>1. egress[1].free => egress[1].buf # Own
    BY <1>2 DEF TInv, OwnKept
  <2>2. egress[1].free => \A i \in DOMAIN egress' : egress'[i].buf # egress[1].buf
    BY <1>2
  <2>. QED
    BY <1>2, <2>1, <2>2 DEF Leaving
<1>6. UNCHANGED <<Reading, Kept, Written>>
  BY <1>1 DEF Reading, Kept, Written
<1>. QED
  BY <1>1, <1>2, <1>3, <1>4, <1>5, <1>6

LEMMA OwnersHold == Spec => []OInv
<1>1. Init => OInv
  BY DEF Init, OInv, PickedIsFree, BufferOwnedOnce, Reading, Kept, Written, Leaving
<1>2. TInv /\ OInv /\ [Next]_vars => OInv'
  <2>. SUFFICES ASSUME TInv, OInv, [Next]_vars PROVE OInv'
    OBVIOUS
  <2>1. ASSUME NEW r \in Receivers, Hello(r) \/ SignalContext0(r)
        PROVE  OInv'
    BY <2>1, OwnersKept DEF Hello, SignalContext0, bufferVars
  <2>2. ASSUME NEW r \in Receivers, Take(r) \/ Deliver(r)
        PROVE  OInv'
    BY <2>2, TakeOwners, DeliverOwners
  <2>3. CASE Ring \/ HostReceive \/ HostSend \/ LoseToHost \/ LoseFromHost
    BY <2>3, OwnersKept DEF Ring, HostReceive, HostSend, LoseToHost, LoseFromHost, bufferVars
  <2>4. CASE UNCHANGED vars
    BY <2>4, OwnersKept DEF vars, bufferVars
  <2>. QED
    BY <2>1, <2>2, <2>3, <2>4, Context0Owners, DepartOwners DEF Next, ReceiverStep
<1>. QED
  BY <1>1, <1>2, TypesHold, PTL DEF Spec

\* A CTM buffer has one owner at every time, for any number of contexts and
\* buffers: although keep_pkt_num is read and cleared without a lock, no buffer
\* is freed twice, and none is filled by the NBI while an answer is still
\* written into it or leaving from it.
THEOREM OneOwner == Spec => []BufferOwnedOnce
<1>1. OInv => BufferOwnedOnce
  BY DEF OInv
<1>. QED
  BY <1>1, OwnersHold, PTL

-----------------------------------------------------------------------------
(* No sequence error.  The library of each end sees the packets of the      *)
(* other in the order in which they were made, whatever buffers and queues  *)
(* they pass, unless a packet overtakes another or is written over.  So     *)
(* the link is, as in EntlRegularLink, in one of few phases: n, p are       *)
(* machines, q, r what an end has still to receive, d its calls that are    *)
(* due.                                                                     *)

Places == Buffers \cup {Own}
Standing(f, q) == [i \in 1 .. Len(q) |-> f[q[i].buf]]
Word == IF tx.pc = "send" THEN <<content[tx.buf]>> ELSE chan[B]

\* What the library of each end has still to receive, oldest first.
TowardsA == Standing(content, line) \o chan[A]
TowardsB == wire \o (Standing(content, egress) \o Word)

One(b) == IF b THEN 1 ELSE 0
Signalling == {r \in Receivers : rx[r] \in {"start", "signalling"}}

\* The calls of entl_next_send that are due at A and at B.
DueAtA == Cardinality(Signalling) + One(sig) + One(tx.pc = "call")
DueAtB == One(heard)

Contexts == Cardinality(Receivers)

\* The microengine draws the constant it starts with (0xbeef), and an end in
\* WAIT counts the greetings of all contexts (10 for 7): the first ends HELLO.
RegularStart == Redraw[A] = {MyValue[A]} /\ Contexts <= CountMax + 1

Invitation == Pkt("ENTL", 0)
Reply == Pkt("ENTL", 1)

\* A greeting is answered by one, so there are never more than contexts.  One
\* of B may carry a number older than the one it has drawn since.
Greeting(na, nb, qa, qb, da, db) ==
  /\ na.state = "HELLO" /\ na.sent = 0 /\ na.value = MyValue[A]
  /\ nb.state = "HELLO" /\ nb.sent = 0
  /\ \A i \in 1 .. Len(qa) : /\ qa[i].type = "HELLO"
                             /\ qa[i].value \in {na.value, nb.value}
  /\ \A i \in 1 .. Len(qb) : qb[i].type = "HELLO" /\ qb[i].value = na.value
  /\ da + db + Len(qa) + Len(qb) <= Contexts

\* A greeting that leaves end l, whose machine is n, in HELLO.
Beaten(l, n, m) ==
  /\ m.type = "HELLO"
  /\ m.value > n.value \/ (m.value = n.value /\ Redraw[l] = {n.value})

UpperWaits(n) == n.state = "WAIT" /\ n.sent = 0

\* One end waits and sends event 0 at every call; the other, l, is to hear k
\* greetings before it.
Inviting(l, k, nu, nl, qu, ql, dl) ==
  /\ UpperWaits(nu)
  /\ nl.state = "HELLO" /\ nl.sent = 0
  /\ k \in Nat /\ k <= Len(ql)
  /\ \A i \in 1 .. Len(ql) : IF i <= k THEN Beaten(l, nl, ql[i]) ELSE ql[i] = Invitation
  /\ \A i \in 1 .. Len(qu) : qu[i].type = "HELLO"
  /\ k + dl + Len(qu) + nu.count < Contexts

\* It has heard event 0 and sends event 1 at the next call.
Invited(nu, nl, qu, ql) ==
  /\ UpperWaits(nu)
  /\ nl.state = "SEND" /\ nl.know = 0 /\ nl.sent = 0 /\ nl.next = 1
  /\ \A i \in 1 .. Len(ql) : ql[i] = Invitation
  /\ \A i \in 1 .. Len(qu) : qu[i].type = "HELLO"
  /\ Len(qu) + nu.count < Contexts

\* Event 1 is behind k greetings, or was lost.
Replied(k, nu, nl, qu, ql) ==
  /\ UpperWaits(nu)
  /\ nl.state = "RECEIVE" /\ nl.know = 0 /\ nl.sent = 1 /\ nl.next = Plus2(1)
  /\ \A i \in 1 .. Len(ql) : ql[i] = Invitation
  /\ k \in Nat /\ k <= Len(qu)
  /\ \A i \in 1 .. Len(qu) : IF i <= k THEN qu[i].type = "HELLO"
                             ELSE i = Len(qu) /\ qu[i] = Reply
  /\ k + nu.count < Contexts

Starting(l, nu, nl, qu, ql, dl) ==
  \/ \E k \in Nat : Inviting(l, k, nu, nl, qu, ql, dl)
  \/ Invited(nu, nl, qu, ql)
  \/ \E k \in Nat : Replied(k, nu, nl, qu, ql)

\* Copies of event 0, which a call too many sent.
Stale(n, m) == n.state = "RECEIVE" /\ n.know = 0 /\ m = Invitation

Awaiting == {"RECEIVE", "RA", "RAL", "RB", "RBL"}
Awaits(n) ==
  n.state \in Awaiting /\ n.sent = NextValue(n.know) /\ n.next = Plus2(n.sent)

\* Machine n has accepted the event and not answered it, x waits for the answer.
Holds(n, x, qn, qx) ==
  /\ <<n.state, x.state>> \in {<<"SEND", "RECEIVE">>, <<"SB", "RA">>,
                               <<"SBL", "RAL">>, <<"SA", "RB">>, <<"SAL", "RBL">>}
  /\ Awaits(x)
  /\ n.know = x.sent /\ n.next = NextValue(n.know)
  /\ Len(qn) = 0
  /\ \A i \in 1 .. Len(qx) : Stale(x, qx[i])

\* The packet n sent when it came to its state, and y expects in its own.
Fits(n, m, y) ==
  \/ m.type = "ENTL" /\ n.state = "RECEIVE" /\ y.state = "RECEIVE"
  \/ m.type = "AITS" /\ m.op = "AIT" /\ n.state = "RA" /\ y.state = "RECEIVE"
  \/ m.type = "AITS" /\ m.op = "ALO" /\ n.state = "RAL" /\ y.state = "RECEIVE"
  \/ m.type = "AITR" /\ n.state = "RB" /\ y.state = "RA"
  \/ m.type = "AITR" /\ n.state = "RBL" /\ y.state = "RAL"
  \/ m.type = "AITA" /\ n.state = "RECEIVE" /\ y.state \in {"RB", "RBL"}

\* The answer of n is on its way to y, or was lost.
Flight(n, y, qn, qy) ==
  /\ Awaits(n) /\ Awaits(y) /\ n.know = y.sent
  /\ Len(qn) = 0
  /\ \A i \in 1 .. Len(qy) :
       \/ Stale(y, qy[i])
       \/ i = Len(qy) /\ qy[i].value = n.sent /\ Fits(n, qy[i], y)

Running(n, p, qn, qp) == Holds(n, p, qn, qp) \/ Flight(n, p, qn, qp)

Phase(na, nb, qa, qb, da, db) ==
  \/ Greeting(na, nb, qa, qb, da, db)
  \/ Starting(B, na, nb, qa, qb, db)
  \/ Starting(A, nb, na, qb, qa, da)
  \/ Running(na, nb, qa, qb)
  \/ Running(nb, na, qb, qa)

\* The word context 0 has to rewrite is one packet.
OneWord ==
  Len(chan[B]) = One(tx.pc \in {"choose", "pick", "clear", "rewrite"})

PhaseInv ==
  ~overtaken /\ ~overwrote =>
    /\ ~mcn[A].failed /\ ~mcn[B].failed
    /\ Phase(mcn[A], mcn[B], TowardsA, TowardsB, DueAtA, DueAtB)

-----------------------------------------------------------------------------
(* A step of the link in terms of phases.                                   *)

\* r is q without one packet, without its first packet m, with m behind it.
Cut(q, r) ==
  /\ Len(q) \in Nat /\ Len(r) = Len(q) - 1
  /\ \E j \in 1 .. Len(q) :
       \A i \in 1 .. Len(r) : r[i] = q[IF i < j THEN i ELSE i + 1]
Popped(q, r, m) ==
  /\ Len(q) \in Nat /\ Len(q) > 0 /\ Len(r) = Len(q) - 1 /\ q[1] = m
  /\ \A i \in 1 .. Len(r) : r[i] = q[i + 1]
Pushed(q, r, m) ==
  /\ Len(q) \in Nat /\ Len(r) = Len(q) + 1 /\ r[Len(r)] = m
  /\ \A i \in 1 .. Len(q) : r[i] = q[i]

Accepts(n, p, v, st) ==
  /\ p.state = st /\ p.know = v /\ p.sent = n.sent /\ p.next = NextValue(v)
  /\ p.failed = n.failed

\* The state in which the packet that state st waits for is accepted.
AcceptedIn(st, m, to) ==
  \/ st = "RECEIVE" /\ m.type = "ENTL" /\ to = "SEND"
  \/ st = "RECEIVE" /\ m.type = "AITS" /\ m.op = "AIT" /\ to = "SB"
  \/ st = "RECEIVE" /\ m.type = "AITS" /\ m.op = "ALO" /\ to = "SBL"
  \/ st = "RA" /\ m.type = "AITR" /\ to = "SA"
  \/ st = "RAL" /\ m.type = "AITR" /\ to = "SAL"
  \/ st \in {"RB", "RBL"} /\ m.type = "AITA" /\ to = "SEND"

Greeted(s, n, p, m) ==
  \/ /\ n.value > m.value /\ p.state = "WAIT" /\ p.sent = 0 /\ p.count = 0
     /\ p.failed = n.failed
  \/ /\ n.value = m.value /\ p.state = "HELLO" /\ p.sent = n.sent
     /\ p.value \in Redraw[s] /\ p.failed = n.failed
  \/ n.value < m.value /\ p = n

\* What entl_received makes of the packets that occur on this link.
Hears(s, n, p, m) ==
  /\ n.state = "HELLO" /\ m.type = "HELLO" => Greeted(s, n, p, m)
  /\ n.state = "HELLO" /\ m = Invitation => Accepts(n, p, 0, "SEND")
  /\ n.state = "WAIT" /\ m.type = "HELLO" /\ n.count < CountMax
       => /\ p.state = "WAIT" /\ p.sent = n.sent /\ p.count = n.count + 1
          /\ p.failed = n.failed
  /\ n.state = "WAIT" /\ m.type = "ENTL" /\ m.value = NextValue(n.sent)
       => Accepts(n, p, m.value, "SEND")
  /\ n.state \in {"SEND", "RECEIVE"} /\ m.type = "ENTL" /\ m.value = n.know => p = n
  /\ \A to : AcceptedIn(n.state, m, to) /\ m.value = Plus2(n.know)
               => Accepts(n, p, m.value, to)

\* The packet that answers the event n has accepted.
Gives(n, p, m) ==
  /\ p.know = n.know /\ p.sent = n.next /\ p.next = Plus2(n.next)
  /\ p.failed = n.failed /\ m.value = n.next
  /\ \/ n.state = "SEND" /\ m = Pkt("ENTL", n.next) /\ p.state = "RECEIVE"
     \/ /\ n.state = "SEND" /\ MayTransfer(n)
        /\ m.type = "AITS" /\ m.op = "AIT" /\ p.state = "RA"
     \/ /\ n.state = "SEND" /\ MayTransfer(n)
        /\ m.type = "AITS" /\ m.op = "ALO" /\ p.state = "RAL"
     \/ n.state \in {"SA", "SAL"} /\ m.type = "AITA" /\ p.state = "RECEIVE"
     \/ n.state = "SB" /\ m.type = "AITR" /\ p.state = "RB"
     \/ n.state = "SBL" /\ m.type = "AITR" /\ p.state = "RBL"

\* What entl_next_send does, where nothing has failed.
Says(n, p, q, r) ==
  \/ n.state \in Awaiting /\ p = n /\ r = q
  \/ n.state = "HELLO" /\ p = n /\ Pushed(q, r, Pkt("HELLO", n.value))
  \/ n.state = "WAIT" /\ p = n /\ Pushed(q, r, Invitation)
  \/ \E m : Pushed(q, r, m) /\ Gives(n, p, m)

Numeric == MyValue[A] \in Nat /\ Contexts \in Nat /\ CountMax \in Nat

LEMMA PhaseNumbers ==
  /\ NextValue(0) = 1 /\ NextValue(1) = Plus2(0) /\ 0 # 1 /\ Plus2(0) # 0
  /\ \A v \in EventNumber : NextValue(NextValue(v)) = Plus2(v) /\ Plus2(v) # v
  /\ Invitation.type = "ENTL" /\ Invitation.value = 0
  /\ Reply.type = "ENTL" /\ Reply.value = 1
  /\ \A v : Pkt("HELLO", v).type = "HELLO" /\ Pkt("HELLO", v).value = v
  /\ \A v : Pkt("ENTL", v).type = "ENTL" /\ Pkt("ENTL", v).value = v
<1>1. NextValue(0) = 1
  BY ModulusAssumption DEF NextValue
<1>2. 0 \in EventNumber
  BY EventNumbers
<1>. QED
  BY <1>1, <1>2, NextValueTwice DEF Invitation, Reply, Pkt

LEMMA PoppedFacts ==
  ASSUME NEW q, NEW r, NEW m, Popped(q, r, m)
  PROVE  /\ Len(q) \in Nat /\ Len(r) \in Nat /\ Len(q) = Len(r) + 1
         /\ 1 \in 1 .. Len(q) /\ m = q[1]
         /\ \A i \in 1 .. Len(r) : i + 1 \in 1 .. Len(q) /\ r[i] = q[i + 1]
BY DEF Popped

LEMMA CutFacts ==
  ASSUME NEW q, NEW r, Cut(q, r)
  PROVE  /\ Len(q) \in Nat /\ Len(r) \in Nat /\ Len(q) = Len(r) + 1
         /\ \E j \in 1 .. Len(q) :
              \A i \in 1 .. Len(r) :
                \/ i < j /\ i \in 1 .. Len(q) /\ r[i] = q[i]
                \/ i >= j /\ i + 1 \in 1 .. Len(q) /\ r[i] = q[i + 1]
<1>1. PICK j \in 1 .. Len(q) :
        \A i \in 1 .. Len(r) : r[i] = q[IF i < j THEN i ELSE i + 1]
  BY DEF Cut
<1>2. Len(q) \in Nat /\ Len(r) \in Nat /\ Len(q) = Len(r) + 1
  BY <1>1 DEF Cut
<1>3. ASSUME NEW i \in 1 .. Len(r)
      PROVE  \/ i < j /\ i \in 1 .. Len(q) /\ r[i] = q[i]
             \/ i >= j /\ i + 1 \in 1 .. Len(q) /\ r[i] = q[i + 1]
  <2>1. r[i] = q[IF i < j THEN i ELSE i + 1]
    BY <1>1
  <2>2. CASE i < j
    BY <1>2, <2>1, <2>2
  <2>3. CASE ~(i < j)
    BY <1>2, <2>1, <2>3
  <2>. QED
    BY <2>2, <2>3
<1>. QED
  BY <1>2, <1>3

LEMMA PushedFacts ==
  ASSUME NEW q, NEW r, NEW m, Pushed(q, r, m)
  PROVE  /\ Len(q) \in Nat /\ Len(r) \in Nat /\ Len(r) = Len(q) + 1
         /\ \A i \in 1 .. Len(r) : \/ i = Len(r) /\ r[i] = m
                                   \/ i \in 1 .. Len(q) /\ r[i] = q[i]
<1>1. Len(q) \in Nat /\ Len(r) \in Nat /\ Len(r) = Len(q) + 1
  BY DEF Pushed
<1>2. ASSUME NEW i \in 1 .. Len(r)
      PROVE  \/ i = Len(r) /\ r[i] = m
             \/ i \in 1 .. Len(q) /\ r[i] = q[i]
  <2>1. i = Len(r) \/ i \in 1 .. Len(q)
    BY <1>1
  <2>. QED
    BY <2>1 DEF Pushed
<1>. QED
  BY <1>1, <1>2

\* The greeting goes on, or one end wins it.
LEMMA GreetingHearsA ==
  ASSUME RegularStart, Numeric, NEW na \in Machine, NEW nb \in Machine, NEW p \in Machine,
         NEW qa, NEW qb, Len(qb) \in Nat, NEW r, NEW m,
         NEW da \in Nat, NEW db \in Nat, NEW d \in Nat, d <= da + 1,
         Greeting(na, nb, qa, qb, da, db), Popped(qa, r, m), Hears(A, na, p, m)
  PROVE  p.failed = na.failed /\ Phase(p, nb, r, qb, d, db)
<1>1. /\ na.state = "HELLO" /\ na.sent = 0 /\ na.value = MyValue[A]
      /\ nb.state = "HELLO" /\ nb.sent = 0
      /\ \A i \in 1 .. Len(qa) : /\ qa[i].type = "HELLO"
                                 /\ qa[i].value \in {na.value, nb.value}
      /\ \A i \in 1 .. Len(qb) : qb[i].type = "HELLO" /\ qb[i].value = na.value
      /\ da + db + Len(qa) + Len(qb) <= Contexts
  BY DEF Greeting
<1>2. /\ Len(qa) \in Nat /\ Len(r) \in Nat /\ Len(qa) = Len(r) + 1
      /\ 1 \in 1 .. Len(qa) /\ m = qa[1]
      /\ \A i \in 1 .. Len(r) : i + 1 \in 1 .. Len(qa) /\ r[i] = qa[i + 1]
  BY PoppedFacts
<1>3. /\ m.type = "HELLO" /\ m.value \in {na.value, nb.value}
      /\ \A i \in 1 .. Len(r) : /\ r[i].type = "HELLO"
                                /\ r[i].value \in {na.value, nb.value}
  BY <1>1, <1>2
<1>4. Greeted(A, na, p, m)
  BY <1>1, <1>3 DEF Hears
<1>5. CASE na.value > m.value /\ p.state = "WAIT" /\ p.sent = 0 /\ p.count = 0
           /\ p.failed = na.failed
  <2>1. m.value = nb.value /\ na.value > nb.value
    BY <1>3, <1>5 DEF Machine
  <2>2. \A i \in 1 .. Len(qb) : Beaten(B, nb, qb[i])
    BY <1>1, <2>1 DEF Beaten
  <2>3. Len(qb) + db + Len(r) + 0 < Contexts
    BY <1>1, <1>2 DEF Numeric
  <2>4. Inviting(B, Len(qb), p, nb, r, qb, db)
    BY <1>1, <1>3, <1>5, <2>2, <2>3 DEF Inviting, UpperWaits
  <2>. QED
    BY <1>5, <2>4 DEF Phase, Starting
<1>6. CASE p.state = "HELLO" /\ p.sent = 0 /\ p.value = na.value /\ p.failed = na.failed
  <2>1. d + db + Len(r) + Len(qb) <= Contexts
    BY <1>1, <1>2 DEF Numeric
  <2>2. Greeting(p, nb, r, qb, d, db)
    BY <1>1, <1>3, <1>6, <2>1 DEF Greeting
  <2>. QED
    BY <1>6, <2>2 DEF Phase
<1>. QED
  BY <1>1, <1>4, <1>5, <1>6 DEF Greeted, RegularStart

LEMMA GreetingHearsB ==
  ASSUME RegularStart, Numeric, NEW na \in Machine, NEW nb \in Machine, NEW p \in Machine,
         NEW qa, NEW qb, Len(qa) \in Nat, NEW r, NEW m,
         NEW da \in Nat, NEW db \in Nat, NEW d \in Nat, d <= db + 1,
         Greeting(na, nb, qa, qb, da, db), Popped(qb, r, m), Hears(B, nb, p, m)
  PROVE  p.failed = nb.failed /\ Phase(na, p, qa, r, da, d)
<1>1. /\ na.state = "HELLO" /\ na.sent = 0 /\ na.value = MyValue[A]
      /\ nb.state = "HELLO" /\ nb.sent = 0
      /\ \A i \in 1 .. Len(qa) : /\ qa[i].type = "HELLO"
                                 /\ qa[i].value \in {na.value, nb.value}
      /\ \A i \in 1 .. Len(qb) : qb[i].type = "HELLO" /\ qb[i].value = na.value
      /\ da + db + Len(qa) + Len(qb) <= Contexts
  BY DEF Greeting
<1>2. /\ Len(qb) \in Nat /\ Len(r) \in Nat /\ Len(qb) = Len(r) + 1
      /\ 1 \in 1 .. Len(qb) /\ m = qb[1]
      /\ \A i \in 1 .. Len(r) : i + 1 \in 1 .. Len(qb) /\ r[i] = qb[i + 1]
  BY PoppedFacts
<1>3. /\ m.type = "HELLO" /\ m.value = na.value
      /\ \A i \in 1 .. Len(r) : r[i].type = "HELLO" /\ r[i].value = na.value
  BY <1>1, <1>2
<1>4. Greeted(B, nb, p, m)
  BY <1>1, <1>3 DEF Hears
<1>5. CASE nb.value > m.value /\ p.state = "WAIT" /\ p.sent = 0 /\ p.count = 0
           /\ p.failed = nb.failed
  <2>1. \A i \in 1 .. Len(qa) : Beaten(A, na, qa[i])
    BY <1>1, <1>3, <1>5 DEF Beaten, RegularStart
  <2>2. Len(qa) + da + Len(r) + 0 < Contexts
    BY <1>1, <1>2 DEF Numeric
  <2>3. Inviting(A, Len(qa), p, na, r, qa, da)
    BY <1>1, <1>3, <1>5, <2>1, <2>2 DEF Inviting, UpperWaits
  <2>. QED
    BY <1>5, <2>3 DEF Phase, Starting
<1>6. CASE /\ p.state = "HELLO" /\ p.sent = 0 /\ p.failed = nb.failed
           /\ nb.value = na.value \/ p.value = nb.value
  <2>1. da + d + Len(qa) + Len(r) <= Contexts
    BY <1>1, <1>2 DEF Numeric
  <2>2. \A i \in 1 .. Len(qa) : qa[i].value \in {na.value, p.value}
    BY <1>1, <1>6
  <2>3. Greeting(na, p, qa, r, da, d)
    BY <1>1, <1>3, <1>6, <2>1, <2>2 DEF Greeting
  <2>. QED
    BY <1>6, <2>3 DEF Phase
<1>. QED
  BY <1>1, <1>3, <1>4, <1>5, <1>6 DEF Greeted

LEMMA GreetingSaysA ==
  ASSUME Numeric, NEW na \in Machine, NEW nb \in Machine, NEW p,
         NEW qa, NEW qb, Len(qa) \in Nat, NEW r,
         NEW da \in Nat, NEW db \in Nat, NEW d \in Nat, d < da,
         Greeting(na, nb, qa, qb, da, db), Says(na, p, qb, r)
  PROVE  p.failed = na.failed /\ Phase(p, nb, qa, r, d, db)
<1>1. p = na /\ Pushed(qb, r, Pkt("HELLO", na.value))
  BY DEF Says, Greeting, Awaiting, Gives
<1>2. /\ Len(qb) \in Nat /\ Len(r) \in Nat /\ Len(r) = Len(qb) + 1
      /\ \A i \in 1 .. Len(r) : \/ i = Len(r) /\ r[i] = Pkt("HELLO", na.value)
                                \/ i \in 1 .. Len(qb) /\ r[i] = qb[i]
  BY <1>1, PushedFacts
<1>3. \A i \in 1 .. Len(r) : r[i].type = "HELLO" /\ r[i].value = na.value
  BY <1>2, PhaseNumbers DEF Greeting
<1>4. d + db + Len(qa) + Len(r) <= Contexts
  BY <1>2 DEF Greeting, Numeric
<1>5. Greeting(p, nb, qa, r, d, db)
  BY <1>1, <1>3, <1>4 DEF Greeting
<1>. QED
  BY <1>1, <1>5 DEF Phase

LEMMA GreetingSaysB ==
  ASSUME Numeric, NEW na \in Machine, NEW nb \in Machine, NEW p,
         NEW qa, NEW qb, Len(qb) \in Nat, NEW r,
         NEW da \in Nat, NEW db \in Nat, NEW d \in Nat, d < db,
         Greeting(na, nb, qa, qb, da, db), Says(nb, p, qa, r)
  PROVE  p.failed = nb.failed /\ Phase(na, p, r, qb, da, d)
<1>1. p = nb /\ Pushed(qa, r, Pkt("HELLO", nb.value))
  BY DEF Says, Greeting, Awaiting, Gives
<1>2. /\ Len(qa) \in Nat /\ Len(r) \in Nat /\ Len(r) = Len(qa) + 1
      /\ \A i \in 1 .. Len(r) : \/ i = Len(r) /\ r[i] = Pkt("HELLO", nb.value)
                                \/ i \in 1 .. Len(qa) /\ r[i] = qa[i]
  BY <1>1, PushedFacts
<1>3. \A i \in 1 .. Len(r) : r[i].type = "HELLO" /\ r[i].value \in {na.value, nb.value}
  BY <1>2, PhaseNumbers DEF Greeting
<1>4. da + d + Len(r) + Len(qb) <= Contexts
  BY <1>2 DEF Greeting, Numeric
<1>5. Greeting(na, p, r, qb, da, d)
  BY <1>1, <1>3, <1>4 DEF Greeting
<1>. QED
  BY <1>1, <1>5 DEF Phase

\* The end that waits hears a greeting or event 1.
LEMMA UpperHears ==
  ASSUME RegularStart, Numeric, NEW l \in Side, NEW s,
         NEW nu \in Machine, NEW nl \in Machine, NEW p \in Machine,
         NEW qu, NEW ql, Len(ql) \in Nat, NEW r, NEW m, NEW dl \in Nat,
         Starting(l, nu, nl, qu, ql, dl), Popped(qu, r, m), Hears(s, nu, p, m)
  PROVE  /\ p.failed = nu.failed
         /\ Starting(l, p, nl, r, ql, dl) \/ Running(p, nl, r, ql)
<1>0. nu.count \in Nat
  BY DEF Machine
<1>1. /\ Len(qu) \in Nat /\ Len(r) \in Nat /\ Len(qu) = Len(r) + 1
      /\ 1 \in 1 .. Len(qu) /\ m = qu[1]
      /\ \A i \in 1 .. Len(r) : i + 1 \in 1 .. Len(qu) /\ r[i] = qu[i + 1]
  BY PoppedFacts
<1>2. ASSUME UpperWaits(nu), m.type = "HELLO", nu.count + 1 < Contexts
      PROVE  UpperWaits(p) /\ p.count = nu.count + 1 /\ p.failed = nu.failed
  <2>1. nu.count < CountMax
    BY <1>0, <1>2 DEF RegularStart, Numeric
  <2>. QED
    BY <1>2, <2>1 DEF Hears, UpperWaits
<1>3. ASSUME NEW k \in Nat, Inviting(l, k, nu, nl, qu, ql, dl)
      PROVE  p.failed = nu.failed /\ Starting(l, p, nl, r, ql, dl)
  <2>1. /\ UpperWaits(nu)
        /\ \A i \in 1 .. Len(qu) : qu[i].type = "HELLO"
        /\ k + dl + Len(qu) + nu.count < Contexts
    BY <1>3 DEF Inviting
  <2>2. nu.count + 1 < Contexts
    BY <1>0, <1>1, <2>1 DEF Numeric
  <2>3. UpperWaits(p) /\ p.count = nu.count + 1 /\ p.failed = nu.failed
    BY <1>1, <1>2, <2>1, <2>2
  <2>4. k + dl + Len(r) + p.count < Contexts
    BY <1>0, <1>1, <2>1, <2>3 DEF Numeric
  <2>5. Inviting(l, k, p, nl, r, ql, dl)
    BY <1>1, <1>3, <2>1, <2>3, <2>4 DEF Inviting
  <2>. QED
    BY <2>3, <2>5 DEF Starting
<1>4. ASSUME Invited(nu, nl, qu, ql)
      PROVE  p.failed = nu.failed /\ Starting(l, p, nl, r, ql, dl)
  <2>1. /\ UpperWaits(nu)
        /\ \A i \in 1 .. Len(qu) : qu[i].type = "HELLO"
        /\ Len(qu) + nu.count < Contexts
    BY <1>4 DEF Invited
  <2>2. nu.count + 1 < Contexts
    BY <1>0, <1>1, <2>1 DEF Numeric
  <2>3. UpperWaits(p) /\ p.count = nu.count + 1 /\ p.failed = nu.failed
    BY <1>1, <1>2, <2>1, <2>2
  <2>4. Len(r) + p.count < Contexts
    BY <1>0, <1>1, <2>1, <2>3 DEF Numeric
  <2>5. Invited(p, nl, r, ql)
    BY <1>1, <1>4, <2>1, <2>3, <2>4 DEF Invited
  <2>. QED
    BY <2>3, <2>5 DEF Starting
<1>5. ASSUME NEW k \in Nat, Replied(k, nu, nl, qu, ql)
      PROVE  /\ p.failed = nu.failed
             /\ Starting(l, p, nl, r, ql, dl) \/ Running(p, nl, r, ql)
  <2>1. /\ UpperWaits(nu)
        /\ nl.state = "RECEIVE" /\ nl.know = 0 /\ nl.sent = 1 /\ nl.next = Plus2(1)
        /\ \A i \in 1 .. Len(ql) : ql[i] = Invitation
        /\ k <= Len(qu)
        /\ \A i \in 1 .. Len(qu) : IF i <= k THEN qu[i].type = "HELLO"
                                   ELSE i = Len(qu) /\ qu[i] = Reply
        /\ k + nu.count < Contexts
    BY <1>5 DEF Replied
  <2>2. CASE k > 0
    <3>1. m.type = "HELLO" /\ nu.count + 1 < Contexts
      BY <1>0, <1>1, <2>1, <2>2 DEF Numeric
    <3>2. UpperWaits(p) /\ p.count = nu.count + 1 /\ p.failed = nu.failed
      BY <1>2, <2>1, <3>1
    <3>3. k - 1 \in Nat /\ k - 1 <= Len(r) /\ k - 1 + p.count < Contexts
      BY <1>0, <1>1, <2>1, <2>2, <3>2 DEF Numeric
    <3>4. ASSUME NEW i \in 1 .. Len(r)
          PROVE  IF i <= k - 1 THEN r[i].type = "HELLO" ELSE i = Len(r) /\ r[i] = Reply
      <4>1. i + 1 \in 1 .. Len(qu) /\ r[i] = qu[i + 1]
        BY <1>1
      <4>2. IF i + 1 <= k THEN r[i].type = "HELLO" ELSE i + 1 = Len(qu) /\ r[i] = Reply
        BY <2>1, <4>1
      <4>. QED
        BY <1>1, <4>2
    <3>5. Replied(k - 1, p, nl, r, ql)
      BY <2>1, <3>2, <3>3, <3>4 DEF Replied
    <3>. QED
      BY <3>2, <3>3, <3>5 DEF Starting
  <2>3. CASE k = 0
    <3>1. 1 = Len(qu) /\ m = Reply /\ Len(r) = 0
      BY <1>1, <2>1, <2>3
    <3>2. Accepts(nu, p, 1, "SEND")
      BY <2>1, <3>1, PhaseNumbers DEF Hears, UpperWaits
    <3>3. Awaits(nl)
      BY <2>1, PhaseNumbers DEF Awaits, Awaiting
    <3>4. \A i \in 1 .. Len(ql) : Stale(nl, ql[i])
      BY <2>1 DEF Stale
    <3>5. Holds(p, nl, r, ql)
      BY <2>1, <3>1, <3>2, <3>3, <3>4 DEF Holds, Accepts
    <3>. QED
      BY <3>2, <3>5 DEF Running, Accepts
  <2>. QED
    BY <2>2, <2>3
<1>. QED
  BY <1>3, <1>4, <1>5 DEF Starting

\* It sends event 0, as often as it is called.
LEMMA UpperSays ==
  ASSUME Numeric, NEW l \in Side,
         NEW nu \in Machine, NEW nl \in Machine, NEW p,
         NEW qu, NEW ql, NEW r, NEW dl \in Nat,
         Starting(l, nu, nl, qu, ql, dl), Says(nu, p, ql, r)
  PROVE  p.failed = nu.failed /\ Starting(l, p, nl, qu, r, dl)
<1>1. p = nu /\ Pushed(ql, r, Invitation)
  <2>1. nu.state = "WAIT"
    BY DEF Starting, Inviting, Invited, Replied, UpperWaits
  <2>. QED
    BY <2>1 DEF Says, Awaiting, Gives
<1>2. /\ Len(ql) \in Nat /\ Len(r) \in Nat /\ Len(r) = Len(ql) + 1
      /\ \A i \in 1 .. Len(r) : \/ i = Len(r) /\ r[i] = Invitation
                                \/ i \in 1 .. Len(ql) /\ r[i] = ql[i]
  BY <1>1, PushedFacts
<1>3. ASSUME \A i \in 1 .. Len(ql) : ql[i] = Invitation
      PROVE  \A i \in 1 .. Len(r) : r[i] = Invitation
  BY <1>2, <1>3
<1>4. ASSUME NEW k \in Nat, Inviting(l, k, nu, nl, qu, ql, dl)
      PROVE  Inviting(l, k, p, nl, qu, r, dl)
  <2>1. k <= Len(ql) /\ k <= Len(r)
    BY <1>2, <1>4 DEF Inviting
  <2>2. \A i \in 1 .. Len(r) : IF i <= k THEN Beaten(l, nl, r[i]) ELSE r[i] = Invitation
    BY <1>2, <1>4, <2>1 DEF Inviting
  <2>. QED
    BY <1>1, <1>4, <2>1, <2>2 DEF Inviting
<1>5. ASSUME Invited(nu, nl, qu, ql)
      PROVE  Invited(p, nl, qu, r)
  BY <1>1, <1>3, <1>5 DEF Invited
<1>6. ASSUME NEW k \in Nat, Replied(k, nu, nl, qu, ql)
      PROVE  Replied(k, p, nl, qu, r)
  BY <1>1, <1>3, <1>6 DEF Replied
<1>. QED
  BY <1>1, <1>4, <1>5, <1>6 DEF Starting

\* The other end hears a greeting, which it answers, or event 0.
LEMMA LowerHears ==
  ASSUME Numeric, NEW l \in Side,
         NEW nu \in Machine, NEW nl \in Machine, NEW p \in Machine,
         NEW qu, NEW ql, NEW r, NEW m, m.value \in Nat, Len(qu) \in Nat,
         NEW dl \in Nat, NEW d \in Nat, d <= dl + 1,
         Starting(l, nu, nl, qu, ql, dl), Popped(ql, r, m), Hears(l, nl, p, m)
  PROVE  p.failed = nl.failed /\ Starting(l, nu, p, qu, r, d)
<1>0. nu.count \in Nat
  BY DEF Machine
<1>1. /\ Len(ql) \in Nat /\ Len(r) \in Nat /\ Len(ql) = Len(r) + 1
      /\ 1 \in 1 .. Len(ql) /\ m = ql[1]
      /\ \A i \in 1 .. Len(r) : i + 1 \in 1 .. Len(ql) /\ r[i] = ql[i + 1]
  BY PoppedFacts
<1>2. ASSUME NEW k \in Nat, Inviting(l, k, nu, nl, qu, ql, dl)
      PROVE  p.failed = nl.failed /\ Starting(l, nu, p, qu, r, d)
  <2>1. /\ UpperWaits(nu)
        /\ nl.state = "HELLO" /\ nl.sent = 0 /\ k <= Len(ql)
        /\ \A i \in 1 .. Len(ql) : IF i <= k THEN Beaten(l, nl, ql[i])
                                   ELSE ql[i] = Invitation
        /\ \A i \in 1 .. Len(qu) : qu[i].type = "HELLO"
        /\ k + dl + Len(qu) + nu.count < Contexts
    BY <1>2 DEF Inviting
  <2>2. CASE k > 0
    <3>0. 1 <= k
      BY <2>2
    <3>1. Beaten(l, nl, m)
      <4>1. IF 1 <= k THEN Beaten(l, nl, ql[1]) ELSE ql[1] = Invitation
        BY <1>1, <2>1
      <4>. QED
        BY <1>1, <3>0, <4>1
    <3>2. Greeted(l, nl, p, m) /\ m.value \in Int /\ nl.value \in Int
      <4>1. Greeted(l, nl, p, m)
        BY <2>1, <3>1 DEF Hears, Beaten
      <4>. QED
        BY <4>1 DEF Machine
    <3>3. /\ p.state = "HELLO" /\ p.sent = 0 /\ p.failed = nl.failed
          /\ p.value = nl.value
      BY <2>1, <3>1, <3>2 DEF Greeted, Beaten
    <3>4. k - 1 \in Nat /\ k - 1 <= Len(r) /\ k - 1 + d + Len(qu) + nu.count < Contexts
      BY <1>0, <1>1, <2>1, <2>2 DEF Numeric
    <3>5. ASSUME NEW i \in 1 .. Len(r)
          PROVE  IF i <= k - 1 THEN Beaten(l, p, r[i]) ELSE r[i] = Invitation
      <4>1. i + 1 \in 1 .. Len(ql) /\ r[i] = ql[i + 1]
        BY <1>1
      <4>2. IF i + 1 <= k THEN Beaten(l, nl, r[i]) ELSE r[i] = Invitation
        BY <2>1, <4>1
      <4>3. Beaten(l, nl, r[i]) => Beaten(l, p, r[i])
        BY <3>3 DEF Beaten
      <4>. QED
        BY <4>2, <4>3
    <3>6. Inviting(l, k - 1, nu, p, qu, r, d)
      BY <2>1, <3>3, <3>4, <3>5 DEF Inviting
    <3>. QED
      BY <3>3, <3>4, <3>6 DEF Starting
  <2>3. CASE k = 0
    <3>1. m = Invitation /\ \A i \in 1 .. Len(r) : r[i] = Invitation
      BY <1>1, <2>1, <2>3
    <3>2. Accepts(nl, p, 0, "SEND")
      BY <2>1, <3>1 DEF Hears
    <3>3. Len(qu) + nu.count < Contexts
      BY <1>0, <2>1, <2>3 DEF Numeric
    <3>4. Invited(nu, p, qu, r)
      BY <2>1, <3>1, <3>2, <3>3, PhaseNumbers DEF Invited, Accepts
    <3>. QED
      BY <3>2, <3>4 DEF Starting, Accepts
  <2>. QED
    BY <2>2, <2>3
<1>3. ASSUME \A i \in 1 .. Len(ql) : ql[i] = Invitation,
             nl.state \in {"SEND", "RECEIVE"}, nl.know = 0
      PROVE  p = nl /\ \A i \in 1 .. Len(r) : r[i] = Invitation
  <2>1. m = Invitation
    BY <1>1, <1>3
  <2>2. p = nl
    BY <1>3, <2>1, PhaseNumbers DEF Hears
  <2>. QED
    BY <1>1, <1>3, <2>2
<1>4. ASSUME Invited(nu, nl, qu, ql)
      PROVE  p.failed = nl.failed /\ Starting(l, nu, p, qu, r, d)
  <2>1. p = nl /\ \A i \in 1 .. Len(r) : r[i] = Invitation
    BY <1>3, <1>4 DEF Invited
  <2>2. Invited(nu, p, qu, r)
    BY <1>4, <2>1 DEF Invited
  <2>. QED
    BY <2>1, <2>2 DEF Starting
<1>5. ASSUME NEW k \in Nat, Replied(k, nu, nl, qu, ql)
      PROVE  p.failed = nl.failed /\ Starting(l, nu, p, qu, r, d)
  <2>1. p = nl /\ \A i \in 1 .. Len(r) : r[i] = Invitation
    BY <1>3, <1>5 DEF Replied
  <2>2. Replied(k, nu, p, qu, r)
    BY <1>5, <2>1 DEF Replied
  <2>. QED
    BY <2>1, <2>2 DEF Starting
<1>. QED
  BY <1>2, <1>4, <1>5 DEF Starting

\* It answers a greeting by a greeting and event 0 by event 1.
LEMMA LowerSays ==
  ASSUME Numeric, NEW l \in Side,
         NEW nu \in Machine, NEW nl \in Machine, NEW p,
         NEW qu, NEW ql, NEW r, Len(ql) \in Nat,
         NEW dl \in Nat, NEW d \in Nat, d < dl,
         Starting(l, nu, nl, qu, ql, dl), Says(nl, p, qu, r)
  PROVE  p.failed = nl.failed /\ Starting(l, nu, p, r, ql, d)
<1>0. nu.count \in Nat
  BY DEF Machine
<1>1. ASSUME NEW m, Pushed(qu, r, m)
      PROVE  /\ Len(qu) \in Nat /\ Len(r) \in Nat /\ Len(r) = Len(qu) + 1
             /\ \A i \in 1 .. Len(r) : \/ i = Len(r) /\ r[i] = m
                                       \/ i \in 1 .. Len(qu) /\ r[i] = qu[i]
  BY <1>1, PushedFacts
<1>2. ASSUME NEW k \in Nat, Inviting(l, k, nu, nl, qu, ql, dl)
      PROVE  p.failed = nl.failed /\ Starting(l, nu, p, r, ql, d)
  <2>1. p = nl /\ Pushed(qu, r, Pkt("HELLO", nl.value))
    BY <1>2 DEF Says, Inviting, Awaiting, Gives
  <2>2. \A i \in 1 .. Len(r) : r[i].type = "HELLO"
    BY <1>1, <1>2, <2>1, PhaseNumbers DEF Inviting
  <2>3. k + d + Len(r) + nu.count < Contexts
    BY <1>0, <1>1, <1>2, <2>1 DEF Inviting, Numeric
  <2>4. Inviting(l, k, nu, p, r, ql, d)
    BY <1>2, <2>1, <2>2, <2>3 DEF Inviting
  <2>. QED
    BY <2>1, <2>4 DEF Starting
<1>3. ASSUME Invited(nu, nl, qu, ql)
      PROVE  p.failed = nl.failed /\ Starting(l, nu, p, r, ql, d)
  <2>1. nl.state = "SEND" /\ nl.know = 0 /\ nl.sent = 0 /\ nl.next = 1
    BY <1>3 DEF Invited
  <2>2. PICK m : Pushed(qu, r, m) /\ Gives(nl, p, m)
    BY <2>1 DEF Says, Awaiting
  <2>3. /\ m = Reply /\ p.state = "RECEIVE" /\ p.know = 0 /\ p.sent = 1
        /\ p.next = Plus2(1) /\ p.failed = nl.failed
    BY <2>1, <2>2 DEF Gives, MayTransfer, Reply
  <2>4. /\ Len(qu) \in Nat /\ Len(qu) <= Len(r)
        /\ \A i \in 1 .. Len(r) : IF i <= Len(qu) THEN r[i].type = "HELLO"
                                  ELSE i = Len(r) /\ r[i] = Reply
    BY <1>1, <1>3, <2>2, <2>3 DEF Invited
  <2>5. Replied(Len(qu), nu, p, r, ql)
    BY <1>3, <2>3, <2>4 DEF Invited, Replied
  <2>. QED
    BY <2>3, <2>4, <2>5 DEF Starting
<1>4. ASSUME NEW k \in Nat, Replied(k, nu, nl, qu, ql)
      PROVE  p.failed = nl.failed /\ Starting(l, nu, p, r, ql, d)
  <2>1. p = nl /\ r = qu
    BY <1>4 DEF Says, Replied, Awaiting, Gives
  <2>2. Replied(k, nu, p, r, ql)
    BY <1>4, <2>1
  <2>. QED
    BY <2>1, <2>2 DEF Starting
<1>. QED
  BY <1>2, <1>3, <1>4 DEF Starting

LEMMA RunningHears ==
  ASSUME NEW s, NEW n \in Machine, NEW y \in Machine, NEW p \in Machine,
         NEW qn, NEW qy, NEW r, NEW m,
         Running(n, y, qn, qy), Popped(qy, r, m), Hears(s, y, p, m)
  PROVE  p.failed = y.failed /\ (Running(n, p, qn, r) \/ Running(p, n, r, qn))
<1>1. /\ Len(qy) \in Nat /\ Len(r) \in Nat /\ Len(qy) = Len(r) + 1
      /\ 1 \in 1 .. Len(qy) /\ m = qy[1]
      /\ \A i \in 1 .. Len(r) : i + 1 \in 1 .. Len(qy) /\ r[i] = qy[i + 1]
  BY PoppedFacts
<1>2. ASSUME Stale(y, m) PROVE p = y
  BY <1>2, PhaseNumbers DEF Stale, Hears
<1>3. CASE Holds(n, y, qn, qy)
  <2>1. \A i \in 1 .. Len(qy) : Stale(y, qy[i])
    BY <1>3 DEF Holds
  <2>2. p = y /\ \A i \in 1 .. Len(r) : Stale(y, r[i])
    BY <1>1, <1>2, <2>1
  <2>3. Holds(n, p, qn, r)
    BY <1>3, <2>2 DEF Holds
  <2>. QED
    BY <2>2, <2>3 DEF Running
<1>4. CASE Flight(n, y, qn, qy)
  <2>0. Awaits(n) /\ Awaits(y) /\ n.know = y.sent /\ Len(qn) = 0
    BY <1>4 DEF Flight
  <2>1. \A i \in 1 .. Len(qy) :
          \/ Stale(y, qy[i])
          \/ i = Len(qy) /\ qy[i].value = n.sent /\ Fits(n, qy[i], y)
    BY <1>4 DEF Flight
  <2>2. CASE Stale(y, m)
    <3>1. p = y
      BY <1>2, <2>2
    <3>2. ASSUME NEW i \in 1 .. Len(r)
          PROVE  \/ Stale(y, r[i])
                 \/ i = Len(r) /\ r[i].value = n.sent /\ Fits(n, r[i], y)
      <4>1. i + 1 \in 1 .. Len(qy) /\ r[i] = qy[i + 1]
        BY <1>1
      <4>2. \/ Stale(y, r[i])
            \/ i + 1 = Len(qy) /\ r[i].value = n.sent /\ Fits(n, r[i], y)
        BY <2>1, <4>1
      <4>. QED
        BY <1>1, <4>2
    <3>3. Flight(n, p, qn, r)
      BY <2>0, <3>1, <3>2 DEF Flight
    <3>. QED
      BY <3>1, <3>3 DEF Running
  <2>3. CASE 1 = Len(qy) /\ m.value = n.sent /\ Fits(n, m, y)
    <3>1. Len(r) = 0
      BY <1>1, <2>3
    <3>2. m.value = Plus2(y.know)
      <4>1. y.know \in EventNumber
        BY DEF Machine
      <4>2. n.sent = NextValue(NextValue(y.know))
        BY <2>0 DEF Awaits
      <4>. QED
        BY <2>3, <4>1, <4>2, PhaseNumbers
    <3>3. PICK to : /\ AcceptedIn(y.state, m, to)
                    /\ <<to, n.state>> \in {<<"SEND", "RECEIVE">>, <<"SB", "RA">>,
                          <<"SBL", "RAL">>, <<"SA", "RB">>, <<"SAL", "RBL">>}
      BY <2>3 DEF Fits, AcceptedIn
    <3>4. Accepts(y, p, m.value, to)
      BY <3>2, <3>3 DEF Hears
    <3>5. Holds(p, n, r, qn)
      BY <2>0, <2>3, <3>1, <3>3, <3>4 DEF Holds, Accepts
    <3>. QED
      BY <3>4, <3>5 DEF Running, Accepts
  <2>. QED
    BY <1>1, <2>1, <2>2, <2>3
<1>. QED
  BY <1>3, <1>4 DEF Running

LEMMA RunningSays ==
  ASSUME NEW n \in Machine, NEW x, NEW p, NEW qn, NEW qx, NEW r,
         Running(n, x, qn, qx), Says(n, p, qx, r)
  PROVE  p.failed = n.failed /\ Running(p, x, qn, r)
<1>1. CASE Flight(n, x, qn, qx)
  <2>1. p = n /\ r = qx
    BY <1>1 DEF Flight, Awaits, Awaiting, Says, Gives
  <2>. QED
    BY <1>1, <2>1 DEF Running
<1>2. CASE Holds(n, x, qn, qx)
  <2>1. /\ <<n.state, x.state>> \in {<<"SEND", "RECEIVE">>, <<"SB", "RA">>,
                          <<"SBL", "RAL">>, <<"SA", "RB">>, <<"SAL", "RBL">>}
        /\ Awaits(x) /\ n.know = x.sent /\ n.next = NextValue(n.know) /\ Len(qn) = 0
        /\ \A i \in 1 .. Len(qx) : Stale(x, qx[i])
    BY <1>2 DEF Holds
  <2>2. PICK m : Pushed(qx, r, m) /\ Gives(n, p, m)
    BY <2>1 DEF Says, Awaiting
  <2>3. Fits(p, m, x)
    BY <2>1, <2>2, PhaseNumbers DEF Gives, Fits
  <2>4. Awaits(p) /\ p.know = x.sent /\ m.value = p.sent
    <3>1. p.state \in Awaiting
      BY <2>2 DEF Gives, Awaiting
    <3>2. /\ p.know = n.know /\ p.sent = n.next /\ p.next = Plus2(n.next)
          /\ m.value = n.next
      BY <2>2 DEF Gives
    <3>. QED
      BY <2>1, <3>1, <3>2 DEF Awaits
  <2>5. \A i \in 1 .. Len(r) :
          \/ Stale(x, r[i])
          \/ i = Len(r) /\ r[i].value = p.sent /\ Fits(p, r[i], x)
    BY <2>1, <2>2, <2>3, <2>4, PushedFacts
  <2>6. Flight(p, x, qn, r)
    BY <2>1, <2>4, <2>5 DEF Flight
  <2>7. p.failed = n.failed
    BY <2>2 DEF Gives
  <2>. QED
    BY <2>6, <2>7 DEF Running
<1>. QED
  BY <1>1, <1>2 DEF Running

LEMMA AwaiterSays ==
  ASSUME NEW n, NEW y, NEW p, NEW qn, NEW qy, NEW r,
         Running(n, y, qn, qy), Says(y, p, qn, r)
  PROVE  p.failed = y.failed /\ Running(n, p, r, qy)
<1>1. y.state \in Awaiting
  BY DEF Running, Holds, Flight, Awaits
<1>2. p = y /\ r = qn
  BY <1>1 DEF Says, Gives, Awaiting
<1>. QED
  BY <1>2

\* A packet that is lost changes nothing.
LEMMA GreetingCut ==
  ASSUME Numeric, NEW na, NEW nb, NEW qa, NEW qb, Len(qa) \in Nat, Len(qb) \in Nat,
         NEW r, NEW da \in Nat, NEW db \in Nat, Greeting(na, nb, qa, qb, da, db)
  PROVE  /\ Cut(qa, r) => Greeting(na, nb, r, qb, da, db)
         /\ Cut(qb, r) => Greeting(na, nb, qa, r, da, db)
<1>1. ASSUME Cut(qa, r) PROVE Greeting(na, nb, r, qb, da, db)
  <2>1. /\ Len(r) \in Nat /\ Len(qa) = Len(r) + 1
        /\ \A i \in 1 .. Len(r) : \E j \in 1 .. Len(qa) : r[i] = qa[j]
    BY <1>1, CutFacts
  <2>2. da + db + Len(r) + Len(qb) <= Contexts
    BY <2>1 DEF Greeting, Numeric
  <2>. QED
    BY <2>1, <2>2 DEF Greeting
<1>2. ASSUME Cut(qb, r) PROVE Greeting(na, nb, qa, r, da, db)
  <2>1. /\ Len(r) \in Nat /\ Len(qb) = Len(r) + 1
        /\ \A i \in 1 .. Len(r) : \E j \in 1 .. Len(qb) : r[i] = qb[j]
    BY <1>2, CutFacts
  <2>2. da + db + Len(qa) + Len(r) <= Contexts
    BY <2>1 DEF Greeting, Numeric
  <2>. QED
    BY <2>1, <2>2 DEF Greeting
<1>. QED
  BY <1>1, <1>2

LEMMA StartingCutUpper ==
  ASSUME Numeric, NEW l, NEW nu \in Machine, NEW nl, NEW qu, NEW ql, NEW r, NEW dl \in Nat,
         Starting(l, nu, nl, qu, ql, dl), Cut(qu, r)
  PROVE  Starting(l, nu, nl, r, ql, dl)
<1>0. nu.count \in Nat
  BY DEF Machine
<1>1. Len(qu) \in Nat /\ Len(r) \in Nat /\ Len(qu) = Len(r) + 1
  BY CutFacts
<1>2. PICK j \in 1 .. Len(qu) :
        \A i \in 1 .. Len(r) :
          \/ i < j /\ i \in 1 .. Len(qu) /\ r[i] = qu[i]
          \/ i >= j /\ i + 1 \in 1 .. Len(qu) /\ r[i] = qu[i + 1]
  BY CutFacts
<1>3. ASSUME NEW k \in Nat, Inviting(l, k, nu, nl, qu, ql, dl)
      PROVE  Inviting(l, k, nu, nl, r, ql, dl)
  <2>0. \A i \in 1 .. Len(qu) : qu[i].type = "HELLO"
    BY <1>3 DEF Inviting
  <2>1. \A i \in 1 .. Len(r) : r[i].type = "HELLO"
    BY <1>2, <2>0
  <2>2. k + dl + Len(r) + nu.count < Contexts
    BY <1>0, <1>1, <1>3 DEF Inviting, Numeric
  <2>. QED
    BY <1>3, <2>1, <2>2 DEF Inviting
<1>4. ASSUME Invited(nu, nl, qu, ql)
      PROVE  Invited(nu, nl, r, ql)
  <2>1. \A i \in 1 .. Len(r) : r[i].type = "HELLO"
    BY <1>2, <1>4 DEF Invited
  <2>2. Len(r) + nu.count < Contexts
    BY <1>0, <1>1, <1>4 DEF Invited, Numeric
  <2>. QED
    BY <1>4, <2>1, <2>2 DEF Invited
<1>5. ASSUME NEW k \in Nat, Replied(k, nu, nl, qu, ql)
      PROVE  \E h \in Nat : Replied(h, nu, nl, r, ql)
  <2>1. /\ k <= Len(qu) /\ k + nu.count < Contexts
        /\ \A i \in 1 .. Len(qu) : IF i <= k THEN qu[i].type = "HELLO"
                                   ELSE i = Len(qu) /\ qu[i] = Reply
    BY <1>5 DEF Replied
  <2>2. CASE j <= k
    <3>1. k - 1 \in Nat /\ k - 1 <= Len(r) /\ k - 1 + nu.count < Contexts
      BY <1>0, <1>1, <2>1, <2>2 DEF Numeric
    <3>2. ASSUME NEW i \in 1 .. Len(r)
          PROVE  IF i <= k - 1 THEN r[i].type = "HELLO" ELSE i = Len(r) /\ r[i] = Reply
      <4>1. CASE i < j /\ i \in 1 .. Len(qu) /\ r[i] = qu[i]
        <5>1. i <= k /\ i <= k - 1
          BY <2>2, <4>1
        <5>2. IF i <= k THEN r[i].type = "HELLO" ELSE i = Len(qu) /\ r[i] = Reply
          BY <2>1, <4>1
        <5>. QED
          BY <5>1, <5>2
      <4>2. CASE i >= j /\ i + 1 \in 1 .. Len(qu) /\ r[i] = qu[i + 1]
        <5>1. IF i + 1 <= k THEN r[i].type = "HELLO" ELSE i + 1 = Len(qu) /\ r[i] = Reply
          BY <2>1, <4>2
        <5>. QED
          BY <1>1, <5>1
      <4>. QED
        BY <1>2, <4>1, <4>2
    <3>3. Replied(k - 1, nu, nl, r, ql)
      BY <1>5, <3>1, <3>2 DEF Replied
    <3>. QED
      BY <3>1, <3>3
  <2>3. CASE ~(j <= k)
    <3>1. j = Len(qu)
      BY <2>1, <2>3
    <3>2. k <= Len(r)
      BY <1>1, <2>3, <3>1
    <3>3. ASSUME NEW i \in 1 .. Len(r)
          PROVE  IF i <= k THEN r[i].type = "HELLO" ELSE i = Len(r) /\ r[i] = Reply
      <4>1. i \in 1 .. Len(qu) /\ i # Len(qu) /\ r[i] = qu[i]
        BY <1>1, <1>2, <3>1
      <4>2. IF i <= k THEN r[i].type = "HELLO" ELSE i = Len(qu) /\ r[i] = Reply
        BY <2>1, <4>1
      <4>. QED
        BY <4>1, <4>2
    <3>4. Replied(k, nu, nl, r, ql)
      BY <1>5, <3>2, <3>3 DEF Replied
    <3>. QED
      BY <3>4
  <2>. QED
    BY <2>2, <2>3
<1>. QED
  BY <1>3, <1>4, <1>5 DEF Starting

LEMMA StartingCutLower ==
  ASSUME Numeric, NEW l, NEW nu \in Machine, NEW nl, NEW qu, NEW ql, NEW r, NEW dl \in Nat,
         Len(qu) \in Nat,
         Starting(l, nu, nl, qu, ql, dl), Cut(ql, r)
  PROVE  Starting(l, nu, nl, qu, r, dl)
<1>0. nu.count \in Nat
  BY DEF Machine
<1>1. Len(ql) \in Nat /\ Len(r) \in Nat /\ Len(ql) = Len(r) + 1
  BY CutFacts
<1>2. PICK j \in 1 .. Len(ql) :
        \A i \in 1 .. Len(r) :
          \/ i < j /\ i \in 1 .. Len(ql) /\ r[i] = ql[i]
          \/ i >= j /\ i + 1 \in 1 .. Len(ql) /\ r[i] = ql[i + 1]
  BY CutFacts
<1>3. ASSUME NEW k \in Nat, Inviting(l, k, nu, nl, qu, ql, dl)
      PROVE  \E h \in Nat : Inviting(l, h, nu, nl, qu, r, dl)
  <2>1. /\ k <= Len(ql) /\ k + dl + Len(qu) + nu.count < Contexts
        /\ \A i \in 1 .. Len(ql) : IF i <= k THEN Beaten(l, nl, ql[i])
                                   ELSE ql[i] = Invitation
    BY <1>3 DEF Inviting
  <2>2. CASE j <= k
    <3>1. k - 1 \in Nat /\ k - 1 <= Len(r) /\ k - 1 + dl + Len(qu) + nu.count < Contexts
      BY <1>0, <1>1, <2>1, <2>2 DEF Numeric
    <3>2. ASSUME NEW i \in 1 .. Len(r)
          PROVE  IF i <= k - 1 THEN Beaten(l, nl, r[i]) ELSE r[i] = Invitation
      <4>1. CASE i < j /\ i \in 1 .. Len(ql) /\ r[i] = ql[i]
        <5>1. i <= k /\ i <= k - 1
          BY <2>2, <4>1
        <5>2. IF i <= k THEN Beaten(l, nl, r[i]) ELSE r[i] = Invitation
          BY <2>1, <4>1
        <5>. QED
          BY <5>1, <5>2
      <4>2. CASE i >= j /\ i + 1 \in 1 .. Len(ql) /\ r[i] = ql[i + 1]
        <5>1. IF i + 1 <= k THEN Beaten(l, nl, r[i]) ELSE r[i] = Invitation
          BY <2>1, <4>2
        <5>. QED
          BY <5>1
      <4>. QED
        BY <1>2, <4>1, <4>2
    <3>3. Inviting(l, k - 1, nu, nl, qu, r, dl)
      BY <1>3, <3>1, <3>2 DEF Inviting
    <3>. QED
      BY <3>1, <3>3
  <2>3. CASE ~(j <= k)
    <3>1. k <= Len(r)
      BY <1>1, <2>3
    <3>2. ASSUME NEW i \in 1 .. Len(r)
          PROVE  IF i <= k THEN Beaten(l, nl, r[i]) ELSE r[i] = Invitation
      <4>1. CASE i < j /\ i \in 1 .. Len(ql) /\ r[i] = ql[i]
        BY <2>1, <4>1
      <4>2. CASE i >= j /\ i + 1 \in 1 .. Len(ql) /\ r[i] = ql[i + 1]
        <5>1. ~(i <= k) /\ ~(i + 1 <= k)
          BY <2>3, <4>2
        <5>. QED
          BY <2>1, <4>2, <5>1
      <4>. QED
        BY <1>2, <4>1, <4>2
    <3>3. Inviting(l, k, nu, nl, qu, r, dl)
      BY <1>3, <3>1, <3>2 DEF Inviting
    <3>. QED
      BY <3>3
  <2>. QED
    BY <2>2, <2>3
<1>4. ASSUME \A i \in 1 .. Len(ql) : ql[i] = Invitation
      PROVE  \A i \in 1 .. Len(r) : r[i] = Invitation
  BY <1>2, <1>4
<1>5. ASSUME Invited(nu, nl, qu, ql)
      PROVE  Invited(nu, nl, qu, r)
  BY <1>4, <1>5 DEF Invited
<1>6. ASSUME NEW k \in Nat, Replied(k, nu, nl, qu, ql)
      PROVE  Replied(k, nu, nl, qu, r)
  BY <1>4, <1>6 DEF Replied
<1>. QED
  BY <1>3, <1>5, <1>6 DEF Starting

LEMMA RunningCut ==
  ASSUME NEW n, NEW y, NEW qn, NEW qy, NEW r, Running(n, y, qn, qy), Cut(qy, r)
  PROVE  Running(n, y, qn, r)
<1>1. Len(qy) \in Nat /\ Len(r) \in Nat /\ Len(qy) = Len(r) + 1
  BY CutFacts
<1>2. PICK j \in 1 .. Len(qy) :
        \A i \in 1 .. Len(r) :
          \/ i < j /\ i \in 1 .. Len(qy) /\ r[i] = qy[i]
          \/ i >= j /\ i + 1 \in 1 .. Len(qy) /\ r[i] = qy[i + 1]
  BY CutFacts
<1>3. CASE Holds(n, y, qn, qy)
  <2>1. \A i \in 1 .. Len(r) : Stale(y, r[i])
    BY <1>2, <1>3 DEF Holds
  <2>2. Holds(n, y, qn, r)
    BY <1>3, <2>1 DEF Holds
  <2>. QED
    BY <2>2 DEF Running
<1>4. CASE Flight(n, y, qn, qy)
  <2>1. \A i \in 1 .. Len(qy) :
          \/ Stale(y, qy[i])
          \/ i = Len(qy) /\ qy[i].value = n.sent /\ Fits(n, qy[i], y)
    BY <1>4 DEF Flight
  <2>2. ASSUME NEW i \in 1 .. Len(r)
        PROVE  \/ Stale(y, r[i])
               \/ i = Len(r) /\ r[i].value = n.sent /\ Fits(n, r[i], y)
    <3>1. CASE i < j /\ i \in 1 .. Len(qy) /\ r[i] = qy[i]
      <4>1. i # Len(qy)
        BY <1>1
      <4>. QED
        BY <2>1, <3>1, <4>1
    <3>2. CASE i >= j /\ i + 1 \in 1 .. Len(qy) /\ r[i] = qy[i + 1]
      <4>1. \/ Stale(y, r[i])
            \/ i + 1 = Len(qy) /\ r[i].value = n.sent /\ Fits(n, r[i], y)
        BY <2>1, <3>2
      <4>. QED
        BY <1>1, <4>1
    <3>. QED
      BY <1>2, <3>1, <3>2
  <2>3. Flight(n, y, qn, r)
    BY <1>4, <2>2 DEF Flight
  <2>. QED
    BY <2>3 DEF Running
<1>. QED
  BY <1>3, <1>4 DEF Running

LEMMA RunningSilent ==
  ASSUME NEW n, NEW y, NEW qn, NEW qy, Running(n, y, qn, qy)
  PROVE  Len(qn) = 0
BY DEF Running, Holds, Flight

LEMMA FewerCalls ==
  ASSUME Numeric, NEW na \in Machine, NEW nb \in Machine, NEW qa, NEW qb,
         Len(qa) \in Nat, Len(qb) \in Nat,
         NEW da \in Nat, NEW db \in Nat, NEW d \in Nat, d <= da,
         Phase(na, nb, qa, qb, da, db)
  PROVE  Phase(na, nb, qa, qb, d, db)
<1>0. nb.count \in Nat
  BY DEF Machine
<1>1. CASE Greeting(na, nb, qa, qb, da, db)
  <2>1. d + db + Len(qa) + Len(qb) <= Contexts
    BY <1>1 DEF Greeting, Numeric
  <2>2. Greeting(na, nb, qa, qb, d, db)
    BY <1>1, <2>1 DEF Greeting
  <2>. QED
    BY <2>2 DEF Phase
<1>2. CASE Starting(A, nb, na, qb, qa, da)
  <2>1. ASSUME NEW k \in Nat, Inviting(A, k, nb, na, qb, qa, da)
        PROVE  Inviting(A, k, nb, na, qb, qa, d)
    <3>1. k + d + Len(qb) + nb.count < Contexts
      BY <1>0, <2>1 DEF Inviting, Numeric
    <3>. QED
      BY <2>1, <3>1 DEF Inviting
  <2>2. Starting(A, nb, na, qb, qa, d)
    BY <1>2, <2>1 DEF Starting
  <2>. QED
    BY <2>2 DEF Phase
<1>. QED
  BY <1>1, <1>2 DEF Phase

LEMMA PhaseHearsA ==
  ASSUME RegularStart, Numeric, NEW na \in Machine, NEW nb \in Machine, NEW p \in Machine,
         NEW qa, NEW qb, Len(qb) \in Nat, NEW r, NEW m, m.value \in Nat,
         NEW da \in Nat, NEW db \in Nat, NEW d \in Nat, d <= da + 1,
         Phase(na, nb, qa, qb, da, db), Popped(qa, r, m), Hears(A, na, p, m)
  PROVE  p.failed = na.failed /\ Phase(p, nb, r, qb, d, db)
<1>1. CASE Greeting(na, nb, qa, qb, da, db)
  BY <1>1, GreetingHearsA
<1>2. CASE Starting(B, na, nb, qa, qb, db)
  <2>1. /\ p.failed = na.failed
        /\ Starting(B, p, nb, r, qb, db) \/ Running(p, nb, r, qb)
    BY <1>2, SideFacts, UpperHears
  <2>. QED
    BY <2>1 DEF Phase
<1>3. CASE Starting(A, nb, na, qb, qa, da)
  <2>1. p.failed = na.failed /\ Starting(A, nb, p, qb, r, d)
    BY <1>3, SideFacts, LowerHears
  <2>. QED
    BY <2>1 DEF Phase
<1>4. CASE Running(na, nb, qa, qb)
  BY <1>4, RunningSilent DEF Popped
<1>5. CASE Running(nb, na, qb, qa)
  <2>1. p.failed = na.failed /\ (Running(nb, p, qb, r) \/ Running(p, nb, r, qb))
    BY <1>5, RunningHears
  <2>. QED
    BY <2>1 DEF Phase
<1>. QED
  BY <1>1, <1>2, <1>3, <1>4, <1>5 DEF Phase

LEMMA PhaseHearsB ==
  ASSUME RegularStart, Numeric, NEW na \in Machine, NEW nb \in Machine, NEW p \in Machine,
         NEW qa, NEW qb, Len(qa) \in Nat, NEW r, NEW m, m.value \in Nat,
         NEW da \in Nat, NEW db \in Nat, NEW d \in Nat, d <= db + 1,
         Phase(na, nb, qa, qb, da, db), Popped(qb, r, m), Hears(B, nb, p, m)
  PROVE  p.failed = nb.failed /\ Phase(na, p, qa, r, da, d)
<1>1. CASE Greeting(na, nb, qa, qb, da, db)
  BY <1>1, GreetingHearsB
<1>2. CASE Starting(A, nb, na, qb, qa, da)
  <2>1. /\ p.failed = nb.failed
        /\ Starting(A, p, na, r, qa, da) \/ Running(p, na, r, qa)
    BY <1>2, SideFacts, UpperHears
  <2>. QED
    BY <2>1 DEF Phase
<1>3. CASE Starting(B, na, nb, qa, qb, db)
  <2>1. p.failed = nb.failed /\ Starting(B, na, p, qa, r, d)
    BY <1>3, SideFacts, LowerHears
  <2>. QED
    BY <2>1 DEF Phase
<1>4. CASE Running(nb, na, qb, qa)
  BY <1>4, RunningSilent DEF Popped
<1>5. CASE Running(na, nb, qa, qb)
  <2>1. p.failed = nb.failed /\ (Running(na, p, qa, r) \/ Running(p, na, r, qa))
    BY <1>5, RunningHears
  <2>. QED
    BY <2>1 DEF Phase
<1>. QED
  BY <1>1, <1>2, <1>3, <1>4, <1>5 DEF Phase

LEMMA PhaseSaysA ==
  ASSUME Numeric, NEW na \in Machine, NEW nb \in Machine, NEW p,
         NEW qa, NEW qb, Len(qa) \in Nat, NEW r,
         NEW da \in Nat, NEW db \in Nat, NEW d \in Nat, d < da,
         Phase(na, nb, qa, qb, da, db), Says(na, p, qb, r)
  PROVE  p.failed = na.failed /\ Phase(p, nb, qa, r, d, db)
<1>1. CASE Greeting(na, nb, qa, qb, da, db)
  BY <1>1, GreetingSaysA
<1>2. CASE Starting(B, na, nb, qa, qb, db)
  <2>1. p.failed = na.failed /\ Starting(B, p, nb, qa, r, db)
    BY <1>2, SideFacts, UpperSays
  <2>. QED
    BY <2>1 DEF Phase
<1>3. CASE Starting(A, nb, na, qb, qa, da)
  <2>1. p.failed = na.failed /\ Starting(A, nb, p, r, qa, d)
    BY <1>3, SideFacts, LowerSays
  <2>. QED
    BY <2>1 DEF Phase
<1>4. CASE Running(na, nb, qa, qb)
  BY <1>4, RunningSays DEF Phase
<1>5. CASE Running(nb, na, qb, qa)
  BY <1>5, AwaiterSays DEF Phase
<1>. QED
  BY <1>1, <1>2, <1>3, <1>4, <1>5 DEF Phase

LEMMA PhaseSaysB ==
  ASSUME Numeric, NEW na \in Machine, NEW nb \in Machine, NEW p,
         NEW qa, NEW qb, Len(qb) \in Nat, NEW r,
         NEW da \in Nat, NEW db \in Nat, NEW d \in Nat, d < db,
         Phase(na, nb, qa, qb, da, db), Says(nb, p, qa, r)
  PROVE  p.failed = nb.failed /\ Phase(na, p, r, qb, da, d)
<1>1. CASE Greeting(na, nb, qa, qb, da, db)
  BY <1>1, GreetingSaysB
<1>2. CASE Starting(A, nb, na, qb, qa, da)
  <2>1. p.failed = nb.failed /\ Starting(A, p, na, qb, r, da)
    BY <1>2, SideFacts, UpperSays
  <2>. QED
    BY <2>1 DEF Phase
<1>3. CASE Starting(B, na, nb, qa, qb, db)
  <2>1. p.failed = nb.failed /\ Starting(B, na, p, r, qb, d)
    BY <1>3, SideFacts, LowerSays
  <2>. QED
    BY <2>1 DEF Phase
<1>4. CASE Running(nb, na, qb, qa)
  BY <1>4, RunningSays DEF Phase
<1>5. CASE Running(na, nb, qa, qb)
  BY <1>5, AwaiterSays DEF Phase
<1>. QED
  BY <1>1, <1>2, <1>3, <1>4, <1>5 DEF Phase

LEMMA PhaseCut ==
  ASSUME Numeric, NEW na \in Machine, NEW nb \in Machine, NEW qa, NEW qb, NEW r,
         Len(qa) \in Nat, Len(qb) \in Nat,
         NEW da \in Nat, NEW db \in Nat, Phase(na, nb, qa, qb, da, db)
  PROVE  /\ Cut(qa, r) => Phase(na, nb, r, qb, da, db)
         /\ Cut(qb, r) => Phase(na, nb, qa, r, da, db)
<1>1. CASE Greeting(na, nb, qa, qb, da, db)
  BY <1>1, GreetingCut DEF Phase
<1>2. CASE Starting(B, na, nb, qa, qb, db)
  BY <1>2, StartingCutUpper, StartingCutLower DEF Phase
<1>3. CASE Starting(A, nb, na, qb, qa, da)
  BY <1>3, StartingCutUpper, StartingCutLower DEF Phase
<1>4. CASE Running(na, nb, qa, qb)
  <2>1. ~Cut(qa, r)
    BY <1>4, RunningSilent, CutFacts
  <2>. QED
    BY <1>4, <2>1, RunningCut DEF Phase
<1>5. CASE Running(nb, na, qb, qa)
  <2>1. ~Cut(qb, r)
    BY <1>5, RunningSilent, CutFacts
  <2>. QED
    BY <1>5, <2>1, RunningCut DEF Phase
<1>. QED
  BY <1>1, <1>2, <1>3, <1>4, <1>5 DEF Phase

-----------------------------------------------------------------------------
(* What the library does, in terms of Hears and Says.                       *)

LEMMA ReceivedHears ==
  ASSUME Typed, NEW s \in Side, NEW m, Received(s, m, FALSE)
  PROVE  Hears(s, mcn[s], mcn'[s], m)
<1>. DEFINE n == mcn[s]
            p == mcn'[s]
<1>0. n \in Machine /\ n.know \in EventNumber
  BY DEF Typed, Machine
<1>1. \A u, flags : Become(s, u, flags) => p = u
  BY BecomeHere
<1>2. \A flags : Ignore(s, flags) => p = n
  BY <1>1 DEF Ignore
<1>3. \A v, st, flags : Become(s, Accept(n, v, st), flags) => Accepts(n, p, v, st)
  BY <1>0, <1>1, Fields DEF Accepts
<1>. HIDE DEF n, p
<1>4. ASSUME n.state = "HELLO"
      PROVE  /\ m.type = "HELLO" => Greeted(s, n, p, m)
             /\ m = Invitation => Accepts(n, p, 0, "SEND")
  <2>1. ReceivedHello(s, m)
    BY <1>4, ReceivedByState DEF n
  <2>2. ASSUME m.type = "HELLO" PROVE Greeted(s, n, p, m)
    <3>1. CASE n.value > m.value /\ Become(s, StartWaiting(n), {"SEND"})
      BY <1>0, <1>1, <3>1, Fields DEF Greeted
    <3>2. ASSUME n.value = m.value, NEW v \in Redraw[s],
                 Become(s, SetRandom(n, v), {"SEND"})
          PROVE  Greeted(s, n, p, m)
      <4>1. p = SetRandom(n, v)
        BY <1>1, <3>2
      <4>2. p.state = n.state /\ p.sent = n.sent /\ p.value = v /\ p.failed = n.failed
        BY <1>0, <4>1 DEF SetRandom, Machine
      <4>. QED
        BY <1>4, <3>2, <4>2 DEF Greeted
    <3>3. CASE n.value < m.value /\ Ignore(s, {"SEND"})
      BY <1>2, <3>3 DEF Greeted
    <3>. QED
      BY <2>1, <2>2, <3>1, <3>2, <3>3 DEF ReceivedHello, n
  <2>3. ASSUME m = Invitation PROVE Accepts(n, p, 0, "SEND")
    BY <1>3, <2>1, <2>3, PhaseNumbers DEF ReceivedHello, n
  <2>. QED
    BY <2>2, <2>3
<1>5. ASSUME n.state = "WAIT"
      PROVE  /\ m.type = "HELLO" /\ n.count < CountMax
                => /\ p.state = "WAIT" /\ p.sent = n.sent /\ p.count = n.count + 1
                   /\ p.failed = n.failed
             /\ m.type = "ENTL" /\ m.value = NextValue(n.sent)
                => Accepts(n, p, m.value, "SEND")
  <2>1. ReceivedWait(s, m)
    BY <1>5, ReceivedByState DEF n
  <2>2. ASSUME m.type = "HELLO", n.count < CountMax
        PROVE  /\ p.state = "WAIT" /\ p.sent = n.sent /\ p.count = n.count + 1
               /\ p.failed = n.failed
    <3>1. n.count + 1 <= CountMax
      BY <1>0, <2>2, CountMaxAssumption DEF Machine
    <3>2. Become(s, CountHello(n), {})
      BY <2>1, <2>2, <3>1, CountMaxAssumption, <1>0 DEF ReceivedWait, n, Machine
    <3>. QED
      BY <1>0, <1>1, <1>5, <3>2, Fields
  <2>3. ASSUME m.type = "ENTL", m.value = NextValue(n.sent)
        PROVE  Accepts(n, p, m.value, "SEND")
    BY <1>3, <2>1, <2>3 DEF ReceivedWait, n
  <2>. QED
    BY <2>2, <2>3
<1>6. ASSUME n.state \in {"SEND", "RECEIVE"}, m.type = "ENTL", m.value = n.know
      PROVE  p = n
  <2>1. m.value # Plus2(n.know)
    BY <1>0, <1>6, PhaseNumbers
  <2>2. CASE n.state = "SEND"
    <3>1. ReceivedSend(s, m)
      BY <2>2, ReceivedByState DEF n
    <3>. QED
      BY <1>2, <1>6, <3>1 DEF ReceivedSend, n
  <2>3. CASE n.state = "RECEIVE"
    <3>1. ReceivedReceive(s, m, FALSE)
      BY <2>3, ReceivedByState DEF n
    <3>. QED
      BY <1>2, <1>6, <2>1, <3>1 DEF ReceivedReceive, Expected, Repeated, n
  <2>. QED
    BY <1>6, <2>2, <2>3
<1>7. ASSUME NEW to, AcceptedIn(n.state, m, to), m.value = Plus2(n.know)
      PROVE  Accepts(n, p, m.value, to)
  <2>1. CASE n.state = "RECEIVE"
    <3>1. ReceivedReceive(s, m, FALSE)
      BY <2>1, ReceivedByState DEF n
    <3>. QED
      BY <1>3, <1>7, <2>1, <3>1 DEF AcceptedIn, ReceivedReceive, Expected, n
  <2>2. CASE n.state \in {"RA", "RAL"}
    <3>1. ReceivedRA(s, m) \/ ReceivedRAL(s, m)
      BY <2>2, ReceivedByState DEF n
    <3>. QED
      BY <1>3, <1>7, <2>2, <3>1 DEF AcceptedIn, ReceivedRA, ReceivedRAL, Expected, n
  <2>3. CASE n.state \in {"RB", "RBL"}
    <3>1. ReceivedRB(s, m) \/ ReceivedRBL(s, m)
      BY <2>3, ReceivedByState DEF n
    <3>2. m.value # n.know
      BY <1>0, <1>7, PhaseNumbers
    <3>. QED
      BY <1>3, <1>7, <2>3, <3>1, <3>2
      DEF AcceptedIn, ReceivedRB, ReceivedRBL, Expected, Repeated, n
  <2>. QED
    BY <1>7, <2>1, <2>2, <2>3 DEF AcceptedIn
<1>. QED
  BY <1>4, <1>5, <1>6, <1>7 DEF Hears, n, p

\* entl_next_send returns NOP and composes nothing, or composes a packet.
LEMMA NextSendSays ==
  ASSUME Typed, NEW s \in Side, NEW kind, NextSend(s, kind, TRUE, 0)
  PROVE  \/ /\ act'[s] = {} /\ UNCHANGED chan
            /\ ~mcn[s].failed => mcn[s].state \in Awaiting /\ mcn'[s] = mcn[s]
         \/ /\ act'[s] # {}
            /\ \E m \in Packet :
                 /\ Transmit(s, m)
                 /\ \/ mcn[s].state = "HELLO" /\ m = Pkt("HELLO", mcn[s].value)
                       /\ mcn'[s] = mcn[s]
                    \/ mcn[s].state = "WAIT" /\ m = Invitation /\ mcn'[s] = mcn[s]
                    \/ Gives(mcn[s], mcn'[s], m)
<1>. DEFINE n == mcn[s]
            p == mcn'[s]
            Silent == /\ act'[s] = {} /\ UNCHANGED chan
                      /\ ~n.failed => n.state \in Awaiting /\ p = n
            Sent(m) == \/ n.state = "HELLO" /\ m = Pkt("HELLO", n.value) /\ p = n
                       \/ n.state = "WAIT" /\ m = Invitation /\ p = n
                       \/ Gives(n, p, m)
            Spoken == act'[s] # {} /\ \E m \in Packet : Transmit(s, m) /\ Sent(m)
<1>0. n \in Machine /\ n.value \in Nat /\ n.next \in Nat /\ 0 \in Nat
  BY EventNumbers DEF Typed, Machine
<1>1. \A u, flags : Become(s, u, flags) => p = u /\ act'[s] = flags
  BY BecomeHere
<1>2. \A flags : Ignore(s, flags) => p = n /\ act'[s] = flags
  BY <1>1 DEF Ignore
<1>3. \A st, flags : Become(s, Spend(n, st), flags) =>
        /\ p.state = st /\ p.know = n.know /\ p.sent = n.next
        /\ p.next = Plus2(n.next) /\ p.failed = n.failed /\ act'[s] = flags
  BY <1>0, <1>1, Fields
<1>. HIDE DEF n, p
<1>4. CASE SendHello(s)
  <2>1. n.state = "HELLO" /\ Ignore(s, {"SEND"}) /\ Transmit(s, Pkt("HELLO", n.value))
    BY <1>4 DEF SendHello, n
  <2>2. Pkt("HELLO", n.value) \in Packet
    BY <1>0, PacketTypes
  <2>. QED
    BY <1>2, <2>1, <2>2 DEF n, p
<1>5. CASE SendWait(s)
  <2>1. n.state = "WAIT" /\ Ignore(s, {"SEND"}) /\ Transmit(s, Invitation)
    BY <1>5 DEF SendWait, n, Invitation
  <2>2. Invitation \in Packet
    BY <1>0, PacketTypes DEF Invitation
  <2>. QED
    BY <1>2, <2>1, <2>2 DEF n, p
<1>6. ASSUME NEW m \in Packet, NEW st, NEW flags, Transmit(s, m), flags # {},
             Become(s, Spend(n, st), flags), m.value = n.next,
             \/ n.state = "SEND" /\ m = Pkt("ENTL", n.next) /\ st = "RECEIVE"
             \/ n.state = "SEND" /\ MayTransfer(n) /\ m.type = "AITS" /\ m.op = "AIT"
                /\ st = "RA"
             \/ n.state = "SEND" /\ MayTransfer(n) /\ m.type = "AITS" /\ m.op = "ALO"
                /\ st = "RAL"
             \/ n.state \in {"SA", "SAL"} /\ m.type = "AITA" /\ st = "RECEIVE"
             \/ n.state = "SB" /\ m.type = "AITR" /\ st = "RB"
             \/ n.state = "SBL" /\ m.type = "AITR" /\ st = "RBL"
      PROVE  Spoken
  <2>1. act'[s] = flags
    BY <1>3, <1>6
  <2>2. Gives(n, p, m)
    BY <1>3, <1>6 DEF Gives
  <2>. QED
    BY <1>6, <2>1, <2>2
<1>. HIDE DEF Spoken, Silent
<1>7. CASE SendEvent(s, kind)
  <2>1. Pkt("ENTL", n.next) \in Packet /\ Pkt("ENTL", n.next).value = n.next
    BY <1>0, PacketTypes, PhaseNumbers
  <2>2. /\ n.state = "SEND" /\ Become(s, Spend(n, "RECEIVE"), {"SEND"})
        /\ Transmit(s, Pkt("ENTL", n.next))
    BY <1>7 DEF SendEvent, n
  <2>3. Spoken
    BY <1>6, <2>1, <2>2
  <2>. QED
    BY <2>3 DEF Spoken, n, p
<1>8. CASE SendTransfer(s, kind, TRUE, 0)
  <2>1. \A op \in {"AIT", "ALO"} :
          LET m == Aits(n.next, op, 0) IN
          m \in Packet /\ m.value = n.next /\ m.type = "AITS" /\ m.op = op
    BY <1>0, PacketTypes DEF Aits
  <2>2. n.state = "SEND" /\ MayTransfer(n)
    BY <1>8 DEF SendTransfer, n
  <2>3. \/ /\ Become(s, Spend(n, "RAL"), {"SEND"})
           /\ Transmit(s, Aits(n.next, "ALO", 0))
        \/ /\ Become(s, Spend(n, "RA"), {"SEND"})
           /\ Transmit(s, Aits(n.next, "AIT", 0))
    BY <1>8 DEF SendTransfer, n
  <2>4. Spoken
    BY <1>6, <2>1, <2>2, <2>3
  <2>. QED
    BY <2>4 DEF Spoken, n, p
<1>9. CASE SendAita(s)
  <2>1. Pkt("AITA", n.next) \in Packet /\ Pkt("AITA", n.next).value = n.next
        /\ Pkt("AITA", n.next).type = "AITA"
    BY <1>0, PacketTypes DEF Pkt
  <2>2. /\ n.state \in {"SA", "SAL"}
        /\ Become(s, Spend(n, "RECEIVE"), {"SEND", "SIG_AIT", "DROP_AIT"})
        /\ Transmit(s, Pkt("AITA", n.next))
    BY <1>9 DEF SendAita, n
  <2>3. Spoken
    BY <1>6, <2>1, <2>2
  <2>. QED
    BY <2>3 DEF Spoken, n, p
<1>10. CASE SendAitr(s)
  <2>1. Pkt("AITR", n.next) \in Packet /\ Pkt("AITR", n.next).value = n.next
        /\ Pkt("AITR", n.next).type = "AITR"
    BY <1>0, PacketTypes DEF Pkt
  <2>2. /\ n.state \in {"SB", "SBL"}
        /\ Become(s, Spend(n, IF n.state = "SB" THEN "RB" ELSE "RBL"), {"SEND"})
        /\ Transmit(s, Pkt("AITR", n.next))
    BY <1>10 DEF SendAitr, n
  <2>3. Spoken
    BY <1>6, <2>1, <2>2
  <2>. QED
    BY <2>3 DEF Spoken, n, p
<1>11. CASE SendNothing(s)
  <2>1. /\ n.failed \/ n.state \in {"RECEIVE", "RA", "RAL", "RB", "RBL"}
        /\ Ignore(s, {}) /\ UNCHANGED chan
    BY <1>11 DEF SendNothing, n
  <2>2. Silent
    BY <1>2, <2>1 DEF Silent, Awaiting
  <2>. QED
    BY <2>2 DEF Silent, n, p
<1>. QED
  BY <1>4, <1>5, <1>7, <1>8, <1>9, <1>10, <1>11 DEF NextSend

-----------------------------------------------------------------------------
(* Queues of packets that are chained.                                      *)

LEMMA PushedAtEnd ==
  ASSUME NEW q \in Seq(Packet), NEW m \in Packet
  PROVE  Pushed(q, Append(q, m), m)
<1>1. /\ Len(q) \in Nat /\ Len(Append(q, m)) = Len(q) + 1
      /\ Append(q, m)[Len(q) + 1] = m
      /\ \A i \in 1 .. Len(q) : Append(q, m)[i] = q[i]
  BY AppendFacts
<1>. QED
  BY <1>1 DEF Pushed

LEMMA AppendToChain ==
  ASSUME NEW q \in Seq(Packet), NEW c \in Seq(Packet), NEW m \in Packet
  PROVE  q \o Append(c, m) = Append(q \o c, m)
<1>1. /\ q \o c \in Seq(Packet) /\ <<m>> \in Seq(Packet)
      /\ Append(c, m) = c \o <<m>> /\ Append(q \o c, m) = (q \o c) \o <<m>>
  BY AppendIsConcat, ConcatProperties
<1>. QED
  BY <1>1, ConcatAssociative

LEMMA PoppedFromChain ==
  ASSUME NEW q \in Seq(Packet), NEW c \in Seq(Packet), q # <<>>
  PROVE  Popped(q \o c, Tail(q) \o c, q[1])
<1>1. /\ Len(q) \in Nat /\ Len(c) \in Nat /\ Len(q) > 0
      /\ Tail(q) \in Seq(Packet) /\ Len(Tail(q)) = Len(q) - 1
      /\ \A i \in 1 .. Len(q) - 1 : Tail(q)[i] = q[i + 1]
  BY TailFacts, HeadTailProperties
<1>2. /\ Len(q \o c) = Len(q) + Len(c)
      /\ \A i \in 1 .. Len(q) + Len(c) :
           (q \o c)[i] = IF i <= Len(q) THEN q[i] ELSE c[i - Len(q)]
  BY ConcatProperties
<1>3. /\ Len(Tail(q) \o c) = Len(q) - 1 + Len(c)
      /\ \A i \in 1 .. Len(q) - 1 + Len(c) :
           (Tail(q) \o c)[i] = IF i <= Len(q) - 1 THEN Tail(q)[i] ELSE c[i - (Len(q) - 1)]
  <2>1. /\ Len(Tail(q) \o c) = Len(Tail(q)) + Len(c)
        /\ \A i \in 1 .. Len(Tail(q)) + Len(c) :
             (Tail(q) \o c)[i] = IF i <= Len(Tail(q)) THEN Tail(q)[i]
                                 ELSE c[i - Len(Tail(q))]
    BY <1>1, ConcatProperties
  <2>. QED
    BY <1>1, <2>1
<1>4. (q \o c)[1] = q[1]
  <2>1. 1 \in 1 .. Len(q) + Len(c) /\ 1 <= Len(q)
    BY <1>1
  <2>. QED
    BY <1>2, <2>1
<1>5. ASSUME NEW i \in 1 .. Len(q) - 1 + Len(c)
      PROVE  (Tail(q) \o c)[i] = (q \o c)[i + 1]
  <2>1. i + 1 \in 1 .. Len(q) + Len(c)
    BY <1>1
  <2>2. CASE i <= Len(q) - 1
    <3>1. i \in 1 .. Len(q) - 1 /\ i + 1 <= Len(q)
      BY <1>1, <2>2
    <3>2. (Tail(q) \o c)[i] = Tail(q)[i]
      BY <1>3, <2>2
    <3>3. (q \o c)[i + 1] = q[i + 1]
      BY <1>2, <2>1, <3>1
    <3>. QED
      BY <1>1, <3>1, <3>2, <3>3
  <2>3. CASE ~(i <= Len(q) - 1)
    <3>1. i - (Len(q) - 1) = (i + 1) - Len(q) /\ ~(i + 1 <= Len(q))
      BY <1>1, <2>3
    <3>. QED
      BY <1>2, <1>3, <2>1, <2>3, <3>1
  <2>. QED
    BY <2>2, <2>3
<1>. QED
  BY <1>1, <1>2, <1>3, <1>4, <1>5 DEF Popped

LEMMA CutFromChain ==
  ASSUME NEW q \in Seq(Packet), NEW c \in Seq(Packet), c # <<>>
  PROVE  Cut(q \o c, q \o Tail(c))
<1>1. /\ Len(q) \in Nat /\ Len(c) \in Nat /\ Len(c) > 0
      /\ Tail(c) \in Seq(Packet) /\ Len(Tail(c)) = Len(c) - 1
      /\ \A i \in 1 .. Len(c) - 1 : Tail(c)[i] = c[i + 1]
  BY TailFacts, HeadTailProperties
<1>2. /\ Len(q \o c) = Len(q) + Len(c)
      /\ \A i \in 1 .. Len(q) + Len(c) :
           (q \o c)[i] = IF i <= Len(q) THEN q[i] ELSE c[i - Len(q)]
  BY ConcatProperties
<1>3. /\ Len(q \o Tail(c)) = Len(q) + (Len(c) - 1)
      /\ \A i \in 1 .. Len(q) + (Len(c) - 1) :
           (q \o Tail(c))[i] = IF i <= Len(q) THEN q[i] ELSE Tail(c)[i - Len(q)]
  <2>1. /\ Len(q \o Tail(c)) = Len(q) + Len(Tail(c))
        /\ \A i \in 1 .. Len(q) + Len(Tail(c)) :
             (q \o Tail(c))[i] = IF i <= Len(q) THEN q[i] ELSE Tail(c)[i - Len(q)]
    BY <1>1, ConcatProperties
  <2>. QED
    BY <1>1, <2>1
<1>4. Len(q) + 1 \in 1 .. Len(q \o c)
  BY <1>1, <1>2
<1>5. ASSUME NEW i \in 1 .. Len(q) + (Len(c) - 1)
      PROVE  (q \o Tail(c))[i] = (q \o c)[IF i < Len(q) + 1 THEN i ELSE i + 1]
  <2>1. i \in 1 .. Len(q) + Len(c) /\ i + 1 \in 1 .. Len(q) + Len(c)
    BY <1>1
  <2>2. CASE i <= Len(q)
    <3>1. i < Len(q) + 1
      BY <1>1, <2>2
    <3>. QED
      BY <1>2, <1>3, <2>1, <2>2, <3>1
  <2>3. CASE ~(i <= Len(q))
    <3>1. /\ ~(i < Len(q) + 1) /\ ~(i + 1 <= Len(q))
          /\ i - Len(q) \in 1 .. Len(c) - 1 /\ (i + 1) - Len(q) = (i - Len(q)) + 1
      BY <1>1, <2>3
    <3>2. (q \o Tail(c))[i] = c[(i - Len(q)) + 1]
      BY <1>1, <1>3, <2>3, <3>1
    <3>. QED
      BY <1>2, <2>1, <3>1, <3>2
  <2>. QED
    BY <2>2, <2>3
<1>6. Len(q \o c) \in Nat /\ Len(q \o Tail(c)) = Len(q \o c) - 1
  BY <1>1, <1>2, <1>3
<1>7. \A i \in 1 .. Len(q \o Tail(c)) :
        (q \o Tail(c))[i] = (q \o c)[IF i < Len(q) + 1 THEN i ELSE i + 1]
  BY <1>3, <1>5
<1>. QED
  BY <1>4, <1>6, <1>7 DEF Cut

\* The first packet of a queue goes to the end of the one before it.
LEMMA PassedOn ==
  ASSUME NEW q \in Seq(Packet), NEW c \in Seq(Packet), NEW d \in Seq(Packet), c # <<>>
  PROVE  Append(q, c[1]) \o (Tail(c) \o d) = q \o (c \o d)
<1>1. /\ c[1] \in Packet /\ <<c[1]>> \in Seq(Packet) /\ Tail(c) \in Seq(Packet)
      /\ Head(c) = c[1]
  BY TailFacts, HeadTailProperties
<1>2. c = <<c[1]>> \o Tail(c)
  <2>1. /\ <<c[1]>> \o Tail(c) \in Seq(Packet)
        /\ Len(<<c[1]>> \o Tail(c)) = 1 + Len(Tail(c))
        /\ \A i \in 1 .. 1 + Len(Tail(c)) : (<<c[1]>> \o Tail(c))[i] =
                IF i <= 1 THEN c[1] ELSE Tail(c)[i - 1]
    BY <1>1, ConcatProperties
  <2>2. /\ Len(c) \in Nat /\ Len(c) > 0 /\ Len(Tail(c)) = Len(c) - 1
        /\ \A i \in 1 .. Len(c) - 1 : Tail(c)[i] = c[i + 1]
    BY TailFacts
  <2>3. ASSUME NEW i \in 1 .. Len(c) PROVE (<<c[1]>> \o Tail(c))[i] = c[i]
    <3>1. CASE i = 1
      BY <2>1, <2>2, <3>1
    <3>2. CASE i # 1
      <4>1. i - 1 \in 1 .. Len(c) - 1 /\ (i - 1) + 1 = i /\ ~(i <= 1)
            /\ i \in 1 .. 1 + Len(Tail(c))
        BY <2>2, <3>2
      <4>. QED
        BY <2>1, <2>2, <4>1
    <3>. QED
      BY <3>1, <3>2
  <2>4. Len(<<c[1]>> \o Tail(c)) = Len(c)
    BY <2>1, <2>2
  <2>5. PICK t : t = <<c[1]>> \o Tail(c)
    OBVIOUS
  <2>6. t \in Seq(Packet) /\ Len(c) = Len(t) /\ \A i \in 1 .. Len(c) : c[i] = t[i]
    BY <2>1, <2>3, <2>4, <2>5
  <2>7. c = t
    BY <2>6, SeqEqual
  <2>. QED
    BY <2>5, <2>7
<1>3. Append(q, c[1]) = q \o <<c[1]>>
  BY <1>1, AppendIsConcat
<1>4. Tail(c) \o d \in Seq(Packet)
  BY <1>1, ConcatProperties
<1>5. (q \o <<c[1]>>) \o (Tail(c) \o d) = q \o (<<c[1]>> \o (Tail(c) \o d))
  BY <1>1, <1>4, ConcatAssociative, SMTT(20)
<1>6. <<c[1]>> \o (Tail(c) \o d) = (<<c[1]>> \o Tail(c)) \o d
  BY <1>1, ConcatAssociative
<1>. QED
  BY <1>2, <1>3, <1>5, <1>6

\* The packets that stand in the buffers of a queue.
LEMMA StandingType ==
  ASSUME NEW T, NEW f \in [T -> Packet], NEW S, NEW q \in Seq(S), \A e \in S : e.buf \in T
  PROVE  /\ Standing(f, q) \in Seq(Packet) /\ Len(Standing(f, q)) = Len(q)
         /\ \A i \in 1 .. Len(q) : Standing(f, q)[i] = f[q[i].buf]
<1>1. Len(q) \in Nat /\ \A i \in 1 .. Len(q) : q[i] \in S
  OBVIOUS
<1>2. \A i \in 1 .. Len(q) : f[q[i].buf] \in Packet
  BY <1>1
<1>3. Standing(f, q) \in [1 .. Len(q) -> Packet]
  BY <1>2 DEF Standing
<1>4. Standing(f, q) \in Seq(Packet)
  BY <1>1, <1>3
<1>5. Len(Standing(f, q)) = Len(q)
  BY <1>1, <1>3, <1>4, LenProperties
<1>. QED
  BY <1>4, <1>5 DEF Standing

LEMMA StandingSame ==
  ASSUME NEW f, NEW g, NEW q, \A i \in 1 .. Len(q) : g[q[i].buf] = f[q[i].buf]
  PROVE  Standing(g, q) = Standing(f, q)
BY DEF Standing

LEMMA StandingTail ==
  ASSUME NEW T, NEW f \in [T -> Packet], NEW S, NEW q \in Seq(S), \A e \in S : e.buf \in T,
         q # <<>>
  PROVE  /\ Standing(f, q) # <<>> /\ Standing(f, q)[1] = f[q[1].buf]
         /\ Tail(Standing(f, q)) = Standing(f, Tail(q))
<1>1. /\ Tail(q) \in Seq(S) /\ Len(Tail(q)) = Len(q) - 1 /\ Len(q) \in Nat /\ Len(q) > 0
      /\ \A i \in 1 .. Len(q) - 1 : Tail(q)[i] = q[i + 1]
  BY TailFacts, HeadTailProperties
<1>2. /\ Standing(f, q) \in Seq(Packet) /\ Len(Standing(f, q)) = Len(q)
      /\ \A i \in 1 .. Len(q) : Standing(f, q)[i] = f[q[i].buf]
  BY StandingType
<1>3. Standing(f, q) # <<>> /\ 1 \in 1 .. Len(q)
  BY <1>1, <1>2
<1>4. /\ Tail(Standing(f, q)) \in Seq(Packet)
      /\ Len(Tail(Standing(f, q))) = Len(q) - 1
      /\ \A i \in 1 .. Len(q) - 1 : Tail(Standing(f, q))[i] = Standing(f, q)[i + 1]
  BY <1>2, <1>3, TailFacts, HeadTailProperties
<1>5. /\ Standing(f, Tail(q)) \in Seq(Packet) /\ Len(Standing(f, Tail(q))) = Len(q) - 1
      /\ \A i \in 1 .. Len(q) - 1 : Standing(f, Tail(q))[i] = f[Tail(q)[i].buf]
  <2>1. \A r \in Seq(S) :
          /\ Standing(f, r) \in Seq(Packet) /\ Len(Standing(f, r)) = Len(r)
          /\ \A i \in 1 .. Len(r) : Standing(f, r)[i] = f[r[i].buf]
    BY StandingType
  <2>. QED
    BY <1>1, <2>1
<1>6. \A i \in 1 .. Len(q) - 1 : i + 1 \in 1 .. Len(q)
  BY <1>1
<1>7. \A i \in 1 .. Len(q) - 1 : Tail(Standing(f, q))[i] = Standing(f, Tail(q))[i]
  BY <1>1, <1>2, <1>4, <1>5, <1>6
<1>. QED
  BY <1>2, <1>3, <1>4, <1>5, <1>7, SeqEqual

LEMMA PostedTail ==
  ASSUME NEW f \in [Places -> Packet], NEW q \in Seq(Posted), q # <<>>
  PROVE  /\ Standing(f, q) # <<>> /\ Standing(f, q)[1] = f[q[1].buf]
         /\ Tail(Standing(f, q)) = Standing(f, Tail(q))
<1>1. \A e \in Posted : e.buf \in Places
  BY DEF Posted, Places
<1>. QED
  BY <1>1, StandingTail

LEMMA StandingAppend ==
  ASSUME NEW T, NEW f \in [T -> Packet], NEW S, NEW q \in Seq(S), \A e \in S : e.buf \in T,
         NEW e \in S
  PROVE  Standing(f, Append(q, e)) = Append(Standing(f, q), f[e.buf])
<1>1. /\ Append(q, e) \in Seq(S) /\ Len(Append(q, e)) = Len(q) + 1 /\ Len(q) \in Nat
      /\ \A i \in 1 .. Len(q) : Append(q, e)[i] = q[i]
      /\ Append(q, e)[Len(q) + 1] = e
  BY AppendProperties
<1>2. f[e.buf] \in Packet
  OBVIOUS
<1>3. /\ Standing(f, Append(q, e)) \in Seq(Packet)
      /\ Len(Standing(f, Append(q, e))) = Len(q) + 1
      /\ \A i \in 1 .. Len(q) + 1 :
           Standing(f, Append(q, e))[i] = f[Append(q, e)[i].buf]
  <2>1. \A r \in Seq(S) :
          /\ Standing(f, r) \in Seq(Packet) /\ Len(Standing(f, r)) = Len(r)
          /\ \A i \in 1 .. Len(r) : Standing(f, r)[i] = f[r[i].buf]
    BY StandingType
  <2>. QED
    BY <1>1, <2>1
<1>4. /\ Standing(f, q) \in Seq(Packet) /\ Len(Standing(f, q)) = Len(q)
      /\ \A i \in 1 .. Len(q) : Standing(f, q)[i] = f[q[i].buf]
  BY StandingType
<1>5. /\ Append(Standing(f, q), f[e.buf]) \in Seq(Packet)
      /\ Len(Append(Standing(f, q), f[e.buf])) = Len(q) + 1
      /\ \A i \in 1 .. Len(q) : Append(Standing(f, q), f[e.buf])[i] = Standing(f, q)[i]
      /\ Append(Standing(f, q), f[e.buf])[Len(q) + 1] = f[e.buf]
  BY <1>2, <1>4, AppendProperties
<1>6. ASSUME NEW i \in 1 .. Len(q) + 1
      PROVE  Standing(f, Append(q, e))[i] = Append(Standing(f, q), f[e.buf])[i]
  <2>1. CASE i = Len(q) + 1
    BY <1>1, <1>3, <1>5, <2>1
  <2>2. CASE i \in 1 .. Len(q)
    <3>1. Standing(f, Append(q, e))[i] = f[q[i].buf]
      BY <1>1, <1>3, <2>2
    <3>. QED
      BY <1>4, <1>5, <2>2, <3>1
  <2>3. i = Len(q) + 1 \/ i \in 1 .. Len(q)
    BY <1>1
  <2>. QED
    BY <2>1, <2>2, <2>3
<1>. QED
  BY <1>3, <1>5, <1>6, SeqEqual

-----------------------------------------------------------------------------
(* What the steps do to the packets on their way.                           *)

LEMMA QueueTypes ==
  ASSUME TInv
  PROVE  /\ chan[A] \in Seq(Packet) /\ chan[B] \in Seq(Packet)
         /\ wire \in Seq(Packet) /\ line \in Seq(Entry) /\ egress \in Seq(Posted)
         /\ content \in [Places -> Packet]
         /\ \A e \in Entry : e.buf \in Places /\ e.buf \in Buffers
         /\ \A e \in Posted : e.buf \in Places
         /\ \A i \in 1 .. Len(line) : line[i] \in Entry /\ line[i].buf \in Reading
         /\ \A i \in 1 .. Len(egress) :
              /\ egress[i] \in Posted
              /\ egress[i].buf = Own \/ egress[i].buf \in Leaving
<1>1. /\ chan[A] \in Seq(Packet) /\ chan[B] \in Seq(Packet)
      /\ wire \in Seq(Packet) /\ line \in Seq(Entry) /\ egress \in Seq(Posted)
      /\ content \in [Places -> Packet]
  BY SideFacts DEF TInv, TypeOK, Places
<1>2. /\ \A e \in Entry : e.buf \in Places /\ e.buf \in Buffers
      /\ \A e \in Posted : e.buf \in Places
  BY DEF Entry, Posted, Places
<1>3. \A i \in 1 .. Len(line) : line[i] \in Entry /\ line[i].buf \in Reading
  BY <1>1 DEF Reading
<1>4. \A i \in 1 .. Len(egress) :
        /\ egress[i] \in Posted
        /\ egress[i].buf = Own \/ egress[i].buf \in Leaving
  BY <1>1 DEF Leaving
<1>. QED
  BY <1>1, <1>2, <1>3, <1>4

LEMMA ChainTypes ==
  ASSUME TInv
  PROVE  /\ Standing(content, line) \in Seq(Packet)
         /\ Standing(content, egress) \in Seq(Packet)
         /\ Word \in Seq(Packet)
         /\ Standing(content, egress) \o Word \in Seq(Packet)
         /\ TowardsA \in Seq(Packet) /\ TowardsB \in Seq(Packet)
<1>1. /\ chan[A] \in Seq(Packet) /\ chan[B] \in Seq(Packet)
      /\ wire \in Seq(Packet) /\ line \in Seq(Entry) /\ egress \in Seq(Posted)
      /\ content \in [Places -> Packet]
      /\ \A e \in Entry : e.buf \in Places
      /\ \A e \in Posted : e.buf \in Places
  BY QueueTypes
<1>2. Standing(content, line) \in Seq(Packet)
  BY <1>1, StandingType
<1>3. Standing(content, egress) \in Seq(Packet)
  BY <1>1, StandingType
<1>4. Word \in Seq(Packet)
  <2>1. CASE tx.pc = "send"
    <3>1. content[tx.buf] \in Packet
      BY <1>1, <2>1 DEF TInv, BufferChosen, Places
    <3>. QED
      BY <2>1, <3>1 DEF Word
  <2>. QED
    BY <1>1, <2>1 DEF Word
<1>5. Standing(content, egress) \o Word \in Seq(Packet)
  BY <1>3, <1>4, ConcatProperties
<1>6. TowardsA \in Seq(Packet)
  BY <1>1, <1>2, ConcatProperties DEF TowardsA
<1>7. TowardsB \in Seq(Packet)
  BY <1>1, <1>5, ConcatProperties DEF TowardsB
<1>. QED
  BY <1>2, <1>3, <1>4, <1>5, <1>6, <1>7

LEMMA NothingMoves ==
  ASSUME UNCHANGED <<content, line, chan, wire, egress>>,
         UNCHANGED tx \/ (tx.pc # "send" /\ tx'.pc # "send")
  PROVE  UNCHANGED <<TowardsA, TowardsB>>
BY DEF TowardsA, TowardsB, Word

LEMMA TakeMoves ==
  ASSUME TInv, OInv, NEW r \in Receivers, Take(r)
  PROVE  UNCHANGED <<TowardsA, TowardsB>>
<1>1. /\ chan[A] # <<>> /\ chan' = [chan EXCEPT ![A] = Tail(@)]
      /\ UNCHANGED <<tx, egress, wire>>
  BY DEF Take
<1>2. PICK b \in pool : /\ content' = [content EXCEPT ![b] = Head(chan[A])]
                        /\ line' = Append(line, [ctx |-> r, buf |-> b])
  BY DEF Take
<1>3. /\ b \in Buffers /\ b # Own /\ b \in Places
      /\ b \notin Reading \cup Kept \cup Written \cup Leaving
  BY ThreadAssumption DEF TInv, TypeOK, OInv, BufferOwnedOnce, Places
<1>4. PICK c : c = chan[A]
  OBVIOUS
<1>5. c \in Seq(Packet) /\ c # <<>>
  BY <1>1, <1>4, QueueTypes
<1>6. c[1] \in Packet /\ Head(c) = c[1] /\ Tail(c) \in Seq(Packet)
  BY <1>5, TailFacts, HeadTailProperties
<1>7. chan'[A] = Tail(c) /\ chan'[B] = chan[B]
  BY <1>1, <1>4, SideFacts, EndsAssumption DEF TInv, TypeOK
<1>8. PICK g : g = content'
  OBVIOUS
<1>9. content \in [Places -> Packet]
  BY QueueTypes
<1>10. /\ g \in [Places -> Packet] /\ g[b] = c[1]
       /\ \A d \in Places : d # b => g[d] = content[d]
  BY <1>2, <1>3, <1>4, <1>6, <1>8, <1>9
<1>11. Standing(g, line) = Standing(content, line)
  <2>1. ASSUME NEW i \in 1 .. Len(line) PROVE g[line[i].buf] = content[line[i].buf]
    <3>1. line[i].buf \in Reading /\ line[i].buf \in Places
      BY QueueTypes
    <3>. QED
      BY <1>3, <1>10, <3>1
  <2>. QED
    BY <2>1, StandingSame
<1>12. Standing(g, egress) = Standing(content, egress)
  <2>1. ASSUME NEW i \in 1 .. Len(egress) PROVE g[egress[i].buf] = content[egress[i].buf]
    <3>1. /\ egress[i].buf \in Places
          /\ egress[i].buf = Own \/ egress[i].buf \in Leaving
      BY QueueTypes
    <3>. QED
      BY <1>3, <1>10, <3>1
  <2>. QED
    BY <2>1, StandingSame
<1>13. Standing(g, line') = Append(Standing(content, line), c[1])
  <2>1. [ctx |-> r, buf |-> b] \in Entry /\ [ctx |-> r, buf |-> b].buf = b
    BY <1>3 DEF Entry
  <2>2. line \in Seq(Entry) /\ \A e \in Entry : e.buf \in Places
    BY QueueTypes
  <2>3. Standing(g, Append(line, [ctx |-> r, buf |-> b]))
          = Append(Standing(g, line), g[[ctx |-> r, buf |-> b].buf])
    BY <1>10, <2>1, <2>2, StandingAppend
  <2>. QED
    BY <1>2, <1>10, <1>11, <2>1, <2>3
<1>14. TowardsA' = TowardsA
  <2>1. PICK q : q = Standing(content, line)
    OBVIOUS
  <2>2. q \in Seq(Packet) /\ <<>> \in Seq(Packet)
    BY <2>1, ChainTypes
  <2>3. Append(q, c[1]) \o (Tail(c) \o <<>>) = q \o (c \o <<>>)
    BY <1>5, <2>2, PassedOn
  <2>4. Tail(c) \o <<>> = Tail(c) /\ c \o <<>> = c
    BY <1>5, <1>6, ConcatEmptySeq
  <2>5. Append(q, c[1]) \o Tail(c) = q \o c
    BY <2>3, <2>4
  <2>6. TowardsA' = Append(q, c[1]) \o Tail(c)
    BY <1>7, <1>8, <1>13, <2>1 DEF TowardsA
  <2>7. TowardsA = q \o c
    BY <1>4, <2>1 DEF TowardsA
  <2>. QED
    BY <2>5, <2>6, <2>7
<1>15. Word' = Word
  <2>1. CASE tx.pc = "send"
    <3>1. tx.buf # b /\ tx.buf \in Places
      BY <1>3, <2>1 DEF Written, TInv, BufferChosen, Places
    <3>2. g[tx.buf] = content[tx.buf]
      BY <1>10, <3>1
    <3>. QED
      BY <1>1, <1>8, <2>1, <3>2 DEF Word
  <2>2. CASE tx.pc # "send"
    BY <1>1, <1>7, <2>2 DEF Word
  <2>. QED
    BY <2>1, <2>2
<1>16. TowardsB' = TowardsB
  BY <1>1, <1>8, <1>12, <1>15 DEF TowardsB
<1>. QED
  BY <1>14, <1>16

LEMMA FirstRemoved ==
  ASSUME NEW S, NEW q \in Seq(S), 1 \in DOMAIN q
  PROVE  q # <<>> /\ RemoveAt(q, 1) = Tail(q)
<1>1. Len(q) \in Nat /\ Len(q) > 0 /\ q # <<>>
  OBVIOUS
<1>2. SubSeq(q, 1, 1 - 1) = <<>>
  BY <1>1, SubSeqEmpty
<1>3. Tail(q) = SubSeq(q, 1 + 1, Len(q)) /\ Tail(q) \in Seq(S)
  BY <1>1, TailIsSubSeq, HeadTailProperties
<1>4. RemoveAt(q, 1) = SubSeq(q, 1, 1 - 1) \o SubSeq(q, 1 + 1, Len(q))
  BY DEF RemoveAt
<1>5. <<>> \o Tail(q) = Tail(q)
  BY <1>3, ConcatEmptySeq
<1>6. RemoveAt(q, 1) = <<>> \o Tail(q)
  BY <1>2, <1>3, <1>4
<1>. QED
  BY <1>1, <1>5, <1>6

\* A context that does not overtake hands over the oldest packet.
LEMMA DeliverMoves ==
  ASSUME TInv, NEW r \in Receivers, Deliver(r), ~overtaken'
  PROVE  /\ \E m \in Packet : Received(A, m, FALSE) /\ Popped(TowardsA, TowardsA', m)
         /\ UNCHANGED TowardsB
         /\ \E st \in {"signalling", "idle"} : rx' = [rx EXCEPT ![r] = st]
         /\ rx[r] = "reading"
         /\ UNCHANGED <<sig, tx, heard, chan, overtaken, overwrote>>
<1>1. PICK i \in DOMAIN line :
        /\ rx[r] = "reading"
        /\ overtaken' = (overtaken \/ i # 1)
        /\ line' = RemoveAt(line, i)
        /\ Received(A, content[line[i].buf], FALSE)
        /\ rx' = [rx EXCEPT ![r] =
             IF act'[A] \cap {"SEND", "ERROR"} # {} THEN "signalling" ELSE "idle"]
        /\ UNCHANGED <<chan, sig, alarm, tx, bufferVars, heard, overwrote>>
  BY DEF Deliver
<1>2. i = 1 /\ overtaken' = overtaken
  BY <1>1 DEF TInv, TypeOK
<1>3. /\ line \in Seq(Entry) /\ content \in [Places -> Packet]
      /\ \A e \in Entry : e.buf \in Places
  BY QueueTypes
<1>4. line # <<>> /\ line' = Tail(line) /\ 1 \in 1 .. Len(line)
  BY <1>1, <1>2, <1>3, FirstRemoved
<1>5. PICK m : m = content[line[1].buf]
  OBVIOUS
<1>6. m \in Packet
  BY <1>3, <1>4, <1>5
<1>7. PICK q : q = Standing(content, line)
  OBVIOUS
<1>8. q \in Seq(Packet) /\ q # <<>> /\ q[1] = m /\ Standing(content, line') = Tail(q)
  <2>1. q \in Seq(Packet)
    BY <1>7, ChainTypes
  <2>2. q # <<>> /\ q[1] = m /\ Tail(q) = Standing(content, Tail(line))
    BY <1>3, <1>4, <1>5, <1>7, StandingTail
  <2>. QED
    BY <1>4, <2>1, <2>2
<1>9. chan[A] \in Seq(Packet)
  BY QueueTypes
<1>10. Popped(q \o chan[A], Tail(q) \o chan[A], m)
  BY <1>8, <1>9, PoppedFromChain
<1>11. TowardsA = q \o chan[A] /\ TowardsA' = Tail(q) \o chan[A]
  BY <1>1, <1>7, <1>8 DEF TowardsA, bufferVars
<1>12. UNCHANGED TowardsB
  BY <1>1 DEF TowardsB, Word, bufferVars
<1>. QED
  BY <1>1, <1>2, <1>5, <1>6, <1>10, <1>11, <1>12

LEMMA RewriteMoves ==
  ASSUME TInv, OInv, OneWord, Rewrite, ~overwrote'
  PROVE  UNCHANGED <<TowardsA, TowardsB>>
<1>1. /\ tx.pc = "rewrite" /\ tx' = [tx EXCEPT !.pc = "send"]
      /\ content' = [content EXCEPT ![tx.buf] = Head(chan[B])]
      /\ chan' = [chan EXCEPT ![B] = <<>>]
      /\ \A i \in DOMAIN egress :
           egress[i].buf = tx.buf => content[tx.buf] = Head(chan[B])
      /\ UNCHANGED <<line, egress, wire>>
  BY DEF Rewrite, Goto, TInv, TypeOK
<1>2. tx'.pc = "send" /\ tx'.buf = tx.buf
  BY <1>1 DEF TInv, TypeOK
<1>3. chan'[A] = chan[A] /\ chan'[B] = <<>>
  BY <1>1, SideFacts, EndsAssumption DEF TInv, TypeOK
<1>4. PICK b : b = tx.buf
  OBVIOUS
<1>5. b \in Places /\ b \notin Reading
  <2>1. b \in Buffers \cup {Own}
    BY <1>1, <1>4 DEF TInv, BufferChosen
  <2>2. b # Own => b \in Written
    BY <1>1, <1>4 DEF Written
  <2>3. Reading \subseteq Buffers
    BY QueueTypes DEF Reading, TInv, TypeOK
  <2>. QED
    BY <2>1, <2>2, <2>3, ThreadAssumption DEF OInv, BufferOwnedOnce, Places
<1>6. PICK c : c = chan[B]
  OBVIOUS
<1>7. c \in Seq(Packet) /\ Len(c) = 1
  BY <1>1, <1>6, QueueTypes DEF OneWord, One
<1>8. Head(c) = c[1] /\ c[1] \in Packet /\ c = <<c[1]>>
  BY <1>7
<1>9. PICK g : g = content'
  OBVIOUS
<1>10. content \in [Places -> Packet]
  BY QueueTypes
<1>11. /\ g \in [Places -> Packet] /\ g[b] = c[1]
       /\ \A d \in Places : d # b => g[d] = content[d]
  BY <1>1, <1>4, <1>5, <1>6, <1>8, <1>9, <1>10
<1>12. Standing(g, line) = Standing(content, line)
  <2>1. ASSUME NEW i \in 1 .. Len(line) PROVE g[line[i].buf] = content[line[i].buf]
    <3>1. line[i].buf \in Reading /\ line[i].buf \in Places
      BY QueueTypes
    <3>. QED
      BY <1>5, <1>11, <3>1
  <2>. QED
    BY <2>1, StandingSame
<1>13. Standing(g, egress) = Standing(content, egress)
  <2>1. ASSUME NEW i \in 1 .. Len(egress) PROVE g[egress[i].buf] = content[egress[i].buf]
    <3>1. egress[i].buf \in Places /\ i \in DOMAIN egress
      BY QueueTypes
    <3>2. CASE egress[i].buf = b
      BY <1>1, <1>4, <1>6, <1>8, <1>11, <3>1, <3>2
    <3>. QED
      BY <1>11, <3>1, <3>2
  <2>. QED
    BY <2>1, StandingSame
<1>14. Word' = Word
  BY <1>1, <1>2, <1>4, <1>6, <1>8, <1>9, <1>11 DEF Word
<1>15. TowardsA' = TowardsA
  BY <1>1, <1>3, <1>9, <1>12 DEF TowardsA
<1>16. TowardsB' = TowardsB
  BY <1>1, <1>9, <1>13, <1>14 DEF TowardsB
<1>. QED
  BY <1>15, <1>16

LEMMA SendPacketMoves ==
  ASSUME TInv, OneWord, SendPacket
  PROVE  UNCHANGED <<TowardsA, TowardsB>>
<1>1. /\ tx.pc = "send" /\ tx'.pc = "wait"
      /\ egress' = Append(egress, [buf |-> tx.buf, free |-> tx.free])
      /\ UNCHANGED <<chan, line, content, wire>>
  BY DEF SendPacket, Goto, machineVars, TInv, TypeOK
<1>2. chan[B] = <<>>
  <2>1. chan[B] \in Seq(Packet) /\ Len(chan[B]) = 0
    BY <1>1, QueueTypes DEF OneWord, One
  <2>. QED
    BY <2>1
<1>3. PICK m : m = content[tx.buf]
  OBVIOUS
<1>4. [buf |-> tx.buf, free |-> tx.free] \in Posted /\ tx.buf \in Places
  BY <1>1 DEF TInv, TypeOK, BufferChosen, Posted, Places
<1>5. /\ egress \in Seq(Posted) /\ content \in [Places -> Packet]
      /\ \A e \in Posted : e.buf \in Places
  BY QueueTypes
<1>6. m \in Packet
  BY <1>3, <1>4, <1>5
<1>7. PICK q : q = Standing(content, egress)
  OBVIOUS
<1>8. q \in Seq(Packet) /\ <<m>> \in Seq(Packet)
  BY <1>6, <1>7, ChainTypes
<1>9. Standing(content, egress') = Append(q, m)
  <2>1. Standing(content, Append(egress, [buf |-> tx.buf, free |-> tx.free]))
          = Append(Standing(content, egress),
                   content[[buf |-> tx.buf, free |-> tx.free].buf])
    BY <1>4, <1>5, StandingAppend
  <2>. QED
    BY <1>1, <1>3, <1>7, <2>1
<1>10. Word = <<m>> /\ Word' = <<>>
  BY <1>1, <1>2, <1>3 DEF Word
<1>11. Append(q, m) \o <<>> = q \o <<m>>
  <2>1. Append(q, m) = q \o <<m>> /\ q \o <<m>> \in Seq(Packet)
    BY <1>6, <1>8, AppendIsConcat, ConcatProperties
  <2>. QED
    BY <2>1, ConcatEmptySeq
<1>12. TowardsB' = TowardsB
  <2>1. TowardsB' = wire \o (Append(q, m) \o <<>>)
    BY <1>1, <1>9, <1>10 DEF TowardsB
  <2>2. TowardsB = wire \o (q \o <<m>>)
    BY <1>7, <1>10 DEF TowardsB
  <2>. QED
    BY <1>11, <2>1, <2>2
<1>13. TowardsA' = TowardsA
  BY <1>1 DEF TowardsA
<1>. QED
  BY <1>12, <1>13

LEMMA DepartMoves ==
  ASSUME TInv, Depart
  PROVE  UNCHANGED <<TowardsA, TowardsB>>
<1>1. /\ egress # <<>> /\ egress' = Tail(egress)
      /\ wire' = Append(wire, content[Head(egress).buf])
      /\ UNCHANGED <<chan, line, content, tx>>
  BY DEF Depart, machineVars
<1>2. /\ egress \in Seq(Posted) /\ content \in [Places -> Packet] /\ wire \in Seq(Packet)
      /\ \A e \in Posted : e.buf \in Places
  BY QueueTypes
<1>3. PICK c : c = Standing(content, egress)
  OBVIOUS
<1>4. c \in Seq(Packet)
  BY <1>3, ChainTypes
<1>5. /\ c # <<>> /\ c[1] = content[egress[1].buf]
      /\ Tail(c) = Standing(content, Tail(egress))
  <2>1. PICK f, q : f = content /\ q = egress
    OBVIOUS
  <2>2. f \in [Places -> Packet] /\ q \in Seq(Posted) /\ q # <<>>
    BY <1>1, <1>2, <2>1
  <2>3. /\ Standing(f, q) # <<>> /\ Standing(f, q)[1] = f[q[1].buf]
        /\ Tail(Standing(f, q)) = Standing(f, Tail(q))
    BY <2>2, PostedTail
  <2>. QED
    BY <1>3, <2>1, <2>3
<1>6. Head(egress) = egress[1]
  BY <1>1, <1>2, TailFacts
<1>7. Word \in Seq(Packet) /\ Word' = Word
  BY <1>1, ChainTypes DEF Word
<1>8. Append(wire, c[1]) \o (Tail(c) \o Word) = wire \o (c \o Word)
  BY <1>2, <1>4, <1>5, <1>7, PassedOn
<1>9. TowardsB' = Append(wire, c[1]) \o (Tail(c) \o Word)
  BY <1>1, <1>5, <1>6, <1>7 DEF TowardsB
<1>10. TowardsB = wire \o (c \o Word)
  BY <1>3 DEF TowardsB
<1>11. TowardsA' = TowardsA
  BY <1>1 DEF TowardsA
<1>. QED
  BY <1>8, <1>9, <1>10, <1>11

\* Context 0 composes a packet where none waits.
LEMMA CallMoves ==
  ASSUME TInv, OneWord, tx.pc = "call", NEW m \in Packet, Transmit(A, m),
         UNCHANGED <<content, line, wire, egress>>, tx'.pc # "send"
  PROVE  UNCHANGED TowardsA /\ Pushed(TowardsB, TowardsB', m)
<1>1. chan'[A] = chan[A] /\ chan'[B] = Append(chan[B], m)
  BY SideFacts, EndsAssumption DEF Transmit, Peer, TInv, TypeOK
<1>2. TowardsA' = TowardsA
  BY <1>1 DEF TowardsA
<1>3. PICK w, q, c : /\ w = wire /\ q = Standing(content, egress) /\ c = chan[B]
  OBVIOUS
<1>4. w \in Seq(Packet) /\ q \in Seq(Packet) /\ c \in Seq(Packet) /\ q \o c \in Seq(Packet)
  BY <1>3, QueueTypes, ChainTypes, ConcatProperties
<1>5. TowardsB = w \o (q \o c)
  BY <1>3 DEF TowardsB, Word
<1>6. TowardsB' = w \o (q \o Append(c, m))
  BY <1>1, <1>3 DEF TowardsB, Word
<1>7. q \o Append(c, m) = Append(q \o c, m)
  BY <1>4, AppendToChain
<1>8. w \o Append(q \o c, m) = Append(w \o (q \o c), m)
  BY <1>4, AppendToChain
<1>9. w \o (q \o c) \in Seq(Packet)
  BY <1>4, ConcatProperties
<1>10. Pushed(w \o (q \o c), Append(w \o (q \o c), m), m)
  BY <1>9, PushedAtEnd
<1>. QED
  BY <1>2, <1>5, <1>6, <1>7, <1>8, <1>10

LEMMA HostSendMoves ==
  ASSUME TInv, NEW m \in Packet, Transmit(B, m),
         UNCHANGED <<content, line, wire, egress, tx>>
  PROVE  UNCHANGED <<TowardsB, chan[B]>> /\ Pushed(TowardsA, TowardsA', m)
<1>1. chan'[B] = chan[B] /\ chan'[A] = Append(chan[A], m)
  BY SideFacts, EndsAssumption DEF Transmit, Peer, TInv, TypeOK
<1>2. TowardsB' = TowardsB
  BY <1>1 DEF TowardsB, Word
<1>3. PICK q, c : q = Standing(content, line) /\ c = chan[A]
  OBVIOUS
<1>4. q \in Seq(Packet) /\ c \in Seq(Packet) /\ q \o c \in Seq(Packet)
  BY <1>3, QueueTypes, ChainTypes, ConcatProperties
<1>5. TowardsA = q \o c /\ TowardsA' = q \o Append(c, m)
  BY <1>1, <1>3 DEF TowardsA
<1>6. q \o Append(c, m) = Append(q \o c, m)
  BY <1>4, AppendToChain
<1>7. Pushed(q \o c, Append(q \o c, m), m)
  BY <1>4, PushedAtEnd
<1>. QED
  BY <1>1, <1>2, <1>5, <1>6, <1>7

\* The host takes the oldest packet from the wire, or it is lost there.
LEMMA WireMoves ==
  ASSUME TInv, wire # <<>>, wire' = Tail(wire), UNCHANGED <<content, line, chan, egress, tx>>
  PROVE  /\ UNCHANGED TowardsA /\ Head(wire) \in Packet
         /\ Popped(TowardsB, TowardsB', Head(wire))
<1>1. PICK w, c : w = wire /\ c = Standing(content, egress) \o Word
  OBVIOUS
<1>2. w \in Seq(Packet) /\ c \in Seq(Packet)
  BY <1>1, QueueTypes, ChainTypes
<1>3. Head(w) = w[1] /\ w[1] \in Packet
  BY <1>1, <1>2, TailFacts
<1>4. Popped(w \o c, Tail(w) \o c, w[1])
  BY <1>1, <1>2, PoppedFromChain
<1>5. TowardsB = w \o c /\ TowardsB' = Tail(w) \o c
  BY <1>1 DEF TowardsB, Word
<1>6. TowardsA' = TowardsA
  BY DEF TowardsA
<1>. QED
  BY <1>1, <1>3, <1>4, <1>5, <1>6

LEMMA LossMoves ==
  ASSUME TInv, LoseToHost \/ LoseFromHost
  PROVE  \/ UNCHANGED TowardsA /\ Cut(TowardsB, TowardsB')
         \/ UNCHANGED TowardsB /\ Cut(TowardsA, TowardsA')
<1>1. CASE LoseToHost
  <2>1. wire # <<>> /\ wire' = Tail(wire) /\ UNCHANGED <<content, line, chan, egress, tx>>
    BY <1>1 DEF LoseToHost, machineVars
  <2>2. UNCHANGED TowardsA /\ Popped(TowardsB, TowardsB', Head(wire))
    BY <2>1, WireMoves
  <2>3. \A q, r, m : Popped(q, r, m) => Cut(q, r)
    <3>. SUFFICES ASSUME NEW q, NEW r, NEW m, Popped(q, r, m) PROVE Cut(q, r)
      OBVIOUS
    <3>1. /\ Len(q) \in Nat /\ Len(r) \in Nat /\ Len(r) = Len(q) - 1 /\ 1 \in 1 .. Len(q)
          /\ \A i \in 1 .. Len(r) : r[i] = q[i + 1]
      BY DEF Popped
    <3>2. \A i \in 1 .. Len(r) : ~(i < 1)
      BY <3>1
    <3>3. \A i \in 1 .. Len(r) : r[i] = q[IF i < 1 THEN i ELSE i + 1]
      BY <3>1, <3>2
    <3>. QED
      BY <3>1, <3>3 DEF Cut
  <2>. QED
    BY <2>2, <2>3
<1>2. CASE LoseFromHost
  <2>1. /\ chan[A] # <<>> /\ chan' = [chan EXCEPT ![A] = Tail(@)]
        /\ UNCHANGED <<content, line, wire, egress, tx>>
    BY <1>2 DEF LoseFromHost, bufferVars
  <2>2. chan'[A] = Tail(chan[A]) /\ chan'[B] = chan[B]
    BY <2>1, SideFacts, EndsAssumption DEF TInv, TypeOK
  <2>3. PICK q, c : q = Standing(content, line) /\ c = chan[A]
    OBVIOUS
  <2>4. Cut(q \o c, q \o Tail(c))
    BY <2>1, <2>3, QueueTypes, ChainTypes, CutFromChain
  <2>5. TowardsA = q \o c /\ TowardsA' = q \o Tail(c)
    BY <2>1, <2>2, <2>3 DEF TowardsA
  <2>6. TowardsB' = TowardsB
    BY <2>1, <2>2 DEF TowardsB, Word
  <2>. QED
    BY <2>4, <2>5, <2>6
<1>. QED
  BY <1>1, <1>2

\* The library computes one word for every packet it wants sent.
LEMMA OneWordNext ==
  ASSUME TInv, OneWord, [Next]_vars
  PROVE  OneWord'
<1>0. /\ tx \in [pc : {"wait", "call", "choose", "pick", "clear", "rewrite", "send"},
                 buf : Buffers \cup {Own, NoBuffer}, free : BOOLEAN]
      /\ chan \in [Side -> Seq(Packet)] /\ Typed
  BY DEF TInv, TypeOK, Typed
<1>1. ASSUME chan'[B] = chan[B],
             tx'.pc \in {"choose", "pick", "clear", "rewrite"}
               <=> tx.pc \in {"choose", "pick", "clear", "rewrite"}
      PROVE  OneWord'
  BY <1>1 DEF OneWord, One
<1>2. ASSUME NEW r \in Receivers, ReceiverStep(r)
      PROVE  OneWord'
  <2>1. CASE Hello(r) \/ SignalContext0(r) \/ Deliver(r)
    <3>1. UNCHANGED <<chan, tx>>
      BY <2>1 DEF Hello, SignalContext0, Deliver, machineVars
    <3>. QED
      BY <1>1, <3>1
  <2>2. CASE Take(r)
    <3>1. chan' = [chan EXCEPT ![A] = Tail(chan[A])] /\ UNCHANGED tx
      BY <2>2 DEF Take
    <3>2. chan'[B] = chan[B]
      BY <1>0, <3>1, EndsAssumption DEF Side
    <3>. QED
      BY <1>1, <3>1, <3>2
  <2>. QED
    BY <1>2, <2>1, <2>2 DEF ReceiverStep
<1>3. CASE Ring \/ ChooseOwn \/ ChooseKept \/ Pick \/ Clear
  <2>1. /\ chan'[B] = chan[B]
        /\ tx'.pc \in {"choose", "pick", "clear", "rewrite"}
               <=> tx.pc \in {"choose", "pick", "clear", "rewrite"}
    BY <1>0, <1>3 DEF Ring, ChooseOwn, ChooseKept, Pick, Clear, Goto, machineVars
  <2>. QED
    BY <1>1, <2>1
<1>4. CASE WaitWithTimeout \/ SendPacket
  <2>1. /\ chan'[B] = chan[B]
        /\ tx'.pc \in {"choose", "pick", "clear", "rewrite"}
               <=> tx.pc \in {"choose", "pick", "clear", "rewrite"}
    BY <1>0, <1>4 DEF WaitWithTimeout, SendPacket, Goto, machineVars
  <2>. QED
    BY <1>1, <2>1
<1>5. CASE Call
  <2>1. /\ tx.pc = "call" /\ NextSend(A, "NONE", TRUE, 0)
        /\ tx'.pc = IF act'[A] = {} THEN "wait" ELSE "choose"
    BY <1>0, <1>5 DEF Call, Goto
  <2>2. Len(chan[B]) = 0 /\ chan[B] \in Seq(Packet)
    BY <1>0, <2>1, SideFacts DEF OneWord, One
  <2>3. \/ act'[A] = {} /\ UNCHANGED chan
        \/ act'[A] # {} /\ \E m \in Packet : Transmit(A, m)
    BY <1>0, <2>1, SideFacts, NextSendSays
  <2>4. CASE act'[A] = {} /\ UNCHANGED chan
    BY <2>1, <2>2, <2>4 DEF OneWord, One
  <2>5. ASSUME act'[A] # {}, NEW m \in Packet, Transmit(A, m)
        PROVE  OneWord'
    <3>1. chan'[B] = Append(chan[B], m)
      BY <1>0, <2>5, SideFacts DEF Transmit, Peer
    <3>2. Len(chan'[B]) = 1
      BY <2>2, <3>1
    <3>. QED
      BY <2>1, <2>5, <3>2 DEF OneWord, One
  <2>. QED
    BY <2>3, <2>4, <2>5
<1>6. CASE Rewrite
  <2>1. chan'[B] = <<>> /\ tx'.pc = "send"
    BY <1>0, <1>6, SideFacts DEF Rewrite, Goto
  <2>2. Len(chan'[B]) = 0
    BY <2>1
  <2>3. One(tx'.pc \in {"choose", "pick", "clear", "rewrite"}) = 0
    BY <2>1 DEF One
  <2>. QED
    BY <2>2, <2>3 DEF OneWord
<1>7. CASE Depart \/ HostReceive \/ LoseToHost \/ LoseFromHost \/ UNCHANGED vars
  <2>1. chan'[B] = chan[B] /\ UNCHANGED tx
    BY <1>0, <1>7, SideFacts, EndsAssumption
    DEF Depart, HostReceive, LoseToHost, LoseFromHost, vars, machineVars
  <2>. QED
    BY <1>1, <2>1
<1>8. CASE HostSend
  <2>1. UNCHANGED tx /\ \E kind \in HostKinds : NextSend(B, kind, TRUE, 0)
    BY <1>8 DEF HostSend
  <2>2. UNCHANGED chan \/ \E m \in Packet : Transmit(B, m)
    BY <1>0, <2>1, SideFacts, NextSendSays
  <2>3. chan'[B] = chan[B]
    BY <1>0, <2>2, SideFacts, EndsAssumption DEF Transmit, Peer
  <2>. QED
    BY <1>1, <2>1, <2>3
<1>. QED
  BY <1>2, <1>3, <1>4, <1>5, <1>6, <1>7, <1>8 DEF Next, Context0Step

-----------------------------------------------------------------------------
(* The invariant.                                                           *)

LEMMA NumericHolds == Numeric /\ IsFiniteSet(Receivers)
<1>1. IsFiniteSet(Receivers) /\ MyValue[A] \in Nat
  BY ThreadAssumption, SideFacts
<1>. QED
  BY <1>1, FS_CardinalityType, CountMaxAssumption DEF Numeric, Contexts

LEMMA OneFacts == \A b : One(b) \in {0, 1} /\ (b => One(b) = 1) /\ (~b => One(b) = 0)
BY DEF One

\* S stands for Signalling, T for what a step makes of it.
LEMMA CountedCalls ==
  ASSUME NEW S, S \subseteq Receivers, NEW T, T \subseteq Receivers
  PROVE  /\ Cardinality(S) \in Nat /\ Cardinality(T) \in Nat
         /\ \A r : T \subseteq S \cup {r} => Cardinality(T) <= Cardinality(S) + 1
         /\ \A r \in S : T = S \ {r} => Cardinality(T) + 1 = Cardinality(S)
<1>1. IsFiniteSet(S) /\ IsFiniteSet(T)
  BY NumericHolds, FS_Subset
<1>2. Cardinality(S) \in Nat /\ Cardinality(T) \in Nat
  BY <1>1, FS_CardinalityType
<1>3. ASSUME NEW r, T \subseteq S \cup {r}
      PROVE  Cardinality(T) <= Cardinality(S) + 1
  <2>1. /\ IsFiniteSet(S \cup {r})
        /\ Cardinality(S \cup {r}) = IF r \in S THEN Cardinality(S) ELSE Cardinality(S) + 1
    BY <1>1, FS_AddElement
  <2>2. Cardinality(T) <= Cardinality(S \cup {r})
    BY <1>3, <2>1, FS_Subset
  <2>. QED
    BY <1>2, <2>1, <2>2
<1>4. ASSUME NEW r \in S, T = S \ {r}
      PROVE  Cardinality(T) + 1 = Cardinality(S)
  <2>1. Cardinality(S \ {r}) = Cardinality(S) - 1
    BY <1>1, FS_RemoveElement
  <2>. QED
    BY <1>2, <1>4, <2>1
<1>. QED
  BY <1>2, <1>3, <1>4

LEMMA DueNumbers ==
  /\ DueAtA \in Nat /\ DueAtB \in Nat /\ DueAtA' \in Nat /\ DueAtB' \in Nat
<1>1. Signalling \subseteq Receivers /\ Signalling' \subseteq Receivers
  BY DEF Signalling
<1>2. PICK S, T : S = Signalling /\ T = Signalling'
  OBVIOUS
<1>3. Cardinality(S) \in Nat /\ Cardinality(T) \in Nat
  BY <1>1, <1>2, CountedCalls
<1>. QED
  BY <1>2, <1>3, OneFacts DEF DueAtA, DueAtB

\* The same calls are due, or fewer.
LEMMA DueAtARises ==
  ASSUME TInv
  PROVE  /\ UNCHANGED <<rx, sig, tx>> => DueAtA' = DueAtA
         /\ UNCHANGED <<rx, sig>> /\ tx.pc # "call" /\ tx'.pc # "call" => DueAtA' = DueAtA
         /\ UNCHANGED <<rx, sig>> /\ tx.pc = "call" /\ tx'.pc # "call" => DueAtA' < DueAtA
         /\ WaitWithTimeout => DueAtA' <= DueAtA
         /\ \A r \in Receivers : Hello(r) \/ SignalContext0(r) => DueAtA' <= DueAtA
         /\ \A r \in Receivers : Take(r) => DueAtA' = DueAtA
         /\ \A r \in Receivers, st \in {"signalling", "idle"} :
              UNCHANGED <<sig, tx>> /\ rx[r] = "reading" /\ rx' = [rx EXCEPT ![r] = st]
              => DueAtA' <= DueAtA + 1
<1>0. /\ rx \in [Receivers -> {"start", "idle", "reading", "signalling"}]
      /\ sig \in BOOLEAN
      /\ tx \in [pc : {"wait", "call", "choose", "pick", "clear", "rewrite", "send"},
                 buf : Buffers \cup {Own, NoBuffer}, free : BOOLEAN]
  BY DEF TInv, TypeOK
<1>1. PICK S, T : S = Signalling /\ T = Signalling'
  OBVIOUS
<1>2. S \subseteq Receivers /\ T \subseteq Receivers
  BY <1>1 DEF Signalling
<1>3. /\ Cardinality(S) \in Nat /\ Cardinality(T) \in Nat
      /\ \A r : T \subseteq S \cup {r} => Cardinality(T) <= Cardinality(S) + 1
      /\ \A r \in S : T = S \ {r} => Cardinality(T) + 1 = Cardinality(S)
  BY <1>2, CountedCalls
<1>4. /\ DueAtA = Cardinality(S) + One(sig) + One(tx.pc = "call")
      /\ DueAtA' = Cardinality(T) + One(sig') + One(tx'.pc = "call")
  BY <1>1 DEF DueAtA
<1>5. /\ One(sig) \in {0, 1} /\ One(sig') \in {0, 1}
      /\ One(tx.pc = "call") \in {0, 1} /\ One(tx'.pc = "call") \in {0, 1}
  BY OneFacts
<1>6. ASSUME UNCHANGED rx PROVE T = S
  BY <1>1, <1>6 DEF Signalling
<1>7. UNCHANGED <<rx, sig, tx>> => DueAtA' = DueAtA
  BY <1>4, <1>6
<1>8. UNCHANGED <<rx, sig>> /\ tx.pc # "call" /\ tx'.pc # "call" => DueAtA' = DueAtA
  BY <1>4, <1>6, OneFacts
<1>9. ASSUME UNCHANGED <<rx, sig>>, tx.pc = "call", tx'.pc # "call"
      PROVE  DueAtA' < DueAtA
  <2>1. One(tx.pc = "call") = 1 /\ One(tx'.pc = "call") = 0 /\ One(sig') = One(sig) /\ T = S
    BY <1>6, <1>9, OneFacts
  <2>. QED
    BY <1>3, <1>4, <1>5, <2>1
<1>10. ASSUME WaitWithTimeout PROVE DueAtA' <= DueAtA
  <2>1. tx.pc = "wait" /\ sig /\ ~sig' /\ UNCHANGED rx
    BY <1>10 DEF WaitWithTimeout
  <2>2. One(sig) = 1
    BY <2>1, Zenon DEF One
  <2>3. One(sig') = 0
    BY <2>1, Zenon DEF One
  <2>4. One(tx.pc = "call") = 0
    BY <2>1 DEF One
  <2>5. Cardinality(T) = Cardinality(S)
    BY <1>6, <2>1
  <2>. QED
    BY <1>3, <1>4, <1>5, <2>2, <2>3, <2>4, <2>5
<1>11. ASSUME NEW r \in Receivers, Hello(r) \/ SignalContext0(r) PROVE DueAtA' <= DueAtA
  <2>1. /\ rx[r] \in {"start", "signalling"} /\ rx' = [rx EXCEPT ![r] = "idle"]
        /\ UNCHANGED tx
    BY <1>11 DEF Hello, SignalContext0
  <2>2. r \in S /\ T = S \ {r}
    BY <1>0, <1>1, <2>1 DEF Signalling
  <2>3. Cardinality(T) + 1 = Cardinality(S)
    BY <1>3, <2>2
  <2>4. One(tx'.pc = "call") = One(tx.pc = "call")
    BY <2>1
  <2>. QED
    BY <1>3, <1>4, <1>5, <2>3, <2>4
<1>12. ASSUME NEW r \in Receivers, Take(r) PROVE DueAtA' = DueAtA
  <2>1. rx[r] = "idle" /\ rx' = [rx EXCEPT ![r] = "reading"] /\ UNCHANGED <<sig, tx>>
    BY <1>12 DEF Take
  <2>2. T = S
    BY <1>0, <1>1, <2>1 DEF Signalling
  <2>. QED
    BY <1>4, <2>1, <2>2
<1>13. ASSUME NEW r \in Receivers, NEW st \in {"signalling", "idle"},
              UNCHANGED <<sig, tx>>, rx[r] = "reading", rx' = [rx EXCEPT ![r] = st]
       PROVE  DueAtA' <= DueAtA + 1
  <2>1. T \subseteq S \cup {r}
    BY <1>0, <1>1, <1>13 DEF Signalling
  <2>2. Cardinality(T) <= Cardinality(S) + 1
    BY <1>3, <2>1
  <2>3. One(sig') = One(sig) /\ One(tx'.pc = "call") = One(tx.pc = "call")
    BY <1>13
  <2>. QED
    BY <1>3, <1>4, <1>5, <2>2, <2>3
<1>. QED
  BY <1>7, <1>8, <1>9, <1>10, <1>11, <1>12, <1>13

LEMMA PhaseInit == Init => PhaseInv /\ OneWord
<1>. SUFFICES ASSUME Init PROVE PhaseInv /\ OneWord
  OBVIOUS
<1>1. /\ mcn[A] = Booted(MyValue[A]) /\ mcn[B] = Booted(MyValue[B])
      /\ chan[A] = <<>> /\ chan[B] = <<>> /\ line = <<>> /\ egress = <<>> /\ wire = <<>>
      /\ tx.pc = "wait" /\ ~sig /\ ~heard
  BY SideFacts DEF Init
<1>2. Len(chan[B]) = 0
  BY <1>1
<1>3. OneWord
  BY <1>1, <1>2, OneFacts DEF OneWord
<1>4. Standing(content, <<>>) = <<>>
  BY DEF Standing
<1>5. TowardsA = <<>> /\ TowardsB = <<>>
  BY <1>1, <1>4 DEF TowardsA, TowardsB, Word
<1>6. Len(TowardsA) = 0 /\ Len(TowardsB) = 0
  BY <1>5
<1>7. Signalling = Receivers
  BY DEF Init, Signalling
<1>8. DueAtA = Contexts /\ DueAtB = 0 /\ Contexts \in Nat
  <2>1. Contexts \in Nat
    BY NumericHolds DEF Numeric
  <2>2. One(sig) = 0 /\ One(tx.pc = "call") = 0 /\ One(heard) = 0
    <3>1. One(sig) = 0 /\ One(heard) = 0
      BY <1>1, Zenon DEF One
    <3>2. One(tx.pc = "call") = 0
      BY <1>1 DEF One
    <3>. QED
      BY <3>1, <3>2
  <2>. QED
    BY <1>7, <2>1, <2>2 DEF DueAtA, DueAtB, Contexts
<1>9. Greeting(mcn[A], mcn[B], TowardsA, TowardsB, DueAtA, DueAtB)
  BY <1>1, <1>6, <1>8 DEF Greeting, Booted
<1>10. ~mcn[A].failed /\ ~mcn[B].failed
  BY <1>1 DEF Booted
<1>. QED
  BY <1>3, <1>9, <1>10 DEF PhaseInv, Phase

\* What the invariant says of a link nothing has gone wrong on.
Regular ==
  /\ ~mcn[A].failed /\ ~mcn[B].failed
  /\ Phase(mcn[A], mcn[B], TowardsA, TowardsB, DueAtA, DueAtB)

LEMMA RegularFacts ==
  ASSUME TInv
  PROVE  /\ Numeric /\ mcn[A] \in Machine /\ mcn[B] \in Machine
         /\ Len(TowardsA) \in Nat /\ Len(TowardsB) \in Nat
         /\ DueAtA \in Nat /\ DueAtB \in Nat
<1>1. Len(TowardsA) \in Nat /\ Len(TowardsB) \in Nat
  <2>1. TowardsA \in Seq(Packet) /\ TowardsB \in Seq(Packet)
    BY ChainTypes
  <2>. QED
    BY <2>1
<1>2. mcn[A] \in Machine /\ mcn[B] \in Machine
  BY SideFacts DEF TInv, TypeOK
<1>. QED
  BY <1>1, <1>2, NumericHolds, DueNumbers

\* Steps that neither move a packet nor call the library.
LEMMA QuietStep ==
  ASSUME TInv, Regular, UNCHANGED <<mcn, TowardsA, TowardsB, DueAtB>>, DueAtA' <= DueAtA
  PROVE  Regular'
<1>1. PICK d : d = DueAtA'
  OBVIOUS
<1>2. d \in Nat /\ d <= DueAtA
  BY <1>1, DueNumbers
<1>3. Phase(mcn[A], mcn[B], TowardsA, TowardsB, d, DueAtB)
  BY <1>2, RegularFacts, FewerCalls DEF Regular
<1>. QED
  BY <1>1, <1>3 DEF Regular

LEMMA LossStep ==
  ASSUME TInv, Regular, LoseToHost \/ LoseFromHost
  PROVE  Regular'
<1>1. UNCHANGED <<mcn, rx, sig, tx, heard>>
  BY DEF LoseToHost, LoseFromHost, machineVars
<1>2. DueAtA' = DueAtA /\ DueAtB' = DueAtB
  BY <1>1, DueAtARises DEF DueAtB
<1>3. CASE UNCHANGED TowardsA /\ Cut(TowardsB, TowardsB')
  <2>1. PICK r : r = TowardsB'
    OBVIOUS
  <2>2. Phase(mcn[A], mcn[B], TowardsA, r, DueAtA, DueAtB)
    BY <1>3, <2>1, RegularFacts, PhaseCut DEF Regular
  <2>. QED
    BY <1>1, <1>2, <1>3, <2>1, <2>2 DEF Regular
<1>4. CASE UNCHANGED TowardsB /\ Cut(TowardsA, TowardsA')
  <2>1. PICK r : r = TowardsA'
    OBVIOUS
  <2>2. Phase(mcn[A], mcn[B], r, TowardsB, DueAtA, DueAtB)
    BY <1>4, <2>1, RegularFacts, PhaseCut DEF Regular
  <2>. QED
    BY <1>1, <1>2, <1>4, <2>1, <2>2 DEF Regular
<1>. QED
  BY <1>3, <1>4, LossMoves

LEMMA DeliverStep ==
  ASSUME RegularStart, TInv, Regular, NEW r \in Receivers, Deliver(r), ~overtaken'
  PROVE  Regular'
<1>1. PICK m \in Packet : Received(A, m, FALSE) /\ Popped(TowardsA, TowardsA', m)
  BY DeliverMoves
<1>2. UNCHANGED <<TowardsB, sig, tx, heard>> /\ DueAtA' <= DueAtA + 1
  BY DeliverMoves, DueAtARises
<1>3. Typed /\ m.value \in Nat
  BY DEF TInv, TypeOK, Typed, Packet
<1>4. mcn'[A] \in Machine /\ mcn'[B] = mcn[B]
  <2>1. Typed'
    BY <1>1, <1>3, SideFacts, ReceivedType
  <2>2. mcn'[Peer(A)] = mcn[Peer(A)]
    BY <1>1, <1>3, SideFacts, ReceivedHere
  <2>. QED
    BY <2>1, <2>2, SideFacts DEF Typed, Peer
<1>5. Hears(A, mcn[A], mcn'[A], m)
  BY <1>1, <1>3, SideFacts, ReceivedHears
<1>6. PICK p, q, d : p = mcn'[A] /\ q = TowardsA' /\ d = DueAtA'
  OBVIOUS
<1>7. p \in Machine /\ d \in Nat /\ d <= DueAtA + 1
  BY <1>2, <1>4, <1>6, DueNumbers
<1>8. /\ p.failed = mcn[A].failed
      /\ Phase(p, mcn[B], q, TowardsB, d, DueAtB)
  <2>1. PICK na, nb, qa, qb, da, db :
          /\ na = mcn[A] /\ nb = mcn[B] /\ qa = TowardsA /\ qb = TowardsB
          /\ da = DueAtA /\ db = DueAtB
    OBVIOUS
  <2>2. /\ Numeric /\ na \in Machine /\ nb \in Machine /\ Len(qb) \in Nat
        /\ da \in Nat /\ db \in Nat
    BY <2>1, RegularFacts
  <2>3. Phase(na, nb, qa, qb, da, db) /\ Popped(qa, q, m) /\ Hears(A, na, p, m)
    BY <1>1, <1>5, <1>6, <2>1 DEF Regular
  <2>4. p \in Machine /\ d \in Nat /\ d <= da + 1 /\ m.value \in Nat
    BY <1>3, <1>7, <2>1
  <2>5. p.failed = na.failed /\ Phase(p, nb, q, qb, d, db)
    BY <2>2, <2>3, <2>4, PhaseHearsA
  <2>. QED
    BY <2>1, <2>5
<1>9. DueAtB' = DueAtB
  BY <1>2 DEF DueAtB
<1>. QED
  BY <1>2, <1>4, <1>6, <1>8, <1>9 DEF Regular

LEMMA HostReceiveStep ==
  ASSUME RegularStart, TInv, Regular, HostReceive
  PROVE  Regular'
<1>1. /\ wire # <<>> /\ wire' = Tail(wire) /\ Received(B, Head(wire), FALSE)
      /\ UNCHANGED <<content, line, chan, egress, tx, rx, sig>>
  BY DEF HostReceive
<1>2. PICK m \in Packet : m = Head(wire)
  BY <1>1, WireMoves
<1>3. UNCHANGED TowardsA /\ Popped(TowardsB, TowardsB', m)
  BY <1>1, <1>2, WireMoves
<1>4. Typed /\ m.value \in Nat /\ Received(B, m, FALSE)
  BY <1>1, <1>2 DEF TInv, TypeOK, Typed, Packet
<1>5. mcn'[B] \in Machine /\ mcn'[A] = mcn[A]
  <2>1. Typed'
    BY <1>4, SideFacts, ReceivedType
  <2>2. mcn'[Peer(B)] = mcn[Peer(B)]
    BY <1>4, SideFacts, ReceivedHere
  <2>. QED
    BY <2>1, <2>2, SideFacts, EndsAssumption DEF Typed, Peer
<1>6. Hears(B, mcn[B], mcn'[B], m)
  BY <1>4, SideFacts, ReceivedHears
<1>7. PICK p, q, d : p = mcn'[B] /\ q = TowardsB' /\ d = DueAtB'
  OBVIOUS
<1>8. p \in Machine /\ d \in Nat /\ d <= DueAtB + 1
  <2>1. DueAtB \in Nat /\ DueAtB' \in {0, 1}
    BY DueNumbers, OneFacts DEF DueAtB
  <2>. QED
    BY <1>5, <1>7, <2>1
<1>9. /\ p.failed = mcn[B].failed
      /\ Phase(mcn[A], p, TowardsA, q, DueAtA, d)
  <2>1. PICK na, nb, qa, qb, da, db :
          /\ na = mcn[A] /\ nb = mcn[B] /\ qa = TowardsA /\ qb = TowardsB
          /\ da = DueAtA /\ db = DueAtB
    OBVIOUS
  <2>2. /\ Numeric /\ na \in Machine /\ nb \in Machine /\ Len(qa) \in Nat
        /\ da \in Nat /\ db \in Nat
    BY <2>1, RegularFacts
  <2>3. Phase(na, nb, qa, qb, da, db) /\ Popped(qb, q, m) /\ Hears(B, nb, p, m)
    BY <1>3, <1>6, <1>7, <2>1 DEF Regular
  <2>4. p \in Machine /\ d \in Nat /\ d <= db + 1 /\ m.value \in Nat
    BY <1>4, <1>8, <2>1
  <2>5. p.failed = nb.failed /\ Phase(na, p, qa, q, da, d)
    BY <2>2, <2>3, <2>4, PhaseHearsB
  <2>. QED
    BY <2>1, <2>5
<1>10. DueAtA' = DueAtA
  BY <1>1, DueAtARises
<1>. QED
  BY <1>3, <1>5, <1>7, <1>9, <1>10 DEF Regular

LEMMA CallStep ==
  ASSUME TInv, OneWord, Regular, Call
  PROVE  Regular'
<1>1. /\ tx.pc = "call" /\ NextSend(A, "NONE", TRUE, 0)
      /\ tx'.pc = IF act'[A] = {} THEN "wait" ELSE "choose"
      /\ UNCHANGED <<content, line, wire, egress, rx, sig, heard>>
  BY DEF Call, Goto, bufferVars, TInv, TypeOK
<1>2. Typed
  BY DEF TInv, TypeOK, Typed
<1>3. mcn'[B] = mcn[B]
  <2>1. mcn'[Peer(A)] = mcn[Peer(A)]
    BY <1>1, <1>2, SideFacts, NextSendHere
  <2>. QED
    BY <2>1 DEF Peer
<1>4. tx'.pc # "call" /\ tx'.pc # "send" /\ tx.pc # "send"
  BY <1>1
<1>5. DueAtA' < DueAtA /\ DueAtB' = DueAtB
  BY <1>1, <1>4, DueAtARises DEF DueAtB
<1>6. Says(mcn[A], mcn'[A], TowardsB, TowardsB') /\ UNCHANGED TowardsA
  <2>1. CASE /\ UNCHANGED chan
             /\ ~mcn[A].failed => mcn[A].state \in Awaiting /\ mcn'[A] = mcn[A]
    <3>1. UNCHANGED <<TowardsA, TowardsB>>
      BY <1>1, <1>4, <2>1, NothingMoves
    <3>. QED
      BY <2>1, <3>1 DEF Says, Regular
  <2>2. ASSUME NEW m \in Packet, Transmit(A, m),
               \/ mcn[A].state = "HELLO" /\ m = Pkt("HELLO", mcn[A].value)
                  /\ mcn'[A] = mcn[A]
               \/ mcn[A].state = "WAIT" /\ m = Invitation /\ mcn'[A] = mcn[A]
               \/ Gives(mcn[A], mcn'[A], m)
        PROVE  Says(mcn[A], mcn'[A], TowardsB, TowardsB') /\ UNCHANGED TowardsA
    <3>1. UNCHANGED TowardsA /\ Pushed(TowardsB, TowardsB', m)
      BY <1>1, <1>4, <2>2, CallMoves
    <3>. QED
      BY <2>2, <3>1 DEF Says
  <2>. QED
    BY <1>1, <1>2, <2>1, <2>2, SideFacts, NextSendSays
<1>7. PICK p, q, d : p = mcn'[A] /\ q = TowardsB' /\ d = DueAtA'
  OBVIOUS
<1>8. d \in Nat /\ d < DueAtA
  BY <1>5, <1>7, DueNumbers
<1>9. /\ p.failed = mcn[A].failed
      /\ Phase(p, mcn[B], TowardsA, q, d, DueAtB)
  BY <1>6, <1>7, <1>8, RegularFacts, PhaseSaysA DEF Regular
<1>. QED
  BY <1>3, <1>5, <1>6, <1>7, <1>9 DEF Regular

LEMMA HostSendStep ==
  ASSUME TInv, Regular, HostSend
  PROVE  Regular'
<1>1. /\ heard /\ ~heard' /\ UNCHANGED <<content, line, wire, egress, rx, sig, tx>>
  BY DEF HostSend, bufferVars
<1>2. PICK kind \in HostKinds : NextSend(B, kind, TRUE, 0)
  BY DEF HostSend
<1>3. Typed
  BY DEF TInv, TypeOK, Typed
<1>4. mcn'[A] = mcn[A]
  <2>1. mcn'[Peer(B)] = mcn[Peer(B)]
    BY <1>2, <1>3, SideFacts, NextSendHere
  <2>. QED
    BY <2>1, EndsAssumption DEF Peer
<1>5. DueAtB' < DueAtB /\ DueAtA' = DueAtA
  <2>1. One(heard) = 1
    BY <1>1, Zenon DEF One
  <2>2. One(heard') = 0
    BY <1>1, Zenon DEF One
  <2>3. DueAtA' = DueAtA
    BY <1>1, DueAtARises
  <2>. QED
    BY <2>1, <2>2, <2>3 DEF DueAtB
<1>6. Says(mcn[B], mcn'[B], TowardsA, TowardsA') /\ UNCHANGED TowardsB
  <2>1. CASE /\ UNCHANGED chan
             /\ ~mcn[B].failed => mcn[B].state \in Awaiting /\ mcn'[B] = mcn[B]
    <3>1. UNCHANGED <<TowardsA, TowardsB>>
      BY <1>1, <2>1, NothingMoves
    <3>. QED
      BY <2>1, <3>1 DEF Says, Regular
  <2>2. ASSUME NEW m \in Packet, Transmit(B, m),
               \/ mcn[B].state = "HELLO" /\ m = Pkt("HELLO", mcn[B].value)
                  /\ mcn'[B] = mcn[B]
               \/ mcn[B].state = "WAIT" /\ m = Invitation /\ mcn'[B] = mcn[B]
               \/ Gives(mcn[B], mcn'[B], m)
        PROVE  Says(mcn[B], mcn'[B], TowardsA, TowardsA') /\ UNCHANGED TowardsB
    <3>1. UNCHANGED TowardsB /\ Pushed(TowardsA, TowardsA', m)
      BY <1>1, <2>2, HostSendMoves
    <3>. QED
      BY <2>2, <3>1 DEF Says
  <2>. QED
    BY <1>2, <1>3, <2>1, <2>2, SideFacts, NextSendSays
<1>7. PICK p, q, d : p = mcn'[B] /\ q = TowardsA' /\ d = DueAtB'
  OBVIOUS
<1>8. d \in Nat /\ d < DueAtB
  BY <1>5, <1>7, DueNumbers
<1>9. /\ p.failed = mcn[B].failed
      /\ Phase(mcn[A], p, q, TowardsB, DueAtA, d)
  BY <1>6, <1>7, <1>8, RegularFacts, PhaseSaysB DEF Regular
<1>. QED
  BY <1>4, <1>5, <1>6, <1>7, <1>9 DEF Regular

LEMMA RegularNext ==
  ASSUME RegularStart, TInv, OInv, OneWord, Regular, [Next]_vars, ~overtaken', ~overwrote'
  PROVE  Regular'
<1>0. tx \in [pc : {"wait", "call", "choose", "pick", "clear", "rewrite", "send"},
              buf : Buffers \cup {Own, NoBuffer}, free : BOOLEAN]
      /\ DueAtA \in Nat
  BY DueNumbers DEF TInv, TypeOK
<1>1. ASSUME NEW r \in Receivers, Hello(r) \/ SignalContext0(r)
      PROVE  Regular'
  <2>1. UNCHANGED <<mcn, content, line, chan, wire, egress, tx, heard>>
    BY <1>1 DEF Hello, SignalContext0, machineVars, bufferVars
  <2>. QED
    BY <1>1, <2>1, NothingMoves, DueAtARises, QuietStep DEF DueAtB
<1>2. ASSUME NEW r \in Receivers, Take(r)
      PROVE  Regular'
  <2>1. UNCHANGED <<mcn, heard>>
    BY <1>2 DEF Take
  <2>2. DueAtA' <= DueAtA
    BY <1>0, <1>2, DueAtARises
  <2>. QED
    BY <1>2, <2>1, <2>2, TakeMoves, QuietStep DEF DueAtB
<1>3. CASE WaitWithTimeout
  <2>1. /\ UNCHANGED <<mcn, content, line, chan, wire, egress, heard>>
        /\ tx.pc # "send" /\ tx'.pc # "send"
    BY <1>0, <1>3 DEF WaitWithTimeout, Goto, machineVars, bufferVars
  <2>. QED
    BY <1>3, <2>1, NothingMoves, DueAtARises, QuietStep DEF DueAtB
<1>4. CASE Ring \/ ChooseOwn \/ ChooseKept \/ Pick \/ Clear
  <2>1. /\ UNCHANGED <<mcn, content, line, chan, wire, egress, heard, rx, sig>>
        /\ tx.pc \notin {"send", "call"} /\ tx'.pc \notin {"send", "call"}
    BY <1>0, <1>4 DEF Ring, ChooseOwn, ChooseKept, Pick, Clear, Goto, machineVars, bufferVars
  <2>2. DueAtA' <= DueAtA
    BY <1>0, <2>1, DueAtARises
  <2>. QED
    BY <2>1, <2>2, NothingMoves, QuietStep DEF DueAtB
<1>5. CASE Rewrite \/ SendPacket
  <2>1. /\ UNCHANGED <<mcn, heard, rx, sig>>
        /\ tx.pc # "call" /\ tx'.pc # "call"
    BY <1>0, <1>5 DEF Rewrite, SendPacket, Goto, machineVars
  <2>2. DueAtA' <= DueAtA
    BY <1>0, <2>1, DueAtARises
  <2>3. UNCHANGED <<TowardsA, TowardsB>>
    BY <1>5, RewriteMoves, SendPacketMoves
  <2>. QED
    BY <2>1, <2>2, <2>3, QuietStep DEF DueAtB
<1>6. CASE Depart
  <2>1. UNCHANGED <<mcn, heard, rx, sig, tx>>
    BY <1>6 DEF Depart, machineVars
  <2>2. DueAtA' <= DueAtA
    BY <1>0, <2>1, DueAtARises
  <2>. QED
    BY <1>6, <2>1, <2>2, DepartMoves, QuietStep DEF DueAtB
<1>7. CASE UNCHANGED vars
  <2>1. UNCHANGED <<mcn, content, line, chan, wire, egress, tx, heard, rx, sig>>
    BY <1>7 DEF vars, machineVars, bufferVars
  <2>2. DueAtA' <= DueAtA
    BY <1>0, <2>1, DueAtARises
  <2>. QED
    BY <2>1, <2>2, NothingMoves, QuietStep DEF DueAtB
<1>. QED
  BY <1>1, <1>2, <1>3, <1>4, <1>5, <1>6, <1>7,
     DeliverStep, CallStep, HostReceiveStep, HostSendStep, LossStep
  DEF Next, ReceiverStep, Context0Step

\* What has gone wrong stays so.
LEMMA HistoryKept ==
  ASSUME [Next]_vars
  PROVE  (overtaken => overtaken') /\ (overwrote => overwrote')
<1>1. ASSUME UNCHANGED history
      PROVE  (overtaken => overtaken') /\ (overwrote => overwrote')
  <2>1. overtaken' = overtaken /\ overwrote' = overwrote
    BY <1>1 DEF history
  <2>. QED
    BY <2>1, Zenon
<1>2. ASSUME NEW r \in Receivers, Deliver(r)
      PROVE  (overtaken => overtaken') /\ (overwrote => overwrote')
  <2>1. PICK i \in DOMAIN line :
          overtaken' = (overtaken \/ i # 1) /\ overwrote' = overwrote
    BY <1>2, Zenon DEF Deliver
  <2>. QED
    BY <2>1, Zenon
<1>3. ASSUME Rewrite
      PROVE  (overtaken => overtaken') /\ (overwrote => overwrote')
  <2>1. /\ overtaken' = overtaken
        /\ overwrote' = (overwrote
             \/ \E i \in DOMAIN egress :
                   egress[i].buf = tx.buf /\ content[tx.buf] # Head(chan[B]))
    BY <1>3, Zenon DEF Rewrite
  <2>. QED
    BY <2>1, Zenon
<1>4. ASSUME NEW r \in Receivers, Hello(r) \/ Take(r) \/ SignalContext0(r)
      PROVE  UNCHANGED history
  BY <1>4, Zenon DEF Hello, Take, SignalContext0
<1>5. ASSUME \/ WaitWithTimeout \/ Call \/ ChooseOwn \/ ChooseKept \/ Pick \/ Clear
             \/ SendPacket
      PROVE  UNCHANGED history
  BY <1>5, Zenon DEF WaitWithTimeout, Call, ChooseOwn, ChooseKept, Pick, Clear, SendPacket
<1>6. ASSUME Ring \/ Depart \/ HostReceive \/ HostSend \/ LoseToHost \/ LoseFromHost
      PROVE  UNCHANGED history
  BY <1>6, Zenon DEF Ring, Depart, HostReceive, HostSend, LoseToHost, LoseFromHost
<1>7. ASSUME UNCHANGED vars PROVE UNCHANGED history
  BY <1>7 DEF vars
<1>. QED
  BY <1>1, <1>2, <1>3, <1>4, <1>5, <1>6, <1>7 DEF Next, ReceiverStep, Context0Step

\* No wake-up too many, no interleaving of the contexts, the NBI and the host
\* and no loss on the wire is a sequence error at either end, for any number of
\* contexts up to one more than an end in WAIT counts greetings, unless a packet
\* overtakes another or is written over: then both ends stay in step, as their
\* event numbers and the packets in all buffers and queues between them show.
THEOREM ThreadsStayInStep == ASSUME RegularStart PROVE Spec => []NoSequenceError
<1>1. Init => PhaseInv /\ OneWord
  BY PhaseInit
<1>2. TInv /\ OInv /\ PhaseInv /\ OneWord /\ [Next]_vars => PhaseInv' /\ OneWord'
  <2>. SUFFICES ASSUME TInv, OInv, PhaseInv, OneWord, [Next]_vars
       PROVE  PhaseInv' /\ OneWord'
    OBVIOUS
  <2>1. OneWord'
    BY OneWordNext
  <2>2. ASSUME ~overtaken', ~overwrote'
        PROVE  Regular'
    <3>1. ~overtaken /\ ~overwrote
      BY <2>2, HistoryKept
    <3>2. Regular
      BY <3>1 DEF PhaseInv, Regular
    <3>. QED
      BY <2>2, <3>2, RegularNext
  <2>3. PhaseInv'
    BY <2>2 DEF PhaseInv, Regular
  <2>. QED
    BY <2>1, <2>3
<1>3. PhaseInv => NoSequenceError
  BY DEF PhaseInv, NoSequenceError, Side
<1>. QED
  BY <1>1, <1>2, <1>3, TypesHold, OwnersHold, PTL DEF Spec
=============================================================================
