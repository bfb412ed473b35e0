-------------------------- MODULE EntlRegularLinkProofs --------------------------
(***************************************************************************)
(* A regular link never fails and never has two holders of the token: the  *)
(* invariant IInv of EntlRegularLink is inductive.  It implements          *)
(* AitTransfer: AgreementInv is inductive together with IInv.              *)
(*                                                                         *)
(* The proof has one lemma per phase and action; each of them shows that   *)
(* the step leads into a phase and leaves both machines sound.             *)
(***************************************************************************)
EXTENDS EntlRegularLink, EntlLinkProofs

Sound == \A s \in Side : ~mcn[s].failed /\ mcn[s].value = MyValue[s]

LEMMA EndsFacts ==
  /\ Upper \in Side /\ Lower \in Side /\ Upper # Lower
  /\ Peer(Upper) = Lower /\ Peer(Lower) = Upper
  /\ \A s \in Side : s = Upper \/ s = Lower
  /\ MyValue[Upper] > MyValue[Lower]
  /\ \A s \in Side : MyValue[s] \in Nat
<1>1. MyValue[A] \in Nat /\ MyValue[B] \in Nat /\ MyValue[A] # MyValue[B]
  BY CallerAssumption, RegularAssumption, SideFacts
<1>2. CASE MyValue[A] > MyValue[B]
  BY <1>1, <1>2, EndsAssumption DEF Upper, Lower, Side, Peer
<1>3. CASE ~(MyValue[A] > MyValue[B])
  BY <1>1, <1>3, EndsAssumption DEF Upper, Lower, Side, Peer
<1>. QED
  BY <1>2, <1>3

-----------------------------------------------------------------------------
(* What a step does to the wire and to the other end.                       *)

\* One packet leaves the wire towards s, and only s may move.
Consumed(s) ==
  /\ chan[s] # <<>>
  /\ Places(s)' = 1 .. Len(chan[s]) - 1
  /\ Len(chan[s])' = Len(chan[s]) - 1
  /\ \A i \in Places(s)' : chan'[s][i] = chan[s][i + 1] /\ i + 1 \in Places(s)
  /\ 1 \in Places(s)
  /\ chan'[Peer(s)] = chan[Peer(s)]
  /\ mcn'[Peer(s)] = mcn[Peer(s)]
  /\ wake'[Peer(s)] = wake[Peer(s)]

LEMMA ConsumedByTail ==
  ASSUME TypeOK, NEW s \in Side, chan[s] # <<>>,
         chan' = [chan EXCEPT ![s] = Tail(@)],
         mcn'[Peer(s)] = mcn[Peer(s)], wake'[Peer(s)] = wake[Peer(s)]
  PROVE  Consumed(s) /\ Head(chan[s]) = chan[s][1] /\ chan[s][1] \in Packet
<1>1. chan[s] \in Seq(Packet) /\ Peer(s) # s /\ Peer(s) \in Side
  BY SideFacts DEF TypeOK
<1>2. chan'[s] = Tail(chan[s]) /\ chan'[Peer(s)] = chan[Peer(s)]
  BY <1>1 DEF TypeOK
<1>3. /\ Head(chan[s]) = chan[s][1] /\ 1 \in 1 .. Len(chan[s]) /\ chan[s][1] \in Packet
      /\ Len(Tail(chan[s])) = Len(chan[s]) - 1
      /\ \A i \in 1 .. Len(chan[s]) - 1 :
           Tail(chan[s])[i] = chan[s][i + 1] /\ i + 1 \in 1 .. Len(chan[s])
  BY <1>1, TailFacts
<1>. QED
  BY <1>2, <1>3 DEF Consumed, Places

LEMMA ConsumedByReceive ==
  ASSUME TypeOK, NEW s \in Side, Receive(s)
  PROVE  /\ Consumed(s)
         /\ chan[s][1] \in Packet
         /\ \E full \in FullReports(s) : Received(s, chan[s][1], full)
<1>1. PICK full \in FullReports(s) : Received(s, Head(chan[s]), full)
  BY DEF Receive
<1>2. mcn'[Peer(s)] = mcn[Peer(s)]
  BY <1>1, ReceivedOnlyHere
<1>3. wake'[Peer(s)] = wake[Peer(s)]
  BY SideFacts DEF Receive, TypeOK
<1>. QED
  BY <1>1, <1>2, <1>3, ConsumedByTail DEF Receive

LEMMA ConsumedByLose ==
  ASSUME TypeOK, NEW s \in Side, Lose(s)
  PROVE  Consumed(s) /\ mcn' = mcn /\ wake' = wake
BY ConsumedByTail DEF Lose

\* s puts packet m on the wire.
Produced(s, m) ==
  /\ chan'[s] = chan[s]
  /\ Len(chan[Peer(s)])' = Len(chan[Peer(s)]) + 1
  /\ Places(Peer(s))' = 1 .. Len(chan[Peer(s)]) + 1
  /\ \A i \in Places(Peer(s)) : chan'[Peer(s)][i] = chan[Peer(s)][i]
  /\ chan'[Peer(s)][Len(chan[Peer(s)]) + 1] = m

LEMMA ProducedByTransmit ==
  ASSUME TypeOK, NEW s \in Side, NEW m \in Packet, Transmit(s, m)
  PROVE  Produced(s, m)
<1>1. chan[Peer(s)] \in Seq(Packet) /\ Peer(s) # s /\ Peer(s) \in Side
  BY SideFacts DEF TypeOK
<1>2. chan'[Peer(s)] = Append(chan[Peer(s)], m) /\ chan'[s] = chan[s]
  BY <1>1 DEF Transmit, TypeOK
<1>. QED
  BY <1>1, <1>2, AppendFacts DEF Produced, Places

LEMMA Lengths ==
  ASSUME TypeOK, NEW s \in Side
  PROVE  /\ Len(chan[s]) \in Nat /\ (chan[s] = <<>> <=> Len(chan[s]) = 0)
         /\ wake[s] \in BOOLEAN /\ One(wake[s]) \in {0, 1}
         /\ Tokens(s) \in Nat
         /\ mcn[s] \in Machine /\ mcn[s].count \in Nat
<1>1. chan[s] \in Seq(Packet)
  BY DEF TypeOK
<1>2. Len(chan[s]) \in Nat /\ (chan[s] = <<>> <=> Len(chan[s]) = 0)
  BY <1>1
<1>3. wake[s] \in BOOLEAN /\ One(wake[s]) \in {0, 1}
  BY DEF TypeOK, One
<1>4. mcn[s] \in Machine /\ mcn[s].count \in Nat
  BY DEF TypeOK, Machine
<1>. QED
  BY <1>2, <1>3, <1>4 DEF Tokens

LEMMA LengthsAfter ==
  ASSUME TypeOK', NEW s \in Side
  PROVE  /\ Len(chan'[s]) \in Nat /\ (chan'[s] = <<>> <=> Len(chan'[s]) = 0)
         /\ wake'[s] \in BOOLEAN /\ One(wake'[s]) \in {0, 1}
         /\ mcn'[s] \in Machine /\ mcn'[s].count \in Nat
<1>1. chan'[s] \in Seq(Packet)
  BY DEF TypeOK
<1>2. Len(chan'[s]) \in Nat /\ (chan'[s] = <<>> <=> Len(chan'[s]) = 0)
  BY <1>1
<1>3. wake'[s] \in BOOLEAN /\ One(wake'[s]) \in {0, 1}
  BY DEF TypeOK, One
<1>4. mcn'[s] \in Machine /\ mcn'[s].count \in Nat
  BY DEF TypeOK, Machine
<1>. QED
  BY <1>2, <1>3, <1>4

-----------------------------------------------------------------------------
(* Greeting.                                                                *)

Kept == Sound' /\ Phase'

LEMMA GreetingReceive ==
  ASSUME TypeOK, TypeOK', Sound, Greeting, NEW s \in Side, Receive(s)
  PROVE  Kept
<1>1. Consumed(s) /\ chan[s][1] = HelloFrom(Peer(s))
  BY ConsumedByReceive DEF Consumed, Greeting
<1>2. ReceivedHello(s, HelloFrom(Peer(s)))
  BY <1>1, ConsumedByReceive, ReceivedByState DEF Greeting
<1>3. Peer(s) \in Side /\ Peer(Peer(s)) = s /\ \A t \in Side : t = s \/ t = Peer(s)
  BY SideFacts
<1>4. Tokens(s) + Tokens(Peer(s)) <= 2 /\ Len(chan[s]) <= Tokens(s)
  BY Lengths DEF Greeting, Tokens
<1>5. /\ Tokens(Peer(s))' = Tokens(Peer(s)) /\ Len(chan[s])' <= Tokens(s) - 1
      /\ chan'[Peer(s)] = chan[Peer(s)]
  BY <1>1, <1>4, Lengths DEF Consumed, Tokens
<1>6. CASE s = Upper
  <2>1. Become(s, StartWaiting(mcn[s]), {"SEND"})
    BY <1>2, <1>6, EndsFacts DEF ReceivedHello, HelloFrom, Pkt, Sound
  <2>2. mcn'[Upper] = StartWaiting(mcn[Upper]) /\ mcn'[Lower] = mcn[Lower]
    BY <2>1, <1>6, OnlyThisEnd, EndsFacts
  <2>3. UpperWaits' /\ mcn'[Upper].count = 0 /\ mcn[Upper].failed = mcn'[Upper].failed
        /\ mcn'[Upper].value = mcn[Upper].value
    BY <2>2, Lengths, Fields, EndsFacts DEF UpperWaits
  <2>4. Sound'
    BY <2>2, <2>3, EndsFacts DEF Sound
  <2>5. One(wake'[Lower]) + Len(chan'[Lower]) + Len(chan'[Upper]) <= 1
    BY <1>3, <1>4, <1>5, <1>6, EndsFacts, Lengths DEF Tokens
  <2>6. /\ One(wake'[Lower]) \in {0, 1}
        /\ Len(chan'[Lower]) \in Nat /\ Len(chan'[Upper]) \in Nat
    BY LengthsAfter, EndsFacts
  <2>7. \A i \in Places(Lower)' : i = 1 /\ chan'[Lower][1] = HelloFrom(Upper)
    BY <1>5, <1>6, <2>5, <2>6, EndsFacts DEF Greeting, Places
  <2>8. /\ One(chan'[Lower] # <<>> /\ chan'[Lower][1] = HelloFrom(Upper))
             <= Len(chan'[Lower])
        /\ One(chan'[Lower] # <<>> /\ chan'[Lower][1] = HelloFrom(Upper)) \in {0, 1}
    BY <2>6, LengthsAfter, EndsFacts DEF One
  <2>9. One(wake'[Lower]) + Len(chan'[Upper]) + mcn'[Upper].count
          + One(chan'[Lower] # <<>> /\ chan'[Lower][1] = HelloFrom(Upper)) <= 1
    BY <2>3, <2>5, <2>6, <2>8
  <2>10. \A i \in Places(Upper)' : chan'[Upper][i] = HelloFrom(Lower)
    BY <1>1, <1>6, EndsFacts DEF Greeting, Consumed
  <2>11. mcn'[Lower].state = "HELLO" /\ mcn'[Lower].sent = 0
    BY <2>2, EndsFacts DEF Greeting
  <2>12. Inviting'
    BY <2>3, <2>7, <2>9, <2>10, <2>11 DEF Inviting, HelloFrom
  <2>. QED
    BY <2>4, <2>12 DEF Kept, Phase
<1>7. CASE s = Lower
  <2>1. Ignore(s, {"SEND"})
    BY <1>2, <1>7, EndsFacts DEF ReceivedHello, HelloFrom, Pkt, Sound
  <2>2. mcn'[Upper] = mcn[Upper] /\ mcn'[Lower] = mcn[Lower]
    BY <2>1, <1>7, OnlyThisEnd, EndsFacts DEF Ignore
  <2>3. Sound'
    BY <2>2, EndsFacts DEF Sound
  <2>4. Tokens(s)' <= Tokens(s)
    <3>1. Len(chan'[s]) <= Tokens(s) - 1 /\ Len(chan'[s]) \in Nat /\ Tokens(s) \in Nat
      BY <1>5, Lengths, LengthsAfter
    <3>2. One(wake'[s]) \in {0, 1}
      BY LengthsAfter
    <3>3. Tokens(s)' = One(wake'[s]) + Len(chan'[s])
      BY DEF Tokens
    <3>. QED
      BY <3>1, <3>2, <3>3
  <2>5. Tokens(s)' \in Nat
    BY LengthsAfter DEF Tokens
  <2>6. \A t \in Side : Tokens(t)' + Tokens(Peer(t))' <= 2
    BY <2>4, <2>5, <1>3, <1>4, <1>5, Lengths
  <2>a. \A i \in Places(s)' : chan'[s][i] = HelloFrom(Peer(s))
    BY <1>1 DEF Consumed, Greeting
  <2>b. \A i \in Places(Peer(s))' : chan'[Peer(s)][i] = HelloFrom(Peer(Peer(s)))
    BY <1>1, <1>3 DEF Consumed, Greeting, Places
  <2>7. \A t \in Side : \A i \in Places(t)' : chan'[t][i] = HelloFrom(Peer(t))
    BY <2>a, <2>b, SideFacts
  <2>8. Greeting'
    BY <2>2, <2>6, <2>7, EndsFacts DEF Greeting, HelloFrom
  <2>. QED
    BY <2>3, <2>8 DEF Kept, Phase
<1>. QED
  BY <1>6, <1>7, EndsFacts

LEMMA GreetingSend ==
  ASSUME TypeOK, TypeOK', Sound, Greeting, NEW s \in Side, Send(s)
  PROVE  Kept
<1>1. wake[s] /\ ~wake'[s] /\ wake'[Peer(s)] = wake[Peer(s)]
  BY SendByEnd
<1>2. SendHello(s)
  BY SendByEnd, NextSendByState DEF Greeting, Sound
<1>3. /\ Ignore(s, {"SEND"}) /\ Transmit(s, HelloFrom(s)) /\ MyValue[s] \in Nat
  BY <1>2, EndsFacts DEF SendHello, HelloFrom, Sound
<1>4. Produced(s, HelloFrom(s))
  BY <1>3, PacketTypes, ProducedByTransmit DEF HelloFrom
<1>5. mcn'[s] = mcn[s] /\ mcn'[Peer(s)] = mcn[Peer(s)]
  BY <1>3, OnlyThisEnd DEF Ignore
<1>6. Peer(s) \in Side /\ Peer(Peer(s)) = s /\ \A t \in Side : t = s \/ t = Peer(s)
  BY SideFacts
<1>7. Tokens(s)' = Tokens(s) - 1 /\ Tokens(Peer(s))' = Tokens(Peer(s)) + 1
  <2>1. One(wake[s]) = 1 /\ One(wake'[s]) = 0
    BY <1>1 DEF One
  <2>2. /\ Len(chan'[s]) = Len(chan[s])
        /\ Len(chan'[Peer(s)]) = Len(chan[Peer(s)]) + 1
    BY <1>4 DEF Produced
  <2>3. One(wake'[Peer(s)]) = One(wake[Peer(s)])
    BY <1>1
  <2>4. /\ Len(chan[s]) \in Nat /\ Len(chan[Peer(s)]) \in Nat
        /\ One(wake[Peer(s)]) \in {0, 1}
    BY <1>6, Lengths
  <2>. QED
    BY <2>1, <2>2, <2>3, <2>4 DEF Tokens
<1>8. \A t \in Side : Tokens(t)' + Tokens(Peer(t))' <= 2
  BY <1>6, <1>7, Lengths DEF Greeting
<1>9. \A t \in Side : \A i \in Places(t)' : chan'[t][i] = HelloFrom(Peer(t))
  <2>1. \A i \in Places(s)' : chan'[s][i] = HelloFrom(Peer(s))
    BY <1>4 DEF Produced, Greeting, Places
  <2>2. \A i \in Places(Peer(s))' :
          i \in Places(Peer(s)) \/ i = Len(chan[Peer(s)]) + 1
    BY <1>4, <1>6, Lengths DEF Produced, Places
  <2>3. \A i \in Places(Peer(s)) : chan[Peer(s)][i] = HelloFrom(s)
    BY <1>6 DEF Greeting
  <2>4. \A i \in Places(Peer(s))' : chan'[Peer(s)][i] = HelloFrom(s)
    BY <1>4, <2>2, <2>3 DEF Produced
  <2>. QED
    BY <1>6, <2>1, <2>4
<1>10. Greeting'
  BY <1>5, <1>6, <1>8, <1>9 DEF Greeting, HelloFrom
<1>. QED
  BY <1>5, <1>6, <1>10 DEF Kept, Phase, Sound

LEMMA GreetingShrink ==
  ASSUME TypeOK, TypeOK', Greeting, NEW s \in Side, Consumed(s),
         mcn' = mcn, wake' = wake
  PROVE  Greeting'
<1>1. Peer(s) \in Side /\ Peer(Peer(s)) = s /\ \A t \in Side : t = s \/ t = Peer(s)
  BY SideFacts
<1>2. Tokens(s)' = Tokens(s) - 1 /\ Tokens(Peer(s))' = Tokens(Peer(s))
  BY Lengths DEF Consumed, Tokens
<1>3. \A t \in Side : Tokens(t)' + Tokens(Peer(t))' <= 2
  BY <1>1, <1>2, Lengths DEF Greeting
<1>4. \A t \in Side : \A i \in Places(t)' : chan'[t][i] = HelloFrom(Peer(t))
  BY <1>1 DEF Consumed, Greeting, Places
<1>. QED
  BY <1>3, <1>4 DEF Greeting, HelloFrom

-----------------------------------------------------------------------------
(* Inviting.                                                                *)

\* The HELLO, if any, at the head of the wire towards Lower.
LowerHello == One(chan[Lower] # <<>> /\ chan[Lower][1] = HelloFrom(Upper))

LEMMA InvitationIsNoHello ==
  ASSUME NEW s \in Side
  PROVE  Invitation # HelloFrom(s) /\ Reply # HelloFrom(s)
BY DEF Invitation, Reply, HelloFrom, Pkt

LEMMA InvitingBounds ==
  ASSUME TypeOK, Inviting
  PROVE  /\ One(wake[Lower]) + Len(chan[Upper]) + mcn[Upper].count + LowerHello <= 1
         /\ One(wake[Lower]) \in {0, 1} /\ LowerHello \in {0, 1}
         /\ Len(chan[Upper]) \in Nat /\ mcn[Upper].count \in Nat
         /\ Len(chan[Lower]) \in Nat
BY Lengths, EndsFacts DEF Inviting, LowerHello, One

LEMMA InvitingSend ==
  ASSUME TypeOK, TypeOK', Sound, Inviting, NEW s \in Side, Send(s)
  PROVE  Kept
<1>1. wake[s] /\ ~wake'[s] /\ wake'[Peer(s)] = wake[Peer(s)]
  BY SendByEnd
<1>2. CASE s = Upper
  <2>1. SendWait(Upper)
    BY <1>2, SendByEnd, NextSendByState, EndsFacts DEF Inviting, UpperWaits, Sound
  <2>2. Produced(Upper, Invitation)
    BY <2>1, PacketTypes, ProducedByTransmit, EndsFacts DEF SendWait, Invitation
  <2>3. mcn'[Upper] = mcn[Upper] /\ mcn'[Lower] = mcn[Lower]
    BY <2>1, OnlyThisEnd, EndsFacts DEF SendWait, Ignore
  <2>4. /\ chan'[Upper] = chan[Upper] /\ wake'[Lower] = wake[Lower]
    BY <1>1, <1>2, <2>2, EndsFacts DEF Produced
  <2>5. \A i \in Places(Lower)' :
          \/ i \in Places(Lower) /\ chan'[Lower][i] = chan[Lower][i]
          \/ i \notin Places(Lower) /\ chan'[Lower][i] = Invitation
    BY <2>2, EndsFacts, Lengths DEF Produced, Places
  <2>6. \A i \in Places(Lower)' :
          \/ chan'[Lower][i] = Invitation
          \/ i = 1 /\ i \in Places(Lower) /\ chan[Lower][i] = HelloFrom(Upper)
               /\ chan'[Lower][1] = HelloFrom(Upper)
    BY <2>5 DEF Inviting
  <2>7. chan'[Lower] # <<>> /\ chan'[Lower][1] = HelloFrom(Upper)
          => chan[Lower] # <<>> /\ chan[Lower][1] = HelloFrom(Upper)
    BY <2>6, InvitationIsNoHello, Lengths, LengthsAfter, EndsFacts DEF Places
  <2>8. LowerHello' <= LowerHello /\ LowerHello' \in {0, 1}
    BY <2>7 DEF LowerHello, One, HelloFrom
  <2>9. One(wake'[Lower]) = One(wake[Lower])
    BY <2>4
  <2>10. One(wake'[Lower]) + Len(chan'[Upper]) + mcn'[Upper].count + LowerHello' <= 1
    BY <2>3, <2>4, <2>8, <2>9, InvitingBounds
  <2>11. Inviting'
    BY <2>3, <2>4, <2>6, <2>10 DEF Inviting, UpperWaits, Places, LowerHello, HelloFrom
  <2>. QED
    BY <2>3, <2>11, EndsFacts DEF Kept, Phase, Sound
<1>3. CASE s = Lower
  <2>1. SendHello(Lower)
    BY <1>3, SendByEnd, NextSendByState, EndsFacts DEF Inviting, Sound
  <2>2. Transmit(Lower, HelloFrom(Lower)) /\ MyValue[Lower] \in Nat
    BY <2>1, EndsFacts DEF SendHello, HelloFrom, Sound
  <2>3. Produced(Lower, HelloFrom(Lower))
    BY <2>2, PacketTypes, ProducedByTransmit, EndsFacts DEF HelloFrom
  <2>4. mcn'[Upper] = mcn[Upper] /\ mcn'[Lower] = mcn[Lower]
    BY <2>1, OnlyThisEnd, EndsFacts DEF SendHello, Ignore
  <2>5. /\ chan'[Lower] = chan[Lower] /\ One(wake[Lower]) = 1 /\ One(wake'[Lower]) = 0
        /\ Len(chan'[Upper]) = Len(chan[Upper]) + 1
    BY <1>1, <1>3, <2>3, EndsFacts DEF Produced, One
  <2>6. \A i \in Places(Upper)' :
          \/ i \in Places(Upper) /\ chan'[Upper][i] = chan[Upper][i]
          \/ chan'[Upper][i] = HelloFrom(Lower)
    BY <2>3, EndsFacts, Lengths DEF Produced, Places
  <2>7. \A i \in Places(Upper)' : chan'[Upper][i] = HelloFrom(Lower)
    BY <2>6 DEF Inviting
  <2>8. One(wake'[Lower]) + Len(chan'[Upper]) + mcn'[Upper].count + LowerHello <= 1
    BY <2>4, <2>5, InvitingBounds
  <2>9. Inviting'
    BY <2>4, <2>5, <2>7, <2>8 DEF Inviting, UpperWaits, Places, LowerHello, HelloFrom
  <2>. QED
    BY <2>4, <2>9, EndsFacts DEF Kept, Phase, Sound
<1>. QED
  BY <1>2, <1>3, EndsFacts

LEMMA InvitingShrink ==
  ASSUME TypeOK, TypeOK', Inviting, NEW s \in Side, Consumed(s),
         mcn' = mcn, wake' = wake
  PROVE  Inviting'
<1>1. CASE s = Upper
  <2>1. /\ chan'[Lower] = chan[Lower] /\ Len(chan'[Upper]) = Len(chan[Upper]) - 1
        /\ \A i \in Places(Upper)' : chan'[Upper][i] = HelloFrom(Lower)
    BY <1>1, EndsFacts DEF Consumed, Inviting
  <2>2. One(wake[Lower]) + Len(chan'[Upper]) + mcn[Upper].count + LowerHello <= 1
    BY <2>1, InvitingBounds
  <2>. QED
    BY <2>1, <2>2 DEF Inviting, UpperWaits, Places, LowerHello, HelloFrom
<1>2. CASE s = Lower
  <2>1. chan'[Upper] = chan[Upper]
    BY <1>2, EndsFacts DEF Consumed
  <2>2. \A i \in Places(Lower)' :
          chan'[Lower][i] = chan[Lower][i + 1] /\ i + 1 \in Places(Lower) /\ i + 1 # 1
    BY <1>2 DEF Consumed
  <2>3. \A i \in Places(Lower)' : chan'[Lower][i] = Invitation
    BY <2>2 DEF Inviting
  <2>4. chan'[Lower] # <<>> => chan'[Lower][1] = Invitation
    BY <2>3, LengthsAfter, EndsFacts DEF Places
  <2>5. LowerHello' = 0
    BY <2>4, InvitationIsNoHello, EndsFacts DEF LowerHello, One, HelloFrom
  <2>6. One(wake[Lower]) + Len(chan'[Upper]) + mcn[Upper].count + LowerHello' <= 1
    BY <2>1, <2>5, InvitingBounds
  <2>. QED
    BY <2>1, <2>3, <2>6 DEF Inviting, UpperWaits, Places, LowerHello, HelloFrom
<1>. QED
  BY <1>1, <1>2, EndsFacts

LEMMA InvitingReceive ==
  ASSUME TypeOK, TypeOK', Sound, Inviting, NEW s \in Side, Receive(s)
  PROVE  Kept
<1>1. Consumed(s)
  BY ConsumedByReceive
<1>2. CASE s = Upper
  <2>1. chan[Upper][1] = HelloFrom(Lower) /\ Len(chan[Upper]) >= 1
    BY <1>1, <1>2, Lengths DEF Inviting, Consumed, Places
  <2>2. ReceivedWait(Upper, HelloFrom(Lower))
    BY <1>2, <2>1, ConsumedByReceive, ReceivedByState DEF Inviting, UpperWaits
  <2>3. mcn[Upper].count = 0 /\ mcn[Upper].count + 1 <= CountMax
    BY <2>1, InvitingBounds, CountMaxAssumption
  <2>4. Become(Upper, CountHello(mcn[Upper]), {})
    BY <2>2, <2>3, EndsFacts, CountMaxAssumption DEF ReceivedWait, HelloFrom, Pkt
  <2>5. mcn'[Upper] = CountHello(mcn[Upper]) /\ mcn'[Lower] = mcn[Lower]
    BY <2>4, OnlyThisEnd, EndsFacts
  <2>6. /\ mcn'[Upper].count = mcn[Upper].count + 1
        /\ mcn'[Upper].failed = mcn[Upper].failed
        /\ mcn'[Upper].value = mcn[Upper].value
        /\ mcn'[Upper].state = mcn[Upper].state /\ mcn'[Upper].sent = mcn[Upper].sent
    BY <2>5, Lengths, Fields, EndsFacts
  <2>7. Sound'
    BY <2>5, <2>6, EndsFacts DEF Sound
  <2>a. /\ chan'[Lower] = chan[Lower] /\ wake'[Lower] = wake[Lower]
        /\ Len(chan'[Upper]) = Len(chan[Upper]) - 1
    BY <1>1, <1>2, EndsFacts DEF Consumed
  <2>b. \A i \in Places(Upper)' : chan'[Upper][i] = HelloFrom(Lower)
    BY <1>1, <1>2 DEF Consumed, Inviting
  <2>8. /\ chan'[Lower] = chan[Lower] /\ wake'[Lower] = wake[Lower]
        /\ Len(chan'[Upper]) = Len(chan[Upper]) - 1
        /\ \A i \in Places(Upper)' : chan'[Upper][i] = HelloFrom(Lower)
    BY <2>a, <2>b
  <2>c. One(wake'[Lower]) = One(wake[Lower])
    BY <2>a
  <2>9. One(wake'[Lower]) + Len(chan'[Upper]) + mcn'[Upper].count + LowerHello <= 1
    <3>. DEFINE w == One(wake[Lower])  l == Len(chan[Upper])  c == mcn[Upper].count
    <3>1. w + l + c + LowerHello <= 1 /\ w \in Nat /\ l \in Nat /\ c \in Nat
          /\ LowerHello \in Nat
      BY InvitingBounds
    <3>2. /\ One(wake'[Lower]) = w /\ Len(chan'[Upper]) = l - 1
          /\ mcn'[Upper].count = c + 1
      BY <2>6, <2>a, <2>c
    <3>. HIDE DEF w, l, c
    <3>3. w + (l - 1) + (c + 1) + LowerHello <= 1
      BY <3>1
    <3>. QED
      BY <3>2, <3>3
  <2>10. Inviting'
    BY <2>5, <2>6, <2>8, <2>9 DEF Inviting, UpperWaits, Places, LowerHello, HelloFrom
  <2>. QED
    BY <2>7, <2>10 DEF Kept, Phase
<1>3. CASE s = Lower
  <2>1. /\ chan'[Upper] = chan[Upper] /\ mcn'[Upper] = mcn[Upper]
    BY <1>1, <1>3, EndsFacts DEF Consumed
  <2>1a. \A i \in Places(Lower)' : chan'[Lower][i] = Invitation
    <3>1. \A i \in Places(Lower)' :
            chan'[Lower][i] = chan[Lower][i + 1] /\ i + 1 \in Places(Lower) /\ i + 1 # 1
      BY <1>1, <1>3 DEF Consumed
    <3>. QED
      BY <3>1 DEF Inviting
  <2>2. LowerHello' = 0
    <3>1. chan'[Lower] # <<>> => chan'[Lower][1] = Invitation
      BY <2>1a, LengthsAfter, EndsFacts DEF Places
    <3>. QED
      BY <3>1, InvitationIsNoHello, EndsFacts DEF LowerHello, One, HelloFrom
  <2>4. CASE chan[Lower][1] = HelloFrom(Upper)
    <3>1. ReceivedHello(Lower, HelloFrom(Upper))
      BY <1>3, <2>4, ConsumedByReceive, ReceivedByState DEF Inviting
    <3>2. Ignore(Lower, {"SEND"})
      BY <3>1, EndsFacts DEF ReceivedHello, HelloFrom, Pkt, Sound
    <3>3. mcn'[Lower] = mcn[Lower]
      BY <3>2, OnlyThisEnd, EndsFacts DEF Ignore
    <3>4. Sound'
      BY <2>1, <3>3, EndsFacts DEF Sound
    <3>5. LowerHello = 1
      BY <1>1, <1>3, <2>4 DEF LowerHello, One, Consumed
    <3>6. One(wake'[Lower]) <= 1 /\ One(wake'[Lower]) \in {0, 1}
      BY LengthsAfter, EndsFacts
    <3>7. One(wake'[Lower]) + Len(chan[Upper]) + mcn[Upper].count <= 1
      BY <3>5, <3>6, InvitingBounds
    <3>8. One(wake'[Lower]) + Len(chan'[Upper]) + mcn'[Upper].count + LowerHello' <= 1
      BY <2>1, <2>2, <3>6, <3>7, InvitingBounds
    <3>9. Inviting'
      BY <2>1, <2>1a, <3>3, <3>8 DEF Inviting, UpperWaits, Places, LowerHello, HelloFrom
    <3>. QED
      BY <3>4, <3>9 DEF Kept, Phase
  <2>5. CASE chan[Lower][1] = Invitation
    <3>1. ReceivedHello(Lower, Invitation)
      BY <1>3, <2>5, ConsumedByReceive, ReceivedByState DEF Inviting
    <3>2. Become(Lower, Accept(mcn[Lower], 0, "SEND"), {"SEND"})
      BY <3>1 DEF ReceivedHello, Invitation, Pkt
    <3>3. mcn'[Lower] = Accept(mcn[Lower], 0, "SEND")
      BY <3>2, OnlyThisEnd, EndsFacts
    <3>4. /\ mcn'[Lower].state = "SEND" /\ mcn'[Lower].know = 0
          /\ mcn'[Lower].sent = 0 /\ mcn'[Lower].next = 1
          /\ mcn'[Lower].failed = mcn[Lower].failed
          /\ mcn'[Lower].value = mcn[Lower].value
      BY <3>3, Lengths, Fields, EndsFacts, Numbers DEF Inviting
    <3>5. Sound'
      BY <2>1, <3>4, EndsFacts DEF Sound
    <3>6. Len(chan'[Upper]) + mcn'[Upper].count <= 1
      BY <2>1, InvitingBounds
    <3>7. Invited'
      BY <2>1, <2>1a, <3>4, <3>6 DEF Inviting, Invited, UpperWaits, Places, HelloFrom
    <3>. QED
      BY <3>5, <3>7 DEF Kept, Phase
  <2>. QED
    BY <1>1, <1>3, <2>4, <2>5 DEF Consumed, Inviting
<1>. QED
  BY <1>2, <1>3, EndsFacts

-----------------------------------------------------------------------------
(* Invited and Replied: Upper in WAIT, Lower has left HELLO.                *)

\* A HELLO that reaches Upper in WAIT is only counted.
LEMMA UpperCounts ==
  ASSUME TypeOK, UpperWaits, Sound, mcn[Upper].count = 0,
         Receive(Upper), chan[Upper][1] = HelloFrom(Lower)
  PROVE  /\ mcn'[Upper] = CountHello(mcn[Upper]) /\ mcn'[Lower] = mcn[Lower]
         /\ mcn'[Upper].count = 1
         /\ UpperWaits' /\ Sound'
<1>1. ReceivedWait(Upper, HelloFrom(Lower))
  BY ConsumedByReceive, ReceivedByState, EndsFacts DEF UpperWaits
<1>2. Become(Upper, CountHello(mcn[Upper]), {})
  BY <1>1, CountMaxAssumption DEF ReceivedWait, HelloFrom, Pkt
<1>3. mcn'[Upper] = CountHello(mcn[Upper]) /\ mcn'[Lower] = mcn[Lower]
  BY <1>2, OnlyThisEnd, EndsFacts
<1>4. /\ mcn'[Upper].count = mcn[Upper].count + 1
      /\ mcn'[Upper].failed = mcn[Upper].failed
      /\ mcn'[Upper].value = mcn[Upper].value
      /\ mcn'[Upper].state = mcn[Upper].state /\ mcn'[Upper].sent = mcn[Upper].sent
  <2>1. mcn[Upper] \in Machine
    BY Lengths, EndsFacts
  <2>. QED
    BY <1>3, <2>1, Fields
<1>5. mcn'[Upper].count = 1
  BY <1>4
<1>. QED
  BY <1>3, <1>4, <1>5, EndsFacts DEF UpperWaits, Sound

\* Upper in WAIT sends one more copy of event 0.
LEMMA UpperInvites ==
  ASSUME TypeOK, UpperWaits, Sound, Send(Upper),
         \A i \in Places(Lower) : chan[Lower][i] = Invitation
  PROVE  /\ mcn'[Upper] = mcn[Upper] /\ mcn'[Lower] = mcn[Lower]
         /\ chan'[Upper] = chan[Upper]
         /\ UpperWaits' /\ Sound'
         /\ \A i \in Places(Lower)' : chan'[Lower][i] = Invitation
<1>1. SendWait(Upper)
  BY SendByEnd, NextSendByState, EndsFacts DEF UpperWaits, Sound
<1>2. Produced(Upper, Invitation)
  BY <1>1, PacketTypes, ProducedByTransmit, EndsFacts DEF SendWait, Invitation
<1>3. mcn'[Upper] = mcn[Upper] /\ mcn'[Lower] = mcn[Lower]
  BY <1>1, OnlyThisEnd, EndsFacts DEF SendWait, Ignore
<1>4. \A i \in Places(Lower)' :
        \/ i \in Places(Lower) /\ chan'[Lower][i] = chan[Lower][i]
        \/ chan'[Lower][i] = Invitation
  BY <1>2, EndsFacts, Lengths DEF Produced, Places
<1>. QED
  BY <1>2, <1>3, <1>4, EndsFacts DEF Produced, UpperWaits, Sound

\* Copies of event 0 change nothing for Lower once it has heard one.
LEMMA LowerIgnores ==
  ASSUME TypeOK, Receive(Lower), chan[Lower][1] = Invitation,
         mcn[Lower].state \in {"SEND", "RECEIVE"}, mcn[Lower].know = 0
  PROVE  mcn'[Lower] = mcn[Lower] /\ mcn'[Upper] = mcn[Upper]
<1>1. PICK full \in FullReports(Lower) : Received(Lower, Invitation, full)
  BY ConsumedByReceive, EndsFacts
<1>2. Repeated(Lower, Invitation, "ENTL") /\ ~Expected(Lower, Invitation, "ENTL")
      /\ ~Expected(Lower, Invitation, "AITS")
  BY Numbers DEF Repeated, Expected, Invitation, Pkt
<1>3. CASE mcn[Lower].state = "SEND"
  <2>1. ReceivedSend(Lower, Invitation)
    BY <1>1, <1>3, ReceivedByState
  <2>2. Ignore(Lower, {})
    BY <2>1, <1>2 DEF ReceivedSend, Repeated
  <2>. QED
    BY <2>2, OnlyThisEnd, EndsFacts DEF Ignore
<1>4. CASE mcn[Lower].state = "RECEIVE"
  <2>1. ReceivedReceive(Lower, Invitation, full)
    BY <1>1, <1>4, ReceivedByState
  <2>2. Ignore(Lower, {})
    BY <2>1, <1>2 DEF ReceivedReceive
  <2>. QED
    BY <2>2, OnlyThisEnd, EndsFacts DEF Ignore
<1>. QED
  BY <1>3, <1>4

LEMMA InvitedShrink ==
  ASSUME TypeOK, TypeOK', Invited, NEW s \in Side, Consumed(s), mcn' = mcn
  PROVE  Invited'
<1>1. CASE s = Upper
  <2>1. chan'[Lower] = chan[Lower] /\ Len(chan'[Upper]) = Len(chan[Upper]) - 1
    BY <1>1, EndsFacts DEF Consumed
  <2>2. \A i \in Places(Upper)' : chan'[Upper][i] = HelloFrom(Lower)
    BY <1>1 DEF Invited, Consumed
  <2>3. Len(chan'[Upper]) + mcn'[Upper].count <= 1
    BY <2>1, Lengths, EndsFacts DEF Invited
  <2>. QED
    BY <2>1, <2>2, <2>3 DEF Invited, Places, UpperWaits, HelloFrom
<1>2. CASE s = Lower
  <2>1. chan'[Upper] = chan[Upper]
    BY <1>2, EndsFacts DEF Consumed
  <2>2. \A i \in Places(Lower)' : chan'[Lower][i] = Invitation
    BY <1>2 DEF Invited, Consumed
  <2>. QED
    BY <2>1, <2>2 DEF Invited, Places, UpperWaits, HelloFrom
<1>. QED
  BY <1>1, <1>2, EndsFacts

LEMMA InvitedReceive ==
  ASSUME TypeOK, TypeOK', Sound, Invited, NEW s \in Side, Receive(s)
  PROVE  Kept
<1>1. Consumed(s)
  BY ConsumedByReceive
<1>2. CASE s = Upper
  <2>1. chan[Upper][1] = HelloFrom(Lower) /\ mcn[Upper].count = 0
    BY <1>1, <1>2, Lengths, EndsFacts DEF Invited, Consumed, Places
  <2>2. /\ mcn'[Lower] = mcn[Lower] /\ UpperWaits' /\ Sound' /\ mcn'[Upper].count = 1
    BY <1>2, <2>1, UpperCounts DEF Invited
  <2>3. Len(chan'[Upper]) + mcn'[Upper].count <= 1
    BY <1>1, <1>2, <2>1, <2>2, Lengths, EndsFacts DEF Invited, Consumed
  <2>4. Invited'
    BY <1>1, <1>2, <2>2, <2>3, EndsFacts DEF Invited, Consumed, Places, HelloFrom
  <2>. QED
    BY <2>2, <2>4 DEF Kept, Phase
<1>3. CASE s = Lower
  <2>1. mcn'[Lower] = mcn[Lower] /\ mcn'[Upper] = mcn[Upper]
    BY <1>1, <1>3, LowerIgnores DEF Invited, Consumed
  <2>2. chan'[Upper] = chan[Upper]
    BY <1>1, <1>3, EndsFacts DEF Consumed
  <2>3. \A i \in Places(Lower)' : chan'[Lower][i] = Invitation
    BY <1>1, <1>3 DEF Invited, Consumed
  <2>4. Invited'
    BY <2>1, <2>2, <2>3 DEF Invited, UpperWaits, Places, HelloFrom
  <2>. QED
    BY <2>1, <2>4, EndsFacts DEF Kept, Phase, Sound
<1>. QED
  BY <1>2, <1>3, EndsFacts

LEMMA InvitedSend ==
  ASSUME TypeOK, TypeOK', Sound, Invited, NEW s \in Side, Send(s)
  PROVE  Kept
<1>2. CASE s = Upper
  <2>1. /\ mcn'[Upper] = mcn[Upper] /\ mcn'[Lower] = mcn[Lower]
        /\ chan'[Upper] = chan[Upper] /\ UpperWaits' /\ Sound'
        /\ \A i \in Places(Lower)' : chan'[Lower][i] = Invitation
    BY <1>2, UpperInvites DEF Invited
  <2>2. Invited'
    BY <2>1 DEF Invited, Places, HelloFrom
  <2>. QED
    BY <2>1, <2>2 DEF Kept, Phase
<1>3. CASE s = Lower
  <2>1. PICK ok \in Initiates : NextSend(Lower, Offered(Lower), ok, dropped[Lower] + 1)
    BY <1>3, SendByEnd
  <2>2. ~mcn[Lower].failed /\ mcn[Lower].state = "SEND" /\ ~MayTransfer(mcn[Lower])
    BY EndsFacts DEF Invited, Sound, MayTransfer
  <2>3. SendEvent(Lower, Offered(Lower))
    BY <2>1, <2>2, NextSendByState DEF SendTransfer
  <2>4. mcn'[Lower] = Spend(mcn[Lower], "RECEIVE") /\ mcn'[Upper] = mcn[Upper]
    BY <2>3, OnlyThisEnd, EndsFacts DEF SendEvent
  <2>5. Produced(Lower, Reply)
    BY <2>3, PacketTypes, ProducedByTransmit, EndsFacts DEF SendEvent, Reply, Invited
  <2>6. /\ mcn'[Lower].state = "RECEIVE" /\ mcn'[Lower].know = 0
        /\ mcn'[Lower].sent = 1 /\ mcn'[Lower].next = Plus2(1)
        /\ mcn'[Lower].failed = mcn[Lower].failed
        /\ mcn'[Lower].value = mcn[Lower].value
    <3>1. mcn[Lower] \in Machine /\ mcn[Lower].know = 0 /\ mcn[Lower].next = 1
      BY Lengths, EndsFacts DEF Invited
    <3>. QED
      BY <2>4, <3>1, Fields
  <2>7. \A i \in Places(Lower)' : chan'[Lower][i] = Invitation
    BY <2>5 DEF Produced, Invited, Places
  <2>8. \A i \in Places(Upper)' :
          \/ i \in Places(Upper) /\ chan'[Upper][i] = chan[Upper][i]
          \/ i = Len(chan'[Upper]) /\ chan'[Upper][i] = Reply
    BY <2>5, EndsFacts, Lengths DEF Produced, Places
  <2>9. \A i \in Places(Upper) :
          i = 1 /\ chan[Upper][1] = HelloFrom(Lower) /\ mcn[Upper].count = 0
    BY Lengths, EndsFacts DEF Invited, Places
  <2>10. \A i \in Places(Upper)' :
           \/ i = 1 /\ chan'[Upper][1] = HelloFrom(Lower) /\ mcn'[Upper].count = 0
           \/ i = Len(chan'[Upper]) /\ chan'[Upper][i] = Reply
    BY <2>4, <2>8, <2>9
  <2>11. UpperWaits'
    BY <2>4 DEF Invited, UpperWaits
  <2>12. Replied'
    BY <2>6, <2>7, <2>10, <2>11 DEF Replied, HelloFrom
  <2>13. Sound'
    BY <2>4, <2>6, EndsFacts DEF Sound
  <2>. QED
    BY <2>12, <2>13 DEF Kept, Phase
<1>. QED
  BY <1>2, <1>3, EndsFacts

LEMMA RepliedShrink ==
  ASSUME TypeOK, TypeOK', Replied, NEW s \in Side, Consumed(s), mcn' = mcn
  PROVE  Replied'
<1>1. CASE s = Upper
  <2>1. \A i \in Places(Upper)' :
          /\ chan'[Upper][i] = chan[Upper][i + 1]
          /\ i + 1 \in Places(Upper) /\ i + 1 # 1 /\ i \in Nat
          /\ Len(chan'[Upper]) = Len(chan[Upper]) - 1
    BY <1>1 DEF Consumed
  <2>2. \A i \in Places(Upper)' : i = Len(chan'[Upper]) /\ chan'[Upper][i] = Reply
    BY <2>1, Lengths, EndsFacts DEF Replied
  <2>3. chan'[Lower] = chan[Lower]
    BY <1>1, EndsFacts DEF Consumed
  <2>. QED
    BY <2>2, <2>3 DEF Replied, UpperWaits, Places, HelloFrom
<1>2. CASE s = Lower
  <2>1. chan'[Upper] = chan[Upper]
    BY <1>2, EndsFacts DEF Consumed
  <2>2. \A i \in Places(Lower)' : chan'[Lower][i] = Invitation
    BY <1>2 DEF Replied, Consumed
  <2>. QED
    BY <2>1, <2>2 DEF Replied, UpperWaits, Places, HelloFrom
<1>. QED
  BY <1>1, <1>2, EndsFacts

LEMMA RepliedSend ==
  ASSUME TypeOK, TypeOK', Sound, Replied, NEW s \in Side, Send(s)
  PROVE  Kept
<1>1. CASE s = Upper
  <2>1. /\ mcn'[Upper] = mcn[Upper] /\ mcn'[Lower] = mcn[Lower]
        /\ chan'[Upper] = chan[Upper] /\ UpperWaits' /\ Sound'
        /\ \A i \in Places(Lower)' : chan'[Lower][i] = Invitation
    BY <1>1, UpperInvites DEF Replied
  <2>2. Replied'
    BY <2>1 DEF Replied, Places, HelloFrom
  <2>. QED
    BY <2>1, <2>2 DEF Kept, Phase
<1>2. CASE s = Lower
  <2>1. SendNothing(Lower)
    BY <1>2, SendByEnd, NextSendByState, EndsFacts DEF Replied, Sound, WaitingState
  <2>2. mcn'[Lower] = mcn[Lower] /\ mcn'[Upper] = mcn[Upper] /\ chan' = chan
    BY <2>1, OnlyThisEnd, EndsFacts DEF SendNothing, Ignore
  <2>3. Replied'
    BY <2>2 DEF Replied, UpperWaits, Places, HelloFrom
  <2>. QED
    BY <2>2, <2>3, EndsFacts DEF Kept, Phase, Sound
<1>. QED
  BY <1>1, <1>2, EndsFacts

\* Upper hears event 1 and holds the token for the first time.
LEMMA RepliedReceive ==
  ASSUME TypeOK, TypeOK', Sound, Replied, NEW s \in Side, Receive(s)
  PROVE  Kept
<1>1. Consumed(s)
  BY ConsumedByReceive
<1>2. CASE s = Upper /\ chan[Upper][1] = HelloFrom(Lower)
  <2>1. mcn[Upper].count = 0
    BY <1>1, <1>2, InvitationIsNoHello, EndsFacts DEF Replied, Consumed
  <2>2. mcn'[Lower] = mcn[Lower] /\ UpperWaits' /\ Sound'
    BY <1>2, <2>1, UpperCounts DEF Replied
  <2>3. \A i \in Places(Upper)' :
          /\ chan'[Upper][i] = chan[Upper][i + 1]
          /\ i + 1 \in Places(Upper) /\ i + 1 # 1 /\ i \in Nat
          /\ Len(chan'[Upper]) = Len(chan[Upper]) - 1
    BY <1>1, <1>2 DEF Consumed
  <2>4. \A i \in Places(Upper)' : i = Len(chan'[Upper]) /\ chan'[Upper][i] = Reply
    BY <2>3, Lengths, EndsFacts DEF Replied
  <2>5. chan'[Lower] = chan[Lower]
    BY <1>1, <1>2, EndsFacts DEF Consumed
  <2>6. Replied'
    BY <2>2, <2>4, <2>5 DEF Replied, Places, HelloFrom
  <2>. QED
    BY <2>2, <2>6 DEF Kept, Phase
<1>3. CASE s = Upper /\ chan[Upper][1] # HelloFrom(Lower)
  <2>1. chan[Upper][1] = Reply /\ Len(chan[Upper]) = 1
    BY <1>1, <1>3 DEF Replied, Consumed
  <2>2. ReceivedWait(Upper, Reply)
    BY <1>3, <2>1, ConsumedByReceive, ReceivedByState DEF Replied, UpperWaits
  <2>3. Reply.value = NextValue(mcn[Upper].sent) /\ Reply.type = "ENTL"
        /\ Reply.value = 1
    BY Numbers DEF Reply, Pkt, Replied, UpperWaits
  <2>4. Become(Upper, Accept(mcn[Upper], 1, "SEND"), {"SEND"})
    BY <2>2, <2>3 DEF ReceivedWait
  <2>5. mcn'[Upper] = Accept(mcn[Upper], 1, "SEND") /\ mcn'[Lower] = mcn[Lower]
    BY <2>4, OnlyThisEnd, EndsFacts
  <2>6. /\ mcn'[Upper].state = "SEND" /\ mcn'[Upper].know = 1
        /\ mcn'[Upper].next = NextValue(1)
        /\ mcn'[Upper].failed = mcn[Upper].failed
        /\ mcn'[Upper].value = mcn[Upper].value
    <3>1. mcn[Upper] \in Machine
      BY Lengths, EndsFacts
    <3>. QED
      BY <2>5, <3>1, Fields
  <2>7. chan'[Upper] = <<>> /\ chan'[Lower] = chan[Lower]
    BY <1>1, <1>3, <2>1, LengthsAfter, EndsFacts DEF Consumed
  <2>8. WaitingNumbers(Lower)' /\ mcn'[Upper].know = mcn'[Lower].sent
    BY <2>5, <2>6, Numbers DEF WaitingNumbers, Replied
  <2>9. \A i \in Places(Lower)' : Stale(Lower, i)'
    BY <2>5, <2>7 DEF Replied, Stale, Places, Invitation
  <2>10. HolderPair(Upper, Lower)'
    BY <2>5, <2>6 DEF HolderPair, Replied
  <2>11. Holds(Upper)'
    BY <2>6, <2>7, <2>8, <2>9, <2>10, EndsFacts DEF Holds
  <2>12. Sound'
    BY <2>5, <2>6, EndsFacts DEF Sound
  <2>. QED
    BY <2>11, <2>12, EndsFacts DEF Kept, Phase
<1>4. CASE s = Lower
  <2>1. mcn'[Lower] = mcn[Lower] /\ mcn'[Upper] = mcn[Upper]
    BY <1>1, <1>4, LowerIgnores DEF Replied, Consumed
  <2>2. Replied'
    BY <1>1, <1>4, <2>1, EndsFacts DEF Replied, UpperWaits, Consumed, Places, HelloFrom
  <2>. QED
    BY <2>1, <2>2, EndsFacts DEF Kept, Phase, Sound
<1>. QED
  BY <1>2, <1>3, <1>4, EndsFacts

-----------------------------------------------------------------------------
(* The token is held.                                                       *)

LEMMA SameMachines ==
  ASSUME TypeOK, TypeOK', mcn'[Upper] = mcn[Upper], mcn'[Lower] = mcn[Lower]
  PROVE  mcn' = mcn
<1>1. mcn \in [Side -> Machine] /\ mcn' \in [Side -> Machine]
  BY DEF TypeOK
<1>2. \A t \in Side : mcn'[t] = mcn[t]
  BY EndsFacts
<1>. QED
  BY <1>1, <1>2

LEMMA HoldsShrink ==
  ASSUME TypeOK, TypeOK', NEW y \in Side, Holds(y), NEW s \in Side, Consumed(s),
         mcn' = mcn, s = y => wake'[y] = wake[y]
  PROVE  Holds(y)'
<1>1. s = Peer(y) /\ Peer(s) = y
  BY SideFacts DEF Holds, Consumed
<1>2. chan'[y] = <<>> /\ wake'[y] = wake[y]
  BY <1>1 DEF Holds, Consumed
<1>3. \A i \in Places(Peer(y))' : Stale(Peer(y), i)'
  BY <1>1 DEF Holds, Consumed, Stale
<1>4. HolderPair(y, Peer(y))' /\ WaitingNumbers(Peer(y))'
  BY DEF Holds, HolderPair, WaitingNumbers
<1>. QED
  BY <1>2, <1>3, <1>4 DEF Holds

\* The waiting end ignores what is left of the greeting.
LEMMA HoldsReceive ==
  ASSUME TypeOK, TypeOK', Sound, NEW y \in Side, Holds(y), NEW s \in Side, Receive(s)
  PROVE  Kept
<1>1. Consumed(s)
  BY ConsumedByReceive
<1>2. s = Peer(y)
  BY <1>1, SideFacts DEF Holds, Consumed
<1>3. Stale(s, 1)
  BY <1>1, <1>2 DEF Holds, Consumed
<1>4. mcn'[Lower] = mcn[Lower] /\ mcn'[Upper] = mcn[Upper] /\ s = Lower
  BY <1>3, LowerIgnores DEF Stale
<1>5. mcn' = mcn
  BY <1>4, SameMachines
<1>6. Holds(y)'
  BY <1>1, <1>2, <1>5, SideFacts, HoldsShrink
<1>. QED
  BY <1>5, <1>6 DEF Kept, Phase, Sound

\* The holder spends its event number on packet m and gives the token away.
LEMMA TakesOff ==
  ASSUME TypeOK, TypeOK', Sound, NEW y \in Side, Holds(y), wake[y],
         NEW st \in WaitingState, NEW m \in Packet, m.value = mcn[y].next,
         mcn'[y] = Spend(mcn[y], st), mcn'[Peer(y)] = mcn[Peer(y)],
         Produced(y, m), FlightPair(y, m, Peer(y))'
  PROVE  Kept
<1>1. /\ mcn'[y].state = st /\ mcn'[y].know = mcn[y].know
      /\ mcn'[y].sent = mcn[y].next /\ mcn'[y].next = Plus2(mcn[y].next)
      /\ mcn'[y].failed = mcn[y].failed /\ mcn'[y].value = mcn[y].value
  <2>1. mcn[y] \in Machine
    BY Lengths
  <2>. QED
    BY <2>1, Fields
<1>2. Sound'
  BY <1>1, SideFacts DEF Sound
<1>3. Peer(y) \in Side /\ Peer(Peer(y)) = y
  BY SideFacts
<1>4. WaitingNumbers(y)' /\ WaitingNumbers(Peer(y))' /\ mcn'[y].know = mcn'[Peer(y)].sent
  BY <1>1 DEF Holds, WaitingNumbers
<1>5. mcn'[y].state \in WaitingState /\ mcn'[Peer(y)].state \in WaitingState
  BY <1>1 DEF Holds, HolderPair, WaitingState
<1>6. chan'[y] = <<>>
  BY DEF Produced, Holds
<1>7. \A i \in Places(Peer(y))' :
        \/ i \in Places(Peer(y)) /\ chan'[Peer(y)][i] = chan[Peer(y)][i]
        \/ i = Len(chan'[Peer(y)]) /\ chan'[Peer(y)][i] = m
  BY <1>3, Lengths DEF Produced, Places
<1>8. \A i \in Places(Peer(y))' :
        \/ Stale(Peer(y), i)'
        \/ i = Len(chan'[Peer(y)]) /\ chan'[Peer(y)][i] = m
  BY <1>7 DEF Holds, Stale
<1>9. Flight(y)'
  BY <1>1, <1>4, <1>5, <1>6, <1>8 DEF Flight
<1>. QED
  BY <1>2, <1>9 DEF Kept, Phase

\* An end that may refuse a message has no transfer to offer.
LEMMA RejectingOffersNothing ==
  ASSUME TypeOK, Steady, NEW s \in Rejecting
  PROVE  Offered(s) = "NONE"
<1>1. s \in Side /\ Offers[s] = <<>>
  BY CallerAssumption, RegularAssumption
<1>2. dropped[s] \in Nat /\ queued[s] \in Nat /\ Waiting(s) = 0
  BY <1>1 DEF Steady, TypeOK, Waiting
<1>. QED
  BY <1>2 DEF Offered

LEMMA OfferedKind ==
  ASSUME TypeOK, Steady, NEW s \in Side
  PROVE  Offered(s) \in Kind \cup {"NONE"}
<1>1. CASE Waiting(s) > 0
  <2>1. dropped[s] \in Nat /\ queued[s] \in Nat /\ dropped[s] + 1 \in 1 .. Len(Offers[s])
    BY <1>1, CallerAssumption DEF Steady, TypeOK, Waiting
  <2>. QED
    BY <1>1, <2>1, CallerAssumption DEF Offered
<1>2. CASE ~(Waiting(s) > 0)
  BY <1>2 DEF Offered
<1>. QED
  BY <1>1, <1>2

LEMMA HoldsSend ==
  ASSUME TypeOK, TypeOK', Steady, NEW y \in Side, Holds(y), NEW s \in Side, Send(s)
  PROVE  Kept
<1>0. Sound /\ mcn[y] \in Machine /\ mcn[y].next \in Nat
  BY Lengths, EventNumbers DEF Steady, Sound, Machine
<1>1. CASE s = Peer(y)
  <2>1. SendNothing(s)
    BY <1>0, <1>1, SendByEnd, NextSendByState, SideFacts
       DEF Holds, HolderPair, Sound, WaitingState
  <2>2. mcn'[s] = mcn[s] /\ mcn'[y] = mcn[y] /\ chan' = chan
    BY <1>1, <2>1, OnlyThisEnd, SideFacts DEF SendNothing, Ignore
  <2>3. wake'[y] = wake[y]
    BY <1>1, SendByEnd, SideFacts
  <2>4. HolderPair(y, Peer(y))' /\ WaitingNumbers(Peer(y))'
    BY <1>1, <2>2 DEF Holds, HolderPair, WaitingNumbers
  <2>5. Holds(y)'
    BY <1>1, <2>2, <2>3, <2>4 DEF Holds, Places, Stale
  <2>. QED
    BY <1>0, <1>1, <2>2, <2>5, SideFacts DEF Kept, Phase, Sound
<1>2. CASE s = y
  <2>1. PICK ok \in Initiates : NextSend(y, Offered(y), ok, dropped[y] + 1)
    BY <1>2, SendByEnd
  <2>b. dropped[y] \in Nat
    BY <1>0 DEF TypeOK
  <2>c. ~mcn[y].failed
    BY <1>0 DEF Sound
  <2>2. ~mcn[y].failed /\ wake[y] /\ ~wake'[y] /\ dropped[y] + 1 \in Nat
    BY <2>b, <2>c, <1>2, SendByEnd
  <2>a. PICK v \in Nat, k \in Nat : v = mcn[y].next /\ k = dropped[y] + 1
    BY <1>0, <2>2
  <2>3. CASE SendEvent(y, Offered(y))
    <3>1. /\ mcn'[y] = Spend(mcn[y], "RECEIVE") /\ mcn'[Peer(y)] = mcn[Peer(y)]
      BY <2>3, OnlyThisEnd DEF SendEvent
    <3>2. Pkt("ENTL", v) \in Packet /\ Produced(y, Pkt("ENTL", v))
      BY <2>a, <2>3, PacketTypes, ProducedByTransmit DEF SendEvent
    <3>3. mcn'[y].state = "RECEIVE"
      BY <1>0, <3>1, Fields
    <3>. DEFINE m == Pkt("ENTL", v)
    <3>5. m.value = mcn[y].next /\ "RECEIVE" \in WaitingState
      BY <2>a DEF Pkt, WaitingState
    <3>4. FlightPair(y, m, Peer(y))'
      BY <2>3, <3>1, <3>3 DEF Holds, HolderPair, FlightPair, Pkt, SendEvent
    <3>. QED
      BY <1>0, <2>2, <3>1, <3>2, <3>4, <3>5, TakesOff
  <2>4. CASE SendTransfer(y, Offered(y), ok, dropped[y] + 1)
    <3>1. y \notin Rejecting
      BY <2>4, RejectingOffersNothing DEF SendTransfer
    <3>2. mcn[y].state = "SEND" /\ mcn[Peer(y)].state = "RECEIVE"
      BY <2>4, <3>1 DEF Holds, HolderPair, SendTransfer
    <3>3. ASSUME NEW op \in {"AIT", "ALO"}, NEW st \in {"RA", "RAL"},
                 st = "RA" <=> op = "AIT",
                 Become(y, Spend(mcn[y], st), {"SEND"}),
                 Transmit(y, Aits(v, op, k))
          PROVE  Kept
      <4> DEFINE m == Aits(v, op, k)
      <4>1. mcn'[y] = Spend(mcn[y], st) /\ mcn'[Peer(y)] = mcn[Peer(y)]
        BY <3>3, OnlyThisEnd
      <4>2. m \in Packet /\ Produced(y, m)
        BY <3>3, PacketTypes, ProducedByTransmit
      <4>3. mcn'[y].state = st
        BY <1>0, <4>1, Fields
      <4>4. FlightPair(y, m, Peer(y))'
        BY <3>2, <3>3, <4>1, <4>3 DEF FlightPair, Aits
      <4>5. m.value = mcn[y].next /\ st \in WaitingState
        BY <2>a DEF Aits, WaitingState
      <4>. QED
        BY <1>0, <2>2, <4>1, <4>2, <4>4, <4>5, TakesOff
    <3>4. ASSUME Become(y, Spend(mcn[y], "SEND"), {}), UNCHANGED chan
          PROVE  Kept
      <4>1. mcn'[y] = Spend(mcn[y], "SEND") /\ mcn'[Peer(y)] = mcn[Peer(y)]
        BY <3>4, OnlyThisEnd
      <4>2. /\ mcn'[y].state = "SEND" /\ mcn'[y].know = mcn[y].know
            /\ mcn'[y].failed = mcn[y].failed /\ mcn'[y].value = mcn[y].value
        <5>1. mcn[y] \in Machine
          BY <1>0
        <5>. QED
          BY <4>1, <5>1 DEF Machine, Spend
      <4>3. HolderPair(y, Peer(y))' /\ WaitingNumbers(Peer(y))'
        BY <3>2, <4>1, <4>2 DEF Holds, HolderPair, WaitingNumbers
      <4>4. Holds(y)'
        BY <2>2, <3>4, <4>1, <4>2, <4>3 DEF Holds, Places, Stale
      <4>. QED
        BY <1>0, <4>1, <4>2, <4>4, SideFacts DEF Kept, Phase, Sound
    <3>. QED
      BY <2>a, <2>4, <3>3, <3>4 DEF SendTransfer
  <2>5. CASE SendAita(y)
    <3>1. mcn'[y] = Spend(mcn[y], "RECEIVE") /\ mcn'[Peer(y)] = mcn[Peer(y)]
      BY <2>5, OnlyThisEnd DEF SendAita
    <3>2. Pkt("AITA", v) \in Packet /\ Produced(y, Pkt("AITA", v))
      BY <2>a, <2>5, PacketTypes, ProducedByTransmit DEF SendAita
    <3>3. mcn'[y].state = "RECEIVE"
      BY <1>0, <3>1, Fields
    <3>. DEFINE m == Pkt("AITA", v)
    <3>5. m.value = mcn[y].next /\ "RECEIVE" \in WaitingState
      BY <2>a DEF Pkt, WaitingState
    <3>4. FlightPair(y, m, Peer(y))'
      BY <2>5, <3>1, <3>3 DEF Holds, HolderPair, FlightPair, Pkt, SendAita
    <3>. QED
      BY <1>0, <2>2, <3>1, <3>2, <3>4, <3>5, TakesOff
  <2>6. CASE SendAitr(y)
    <3> DEFINE st == IF mcn[y].state = "SB" THEN "RB" ELSE "RBL"
    <3>1. mcn'[y] = Spend(mcn[y], st) /\ mcn'[Peer(y)] = mcn[Peer(y)]
      BY <2>6, OnlyThisEnd DEF SendAitr
    <3>2. Pkt("AITR", v) \in Packet /\ Produced(y, Pkt("AITR", v))
      BY <2>a, <2>6, PacketTypes, ProducedByTransmit DEF SendAitr
    <3>3. mcn'[y].state = st
      BY <1>0, <3>1, Fields
    <3>. DEFINE m == Pkt("AITR", v)
    <3>4. FlightPair(y, m, Peer(y))'
      BY <2>6, <3>1, <3>3 DEF Holds, HolderPair, FlightPair, Pkt, SendAitr
    <3>5. m.value = mcn[y].next /\ st \in WaitingState
      BY <2>a DEF Pkt, WaitingState
    <3>. QED
      BY <1>0, <2>2, <3>1, <3>2, <3>4, <3>5, TakesOff
  <2>. QED
    BY <2>1, <2>2, <2>3, <2>4, <2>5, <2>6, NextSendByState DEF Holds, HolderPair
<1>. QED
  BY <1>1, <1>2, SideFacts

-----------------------------------------------------------------------------
(* The token is on the wire.                                                *)

LEMMA FlightShrink ==
  ASSUME TypeOK, TypeOK', NEW x \in Side, Flight(x), NEW s \in Side, Consumed(s),
         mcn' = mcn
  PROVE  Flight(x)'
<1>1. s = Peer(x) /\ Peer(s) = x /\ Peer(x) \in Side
  BY SideFacts DEF Flight, Consumed
<1>2. chan'[x] = <<>>
  BY <1>1 DEF Flight, Consumed
<1>3. \A i \in Places(s)' :
        /\ i + 1 \in Places(s) /\ chan'[s][i] = chan[s][i + 1]
        /\ i + 1 = Len(chan[s]) => i = Len(chan'[s])
  BY <1>1, Lengths, LengthsAfter DEF Consumed
<1>4. \A i \in Places(Peer(x))' :
        \/ Stale(Peer(x), i)'
        \/ /\ i = Len(chan'[Peer(x)])
           /\ chan'[Peer(x)][i].value = mcn[x].sent
           /\ FlightPair(x, chan'[Peer(x)][i], Peer(x))
  BY <1>1, <1>3 DEF Flight, Stale
<1>5. \A m : FlightPair(x, m, Peer(x)) => FlightPair(x, m, Peer(x))'
  BY DEF FlightPair
<1>6. WaitingNumbers(x)' /\ WaitingNumbers(Peer(x))'
  BY DEF Flight, WaitingNumbers
<1>. QED
  BY <1>2, <1>4, <1>5, <1>6 DEF Flight, FlightPair

LEMMA FlightSend ==
  ASSUME TypeOK, TypeOK', Sound, NEW x \in Side, Flight(x), NEW s \in Side, Send(s)
  PROVE  Kept
<1>1. SendNothing(s)
  BY SendByEnd, NextSendByState, SideFacts DEF Flight, Sound
<1>2. mcn'[s] = mcn[s] /\ mcn'[Peer(s)] = mcn[Peer(s)] /\ chan' = chan
  BY <1>1, OnlyThisEnd DEF SendNothing, Ignore
<1>3. mcn' = mcn
  BY <1>2, SameMachines, EndsFacts
<1>4. \A m : FlightPair(x, m, Peer(x)) => FlightPair(x, m, Peer(x))'
  BY <1>3 DEF FlightPair
<1>5. WaitingNumbers(x)' /\ WaitingNumbers(Peer(x))'
  BY <1>3 DEF Flight, WaitingNumbers
<1>6. Places(Peer(x))' = Places(Peer(x))
  BY <1>2 DEF Places
<1>7. \A i \in Places(Peer(x)) : Stale(Peer(x), i) => Stale(Peer(x), i)'
  BY <1>2, <1>3 DEF Stale
<1>8. Flight(x)'
  BY <1>2, <1>3, <1>4, <1>5, <1>6, <1>7 DEF Flight
<1>. QED
  BY <1>3, <1>8 DEF Kept, Phase, Sound

\* The state the receiver reaches is the one its peer waits for.
LandsIn(y, st, x) ==
  \/ st = "SEND" /\ mcn[x].state = "RECEIVE"
  \/ st = "SEND" /\ mcn[x].state = "RA" /\ y \in Rejecting
  \/ st = "SB"  /\ mcn[x].state = "RA"
  \/ st = "SBL" /\ mcn[x].state = "RAL"
  \/ st = "SA"  /\ mcn[x].state = "RB"
  \/ st = "SAL" /\ mcn[x].state = "RBL"

LEMMA Lands ==
  ASSUME TypeOK, TypeOK', Sound, NEW x \in Side, NEW y \in Side, y = Peer(x), Flight(x),
         Consumed(y), Len(chan[y]) = 1, NEW st, NEW flags,
         Become(y, Accept(mcn[y], mcn[x].sent, st), flags), LandsIn(y, st, x)
  PROVE  Kept
<1>1. Peer(y) = x /\ x # y
  BY SideFacts
<1>2. mcn'[y] = Accept(mcn[y], mcn[x].sent, st) /\ mcn'[x] = mcn[x]
  BY <1>1, OnlyThisEnd
<1>3. mcn[y] \in Machine
  BY Lengths
<1>4. /\ mcn'[y].state = st /\ mcn'[y].know = mcn[x].sent
      /\ mcn'[y].next = NextValue(mcn[x].sent)
      /\ mcn'[y].failed = mcn[y].failed /\ mcn'[y].value = mcn[y].value
  BY <1>2, <1>3, Fields
<1>5. chan'[y] = <<>> /\ chan'[x] = <<>>
  BY <1>1, LengthsAfter DEF Consumed, Flight
<1>6. HolderPair(y, x)'
  BY <1>2, <1>4 DEF HolderPair, LandsIn
<1>7. WaitingNumbers(x)'
  BY <1>2 DEF Flight, WaitingNumbers
<1>8. Places(x)' = {}
  BY <1>5 DEF Places
<1>9. Holds(y)'
  BY <1>1, <1>2, <1>4, <1>5, <1>6, <1>7, <1>8 DEF Holds
<1>. QED
  BY <1>1, <1>2, <1>4, <1>9, SideFacts DEF Kept, Phase, Sound

\* Only an end that may refuse a message ever reports a full queue.
LEMMA FullIsRejecting ==
  ASSUME TypeOK, Steady, NEW s \in Side, NEW full \in FullReports(s), full
  PROVE  s \in Rejecting
<1>1. Waiting(s) <= QueueLimit /\ Waiting(s) \in Int
  BY DEF Steady, TypeOK, Waiting
<1>2. ~(Waiting(s) >= QueueMax)
  BY <1>1, CallerAssumption, RegularAssumption
<1>. QED
  BY <1>2 DEF FullReports

LEMMA FlightReceive ==
  ASSUME TypeOK, TypeOK', Steady, NEW x \in Side, Flight(x), NEW s \in Side, Receive(s)
  PROVE  Kept
<1> DEFINE y == Peer(x)
           m == chan[y][1]
<1>0. Sound
  BY DEF Steady, Sound
<1>1. Consumed(s)
  BY ConsumedByReceive
<1>2. s = y /\ y \in Side /\ Peer(y) = x /\ x # y
  BY <1>1, SideFacts DEF Flight, Consumed
<1>3. CASE Stale(y, 1)
  <2>1. mcn'[Lower] = mcn[Lower] /\ mcn'[Upper] = mcn[Upper]
    BY <1>2, <1>3, LowerIgnores DEF Stale
  <2>2. mcn' = mcn
    BY <2>1, SameMachines
  <2>3. Flight(x)'
    BY <1>1, <2>2, FlightShrink
  <2>. QED
    BY <1>0, <2>2, <2>3 DEF Kept, Phase, Sound
<1>4. CASE 1 = Len(chan[y]) /\ m.value = mcn[x].sent /\ FlightPair(x, m, y)
  <2>1. m.value = Plus2(mcn[y].know)
    <3>1. mcn[y].know \in EventNumber
      BY <1>2, Lengths DEF Machine
    <3>. QED
      BY <1>4, <3>1, NextValueTwice DEF Flight, WaitingNumbers
  <2>2. PICK full \in FullReports(y) : Received(y, m, full)
    BY <1>2, ConsumedByReceive
  <2>3. \A type : /\ Expected(y, m, type) <=> m.type = type
    BY <2>1 DEF Expected
  <2>4. ASSUME NEW st, NEW flags, LandsIn(y, st, x),
               Become(y, Accept(mcn[y], m.value, st), flags)
        PROVE  Kept
    <3>1. Become(y, Accept(mcn[y], mcn[x].sent, st), flags)
      BY <1>4, <2>4
    <3>. QED
      BY <1>0, <1>1, <1>2, <1>4, <2>4, <3>1, Lands
  <2>5. full => y \in Rejecting
    BY <1>2, FullIsRejecting
  <2>6. CASE mcn[y].state = "RECEIVE"
    <3>1. ReceivedReceive(y, m, full)
      BY <2>2, <2>6, ReceivedByState
    <3>2. \/ m.type = "ENTL" /\ mcn[x].state = "RECEIVE"
          \/ m.type = "AITS" /\ m.op = "AIT" /\ mcn[x].state = "RA"
          \/ m.type = "AITS" /\ m.op = "ALO" /\ mcn[x].state = "RAL"
      BY <1>4, <2>6 DEF FlightPair
    <3>3. CASE m.type = "ENTL" /\ mcn[x].state = "RECEIVE"
      <4>1. LandsIn(y, "SEND", x)
        BY <3>3 DEF LandsIn
      <4>2. Become(y, Accept(mcn[y], m.value, "SEND"), {"SEND"})
        BY <2>3, <3>1, <3>3 DEF ReceivedReceive, Expected
      <4>. QED
        BY <2>4, <4>1, <4>2
    <3>4. CASE m.type = "AITS" /\ m.op = "AIT" /\ mcn[x].state = "RA" /\ full
      <4>1. LandsIn(y, "SEND", x)
        BY <2>5, <3>4 DEF LandsIn
      <4>2. Become(y, Accept(mcn[y], m.value, "SEND"), {"SEND"})
        BY <2>3, <3>1, <3>4 DEF ReceivedReceive, Expected
      <4>. QED
        BY <2>4, <4>1, <4>2
    <3>5. CASE m.type = "AITS" /\ m.op = "AIT" /\ mcn[x].state = "RA" /\ ~full
      <4>1. LandsIn(y, "SB", x)
        BY <3>5 DEF LandsIn
      <4>2. Become(y, Accept(mcn[y], m.value, "SB"), {"SEND", "PROC_AIT"})
        BY <2>3, <3>1, <3>5 DEF ReceivedReceive, Expected
      <4>. QED
        BY <2>4, <4>1, <4>2
    <3>6. CASE m.type = "AITS" /\ m.op = "ALO" /\ mcn[x].state = "RAL"
      <4>1. LandsIn(y, "SBL", x)
        BY <3>6 DEF LandsIn
      <4>2. Become(y, Accept(mcn[y], m.value, "SBL"), {"SEND"})
        BY <2>3, <3>1, <3>6 DEF ReceivedReceive, Expected
      <4>. QED
        BY <2>4, <4>1, <4>2
    <3>. QED
      BY <3>2, <3>3, <3>4, <3>5, <3>6
  <2>7. CASE mcn[y].state = "RA"
    <3>1. ReceivedRA(y, m)
      BY <2>2, <2>7, ReceivedByState
    <3>2. \/ m.type = "ENTL" /\ mcn[x].state = "RECEIVE"
          \/ m.type = "AITR" /\ mcn[x].state = "RB"
      BY <1>4, <2>7 DEF FlightPair
    <3>3. CASE m.type = "ENTL" /\ mcn[x].state = "RECEIVE"
      <4>1. LandsIn(y, "SEND", x)
        BY <3>3 DEF LandsIn
      <4>2. Become(y, Accept(mcn[y], m.value, "SEND"), {"SEND"})
        BY <2>3, <3>1, <3>3 DEF ReceivedRA
      <4>. QED
        BY <2>4, <4>1, <4>2
    <3>4. CASE m.type = "AITR" /\ mcn[x].state = "RB"
      <4>1. LandsIn(y, "SA", x)
        BY <3>4 DEF LandsIn
      <4>2. Become(y, Accept(mcn[y], m.value, "SA"), {"SEND"})
        BY <2>3, <3>1, <3>4 DEF ReceivedRA
      <4>. QED
        BY <2>4, <4>1, <4>2
    <3>. QED
      BY <3>2, <3>3, <3>4
  <2>8. CASE mcn[y].state = "RAL"
    <3>1. ReceivedRAL(y, m)
      BY <2>2, <2>8, ReceivedByState
    <3>2. m.type = "AITR" /\ mcn[x].state = "RBL"
      BY <1>4, <2>8 DEF FlightPair
    <3>3. PICK sig : Become(y, Accept(mcn[y], m.value, "SAL"), {"SEND"} \cup sig)
      BY <2>3, <3>1, <3>2 DEF ReceivedRAL
    <3>4. LandsIn(y, "SAL", x)
      BY <3>2 DEF LandsIn
    <3>. QED
      BY <2>4, <3>3, <3>4
  <2>9. CASE mcn[y].state = "RB"
    <3>1. ReceivedRB(y, m)
      BY <2>2, <2>9, ReceivedByState
    <3>2. m.type = "AITA" /\ mcn[x].state = "RECEIVE"
      BY <1>4, <2>9 DEF FlightPair
    <3>3. Become(y, Accept(mcn[y], m.value, "SEND"), {"SEND", "SIG_AIT"})
      BY <2>3, <3>1, <3>2 DEF ReceivedRB, Repeated
    <3>4. LandsIn(y, "SEND", x)
      BY <3>2 DEF LandsIn
    <3>. QED
      BY <2>4, <3>3, <3>4
  <2>10. CASE mcn[y].state = "RBL"
    <3>1. ReceivedRBL(y, m)
      BY <2>2, <2>10, ReceivedByState
    <3>2. m.type = "AITA" /\ mcn[x].state = "RECEIVE"
      BY <1>4, <2>10 DEF FlightPair
    <3>3. PICK sig : Become(y, Accept(mcn[y], m.value, "SEND"), {"SEND"} \cup sig)
      BY <2>3, <3>1, <3>2 DEF ReceivedRBL, Repeated
    <3>4. LandsIn(y, "SEND", x)
      BY <3>2 DEF LandsIn
    <3>. QED
      BY <2>4, <3>3, <3>4
  <2>. QED
    BY <2>6, <2>7, <2>8, <2>9, <2>10 DEF Flight, WaitingState
<1>. QED
  BY <1>1, <1>2, <1>3, <1>4 DEF Flight, Consumed

-----------------------------------------------------------------------------
(* The queues of the callers.                                               *)

Claim == {"RA", "RAL", "SA", "SAL"}

Bounded(s) ==
  /\ dropped[s] <= queued[s] /\ queued[s] <= Len(Offers[s])
  /\ Waiting(s) <= QueueLimit
  /\ mcn[s].state \in Claim => Waiting(s) > 0

LEMMA NewStates ==
  ASSUME TypeOK, NEW s \in Side
  PROVE  /\ \A v, st, flags :
              Become(s, Accept(mcn[s], v, st), flags) => mcn'[s].state = st
         /\ \A st, flags : Become(s, Spend(mcn[s], st), flags) => mcn'[s].state = st
         /\ \A flags : \/ Become(s, SetError(mcn[s]), flags)
                       \/ Become(s, CountHello(mcn[s]), flags)
                       \/ Ignore(s, flags)
                       \/ \E v : Become(s, SetRandom(mcn[s], v), flags)
                       => mcn'[s].state = mcn[s].state
         /\ \A flags : Become(s, StartWaiting(mcn[s]), flags) => mcn'[s].state = "WAIT"
         /\ \A flags : BackToHello(s, mcn[s], flags) \/ SequenceError(s, flags)
                       => mcn'[s].state = "HELLO"
<1>1. mcn[s] \in Machine
  BY Lengths
<1>2. SetError(mcn[s]) \in Machine
  BY <1>1, MachineUpdates, EventNumbers DEF State
<1>3. \A u : EntlStateHello(mcn[s], u).state = "HELLO"
             /\ EntlStateHello(SetError(mcn[s]), u).state = "HELLO"
  BY <1>1, <1>2 DEF Machine, EntlStateHello
<1>4. /\ \A v, st : Accept(mcn[s], v, st).state = st
      /\ \A st : Spend(mcn[s], st).state = st
      /\ StartWaiting(mcn[s]).state = "WAIT"
      /\ CountHello(mcn[s]).state = mcn[s].state
  BY <1>1 DEF Machine, Accept, Spend, StartWaiting, CountHello
<1>5. /\ SetError(mcn[s]).state = mcn[s].state
      /\ \A v : SetRandom(mcn[s], v).state = mcn[s].state
  BY <1>1 DEF Machine, SetError, SetRandom
<1>6. \A u, flags : Become(s, u, flags) => mcn'[s] = u
  BY OnlyThisEnd
<1>7. \A flags : BackToHello(s, mcn[s], flags) \/ SequenceError(s, flags)
                 => mcn'[s].state = "HELLO"
  BY <1>3, <1>6 DEF BackToHello, SequenceError
<1>. QED
  BY <1>4, <1>5, <1>6, <1>7 DEF Ignore

\* entl_received leads to a state that goes with a waiting transfer only from
\* another such state.
LEMMA ReceivedClaims ==
  ASSUME TypeOK, NEW s \in Side, NEW m, NEW full, Received(s, m, full),
         mcn'[s].state \in Claim
  PROVE  mcn[s].state \in Claim
<1>. USE NewStates, Lengths DEF Claim
<1>1. CASE ReceivedHello(s, m)
  BY <1>1 DEF ReceivedHello
<1>2. CASE ReceivedWait(s, m)
  BY <1>2 DEF ReceivedWait
<1>3. CASE ReceivedSend(s, m)
  BY <1>3 DEF ReceivedSend
<1>4. CASE ReceivedReceive(s, m, full)
  BY <1>4 DEF ReceivedReceive
<1>5. CASE ReceivedRA(s, m) \/ ReceivedRAL(s, m) \/ ReceivedSA(s, m)
  BY <1>5 DEF ReceivedRA, ReceivedRAL, ReceivedSA, ReceivedAcking
<1>6. CASE ReceivedSB(s, m)
  BY <1>6 DEF ReceivedSB, ReceivedAcking
<1>7. CASE ReceivedRB(s, m)
  BY <1>7 DEF ReceivedRB
<1>8. CASE ReceivedRBL(s, m)
  BY <1>8 DEF ReceivedRBL
<1>. QED
  BY <1>1, <1>2, <1>3, <1>4, <1>5, <1>6, <1>7, <1>8 DEF Received

\* entl_next_send leads there from SEND only with something offered, and it
\* is SA and SAL that give the head of the queue back.
LEMMA NextSendClaims ==
  ASSUME TypeOK, NEW s \in Side, NEW kind, NEW ok, NEW k, NextSend(s, kind, ok, k)
  PROVE  /\ "DROP_AIT" \in act'[s] =>
              mcn[s].state \in {"SA", "SAL"} /\ mcn'[s].state = "RECEIVE"
         /\ mcn'[s].state \in Claim => mcn[s].state \in Claim \/ kind \in Kind
<1>. USE NewStates, Lengths DEF Claim
<1>0. /\ \A n, flags : Become(s, n, flags) => act'[s] = flags
      /\ \A flags : Ignore(s, flags) => act'[s] = flags
  BY OnlyThisEnd DEF Ignore
<1>1. CASE SendHello(s)
  BY <1>0, <1>1 DEF SendHello
<1>2. CASE SendWait(s)
  BY <1>0, <1>2 DEF SendWait
<1>3. CASE SendEvent(s, kind)
  <2>1. mcn'[s].state = "RECEIVE" /\ act'[s] = {"SEND"}
    BY <1>0, <1>3 DEF SendEvent
  <2>. QED
    BY <2>1
<1>4. CASE SendTransfer(s, kind, ok, k)
  BY <1>0, <1>4 DEF SendTransfer, Kind
<1>5. CASE SendAita(s)
  <2>1. mcn'[s].state = "RECEIVE" /\ mcn[s].state \in {"SA", "SAL"}
    BY <1>0, <1>5 DEF SendAita
  <2>. QED
    BY <2>1
<1>6. CASE SendAitr(s)
  <2>1. mcn'[s].state \in {"RB", "RBL"} /\ act'[s] = {"SEND"}
    BY <1>0, <1>6 DEF SendAitr
  <2>. QED
    BY <2>1
<1>7. CASE SendNothing(s)
  BY <1>0, <1>7 DEF SendNothing
<1>. QED
  BY <1>1, <1>2, <1>3, <1>4, <1>5, <1>6, <1>7 DEF NextSend

LEMMA BoundedNext ==
  ASSUME TypeOK, TypeOK', Steady, Next
  PROVE  \A t \in Side : Bounded(t)'
<1>0. \A t \in Side : /\ Bounded(t) /\ dropped[t] \in Nat /\ queued[t] \in Nat
                      /\ Len(Offers[t]) \in Nat
  BY CallerAssumption DEF Steady, TypeOK, Bounded, Claim
<1>1. ASSUME NEW s \in Side, Offer(s) PROVE \A t \in Side : Bounded(t)'
  <2>1. \A t \in Side : queued'[t] = IF t = s THEN queued[t] + 1 ELSE queued[t]
    BY <1>1 DEF Offer, TypeOK
  <2>. QED
    BY <1>0, <1>1, <2>1, CallerAssumption DEF Offer, Bounded, Waiting
<1>2. ASSUME NEW s \in Side, Receive(s) PROVE \A t \in Side : Bounded(t)'
  <2>1. queued' = queued /\ dropped' = dropped
    BY <1>2 DEF Receive
  <2>2. PICK full : Received(s, chan[s][1], full)
    BY <1>2, ConsumedByReceive
  <2>3. mcn'[s].state \in Claim => mcn[s].state \in Claim
    BY <2>2, ReceivedClaims
  <2>4. mcn'[Peer(s)] = mcn[Peer(s)]
    BY <2>2, ReceivedOnlyHere
  <2>. QED
    BY <1>0, <2>1, <2>3, <2>4, SideFacts DEF Bounded, Waiting
<1>3. ASSUME NEW s \in Side, Send(s) PROVE \A t \in Side : Bounded(t)'
  <2>1. PICK ok : NextSend(s, Offered(s), ok, dropped[s] + 1)
    BY <1>3, SendByEnd
  <2>2. /\ "DROP_AIT" \in act'[s] =>
             mcn[s].state \in {"SA", "SAL"} /\ mcn'[s].state = "RECEIVE"
        /\ mcn'[s].state \in Claim => mcn[s].state \in Claim \/ Offered(s) \in Kind
    BY <2>1, NextSendClaims
  <2>3. Offered(s) \in Kind => Waiting(s) > 0
    BY DEF Offered, Kind
  <2>4. mcn'[Peer(s)] = mcn[Peer(s)]
    BY <2>1, NextSendOnlyHere
  <2>5. CASE "DROP_AIT" \in act'[s]
    <3>0. queued' = queued /\ dropped' = [dropped EXCEPT ![s] = @ + 1]
      BY <1>3, <2>5 DEF Send
    <3>1. /\ queued' = queued
          /\ \A t \in Side : dropped'[t] = IF t = s THEN dropped[t] + 1 ELSE dropped[t]
      BY <3>0 DEF TypeOK
    <3>2. Waiting(s) > 0 /\ mcn'[s].state \notin Claim
      BY <1>0, <2>2, <2>5 DEF Bounded, Claim
    <3>a. /\ queued'[s] = queued[s] /\ dropped'[s] = dropped[s] + 1
          /\ dropped[s] \in Nat /\ queued[s] \in Nat
      BY <1>0, <3>1
    <3>3. Waiting(s)' = Waiting(s) - 1 /\ dropped'[s] <= queued'[s]
      BY <3>a, <3>2 DEF Waiting
    <3>b. Waiting(s) \in Int /\ Waiting(s) <= QueueLimit /\ QueueLimit \in Nat
      BY <1>0, <3>a, CallerAssumption DEF Bounded, Waiting
    <3>4. Bounded(s)'
      BY <1>0, <3>a, <3>2, <3>3, <3>b DEF Bounded
    <3>. QED
      BY <1>0, <2>4, <3>1, <3>4, SideFacts DEF Bounded, Waiting
  <2>6. CASE "DROP_AIT" \notin act'[s]
    <3>1. queued' = queued /\ dropped' = dropped
      BY <1>3, <2>6 DEF Send
    <3>. QED
      BY <1>0, <2>2, <2>3, <2>4, <3>1, SideFacts DEF Bounded, Waiting
  <2>. QED
    BY <2>5, <2>6
<1>4. ASSUME NEW s \in Side, Lose(s) PROVE \A t \in Side : Bounded(t)'
  BY <1>0, <1>4 DEF Lose, callerVars, Bounded, Waiting
<1>. QED
  BY <1>1, <1>2, <1>3, <1>4 DEF Next

-----------------------------------------------------------------------------
(* The invariant.                                                           *)

LEMMA LosePhase ==
  ASSUME TypeOK, TypeOK', Phase, NEW s \in Side, Lose(s)
  PROVE  Phase' /\ mcn' = mcn
<1>1. Consumed(s) /\ mcn' = mcn /\ wake' = wake
  BY ConsumedByLose
<1>. QED
  BY <1>1, GreetingShrink, InvitingShrink, InvitedShrink, RepliedShrink,
     HoldsShrink, FlightShrink DEF Phase

LEMMA InitIInv == Init => IInv
<1>. SUFFICES ASSUME Init PROVE IInv
  OBVIOUS
<1>1. TypeOK
  BY InitType
<1>2. \A s \in Side : /\ mcn[s] = Booted(MyValue[s]) /\ chan[s] = <<>>
                      /\ queued[s] = 0 /\ dropped[s] = 0
  BY DEF Init
<1>. DEFINE Fresh(n, v) == /\ ~n.failed /\ n.value = v
                          /\ n.state = "HELLO" /\ n.sent = 0
<1>a. \A v : Fresh(Booted(v), v)
  BY DEF Booted
<1>b. \A s \in Side : Fresh(mcn[s], MyValue[s])
  BY <1>2, <1>a
<1>3. Steady
  <2>1. \A s \in Side : /\ ~mcn[s].failed /\ mcn[s].value = MyValue[s]
                        /\ mcn[s].state = "HELLO"
    BY <1>b
  <2>2. \A s \in Side : Waiting(s) = 0 /\ Len(Offers[s]) \in Nat
    BY <1>2, CallerAssumption DEF Waiting
  <2>. QED
    BY <1>2, <2>1, <2>2, CallerAssumption DEF Steady
<1>4. Greeting
  <2>1. \A s \in Side : mcn[s].state = "HELLO" /\ mcn[s].sent = 0
    BY <1>b
  <2>2. \A s \in Side : Places(s) = {} /\ Len(chan[s]) = 0
    BY <1>2 DEF Places
  <2>3. \A s \in Side : Tokens(s) \in {0, 1}
    BY <1>1, <2>2, Lengths DEF Tokens
  <2>. QED
    BY <2>1, <2>2, <2>3, SideFacts DEF Greeting
<1>. QED
  BY <1>1, <1>3, <1>4 DEF IInv, Phase

\* A phase is a matter of the machines, the wire and the callers' turns.
LEMMA SamePhase ==
  ASSUME mcn' = mcn, chan' = chan, wake' = wake, Phase
  PROVE  Phase'
<1>1. CASE Greeting \/ Inviting
  BY <1>1 DEF Phase, Greeting, Inviting, UpperWaits, Places, Tokens
<1>2. CASE Invited \/ Replied
  BY <1>2 DEF Phase, Invited, Replied, UpperWaits, Places
<1>3. ASSUME NEW y \in Side, Holds(y) PROVE Phase'
  <2>1. Holds(y)'
    BY <1>3 DEF Holds, HolderPair, WaitingNumbers, Stale, Places
  <2>. QED
    BY <2>1 DEF Phase
<1>4. ASSUME NEW x \in Side, Flight(x) PROVE Phase'
  <2>1. Flight(x)'
    BY <1>4 DEF Flight, FlightPair, WaitingNumbers, Stale, Places
  <2>. QED
    BY <2>1 DEF Phase
<1>. QED
  BY <1>1, <1>2, <1>3, <1>4 DEF Phase

LEMMA NextIInv == IInv /\ [Next]_vars => IInv'
<1>. SUFFICES ASSUME IInv, [Next]_vars PROVE IInv'
  OBVIOUS
<1>1. TypeOK /\ TypeOK' /\ Steady /\ Phase /\ Sound
  BY NextType DEF IInv, Steady, Sound
<1>2. CASE UNCHANGED vars
  <2>1. Steady'
    BY <1>1, <1>2 DEF vars, callerVars, Steady, Waiting
  <2>2. Phase'
    BY <1>1, <1>2, SamePhase DEF vars
  <2>. QED
    BY <1>1, <2>1, <2>2 DEF IInv
<1>3. CASE Next
  <2>1. Kept
    <3>1. ASSUME NEW s \in Side, Offer(s) PROVE Kept
      <4>1. mcn' = mcn /\ chan' = chan /\ wake' = wake
        BY <3>1 DEF Offer
      <4>. QED
        BY <1>1, <4>1, SamePhase DEF Kept, Sound
    <3>2. ASSUME NEW s \in Side, Receive(s) PROVE Kept
      BY <1>1, <3>2, GreetingReceive, InvitingReceive, InvitedReceive, RepliedReceive,
         HoldsReceive, FlightReceive DEF Phase
    <3>3. ASSUME NEW s \in Side, Send(s) PROVE Kept
      BY <1>1, <3>3, GreetingSend, InvitingSend, InvitedSend, RepliedSend,
         HoldsSend, FlightSend DEF Phase
    <3>4. ASSUME NEW s \in Side, Lose(s) PROVE Kept
      BY <1>1, <3>4, LosePhase DEF Kept, Sound
    <3>. QED
      BY <1>3, <3>1, <3>2, <3>3, <3>4 DEF Next
  <2>2. \A t \in Side : Bounded(t)'
    BY <1>1, <1>3, BoundedNext
  <2>. QED
    BY <1>1, <2>1, <2>2 DEF IInv, Kept, Sound, Steady, Bounded, Claim
<1>. QED
  BY <1>2, <1>3

\* A regular link stays within the phases EntlRegularLink describes, whatever
\* the callers of entl_received and entl_next_send do and the wire loses.
THEOREM Invariance == Spec => []IInv
<1>1. Init => IInv
  BY InitIInv
<1>2. IInv /\ [Next]_vars => IInv'
  BY NextIInv
<1>. QED
  BY <1>1, <1>2, PTL DEF Spec

\* On a regular link no interleaving of the callers and no loss of packets
\* leads entl_received into one of its set_error branches.
THEOREM NeverAnError == Spec => []NoSequenceError
<1>1. IInv => NoSequenceError
  BY DEF IInv, Steady, NoSequenceError
<1>. QED
  BY <1>1, Invariance, PTL

\* On a regular link the two machines are never both in a state in which
\* entl_next_send may send the next event.
THEOREM NeverTwoHolders == Spec => []OneHolder
<1>1. IInv => OneHolder
  <2>. SUFFICES ASSUME IInv PROVE OneHolder
    OBVIOUS
  <2>1. CASE Greeting
    BY <2>1, SideFacts DEF Greeting, OneHolder, HolderState
  <2>2. CASE Inviting \/ Invited \/ Replied
    BY <2>2, EndsFacts DEF Inviting, Invited, Replied, UpperWaits, OneHolder, HolderState
  <2>3. ASSUME NEW y \in Side, Holds(y) PROVE OneHolder
    <3>1. Peer(y) \in Side
      BY SideFacts
    <3>. QED
      BY <2>3, <3>1 DEF Holds, HolderPair, OneHolder, HolderState
  <2>4. ASSUME NEW x \in Side, Flight(x) PROVE OneHolder
    BY <2>4 DEF Flight, WaitingState, OneHolder, HolderState
  <2>. QED
    BY <2>1, <2>2, <2>3, <2>4 DEF IInv, Phase
<1>. QED
  BY <1>1, Invariance, PTL

-----------------------------------------------------------------------------
(* A regular link implements AitTransfer: AgreementInv is inductive together *)
(* with IInv, whose phases say which packets can be on the wire in which pair *)
(* of states.                                                               *)

LEMMA ErrorsFail ==
  ASSUME TypeOK, NEW s \in Side, ~mcn'[s].failed
  PROVE  \A flags : ~SequenceError(s, flags)
<1>. SUFFICES ASSUME NEW flags, SequenceError(s, flags) PROVE FALSE
  OBVIOUS
<1>1. PICK w \in Redraw[s] : Become(s, EntlStateHello(SetError(mcn[s]), w), flags)
  BY DEF SequenceError, BackToHello
<1>2. EntlStateHello(SetError(mcn[s]), w).failed
  BY Lengths DEF Machine, EntlStateHello, SetError
<1>. QED
  BY <1>1, <1>2, OnlyThisEnd

\* What entl_received does to the states that matter to a message.
LEMMA ReceivedMoves ==
  ASSUME TypeOK, NEW s \in Side, NEW m, NEW full, Received(s, m, full),
         ~mcn'[s].failed
  PROVE  /\ mcn'[s].state \in WaitingState => mcn'[s].state = mcn[s].state
         /\ mcn'[s].state = "SA" => mcn[s].state \in {"SA", "RA"}
         /\ mcn'[s].state = "SAL" => mcn[s].state \in {"SAL", "RAL"}
         /\ mcn'[s].state = "SB" => mcn[s].state = "SB" \/ "PROC_AIT" \in act'[s]
         /\ "PROC_AIT" \in act'[s] =>
              /\ mcn[s].state = "RECEIVE" /\ mcn'[s].state = "SB"
              /\ m.type = "AITS" /\ m.op = "AIT"
         /\ mcn[s].state = "RB" =>
              IF "SIG_AIT" \in act'[s]
              THEN m.type = "AITA" /\ mcn'[s].state = "SEND"
              ELSE mcn'[s].state = "RB"
<1>a. \A v, st, flags : Become(s, Accept(mcn[s], v, st), flags)
                        => mcn'[s].state = st /\ act'[s] = flags
  <2>1. \A v, st, flags : Become(s, Accept(mcn[s], v, st), flags)
                          => mcn'[s].state = st
    BY NewStates
  <2>. QED
    BY <2>1, OnlyThisEnd
<1>b. \A flags : \/ Ignore(s, flags)
                 \/ Become(s, SetError(mcn[s]), flags)
                 \/ Become(s, CountHello(mcn[s]), flags)
                 \/ \E v : Become(s, SetRandom(mcn[s], v), flags)
                 => mcn'[s].state = mcn[s].state /\ act'[s] = flags
  BY NewStates, OnlyThisEnd DEF Ignore
<1>c. \A flags : Become(s, StartWaiting(mcn[s]), flags)
                 => mcn'[s].state = "WAIT" /\ act'[s] = flags
  BY NewStates, OnlyThisEnd
<1>d. \A flags : BackToHello(s, mcn[s], flags)
                 => mcn'[s].state = "HELLO" /\ act'[s] = flags
  BY NewStates, OnlyThisEnd DEF BackToHello
<1>1. \A flags : ~SequenceError(s, flags)
  BY ErrorsFail
<1>2. CASE ReceivedHello(s, m)
  <2>1. /\ mcn[s].state = "HELLO" /\ mcn'[s].state \in {"HELLO", "WAIT", "SEND"}
        /\ act'[s] = {"SEND"}
    BY <1>a, <1>b, <1>c, <1>2 DEF ReceivedHello
  <2>. QED
    BY <2>1 DEF WaitingState
<1>3. CASE ReceivedWait(s, m)
  <2>1. /\ mcn[s].state = "WAIT" /\ mcn'[s].state \in {"HELLO", "WAIT", "SEND"}
        /\ act'[s] \in {{}, {"SEND"}}
    BY <1>a, <1>b, <1>d, <1>1, <1>3 DEF ReceivedWait
  <2>. QED
    BY <2>1 DEF WaitingState
<1>4. CASE ReceivedSend(s, m)
  <2>1. /\ mcn[s].state = "SEND" /\ mcn'[s].state = "SEND"
        /\ act'[s] \in {{}, {"ERROR"}}
    BY <1>b, <1>1, <1>4 DEF ReceivedSend
  <2>. QED
    BY <2>1 DEF WaitingState
<1>5. CASE ReceivedReceive(s, m, full)
  <2>1. mcn[s].state = "RECEIVE"
    BY <1>5 DEF ReceivedReceive
  <2>2. \/ mcn'[s].state \in {"SEND", "SBL"} /\ act'[s] = {"SEND"}
        \/ mcn'[s].state = "RECEIVE" /\ act'[s] = {}
        \/ /\ mcn'[s].state = "SB" /\ act'[s] = {"SEND", "PROC_AIT"}
           /\ m.type = "AITS" /\ m.op = "AIT"
    BY <1>a, <1>b, <1>1, <1>5 DEF ReceivedReceive, Expected
  <2>. QED
    BY <2>1, <2>2 DEF WaitingState
<1>6. CASE ReceivedRA(s, m)
  <2>1. /\ mcn[s].state = "RA" /\ mcn'[s].state \in {"SEND", "SA"}
        /\ act'[s] = {"SEND"}
    BY <1>a, <1>1, <1>6 DEF ReceivedRA
  <2>. QED
    BY <2>1 DEF WaitingState
<1>7. CASE ReceivedRAL(s, m)
  <2>1. mcn[s].state = "RAL"
    BY <1>7 DEF ReceivedRAL
  <2>2. PICK sig \in SUBSET {"SIG_AIT"} :
          Become(s, Accept(mcn[s], m.value, "SAL"), {"SEND"} \cup sig)
    BY <1>1, <1>7 DEF ReceivedRAL
  <2>3. mcn'[s].state = "SAL" /\ act'[s] = {"SEND"} \cup sig
    BY <1>a, <2>2
  <2>4. "PROC_AIT" \notin {"SEND"} \cup sig
    BY <2>2
  <2>. QED
    BY <2>1, <2>3, <2>4 DEF WaitingState
<1>8. CASE ReceivedSA(s, m)
  <2>1. /\ mcn[s].state \in {"SA", "SAL"} /\ mcn'[s].state = mcn[s].state
        /\ act'[s] = {}
    BY <1>b, <1>1, <1>8 DEF ReceivedSA, ReceivedAcking
  <2>. QED
    BY <2>1 DEF WaitingState
<1>9. CASE ReceivedSB(s, m)
  <2>1. /\ mcn[s].state \in {"SB", "SBL"} /\ mcn'[s].state = mcn[s].state
        /\ act'[s] = {}
    BY <1>b, <1>1, <1>9 DEF ReceivedSB, ReceivedAcking
  <2>. QED
    BY <2>1 DEF WaitingState
<1>10. CASE ReceivedRB(s, m)
  <2>1. mcn[s].state = "RB"
    BY <1>10 DEF ReceivedRB
  <2>2. \/ /\ mcn'[s].state = "SEND" /\ act'[s] = {"SEND", "SIG_AIT"}
           /\ m.type = "AITA"
        \/ mcn'[s].state = "RB" /\ act'[s] = {}
    BY <1>a, <1>b, <1>1, <1>10 DEF ReceivedRB, Expected
  <2>. QED
    BY <2>1, <2>2 DEF WaitingState
<1>11. CASE ReceivedRBL(s, m)
  <2>1. mcn[s].state = "RBL"
    BY <1>11 DEF ReceivedRBL
  <2>2. CASE Ignore(s, {})
    <3>1. mcn'[s].state = "RBL" /\ act'[s] = {}
      BY <1>b, <2>1, <2>2
    <3>. QED
      BY <2>1, <3>1 DEF WaitingState
  <2>3. CASE \E sig \in SUBSET {"SIG_AIT"} :
               Become(s, Accept(mcn[s], m.value, "SEND"), {"SEND"} \cup sig)
    <3>1. PICK sig \in SUBSET {"SIG_AIT"} :
            Become(s, Accept(mcn[s], m.value, "SEND"), {"SEND"} \cup sig)
      BY <2>3
    <3>2. mcn'[s].state = "SEND" /\ act'[s] = {"SEND"} \cup sig
      BY <1>a, <3>1
    <3>3. "PROC_AIT" \notin {"SEND"} \cup sig
      BY <3>1
    <3>. QED
      BY <2>1, <3>2, <3>3 DEF WaitingState
  <2>. QED
    BY <1>1, <1>11, <2>2, <2>3 DEF ReceivedRBL
<1>. QED
  BY <1>2, <1>3, <1>4, <1>5, <1>6, <1>7, <1>8, <1>9, <1>10, <1>11 DEF Received

\* What the wire may hold for an end in RB, and for one whose peer is there.
LEMMA WireOfRB ==
  ASSUME IInv, NEW s \in Side, Receive(s)
  PROVE  /\ mcn[s].state = "RB" =>
              chan[s][1].type = "AITA" /\ mcn[Peer(s)].state = "RECEIVE"
         /\ mcn[s].state = "RECEIVE" /\ mcn[Peer(s)].state = "RB" =>
              mcn'[s].state = "RECEIVE"
<1>0. TypeOK /\ Steady /\ Phase /\ Sound
  BY DEF IInv, Steady, Sound
<1>1. Consumed(s) /\ chan[s] # <<>> /\ 1 \in Places(s)
  BY <1>0, ConsumedByReceive DEF Consumed
<1>2. Stale(s, 1) => mcn[s].state = "RECEIVE" /\ mcn'[s] = mcn[s]
  BY <1>0, LowerIgnores, EndsFacts DEF Stale
<1>3. CASE Greeting \/ Inviting \/ Invited \/ Replied
  BY <1>3, EndsFacts DEF Greeting, Inviting, Invited, Replied, UpperWaits
<1>4. ASSUME NEW y \in Side, Holds(y)
      PROVE  Stale(s, 1)
  BY <1>1, <1>4, SideFacts DEF Holds
<1>5. ASSUME NEW x \in Side, Flight(x)
      PROVE  Stale(s, 1) \/ (FlightPair(x, chan[s][1], s) /\ x = Peer(s))
  BY <1>1, <1>5, SideFacts DEF Flight
<1>. QED
  BY <1>0, <1>2, <1>3, <1>4, <1>5 DEF Phase, FlightPair

\* The state of the peer when an end may send.
LEMMA PeerOfHolder ==
  ASSUME IInv, NEW s \in Side
  PROVE  /\ mcn[s].state = "SEND" => mcn[Peer(s)].state \in {"RECEIVE", "RA", "WAIT"}
         /\ mcn[s].state = "SB" => mcn[Peer(s)].state = "RA"
         /\ mcn[s].state \in {"SA", "SAL"} =>
              /\ mcn[Peer(s)].state = IF mcn[s].state = "SA" THEN "RB" ELSE "RBL"
              /\ \A i \in Places(Peer(s)) : chan[Peer(s)][i].type = "ENTL"
<1>1. CASE Greeting \/ Inviting \/ Invited \/ Replied
  BY <1>1, EndsFacts DEF Greeting, Inviting, Invited, Replied, UpperWaits
<1>2. ASSUME NEW y \in Side, Holds(y), mcn[s].state \in HolderState
      PROVE  /\ HolderPair(s, Peer(s))
             /\ \A i \in Places(Peer(s)) : chan[Peer(s)][i].type = "ENTL"
  <2>1. s = y
    BY <1>2, SideFacts DEF Holds, HolderPair, HolderState
  <2>. QED
    BY <1>2, <2>1 DEF Holds, Stale, Invitation, Pkt
<1>3. ASSUME NEW x \in Side, Flight(x)
      PROVE  mcn[s].state \in WaitingState
  BY <1>3, SideFacts DEF Flight
<1>. QED
  BY <1>1, <1>2, <1>3 DEF IInv, Phase, HolderPair, HolderState, WaitingState

-----------------------------------------------------------------------------
(* What entl_next_send does to the states that matter to a message.         *)

\* The packet s may add to the wire towards its peer, and what comes with it.
Sends(s, m, kind, k) ==
  \/ /\ mcn'[s].state = mcn[s].state /\ "DROP_AIT" \notin act'[s]
     /\ mcn[s].state \in {"HELLO", "WAIT"} /\ m.type \in {"HELLO", "ENTL"}
  \/ /\ mcn[s].state = "SEND" /\ mcn'[s].state = "RECEIVE"
     /\ "DROP_AIT" \notin act'[s] /\ m.type = "ENTL"
  \/ /\ mcn[s].state = "SEND" /\ mcn'[s].state = "RAL"
     /\ "DROP_AIT" \notin act'[s] /\ kind \in {"ALO", "BOTH"} /\ m.op = "ALO"
  \/ /\ mcn[s].state = "SEND" /\ mcn'[s].state = "RA"
     /\ "DROP_AIT" \notin act'[s] /\ kind \in {"AIT", "BOTH"} /\ m.id = k
  \/ /\ mcn[s].state \in {"SA", "SAL"} /\ mcn'[s].state = "RECEIVE"
     /\ "DROP_AIT" \in act'[s] /\ m.type = "AITA"
  \/ /\ mcn[s].state = "SB" /\ mcn'[s].state = "RB"
     /\ "DROP_AIT" \notin act'[s] /\ m.type = "AITR"
  \/ /\ mcn[s].state = "SBL" /\ mcn'[s].state = "RBL"
     /\ "DROP_AIT" \notin act'[s] /\ m.type = "AITR"

Silent(s) ==
  /\ mcn'[s].state = mcn[s].state /\ "DROP_AIT" \notin act'[s] /\ chan' = chan

LEMMA NextSendMoves ==
  ASSUME TypeOK, NEW s \in Side, NEW kind, NEW ok, NEW k \in Nat,
         NextSend(s, kind, ok, k), ~mcn[s].failed
  PROVE  Silent(s) \/ \E m \in Packet : Transmit(s, m) /\ Sends(s, m, kind, k)
<1>a. \A st, flags : Become(s, Spend(mcn[s], st), flags)
                     => mcn'[s].state = st /\ act'[s] = flags
  <2>1. \A st, flags : Become(s, Spend(mcn[s], st), flags) => mcn'[s].state = st
    BY NewStates
  <2>. QED
    BY <2>1, OnlyThisEnd
<1>b. \A flags : Ignore(s, flags) => mcn'[s].state = mcn[s].state /\ act'[s] = flags
  BY OnlyThisEnd DEF Ignore
<1>c. mcn[s].next \in Nat /\ mcn[s].value \in Nat
  BY Lengths, EventNumbers DEF Machine
<1>d. /\ \A type \in {"HELLO", "ENTL", "AITR", "AITA"}, v \in Nat :
           Pkt(type, v) \in Packet /\ Pkt(type, v).type = type
      /\ \A op \in {"AIT", "ALO"}, v \in Nat :
           Aits(v, op, k) \in Packet /\ Aits(v, op, k).op = op /\ Aits(v, op, k).id = k
  BY PacketTypes DEF Pkt, Aits
<1>1. CASE SendHello(s)
  <2>1. /\ mcn[s].state = "HELLO" /\ mcn'[s].state = "HELLO" /\ act'[s] = {"SEND"}
        /\ Transmit(s, Pkt("HELLO", mcn[s].value))
    BY <1>b, <1>1 DEF SendHello
  <2>. QED
    BY <1>c, <1>d, <2>1 DEF Sends
<1>2. CASE SendWait(s)
  <2>1. /\ mcn[s].state = "WAIT" /\ mcn'[s].state = "WAIT" /\ act'[s] = {"SEND"}
        /\ Transmit(s, Pkt("ENTL", 0))
    BY <1>b, <1>2 DEF SendWait
  <2>. QED
    BY <1>d, <2>1 DEF Sends
<1>3. CASE SendEvent(s, kind)
  <2>1. /\ mcn[s].state = "SEND" /\ mcn'[s].state = "RECEIVE" /\ act'[s] = {"SEND"}
        /\ Transmit(s, Pkt("ENTL", mcn[s].next))
    BY <1>a, <1>3 DEF SendEvent
  <2>. QED
    BY <1>c, <1>d, <2>1 DEF Sends
<1>4. CASE SendTransfer(s, kind, ok, k)
  <2>1. mcn[s].state = "SEND"
    BY <1>4 DEF SendTransfer
  <2>2. CASE /\ kind \in {"ALO", "BOTH"}
             /\ Become(s, Spend(mcn[s], "RAL"), {"SEND"})
             /\ Transmit(s, Aits(mcn[s].next, "ALO", k))
    <3>1. mcn'[s].state = "RAL" /\ act'[s] = {"SEND"}
      BY <1>a, <2>2
    <3>. QED
      BY <1>c, <1>d, <2>1, <2>2, <3>1 DEF Sends
  <2>3. CASE /\ kind \in {"AIT", "BOTH"}
             /\ Become(s, Spend(mcn[s], "RA"), {"SEND"})
             /\ Transmit(s, Aits(mcn[s].next, "AIT", k))
    <3>1. mcn'[s].state = "RA" /\ act'[s] = {"SEND"}
      BY <1>a, <2>3
    <3>. QED
      BY <1>c, <1>d, <2>1, <2>3, <3>1 DEF Sends
  <2>4. CASE Become(s, Spend(mcn[s], "SEND"), {}) /\ UNCHANGED chan
    <3>1. mcn'[s].state = "SEND" /\ act'[s] = {}
      BY <1>a, <2>4
    <3>. QED
      BY <2>1, <2>4, <3>1 DEF Silent
  <2>. QED
    BY <1>4, <2>2, <2>3, <2>4 DEF SendTransfer
<1>5. CASE SendAita(s)
  <2>1. /\ mcn[s].state \in {"SA", "SAL"} /\ mcn'[s].state = "RECEIVE"
        /\ act'[s] = {"SEND", "SIG_AIT", "DROP_AIT"}
        /\ Transmit(s, Pkt("AITA", mcn[s].next))
    BY <1>a, <1>5 DEF SendAita
  <2>. QED
    BY <1>c, <1>d, <2>1 DEF Sends
<1>6. CASE SendAitr(s)
  <2>1. /\ mcn[s].state \in {"SB", "SBL"}
        /\ mcn'[s].state = (IF mcn[s].state = "SB" THEN "RB" ELSE "RBL")
        /\ act'[s] = {"SEND"}
        /\ Transmit(s, Pkt("AITR", mcn[s].next))
    BY <1>a, <1>6 DEF SendAitr
  <2>. QED
    BY <1>c, <1>d, <2>1 DEF Sends
<1>7. CASE SendNothing(s)
  <2>1. mcn'[s].state = mcn[s].state /\ act'[s] = {} /\ chan' = chan
    BY <1>b, <1>7 DEF SendNothing
  <2>. QED
    BY <2>1 DEF Silent
<1>. QED
  BY <1>1, <1>2, <1>3, <1>4, <1>5, <1>6, <1>7 DEF NextSend

-----------------------------------------------------------------------------
(* The agreement is kept.                                                   *)

LEMMA AgreementReceive ==
  ASSUME IInv, TypeOK', Steady', AgreementInv, NEW s \in Side, Receive(s)
  PROVE  Agreement(s, Peer(s))' /\ Agreement(Peer(s), s)'
<1>. DEFINE q == Peer(s)
<1>1. TypeOK /\ q \in Side /\ Peer(q) = s /\ Agreement(s, q) /\ Agreement(q, s)
  BY SideFacts DEF IInv, AgreementInv
<1>2. PICK full \in FullReports(s) : Received(s, chan[s][1], full)
  BY <1>1, ConsumedByReceive
<1>3. ~mcn'[s].failed
  BY DEF Steady
<1>4. /\ mcn'[s].state \in WaitingState => mcn'[s].state = mcn[s].state
      /\ mcn'[s].state = "SA" => mcn[s].state \in {"SA", "RA"}
      /\ mcn'[s].state = "SAL" => mcn[s].state \in {"SAL", "RAL"}
      /\ mcn'[s].state = "SB" => mcn[s].state = "SB" \/ "PROC_AIT" \in act'[s]
      /\ "PROC_AIT" \in act'[s] =>
           /\ mcn[s].state = "RECEIVE" /\ mcn'[s].state = "SB"
           /\ chan[s][1].type = "AITS" /\ chan[s][1].op = "AIT"
      /\ mcn[s].state = "RB" =>
           IF "SIG_AIT" \in act'[s]
           THEN chan[s][1].type = "AITA" /\ mcn'[s].state = "SEND"
           ELSE mcn'[s].state = "RB"
  BY <1>1, <1>2, <1>3, ReceivedMoves
<1>5. /\ mcn[s].state = "RB" => mcn[q].state = "RECEIVE"
      /\ mcn[s].state = "RECEIVE" /\ mcn[q].state = "RB" => mcn'[s].state = "RECEIVE"
  BY WireOfRB
<1>6. /\ Consumed(s) /\ mcn'[q] = mcn[q] /\ chan'[q] = chan[q]
  BY <1>1, ConsumedByReceive DEF Consumed
<1>7. /\ dropped' = dropped /\ done' = done
      /\ kept'[q] = kept[q] /\ got'[q] = got[q]
      /\ kept'[s] = IF "PROC_AIT" \in act'[s] THEN chan[s][1].id ELSE kept[s]
      /\ got'[s] = IF mcn[s].state = "RB" /\ "SIG_AIT" \in act'[s]
                   THEN Append(got[s], kept[s]) ELSE got[s]
  BY <1>1, ReceiveEffects
<1>8. Agreement(s, q)'
  <2>1. Balance(s, q)'
    BY <1>1, <1>4, <1>5, <1>6, <1>7 DEF Agreement, Balance, WaitingState
  <2>2. KeptIsHead(s, q)'
    BY <1>1, <1>4, <1>6, <1>7 DEF Agreement, KeptIsHead, WaitingState
  <2>3. HeadOnWire(s, q)'
    BY <1>1, <1>6, <1>7 DEF Agreement, HeadOnWire, Places
  <2>4. KindOfHead(s)'
    BY <1>1, <1>4, <1>7 DEF Agreement, KindOfHead, WaitingState
  <2>. QED
    BY <2>1, <2>2, <2>3, <2>4 DEF Agreement
<1>9. Agreement(q, s)'
  <2>1. Balance(q, s)'
    <3>1. CASE mcn[s].state = "RB"
      BY <1>1, <1>4, <1>5, <1>6, <1>7, <3>1 DEF Agreement, Balance
    <3>2. CASE mcn[s].state # "RB"
      BY <1>1, <1>4, <1>6, <1>7, <3>2 DEF Agreement, Balance, WaitingState
    <3>. QED
      BY <3>1, <3>2
  <2>2. KeptIsHead(q, s)'
    <3>1. CASE "PROC_AIT" \in act'[s]
      <4>1. chan[s][1].id = dropped[q] + 1
        BY <1>1, <1>4, <1>6, <3>1 DEF Agreement, HeadOnWire, Consumed
      <4>. QED
        BY <1>7, <3>1, <4>1 DEF KeptIsHead
    <3>2. CASE "PROC_AIT" \notin act'[s]
      BY <1>1, <1>4, <1>6, <1>7, <3>2 DEF Agreement, KeptIsHead, WaitingState
    <3>. QED
      BY <3>1, <3>2
  <2>3. HeadOnWire(q, s)'
    BY <1>1, <1>6, <1>7 DEF Agreement, HeadOnWire, Consumed
  <2>4. KindOfHead(q)'
    BY <1>1, <1>6, <1>7 DEF Agreement, KindOfHead
  <2>. QED
    BY <2>1, <2>2, <2>3, <2>4 DEF Agreement
<1>. QED
  BY <1>8, <1>9

LEMMA AgreementSend ==
  ASSUME IInv, AgreementInv, NEW s \in Side, Send(s)
  PROVE  Agreement(s, Peer(s))' /\ Agreement(Peer(s), s)'
<1>. DEFINE q == Peer(s)
<1>1. /\ TypeOK /\ q \in Side /\ Peer(q) = s /\ Agreement(s, q) /\ Agreement(q, s)
      /\ ~mcn[s].failed /\ dropped[s] \in Nat
  BY SideFacts DEF IInv, AgreementInv, Steady, TypeOK
<1>2. PICK ok : NextSend(s, Offered(s), ok, dropped[s] + 1)
  BY <1>1, SendByEnd
<1>3. \/ Silent(s)
      \/ \E m \in Packet : Transmit(s, m) /\ Sends(s, m, Offered(s), dropped[s] + 1)
  BY <1>1, <1>2, NextSendMoves
<1>4. /\ mcn[s].state = "SEND" => mcn[q].state \in {"RECEIVE", "RA", "WAIT"}
      /\ mcn[s].state = "SB" => mcn[q].state = "RA"
      /\ mcn[s].state \in {"SA", "SAL"} =>
           /\ mcn[q].state = IF mcn[s].state = "SA" THEN "RB" ELSE "RBL"
           /\ \A i \in Places(q) : chan[q][i].type = "ENTL"
  BY PeerOfHolder
<1>5. mcn'[q] = mcn[q]
  BY <1>1, <1>2, NextSendOnlyHere
<1>6. /\ kept' = kept /\ got' = got
      /\ dropped'[q] = dropped[q] /\ done'[q] = done[q]
      /\ "DROP_AIT" \notin act'[s] => dropped' = dropped /\ done' = done
      /\ "DROP_AIT" \in act'[s] /\ mcn[s].state = "SA" =>
           done'[s] = Append(done[s], dropped[s] + 1)
      /\ "DROP_AIT" \in act'[s] /\ mcn[s].state # "SA" => done' = done
  BY <1>1, SendEffects
<1>7. CASE Silent(s)
  <2>1. /\ mcn'[s].state = mcn[s].state /\ chan' = chan
        /\ dropped' = dropped /\ done' = done
    BY <1>6, <1>7 DEF Silent
  <2>2. Agreement(s, q)'
    BY <1>1, <1>5, <1>6, <2>1
    DEF Agreement, Balance, KeptIsHead, HeadOnWire, KindOfHead, Places
  <2>3. Agreement(q, s)'
    BY <1>1, <1>5, <1>6, <2>1
    DEF Agreement, Balance, KeptIsHead, HeadOnWire, KindOfHead, Places
  <2>. QED
    BY <2>2, <2>3
<1>8. ASSUME NEW m \in Packet, Transmit(s, m), Sends(s, m, Offered(s), dropped[s] + 1)
      PROVE  Agreement(s, q)' /\ Agreement(q, s)'
  <2>1. /\ chan'[s] = chan[s] /\ Places(q)' = 1 .. Len(chan[q]) + 1
        /\ Places(q) = 1 .. Len(chan[q]) /\ Len(chan[q]) \in Nat
        /\ \A i \in Places(q) : chan'[q][i] = chan[q][i]
        /\ chan'[q][Len(chan[q]) + 1] = m
    BY <1>1, <1>8, ProducedByTransmit, Lengths DEF Produced, Places
  <2>2. \A i \in Places(q)' : \/ i \in Places(q) /\ chan'[q][i] = chan[q][i]
                              \/ chan'[q][i] = m
    BY <2>1
  <2>3. Balance(s, q)'
    <3>1. CASE mcn[s].state = "SA"
      <4>1. done[s] = got[q] /\ kept[q] = dropped[s] + 1 /\ mcn[q].state = "RB"
        BY <1>1, <1>4, <3>1 DEF Agreement, Balance, KeptIsHead
      <4>2. mcn'[s].state = "RECEIVE" /\ done'[s] = Append(done[s], dropped[s] + 1)
        BY <1>6, <1>8, <3>1 DEF Sends
      <4>. QED
        BY <1>5, <1>6, <4>1, <4>2 DEF Balance
    <3>2. CASE mcn[s].state # "SA"
      <4>1. done'[s] = done[s]
        BY <1>6, <3>2
      <4>2. /\ mcn[s].state # "RECEIVE"
            /\ mcn'[s].state = "RECEIVE" => mcn[q].state # "RB"
        BY <1>4, <1>8, <3>2 DEF Sends
      <4>. QED
        BY <1>1, <1>5, <1>6, <4>1, <4>2 DEF Agreement, Balance
    <3>. QED
      BY <3>1, <3>2
  <2>4. KeptIsHead(s, q)'
    <3>1. mcn'[s].state \in {"RA", "SA"} => mcn[q].state \notin {"SB", "RB"}
      BY <1>4, <1>8 DEF Sends
    <3>. QED
      BY <1>5, <3>1 DEF KeptIsHead
  <2>5. HeadOnWire(s, q)'
    <3>1. CASE mcn[s].state \in {"SA", "SAL"}
      <4>1. m.type = "AITA"
        BY <1>8, <3>1 DEF Sends
      <4>. QED
        BY <1>4, <2>2, <3>1, <4>1 DEF HeadOnWire
    <3>2. CASE mcn[s].state \notin {"SA", "SAL"}
      <4>1. "DROP_AIT" \notin act'[s]
            /\ (m.type = "AITS" /\ m.op = "AIT" => m.id = dropped[s] + 1)
        BY <1>8, <3>2 DEF Sends
      <4>. QED
        BY <1>1, <1>6, <2>2, <4>1 DEF Agreement, HeadOnWire
    <3>. QED
      BY <3>1, <3>2
  <2>6. KindOfHead(s)'
    <3>1. mcn'[s].state \notin {"SA", "SAL"}
      BY <1>8 DEF Sends
    <3>2. mcn'[s].state \in {"RA", "RAL"} =>
            /\ dropped' = dropped
            /\ Offered(s) \in IF mcn'[s].state = "RA" THEN {"AIT", "BOTH"}
                              ELSE {"ALO", "BOTH"}
      BY <1>6, <1>8 DEF Sends
    <3>3. Offered(s) \in {"AIT", "ALO", "BOTH"} => Offered(s) = Offers[s][dropped[s] + 1]
      BY DEF Offered
    <3>. QED
      BY <3>1, <3>2, <3>3 DEF KindOfHead
  <2>7. Balance(q, s)'
    <3>1. /\ mcn[s].state # "RB"
          /\ mcn'[s].state = "RB" => mcn[q].state = "RA"
      BY <1>4, <1>8 DEF Sends
    <3>. QED
      BY <1>1, <1>5, <1>6, <3>1 DEF Agreement, Balance
  <2>8. KeptIsHead(q, s)'
    <3>1. mcn'[s].state \in {"SB", "RB"} => mcn[s].state = "SB"
      BY <1>8 DEF Sends
    <3>. QED
      BY <1>1, <1>5, <1>6, <3>1 DEF Agreement, KeptIsHead
  <2>9. HeadOnWire(q, s)' /\ KindOfHead(q)'
    BY <1>1, <1>5, <1>6, <2>1 DEF Agreement, HeadOnWire, KindOfHead, Places
  <2>. QED
    BY <2>3, <2>4, <2>5, <2>6, <2>7, <2>8, <2>9 DEF Agreement
<1>. QED
  BY <1>3, <1>7, <1>8

LEMMA NextAgreement == IInv /\ IInv' /\ AgreementInv /\ [Next]_vars => AgreementInv'
<1>. SUFFICES ASSUME IInv, IInv', AgreementInv, [Next]_vars PROVE AgreementInv'
  OBVIOUS
<1>1. TypeOK /\ TypeOK' /\ Steady'
  BY DEF IInv
<1>2. ASSUME NEW s \in Side, Receive(s) \/ Send(s) PROVE AgreementInv'
  <2>1. Agreement(s, Peer(s))' /\ Agreement(Peer(s), s)'
    BY <1>1, <1>2, AgreementReceive, AgreementSend
  <2>. QED
    BY <2>1, SideFacts DEF AgreementInv
<1>3. ASSUME NEW s \in Side, Lose(s) PROVE AgreementInv'
  <2>1. /\ Consumed(s) /\ mcn' = mcn /\ chan'[Peer(s)] = chan[Peer(s)]
        /\ dropped' = dropped /\ kept' = kept /\ done' = done /\ got' = got
    BY <1>1, <1>3, ConsumedByLose DEF Consumed, Lose, callerVars
  <2>2. \A x \in Side : HeadOnWire(x, Peer(x))'
    <3>1. HeadOnWire(Peer(s), s)'
      BY <2>1, SideFacts DEF AgreementInv, Agreement, HeadOnWire, Consumed
    <3>2. HeadOnWire(s, Peer(s))'
      BY <2>1 DEF AgreementInv, Agreement, HeadOnWire, Places
    <3>. QED
      BY <3>1, <3>2, SideFacts
  <2>. QED
    BY <2>1, <2>2 DEF AgreementInv, Agreement, Balance, KeptIsHead, KindOfHead
<1>4. CASE UNCHANGED vars \/ \E s \in Side : Offer(s)
  <2>1. /\ mcn' = mcn /\ chan' = chan
        /\ dropped' = dropped /\ kept' = kept /\ done' = done /\ got' = got
    BY <1>4 DEF vars, callerVars, Offer
  <2>. QED
    BY <2>1 DEF AgreementInv, Agreement, Balance, KeptIsHead, HeadOnWire, KindOfHead, Places
<1>. QED
  BY <1>2, <1>3, <1>4 DEF Next

LEMMA InitAgreement == Init => AgreementInv
<1>. SUFFICES ASSUME Init PROVE AgreementInv
  OBVIOUS
<1>1. \A v : Booted(v).state = "HELLO"
  BY DEF Booted
<1>2. \A s \in Side : /\ mcn[s].state = "HELLO" /\ chan[s] = <<>>
                      /\ done[s] = <<>> /\ got[s] = <<>>
  BY <1>1 DEF Init
<1>3. \A s \in Side : Places(s) = {}
  BY <1>2 DEF Places
<1>. QED
  BY <1>2, <1>3, SideFacts
  DEF AgreementInv, Agreement, Balance, KeptIsHead, HeadOnWire, KindOfHead

\* What the two callers have taken, kept and delivered agrees with the phase of
\* the link, for every loss and every order of entl_received and entl_next_send.
THEOREM AgreementHolds == Spec => [](IInv /\ AgreementInv)
<1>1. Init => AgreementInv
  BY InitAgreement
<1>2. IInv /\ IInv' /\ AgreementInv /\ [Next]_vars => AgreementInv'
  BY NextAgreement
<1>. QED
  BY <1>1, <1>2, Invariance, PTL DEF Spec

-----------------------------------------------------------------------------
(* The theorems.                                                            *)

\* On a regular link, and with packets lost at any moment, a message is
\* dropped from its sender's queue once and before it is delivered, and it is
\* delivered once: entl_next_send says DROP_AIT in SA, entl_received says
\* SIG_AIT in RB, and the receiver is in RB with the message kept from the
\* one step to the other.
THEOREM ExactlyOnce == Spec => []AitExactlyOnce
<1>1. IInv /\ AgreementInv => AitExactlyOnce
  <2>. SUFFICES ASSUME TypeOK, AgreementInv, NEW s \in Side
       PROVE  LET d == done[s]  g == got[Peer(s)] IN
              /\ Len(g) <= Len(d) /\ Len(d) <= Len(g) + 1
              /\ g = SubSeq(d, 1, Len(g))
    BY DEF AitExactlyOnce, IInv
  <2>. DEFINE g == got[Peer(s)]
              k == kept[Peer(s)]
  <2>1. g \in Seq(Nat) /\ k \in Nat /\ Len(g) \in Nat
    BY SideFacts DEF TypeOK
  <2>2. done[s] = Append(g, k) \/ done[s] = g
    BY DEF AgreementInv, Agreement, Balance
  <2>3. g = SubSeq(g, 1, Len(g)) /\ g = SubSeq(Append(g, k), 1, Len(g))
    BY <2>1
  <2>. QED
    BY <2>1, <2>2, <2>3
<1>. QED
  BY <1>1, AgreementHolds, PTL

LEMMA StepTransfers ==
  IInv /\ AgreementInv /\ [Next]_vars
    => [Transfers!TransferNext]_(Transfers!transferVars)
<1>. SUFFICES ASSUME IInv, AgreementInv, Next
     PROVE  Transfers!TransferNext \/ UNCHANGED Transfers!transferVars
  BY DEF Transfers!transferVars, vars, callerVars
<1>0. /\ TypeOK /\ Transfers!Ends = Side
      /\ \A s \in Side : Transfers!Other(s) = Peer(s)
  BY DEF IInv, Transfers!Ends, Side, Transfers!Other, Peer
<1>1. ASSUME NEW s \in Side, Offer(s) PROVE Transfers!Put(s)
  BY <1>1 DEF Offer, Transfers!Put
<1>2. ASSUME NEW s \in Side, Receive(s)
      PROVE  Transfers!Deliver(Peer(s)) \/ UNCHANGED Transfers!transferVars
  <2>. DEFINE q == Peer(s)
  <2>1. UNCHANGED <<queued, dropped, done>>
    BY <1>0, <1>2, ReceiveEffects
  <2>2. CASE mcn[s].state = "RB" /\ "SIG_AIT" \in act'[s]
    <3>1. mcn[q].state = "RECEIVE"
      BY <1>2, <2>2, WireOfRB
    <3>2. done[q] = Append(got[s], kept[s])
      BY <2>2, <3>1, SideFacts DEF AgreementInv, Agreement, Balance
    <3>3. got[s] \in Seq(Nat) /\ kept[s] \in Nat
      BY <1>0 DEF TypeOK
    <3>4. done[q] # got[s] /\ done[q][Len(done[q])] = kept[s]
      BY <3>2, <3>3
    <3>5. got' = [got EXCEPT ![s] = Append(got[s], kept[s])]
      BY <1>0, <1>2, <2>2, ReceiveEffects
    <3>6. Transfers!Other(q) = s
      BY <1>0, SideFacts
    <3>. QED
      BY <2>1, <3>4, <3>5, <3>6 DEF Transfers!Deliver, Transfers!Settled
  <2>3. CASE ~(mcn[s].state = "RB" /\ "SIG_AIT" \in act'[s])
    <3>1. got' = got
      BY <1>0, <1>2, <2>3, ReceiveEffects
    <3>. QED
      BY <2>1, <3>1 DEF Transfers!transferVars
  <2>. QED
    BY <2>2, <2>3
<1>3. ASSUME NEW s \in Side, Send(s)
      PROVE  \/ Transfers!TakeMessage(s) \/ Transfers!TakeCommand(s)
             \/ UNCHANGED Transfers!transferVars
  <2>. DEFINE q == Peer(s)
  <2>1. UNCHANGED <<queued, got>>
    BY <1>0, <1>3, SendEffects
  <2>2. CASE "DROP_AIT" \notin act'[s]
    BY <1>0, <1>3, <2>1, <2>2, SendEffects DEF Transfers!transferVars
  <2>3. CASE "DROP_AIT" \in act'[s]
    <3>1. PICK ok : NextSend(s, Offered(s), ok, dropped[s] + 1)
      BY <1>0, <1>3, SendByEnd
    <3>2. mcn[s].state \in {"SA", "SAL"}
      BY <1>0, <2>3, <3>1, NextSendClaims
    <3>3. dropped[s] < queued[s]
      <4>1. Waiting(s) > 0 /\ dropped[s] \in Nat /\ queued[s] \in Nat
        BY <3>2 DEF IInv, Steady, TypeOK
      <4>. QED
        BY <4>1 DEF Waiting
    <3>4. \A t \in Transfers!Ends : Transfers!Settled(t)
      <4>1. mcn[q].state = IF mcn[s].state = "SA" THEN "RB" ELSE "RBL"
        BY <3>2, PeerOfHolder
      <4>2. done[s] = got[q] /\ done[q] = got[s]
        BY <3>2, <4>1, SideFacts DEF AgreementInv, Agreement, Balance
      <4>. QED
        BY <1>0, <4>2, SideFacts DEF Transfers!Settled
    <3>5. dropped' = [dropped EXCEPT ![s] = dropped[s] + 1]
      BY <1>0, <1>3, <2>3, SendEffects
    <3>6. KindOfHead(s)
      BY DEF AgreementInv, Agreement
    <3>7. CASE mcn[s].state = "SA"
      <4>1. done' = [done EXCEPT ![s] = Append(done[s], dropped[s] + 1)]
        BY <1>0, <1>3, <2>3, <3>7, SendEffects
      <4>2. Offers[s][dropped[s] + 1] \in {"AIT", "BOTH"}
        BY <3>6, <3>7 DEF KindOfHead
      <4>. QED
        BY <2>1, <3>3, <3>4, <3>5, <4>1, <4>2
        DEF Transfers!TakeMessage, Transfers!TakeHead
    <3>8. CASE mcn[s].state = "SAL"
      <4>1. done' = done
        BY <1>0, <1>3, <2>3, <3>8, SendEffects
      <4>2. Offers[s][dropped[s] + 1] \in {"ALO", "BOTH"}
        BY <3>6, <3>8 DEF KindOfHead
      <4>. QED
        BY <2>1, <3>3, <3>4, <3>5, <4>1, <4>2
        DEF Transfers!TakeCommand, Transfers!TakeHead
    <3>. QED
      BY <3>2, <3>7, <3>8
  <2>. QED
    BY <2>2, <2>3
<1>4. ASSUME NEW s \in Side, Lose(s) PROVE UNCHANGED Transfers!transferVars
  BY <1>4 DEF Lose, callerVars, Transfers!transferVars
<1>. QED
  BY <1>0, <1>1, <1>2, <1>3, <1>4, SideFacts DEF Next, Transfers!TransferNext

\* The packets, states and event numbers of a regular link carry out the
\* transfers of AitTransfer and nothing else: every step of the two callers
\* and the wire is a step of AitTransfer or leaves its variables alone.
THEOREM ImplementsAitTransfer == Spec => TransfersImplemented
<1>1. Init => Transfers!TransferInit
  BY DEF Init, Transfers!TransferInit, Transfers!Ends, Side
<1>2. IInv /\ AgreementInv /\ [Next]_vars
        => [Transfers!TransferNext]_(Transfers!transferVars)
  BY StepTransfers
<1>. QED
  BY <1>1, <1>2, AgreementHolds, PTL
  DEF Spec, TransfersImplemented, Transfers!TransferSpec

\* On a regular link a packet past the greeting carries the number its
\* receiver knows or the one it expects, whatever was lost or repeated: the
\* comparisons of entl_received never meet a number from further ahead.
THEOREM NumbersInOrder == Spec => []NoFutureEvent
<1>1. IInv => NoFutureEvent
  <2>. SUFFICES ASSUME IInv, NEW s \in Side, NEW i \in Places(s),
                       chan[s][i].type # "HELLO",
                       mcn[s].state \notin {"HELLO", "WAIT"}
       PROVE  chan[s][i].value \in {mcn[s].know, Plus2(mcn[s].know)}
    <3>1. \A s \in Side : DOMAIN chan[s] = Places(s)
      BY DEF IInv, TypeOK, Places
    <3>. QED
      BY <3>1 DEF NoFutureEvent
  <2>1. chan[s][i] = Invitation /\ mcn[s].know = 0
          => chan[s][i].value = mcn[s].know
    BY DEF Invitation, Pkt
  <2>2. CASE Greeting \/ Inviting \/ Invited \/ Replied
    BY <2>1, <2>2, EndsFacts DEF Greeting, Inviting, Invited, Replied, UpperWaits
  <2>3. ASSUME NEW y \in Side, Holds(y)
        PROVE  chan[s][i].value = mcn[s].know
    <3>1. chan[s] # <<>>
      BY DEF Places
    <3>. QED
      BY <2>1, <2>3, <3>1, SideFacts DEF Holds, Stale
  <2>4. ASSUME NEW x \in Side, Flight(x)
        PROVE  chan[s][i].value \in {mcn[s].know, Plus2(mcn[s].know)}
    <3>1. chan[s] # <<>>
      BY DEF Places
    <3>2. s = Peer(x)
      BY <2>4, <3>1, SideFacts DEF Flight
    <3>3. CASE Stale(s, i)
      BY <2>1, <3>3 DEF Stale
    <3>4. CASE chan[s][i].value = mcn[x].sent
      <4>1. mcn[x].sent = NextValue(NextValue(mcn[s].know))
        BY <2>4, <3>2 DEF Flight, WaitingNumbers
      <4>2. mcn[s].know \in EventNumber
        BY DEF IInv, TypeOK, Machine
      <4>. QED
        BY <3>4, <4>1, <4>2, NextValueTwice
    <3>. QED
      BY <2>4, <3>2, <3>3, <3>4 DEF Flight
  <2>. QED
    BY <2>2, <2>3, <2>4 DEF IInv, Phase
<1>. QED
  BY <1>1, Invariance, PTL

\* On a regular link an end in RA never meets anything else than the AITR or
\* the plain event with which a peer without room gives the token back.
THEOREM RefusalAnswered == Spec => []RefusalIsAnswered
<1>1. IInv => RefusalIsAnswered
  <2>. SUFFICES ASSUME IInv, NEW s \in Side, mcn[s].state = "RA", chan[s] # <<>>
       PROVE  Head(chan[s]).type \in {"AITR", "ENTL"}
    BY DEF RefusalIsAnswered
  <2>0. Head(chan[s]) = chan[s][1] /\ 1 \in Places(s)
    BY TailFacts DEF IInv, TypeOK, Places
  <2>1. CASE Greeting \/ Inviting \/ Invited \/ Replied
    BY <2>1, EndsFacts DEF Greeting, Inviting, Invited, Replied, UpperWaits
  <2>2. ASSUME NEW y \in Side, Holds(y) PROVE FALSE
    BY <2>0, <2>2, SideFacts DEF Holds, Stale
  <2>3. ASSUME NEW x \in Side, Flight(x) PROVE Head(chan[s]).type \in {"AITR", "ENTL"}
    <3>1. s = Peer(x) /\ ~Stale(s, 1)
      BY <2>3, SideFacts DEF Flight, Stale
    <3>2. FlightPair(x, chan[s][1], s)
      BY <2>0, <2>3, <3>1 DEF Flight
    <3>. QED
      BY <2>0, <3>2 DEF FlightPair
  <2>. QED
    BY <2>1, <2>2, <2>3 DEF IInv, Phase
<1>. QED
  BY <1>1, Invariance, PTL
==============================================================================
