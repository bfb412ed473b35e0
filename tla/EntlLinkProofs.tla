----------------------------- MODULE EntlLinkProofs -----------------------------
(***************************************************************************)
(* Type correctness of EntlLink, for every value of its constants, and the *)
(* lemmas about its steps that the proofs about regular and about faulty   *)
(* links share.                                                            *)
(***************************************************************************)
EXTENDS EntlLink, EntlStateMachineProofs

-----------------------------------------------------------------------------
(* Which branch of the library a state leads to.                            *)

LEMMA NextSendByState ==
  ASSUME NEW s, NEW kind, NEW ok, NEW k, NextSend(s, kind, ok, k), ~mcn[s].failed
  PROVE  /\ mcn[s].state = "HELLO" => SendHello(s)
         /\ mcn[s].state = "WAIT" => SendWait(s)
         /\ mcn[s].state = "SEND" => SendEvent(s, kind) \/ SendTransfer(s, kind, ok, k)
         /\ mcn[s].state \in {"SA", "SAL"} => SendAita(s)
         /\ mcn[s].state \in {"SB", "SBL"} => SendAitr(s)
         /\ mcn[s].state \in WaitingState => SendNothing(s)
<1>1. /\ SendHello(s) => mcn[s].state = "HELLO"
      /\ SendWait(s) => mcn[s].state = "WAIT"
      /\ SendEvent(s, kind) => mcn[s].state = "SEND"
      /\ SendTransfer(s, kind, ok, k) => mcn[s].state = "SEND"
  BY DEF SendHello, SendWait, SendEvent, SendTransfer
<1>2. /\ SendAita(s) => mcn[s].state \in {"SA", "SAL"}
      /\ SendAitr(s) => mcn[s].state \in {"SB", "SBL"}
      /\ SendNothing(s) => mcn[s].state \in WaitingState
  BY DEF SendAita, SendAitr, SendNothing, WaitingState
<1>. QED
  BY <1>1, <1>2 DEF NextSend, WaitingState

-----------------------------------------------------------------------------
(* What a step does to the wire and to the other end.                       *)

LEMMA OnlyThisEnd ==
  ASSUME TypeOK, NEW s \in Side, NEW n, NEW flags, Become(s, n, flags)
  PROVE  mcn'[s] = n /\ mcn'[Peer(s)] = mcn[Peer(s)] /\ act'[s] = flags
BY BecomeHere DEF TypeOK, Typed

LEMMA ReceivedOnlyHere ==
  ASSUME TypeOK, NEW s \in Side, NEW m, NEW full, Received(s, m, full)
  PROVE  mcn'[Peer(s)] = mcn[Peer(s)]
BY ReceivedHere DEF TypeOK, Typed

LEMMA NextSendOnlyHere ==
  ASSUME TypeOK, NEW s \in Side, NEW kind, NEW ok, NEW k, NextSend(s, kind, ok, k)
  PROVE  mcn'[Peer(s)] = mcn[Peer(s)]
BY NextSendHere DEF TypeOK, Typed

LEMMA SendByEnd ==
  ASSUME TypeOK, NEW s \in Side, Send(s)
  PROVE  /\ wake[s] /\ ~wake'[s] /\ wake'[Peer(s)] = wake[Peer(s)]
         /\ \E ok \in Initiates : NextSend(s, Offered(s), ok, dropped[s] + 1)
BY SideFacts DEF Send, TypeOK

\* What the caller does with the flags of entl_received.
LEMMA ReceiveEffects ==
  ASSUME TypeOK, NEW s \in Side, Receive(s)
  PROVE  /\ UNCHANGED <<queued, dropped, done>>
         /\ kept'[Peer(s)] = kept[Peer(s)] /\ got'[Peer(s)] = got[Peer(s)]
         /\ kept'[s] = IF "PROC_AIT" \in act'[s] THEN chan[s][1].id ELSE kept[s]
         /\ got' = IF mcn[s].state = "RB" /\ "SIG_AIT" \in act'[s]
                   THEN [got EXCEPT ![s] = Append(got[s], kept[s])] ELSE got
         /\ got'[s] = IF mcn[s].state = "RB" /\ "SIG_AIT" \in act'[s]
                      THEN Append(got[s], kept[s]) ELSE got[s]
<1>1. Head(chan[s]) = chan[s][1]
  BY TailFacts DEF Receive, TypeOK
<1>. QED
  BY <1>1, SideFacts DEF Receive, TypeOK

\* What the caller does with the flags of entl_next_send.
LEMMA SendEffects ==
  ASSUME TypeOK, NEW s \in Side, Send(s)
  PROVE  /\ UNCHANGED <<queued, kept, got>>
         /\ dropped'[Peer(s)] = dropped[Peer(s)] /\ done'[Peer(s)] = done[Peer(s)]
         /\ "DROP_AIT" \notin act'[s] => dropped' = dropped /\ done' = done
         /\ "DROP_AIT" \in act'[s] =>
              /\ dropped' = [dropped EXCEPT ![s] = dropped[s] + 1]
              /\ dropped'[s] = dropped[s] + 1
         /\ "DROP_AIT" \in act'[s] /\ mcn[s].state = "SA" =>
              /\ done' = [done EXCEPT ![s] = Append(done[s], dropped[s] + 1)]
              /\ done'[s] = Append(done[s], dropped[s] + 1)
         /\ "DROP_AIT" \in act'[s] /\ mcn[s].state # "SA" => done' = done
BY SideFacts DEF Send, TypeOK

-----------------------------------------------------------------------------
(* The steps of the link.                                                   *)

LEMMA OfferType == ASSUME TypeOK, NEW s \in Side, Offer(s) PROVE TypeOK'
BY DEF TypeOK, Offer

LEMMA ReceiveType == ASSUME TypeOK, NEW s \in Side, Receive(s) PROVE TypeOK'
<1>1. /\ chan[s] # <<>> /\ chan[s] \in Seq(Packet)
      /\ chan' = [chan EXCEPT ![s] = Tail(@)]
  BY DEF TypeOK, Receive
<1>2. Head(chan[s]) \in Packet /\ Tail(chan[s]) \in Seq(Packet)
  BY <1>1
<1>3. PICK full \in FullReports(s) : Received(s, Head(chan[s]), full)
  BY DEF Receive
<1>4. Typed'
  BY <1>2, <1>3, ReceivedType DEF Typed, TypeOK
<1>5. chan' \in [Side -> Seq(Packet)]
  BY <1>1, <1>2 DEF TypeOK
<1>6. wake' \in [Side -> BOOLEAN]
  BY DEF TypeOK, Receive
<1>7. kept' \in [Side -> Nat]
  BY <1>2 DEF TypeOK, Receive, Packet
<1>8. got' \in [Side -> Seq(Nat)]
  <2>1. Append(got[s], kept[s]) \in Seq(Nat)
    BY DEF TypeOK
  <2>. QED
    BY <2>1 DEF TypeOK, Receive
<1>. QED
  BY <1>4, <1>5, <1>6, <1>7, <1>8 DEF TypeOK, Typed, Receive

LEMMA SendType == ASSUME TypeOK, NEW s \in Side, Send(s) PROVE TypeOK'
<1>1. PICK ok \in Initiates : NextSend(s, Offered(s), ok, dropped[s] + 1)
  BY DEF Send
<1>2. dropped[s] \in Nat /\ dropped[s] + 1 \in Nat
  BY DEF TypeOK
<1>3. Typed' /\ chan' \in [Side -> Seq(Packet)]
  BY <1>1, <1>2, NextSendType DEF Typed, TypeOK
<1>4. dropped' \in [Side -> Nat]
  BY <1>2 DEF TypeOK, Send
<1>5. done' \in [Side -> Seq(Nat)]
  <2>1. Append(done[s], dropped[s] + 1) \in Seq(Nat)
    BY <1>2 DEF TypeOK
  <2>. QED
    BY <2>1 DEF TypeOK, Send
<1>. QED
  BY <1>3, <1>4, <1>5 DEF TypeOK, Typed, Send

LEMMA LoseType == ASSUME TypeOK, NEW s \in Side, Lose(s) PROVE TypeOK'
<1>1. Tail(chan[s]) \in Seq(Packet)
  BY DEF TypeOK, Lose
<1>. QED
  BY <1>1 DEF TypeOK, Lose, callerVars

LEMMA InitType == Init => TypeOK
<1>1. \A v \in Nat : Booted(v) \in Machine
  BY EventNumbers DEF Booted, Machine, State
<1>. QED
  BY <1>1, CallerAssumption DEF Init, TypeOK

LEMMA NextType == TypeOK /\ [Next]_vars => TypeOK'
<1>. SUFFICES ASSUME TypeOK, [Next]_vars PROVE TypeOK'
  OBVIOUS
<1>1. CASE Next
  BY <1>1, OfferType, ReceiveType, SendType, LoseType DEF Next
<1>2. CASE UNCHANGED vars
  BY <1>2 DEF TypeOK, vars, callerVars
<1>. QED
  BY <1>1, <1>2

\* Type correctness of the link: no step of entl_received, entl_next_send, a
\* caller or the wire takes a variable out of its type, whatever the size of
\* the event numbers, the queues and the scripts of the callers.
THEOREM TypeCorrect == Spec => []TypeOK
<1>1. Init => TypeOK
  BY InitType
<1>2. TypeOK /\ [Next]_vars => TypeOK'
  BY NextType
<1>. QED
  BY <1>1, <1>2, PTL DEF Spec
=============================================================================
