--------------------------- MODULE EntlThreadedLink ---------------------------
(***************************************************************************)
(* One ENTL link between a microengine that runs                           *)
(* entl_packet_forward_test.c (end A) and the host program                 *)
(* entl_packet_test_run.c (end B).                                         *)
(*                                                                         *)
(* At A the receiver contexts hand packets to entl_received and wake       *)
(* context 0 by one signal; context 0 calls entl_next_send and writes the  *)
(* answer over the CTM buffer the last packet came in (keep_pkt_num) or    *)
(* over one buffer of its own, which it sends without giving it up.  The   *)
(* contexts do not preempt each other: an action runs to the next memory   *)
(* access or wait, and the calls of the library, between MUTEXLV_lock and  *)
(* MUTEXLV_unlock, contain none.                                           *)
(*                                                                         *)
(* At B one thread reads every packet that is there and then sends at most *)
(* one answer.                                                             *)
(*                                                                         *)
(* chan[A] is the wire from B.  chan[B] is the address word entl_next_send *)
(* has left in d_addr at A; from there the packet goes into its buffer     *)
(* (content), to the NBI (egress) and onto the wire (wire).                *)
(***************************************************************************)
EXTENDS EntlStateMachine, SequencesExt

CONSTANTS
  Receivers,   \* the contexts but 0: seven in the code
  Buffers,     \* the CTM buffers the NBI may put packets into
  Own,         \* ctm_pkt_num, the buffer context 0 allocated
  NoBuffer,    \* keep_pkt_num = 0
  MyValue,     \* MyValue[s]: my_value set by main() before the first packet
  HostKinds,   \* what the host may want to send besides plain events
  Overtaking,  \* whether a context may get to entl_received before an older one
  Lossy        \* whether the wire may lose packets

ASSUME ThreadAssumption ==
  /\ IsFiniteSet(Receivers)
  /\ IsFiniteSet(Buffers)
  /\ Own \notin Buffers
  /\ NoBuffer \notin Buffers \cup {Own}
  /\ MyValue \in [Side -> Nat]
  /\ HostKinds \subseteq Kind \cup {"NONE"}
  /\ Overtaking \in BOOLEAN
  /\ Lossy \in BOOLEAN

VARIABLES
  rx,        \* rx[r]: where receiver context r is in its loop
  line,      \* packets taken from the NBI and not yet handed to the library
  sig,       \* entl_send_sig of context 0
  alarm,     \* entl_timeout_sig of context 0
  keep,      \* keep_pkt_num
  tx,        \* context 0: where it is, the buffer it writes, how it sends it
  content,   \* content[b]: the packet that stands in buffer b
  pool,      \* the buffers the NBI may fill
  egress,    \* what context 0 handed to the NBI and has not left yet
  wire,      \* packets on the wire to the host
  heard,     \* the host's ret of its last entl_received is not NOP
  overtaken, \* whether a packet overtook another on its way to entl_received
  overwrote  \* whether a packet was written over another that had not left yet

bufferVars == <<content, pool, egress, wire>>
history == <<overtaken, overwrote>>
vars == <<machineVars, rx, line, sig, alarm, keep, tx, bufferVars, heard, history>>

Init ==
  /\ mcn = [s \in Side |-> Booted(MyValue[s])]
  /\ act = [s \in Side |-> {}]
  /\ chan = [s \in Side |-> <<>>]
  /\ rx = [r \in Receivers |-> "start"]
  /\ line = <<>>
  /\ sig = FALSE
  /\ alarm = FALSE
  /\ keep = NoBuffer
  /\ tx = [pc |-> "wait", buf |-> Own, free |-> FALSE]
  /\ content = [b \in Buffers \cup {Own} |-> Pkt("HELLO", 0)]
  /\ pool = Buffers
  /\ egress = <<>>
  /\ wire = <<>>
  /\ heard = FALSE
  /\ overtaken = FALSE
  /\ overwrote = FALSE

-----------------------------------------------------------------------------
(* The receiver contexts.                                                  *)

\* "send hello first": every receiver context signals once before its loop.
Hello(r) ==
  /\ rx[r] = "start"
  /\ sig' = TRUE
  /\ rx' = [rx EXCEPT ![r] = "idle"]
  /\ UNCHANGED <<machineVars, line, alarm, keep, tx, bufferVars, heard, history>>

\* pkt_nbi_recv: the NBI has put the next packet into a free buffer.
Take(r) ==
  /\ rx[r] = "idle"
  /\ chan[A] # <<>>
  /\ chan' = [chan EXCEPT ![A] = Tail(@)]
  /\ \E b \in pool :
       /\ pool' = pool \ {b}
       /\ content' = [content EXCEPT ![b] = Head(chan[A])]
       /\ line' = Append(line, [ctx |-> r, buf |-> b])
  /\ rx' = [rx EXCEPT ![r] = "reading"]
  /\ UNCHANGED <<mcn, act, sig, alarm, keep, tx, egress, wire, heard, history>>

\* The header has been read: entl_received and keep_pkt_num.  The signal is
\* left for later, since the write of keep_pkt_num may swap contexts.
Deliver(r) ==
  \E i \in DOMAIN line :
    /\ rx[r] = "reading" /\ line[i].ctx = r
    /\ Overtaking \/ i = 1
    /\ overtaken' = (overtaken \/ i # 1)
    /\ line' = RemoveAt(line, i)
    /\ Received(A, content[line[i].buf], FALSE)
    /\ keep' = line[i].buf
    /\ rx' = [rx EXCEPT ![r] =
                IF act'[A] \cap {"SEND", "ERROR"} # {} THEN "signalling" ELSE "idle"]
    /\ UNCHANGED <<chan, sig, alarm, tx, bufferVars, heard, overwrote>>

SignalContext0(r) ==
  /\ rx[r] = "signalling"
  /\ sig' = TRUE
  /\ rx' = [rx EXCEPT ![r] = "idle"]
  /\ UNCHANGED <<machineVars, line, alarm, keep, tx, bufferVars, heard, history>>

ReceiverStep(r) == Hello(r) \/ Take(r) \/ Deliver(r) \/ SignalContext0(r)

-----------------------------------------------------------------------------
(* Context 0.                                                              *)

Goto(pc) == tx' = [tx EXCEPT !.pc = pc]

\* set_alarm: the alarm rings RETRY_CYCLE after the wait began.
Ring ==
  /\ tx.pc = "wait" /\ ~alarm
  /\ alarm' = TRUE
  /\ UNCHANGED <<machineVars, rx, line, sig, keep, tx, bufferVars, heard, history>>

\* wait_sig_mask names both signals, writes them as the wake-up events and
\* swaps with ctx_arb[--]: the context goes on when both are set, and takes both.
WaitWithTimeout ==
  /\ tx.pc = "wait" /\ alarm /\ sig
  /\ alarm' = FALSE
  /\ sig' = FALSE
  /\ Goto("call")
  /\ UNCHANGED <<machineVars, rx, line, keep, bufferVars, heard, history>>

\* entl_next_send( &state, &d_addr, &data, 0, 0 )
Call ==
  /\ tx.pc = "call"
  /\ NextSend(A, "NONE", TRUE, 0)
  /\ Goto(IF act'[A] = {} THEN "wait" ELSE "choose")
  /\ UNCHANGED <<rx, line, sig, alarm, keep, bufferVars, heard, history>>

\* Mutant: keep_pkt_num is not looked at.
ChooseOwnAlways ==
  /\ tx.pc = "choose"
  /\ tx' = [pc |-> "rewrite", buf |-> Own, free |-> FALSE]
  /\ UNCHANGED <<machineVars, rx, line, sig, alarm, keep, bufferVars, heard, history>>

\* keep_pkt_num is read twice, once to test it and once for its value.
ChooseOwn ==
  /\ tx.pc = "choose" /\ keep = NoBuffer
  /\ tx' = [pc |-> "rewrite", buf |-> Own, free |-> FALSE]
  /\ UNCHANGED <<machineVars, rx, line, sig, alarm, keep, bufferVars, heard, history>>

ChooseKept ==
  /\ tx.pc = "choose" /\ keep # NoBuffer
  /\ Goto("pick")
  /\ UNCHANGED <<machineVars, rx, line, sig, alarm, keep, bufferVars, heard, history>>

Pick ==
  /\ tx.pc = "pick"
  /\ tx' = [pc |-> "clear", buf |-> keep, free |-> TRUE]
  /\ UNCHANGED <<machineVars, rx, line, sig, alarm, keep, bufferVars, heard, history>>

\* Mutant: keep_pkt_num = 0 forgotten.
ClearNothing ==
  /\ tx.pc = "clear"
  /\ Goto("rewrite")
  /\ UNCHANGED <<machineVars, rx, line, sig, alarm, keep, bufferVars, heard, history>>

Clear ==
  /\ tx.pc = "clear"
  /\ keep' = NoBuffer
  /\ Goto("rewrite")
  /\ UNCHANGED <<machineVars, rx, line, sig, alarm, bufferVars, heard, history>>

\* rewrite_packet: whatever still stands in the buffer is overwritten.
Rewrite ==
  /\ tx.pc = "rewrite"
  /\ content' = [content EXCEPT ![tx.buf] = Head(chan[B])]
  /\ chan' = [chan EXCEPT ![B] = <<>>]
  /\ overwrote' = (overwrote \/ \E i \in DOMAIN egress :
                     egress[i].buf = tx.buf /\ content[tx.buf] # Head(chan[B]))
  /\ Goto("send")
  /\ UNCHANGED <<mcn, act, rx, line, sig, alarm, keep, pool, egress, wire, heard, overtaken>>

\* Mutant: the signals that came meanwhile are cleared before the next wait.
SendPacketClears ==
  /\ tx.pc = "send"
  /\ egress' = Append(egress, [buf |-> tx.buf, free |-> tx.free])
  /\ sig' = FALSE
  /\ Goto("wait")
  /\ UNCHANGED <<machineVars, rx, line, alarm, keep, content, pool, wire, heard, history>>

\* send_packet: pkt_nbi_send, or pkt_nbi_send_dont_free for the own buffer.
SendPacket ==
  /\ tx.pc = "send"
  /\ egress' = Append(egress, [buf |-> tx.buf, free |-> tx.free])
  /\ Goto("wait")
  /\ UNCHANGED <<machineVars, rx, line, sig, alarm, keep, content, pool, wire, heard, history>>

Context0Step ==
  \/ WaitWithTimeout \/ Call \/ ChooseOwn \/ ChooseKept \/ Pick \/ Clear
  \/ Rewrite \/ SendPacket

-----------------------------------------------------------------------------
(* The NBI and the host.                                                   *)

\* What leaves is what stands in the buffer at that moment.
Depart ==
  /\ egress # <<>>
  /\ egress' = Tail(egress)
  /\ wire' = Append(wire, content[Head(egress).buf])
  /\ pool' = IF Head(egress).free THEN pool \cup {Head(egress).buf} ELSE pool
  /\ UNCHANGED <<machineVars, rx, line, sig, alarm, keep, tx, content, heard, history>>

\* read_packet: only the result for the last of the packets read is kept.
HostReceive ==
  /\ wire # <<>>
  /\ wire' = Tail(wire)
  /\ Received(B, Head(wire), FALSE)
  /\ heard' = (act'[B] # {})
  /\ UNCHANGED <<chan, rx, line, sig, alarm, keep, tx, content, pool, egress, history>>

\* send_back, once everything that was there has been read.
HostSend ==
  /\ heard /\ wire = <<>>
  /\ heard' = FALSE
  /\ \E kind \in HostKinds : NextSend(B, kind, TRUE, 0)
  /\ UNCHANGED <<rx, line, sig, alarm, keep, tx, bufferVars, history>>

LoseToHost ==
  /\ Lossy /\ wire # <<>>
  /\ wire' = Tail(wire)
  /\ UNCHANGED <<machineVars, rx, line, sig, alarm, keep, tx, content, pool, egress, heard, history>>

LoseFromHost ==
  /\ Lossy /\ chan[A] # <<>>
  /\ chan' = [chan EXCEPT ![A] = Tail(@)]
  /\ UNCHANGED <<mcn, act, rx, line, sig, alarm, keep, tx, bufferVars, heard, history>>

Next ==
  \/ \E r \in Receivers : ReceiverStep(r)
  \/ Ring
  \/ Context0Step
  \/ Depart
  \/ HostReceive
  \/ HostSend
  \/ LoseToHost
  \/ LoseFromHost

\* The loops are unconditional, the scheduler serves every context, the alarm
\* rings, the NBI sends what it was given.
Fairness ==
  /\ \A r \in Receivers : WF_vars(ReceiverStep(r))
  /\ WF_vars(Ring)
  /\ WF_vars(Context0Step)
  /\ WF_vars(Depart)
  /\ WF_vars(HostReceive)
  /\ WF_vars(HostSend)

Spec == Init /\ [][Next]_vars
FairSpec == Spec /\ Fairness

-----------------------------------------------------------------------------
(* Properties.                                                             *)

Holding == {"SEND", "SA", "SAL", "SB", "SBL"}

Entry == [ctx : Receivers, buf : Buffers]
Posted == [buf : Buffers \cup {Own}, free : BOOLEAN]

\* Every variable has its type; the packet context 0 is about to write is
\* there, and only the buffers that came with a packet are given up.
TypeOK ==
  /\ mcn \in [Side -> Machine]
  /\ act \in [Side -> SUBSET Flag]
  /\ chan \in [Side -> Seq(Packet)]
  /\ rx \in [Receivers -> {"start", "idle", "reading", "signalling"}]
  /\ line \in Seq(Entry)
  /\ sig \in BOOLEAN /\ alarm \in BOOLEAN
  /\ keep \in Buffers \cup {NoBuffer}
  /\ tx \in [pc : {"wait", "call", "choose", "pick", "clear", "rewrite", "send"},
             buf : Buffers \cup {Own, NoBuffer}, free : BOOLEAN]
  /\ content \in [Buffers \cup {Own} -> Packet]
  /\ pool \subseteq Buffers
  /\ egress \in Seq(Posted)
  /\ wire \in Seq(Packet)
  /\ heard \in BOOLEAN /\ overtaken \in BOOLEAN /\ overwrote \in BOOLEAN

\* No wake-up is lost, although up to seven contexts share one signal and it
\* may come at any point of context 0's loop: while the machine of A has an
\* event to send, the signal is set or on its way, or context 0 is about to
\* call entl_next_send.
AnswerPrompted ==
  mcn[A].state \in Holding /\ ~mcn[A].failed =>
    sig \/ tx.pc = "call" \/ \E r \in Receivers : rx[r] = "signalling"

Reading == {line[i].buf : i \in DOMAIN line}
Kept == {keep} \ {NoBuffer}
Written == IF tx.pc \in {"rewrite", "send"} THEN {tx.buf} \ {Own} ELSE {}
Leaving == {egress[i].buf : i \in DOMAIN egress} \ {Own}

\* A CTM buffer has one owner: the NBI's pool, a receiver context,
\* keep_pkt_num, context 0 or the NBI's egress, where it stands once.  So it is
\* freed once and not filled again while an answer is still written into it.
BufferOwnedOnce ==
  /\ \A i, j \in DOMAIN line : line[i].buf = line[j].buf => i = j
  /\ \A i, j \in DOMAIN egress : egress[i].buf = egress[j].buf /\ egress[i].free => i = j
  /\ (Reading \cup Kept \cup Written \cup Leaving) \cap pool = {}
  /\ Reading \cap (Kept \cup Written \cup Leaving) = {}
  /\ Kept \cap (Written \cup Leaving) = {}
  /\ Written \cap Leaving = {}

\* Neither a wake-up too many nor any other interleaving of the contexts, the
\* NBI and the host is a sequence error at either end, but for two: a context
\* overtakes an older one, or context 0 writes over a packet that was given to
\* pkt_nbi_send_dont_free and has not left.
NoSequenceError == ~overtaken /\ ~overwrote => \A s \in Side : ~mcn[s].failed

Lost == Buffers \ (pool \cup Reading \cup Kept \cup Written \cup Leaving
                        \cup (IF tx.pc = "clear" THEN {tx.buf} ELSE {}))

\* A buffer is lost when a second packet overwrites keep_pkt_num before the
\* first was answered.  That happens while the greeting lasts and never after.
LeaksEndWithGreeting ==
  [][ mcn[A].know \notin {0, 1} /\ ~overtaken' => Lost' \subseteq Lost ]_vars

\* wait_with_timeout returns after RETRY_CYCLE at the latest, so that a packet
\* that was lost is sent again.
WaitEnds == (tx.pc = "wait") ~> (tx.pc # "wait")
=============================================================================
