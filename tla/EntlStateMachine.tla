--------------------------- MODULE EntlStateMachine ---------------------------
(***************************************************************************)
(* The ENTL link state machine of                                          *)
(* nfsim/entl_libs/entl_state_machine.c, one instance per end of a link.   *)
(*                                                                         *)
(* entl_received() is the disjunction Received of one action per state of  *)
(* its switch; entl_next_send() is the disjunction NextSend.  Both leave   *)
(* their return value in act, reduced to the flags a caller acts on (the   *)
(* hints SEND_AIT, SEND_DAT, SEND_ALO* and PROPAGATE_AIT are left out), and*)
(* NextSend puts the packet whose address word it computes on the wire, as *)
(* every caller does when the return value is not NOP.                     *)
(*                                                                         *)
(* The registers of an atomic link operation are abstracted here to the    *)
(* result of alo_initiate (ok in SendTransfer).  error_count is abstracted *)
(* to whether it is zero, the only thing the code ever asks of it.         *)
(***************************************************************************)
EXTENDS Integers, Sequences

CONSTANTS
  A, B,        \* the two ends of the link
  Modulus,     \* event numbers are 16 bits wide: 65536 in the code
  CountMax,    \* ENTL_COUNT_MAX
  Redraw       \* Redraw[s]: what entl_set_random can draw at end s

ASSUME EndsAssumption == A # B
ASSUME ModulusAssumption == Modulus \in Nat /\ Modulus > 2
ASSUME CountMaxAssumption == CountMax \in Nat /\ CountMax >= 2

Side == {A, B}
Peer(s) == IF s = A THEN B ELSE A

ASSUME RedrawAssumption == Redraw \in [Side -> SUBSET Nat]

VARIABLES
  mcn,     \* mcn[s]: the entl_state_machine_t of end s
  act,     \* act[s]: flags returned by the last library call at s
  chan     \* chan[s]: packets on the wire towards s, oldest first

machineVars == <<mcn, act, chan>>

-----------------------------------------------------------------------------
EventNumber == 0 .. Modulus - 1
NextValue(v) == (v + 1) % Modulus         \* ECLP_VALUE_NEXT
Plus2Unmasked(v) == v + 2                 \* mutant: & 0xffff forgotten
Plus2(v) == (v + 2) % Modulus             \* ECLP_VALUE_PLUS2

State == {"HELLO", "WAIT", "SEND", "RECEIVE", "RA", "SA", "SB", "RB",
          "RAL", "SAL", "SBL", "RBL"}
Flag == {"SEND", "PROC_AIT", "SIG_AIT", "DROP_AIT", "ERROR"}

\* What a caller has to send besides plain events: an AIT from its queue
\* (ait_queue # 0), an ALO command, a command with a queue behind it, nothing.
Kind == {"AIT", "ALO", "BOTH"}

Machine == [state : State,
            know : EventNumber, sent : EventNumber, next : EventNumber,
            value : Nat,      \* my_value
            count : Nat,      \* state_count
            failed : BOOLEAN] \* error_count # 0

\* The address word of a packet: its etype, its 16 bit value, for an AITS
\* whether its opcode is an ALO one, and which AIT of the sender it carries.
Packet == [type : {"HELLO", "ENTL", "AITS", "AITR", "AITA"},
           value : Nat, op : {"AIT", "ALO"}, id : Nat]

Pkt(type, value) == [type |-> type, value |-> value, op |-> "AIT", id |-> 0]
Aits(value, op, id) == [type |-> "AITS", value |-> value, op |-> op, id |-> id]

\* The machine as every main() leaves it: entl_state_init, my_value, HELLO.
Booted(v) == [state |-> "HELLO", know |-> 0, sent |-> 0, next |-> 0,
              value |-> v, count |-> 0, failed |-> FALSE]

EntlStateHello(n, v) ==
  [n EXCEPT !.state = "HELLO", !.know = 0, !.sent = 0, !.next = 0,
            !.count = 0, !.value = v]

SetError(n) == [n EXCEPT !.failed = TRUE]

SetRandom(n, v) == [n EXCEPT !.value = v]        \* entl_set_random drew v
CountHello(n) == [n EXCEPT !.count = n.count + 1]
StartWaiting(n) ==
  [n EXCEPT !.state = "WAIT", !.know = 0, !.sent = 0, !.next = 0, !.count = 0]

\* Mutant: the next event number is not derived from the one accepted.
AcceptKeepsNext(n, v, st) == [n EXCEPT !.state = st, !.know = v]

\* Event number v is accepted and the machine moves to state st.
Accept(n, v, st) ==
  [n EXCEPT !.state = st, !.know = v, !.next = NextValue(v)]

\* The next event number is spent on a packet and the machine moves to st.
Spend(n, st) ==
  [n EXCEPT !.state = st, !.sent = n.next, !.next = Plus2(n.next)]

Become(s, n, flags) ==
  /\ mcn' = [mcn EXCEPT ![s] = n]
  /\ act' = [act EXCEPT ![s] = flags]

Ignore(s, flags) == Become(s, mcn[s], flags)

BackToHello(s, n, flags) ==
  \E v \in Redraw[s] : Become(s, EntlStateHello(n, v), flags)

\* set_error followed by entl_state_hello: the end of nearly every branch.
SequenceError(s, flags) == BackToHello(s, SetError(mcn[s]), flags)

\* Mutant: any number is taken for the expected one.
ExpectedAnyNumber(s, m, type) == m.type = type

Expected(s, m, type) == m.type = type /\ m.value = Plus2(mcn[s].know)
Repeated(s, m, type) == m.type = type /\ m.value = mcn[s].know

-----------------------------------------------------------------------------
(* entl_received, case by case.                                            *)

ReceivedHello(s, m) ==
  LET n == mcn[s] IN
  /\ n.state = "HELLO"
  /\ \/ /\ m.type = "HELLO" /\ n.value > m.value
        /\ Become(s, StartWaiting(n), {"SEND"})
     \/ /\ m.type = "HELLO" /\ n.value = m.value
        /\ \E v \in Redraw[s] : Become(s, SetRandom(n, v), {"SEND"})
     \/ /\ m.type = "HELLO" /\ n.value < m.value
        /\ Ignore(s, {"SEND"})
     \/ /\ m.type = "ENTL" /\ m.value = 0
        /\ Become(s, Accept(n, 0, "SEND"), {"SEND"})
     \/ /\ m.type # "HELLO" /\ ~(m.type = "ENTL" /\ m.value = 0)
        /\ Ignore(s, {"SEND"})

ReceivedWait(s, m) ==
  LET n == mcn[s] IN
  /\ n.state = "WAIT"
  /\ \/ /\ m.type = "HELLO" /\ n.count + 1 <= CountMax
        /\ Become(s, CountHello(n), {})
     \/ /\ m.type = "HELLO" /\ n.count + 1 > CountMax
        /\ BackToHello(s, n, {"SEND"})
     \/ /\ m.type = "ENTL" /\ m.value = NextValue(n.sent)
        /\ Become(s, Accept(n, m.value, "SEND"), {"SEND"})
     \/ /\ m.type = "ENTL" /\ m.value # NextValue(n.sent)
        /\ BackToHello(s, n, {"SEND"})
     \/ /\ m.type \notin {"HELLO", "ENTL"}
        /\ SequenceError(s, {"SEND"})

\* An out of sequence ENTL is an error that leaves the machine in SEND.
ReceivedSend(s, m) ==
  /\ mcn[s].state = "SEND"
  /\ \/ Repeated(s, m, "ENTL") /\ Ignore(s, {})
     \/ /\ m.type = "ENTL" /\ m.value # mcn[s].know
        /\ Become(s, SetError(mcn[s]), {"ERROR"})
     \/ m.type # "ENTL" /\ SequenceError(s, {"ERROR"})

\* Mutant: a repeated packet is an error in RECEIVE.
ReceivedReceiveNoRepeat(s, m, full) ==
  LET n == mcn[s]
      expected == Expected(s, m, "ENTL") \/ Expected(s, m, "AITS")
  IN
  /\ n.state = "RECEIVE"
  /\ \/ /\ expected
        /\ Become(s, Accept(n, m.value, "SEND"), {"SEND"})
     \/ ~expected /\ SequenceError(s, {"ERROR"})

\* Mutant: an accepted event returns NOP.
ReceivedReceiveNop(s, m, full) ==
  /\ mcn[s].state = "RECEIVE"
  /\ Become(s, Accept(mcn[s], m.value, "SEND"), {})

\* full: is_ENTT_queue_full(ait_queue).
ReceivedReceive(s, m, full) ==
  LET n == mcn[s]
      expected == Expected(s, m, "ENTL") \/ Expected(s, m, "AITS")
      repeated == Repeated(s, m, "ENTL") \/ Repeated(s, m, "AITS")
  IN
  /\ n.state = "RECEIVE"
  /\ \/ /\ Expected(s, m, "ENTL")
        /\ Become(s, Accept(n, m.value, "SEND"), {"SEND"})
     \/ /\ Expected(s, m, "AITS") /\ m.op = "AIT" /\ full
        /\ Become(s, Accept(n, m.value, "SEND"), {"SEND"})
     \/ /\ Expected(s, m, "AITS") /\ m.op = "AIT" /\ ~full
        /\ Become(s, Accept(n, m.value, "SB"), {"SEND", "PROC_AIT"})
     \/ /\ Expected(s, m, "AITS") /\ m.op = "ALO"
        /\ Become(s, Accept(n, m.value, "SBL"), {"SEND"})
     \/ ~expected /\ repeated /\ Ignore(s, {})
     \/ ~expected /\ ~repeated /\ SequenceError(s, {"ERROR"})

\* In RA a plain ENTL cancels the AIT: the peer's queue was full.
ReceivedRA(s, m) ==
  LET n == mcn[s] IN
  /\ n.state = "RA"
  /\ \/ /\ Expected(s, m, "AITR")
        /\ Become(s, Accept(n, m.value, "SA"), {"SEND"})
     \/ /\ Expected(s, m, "ENTL")
        /\ Become(s, Accept(n, m.value, "SEND"), {"SEND"})
     \/ /\ ~Expected(s, m, "AITR") /\ ~Expected(s, m, "ENTL")
        /\ SequenceError(s, {"ERROR"})

\* The flags of the RAL and RBL branches depend on the registers: SIG_AIT is
\* set when alo_complete or alo_update returns non-zero.
ReceivedRAL(s, m) ==
  /\ mcn[s].state = "RAL"
  /\ \/ /\ Expected(s, m, "AITR")
        /\ \E sig \in SUBSET {"SIG_AIT"} :
             Become(s, Accept(mcn[s], m.value, "SAL"), {"SEND"} \cup sig)
     \/ ~Expected(s, m, "AITR") /\ SequenceError(s, {"ERROR"})

\* States that have something to send only tolerate the packet that put them
\* there a second time.
ReceivedAcking(s, m, states, type) ==
  /\ mcn[s].state \in states
  /\ \/ Repeated(s, m, type) /\ Ignore(s, {})
     \/ ~Repeated(s, m, type) /\ SequenceError(s, {"ERROR"})

ReceivedSA(s, m) == ReceivedAcking(s, m, {"SA", "SAL"}, "AITR")
ReceivedSB(s, m) == ReceivedAcking(s, m, {"SB", "SBL"}, "AITS")

\* Mutants: a repeated AITS signals the message, the message kept is not
\* signalled.
ReceivedRBSignalsRepeat(s, m) ==
  /\ mcn[s].state = "RB"
  /\ \/ Repeated(s, m, "AITS") /\ Ignore(s, {"SEND", "SIG_AIT"})
     \/ /\ Expected(s, m, "AITA")
        /\ Become(s, Accept(mcn[s], m.value, "SEND"), {"SEND", "SIG_AIT"})
     \/ ~Expected(s, m, "AITA") /\ ~Repeated(s, m, "AITS") /\ SequenceError(s, {"ERROR"})

ReceivedRBNoSignal(s, m) ==
  /\ mcn[s].state = "RB"
  /\ Become(s, Accept(mcn[s], m.value, "SEND"), {"SEND"})

ReceivedRB(s, m) ==
  /\ mcn[s].state = "RB"
  /\ \/ /\ Expected(s, m, "AITA")
        /\ Become(s, Accept(mcn[s], m.value, "SEND"), {"SEND", "SIG_AIT"})
     \/ Repeated(s, m, "AITS") /\ Ignore(s, {})
     \/ /\ ~Expected(s, m, "AITA") /\ ~Repeated(s, m, "AITS")
        /\ SequenceError(s, {"ERROR"})

ReceivedRBL(s, m) ==
  /\ mcn[s].state = "RBL"
  /\ \/ /\ Expected(s, m, "AITA")
        /\ \E sig \in SUBSET {"SIG_AIT"} :
             Become(s, Accept(mcn[s], m.value, "SEND"), {"SEND"} \cup sig)
     \/ Repeated(s, m, "AITS") /\ Ignore(s, {})
     \/ /\ ~Expected(s, m, "AITA") /\ ~Repeated(s, m, "AITS")
        /\ SequenceError(s, {"ERROR"})

Received(s, m, full) ==
  \/ ReceivedHello(s, m)
  \/ ReceivedWait(s, m)
  \/ ReceivedSend(s, m)
  \/ ReceivedReceive(s, m, full)
  \/ ReceivedRA(s, m)
  \/ ReceivedRAL(s, m)
  \/ ReceivedSA(s, m)
  \/ ReceivedSB(s, m)
  \/ ReceivedRB(s, m)
  \/ ReceivedRBL(s, m)

-----------------------------------------------------------------------------
(* entl_next_send, case by case.                                           *)

Transmit(s, m) == chan' = [chan EXCEPT ![Peer(s)] = Append(@, m)]

SendHello(s) ==
  /\ mcn[s].state = "HELLO" /\ ~mcn[s].failed
  /\ Ignore(s, {"SEND"})
  /\ Transmit(s, Pkt("HELLO", mcn[s].value))

\* Event 0, again at every call until the peer answers with event 1.
SendWait(s) ==
  /\ mcn[s].state = "WAIT" /\ ~mcn[s].failed
  /\ Ignore(s, {"SEND"})
  /\ Transmit(s, Pkt("ENTL", 0))

\* No AIT on the very first loop, when the other side is still in HELLO.
MayTransfer(n) == n.know # 0 \/ n.sent # 0

SendEvent(s, kind) ==
  LET n == mcn[s] IN
  /\ n.state = "SEND" /\ ~n.failed
  /\ ~MayTransfer(n) \/ kind \notin Kind
  /\ Become(s, Spend(n, "RECEIVE"), {"SEND"})
  /\ Transmit(s, Pkt("ENTL", n.next))

\* ok: alo_initiate succeeded.  A command that fails is downgraded to a plain
\* AIT when the AIT queue is not empty; when it is, nothing is sent, but the
\* event number is spent and the machine stays in SEND.
SendTransfer(s, kind, ok, id) ==
  LET n == mcn[s] IN
  /\ n.state = "SEND" /\ ~n.failed
  /\ MayTransfer(n)
  /\ \/ /\ kind \in {"ALO", "BOTH"} /\ ok
        /\ Become(s, Spend(n, "RAL"), {"SEND"})
        /\ Transmit(s, Aits(n.next, "ALO", id))
     \/ /\ kind = "AIT" \/ (kind = "BOTH" /\ ~ok)
        /\ Become(s, Spend(n, "RA"), {"SEND"})
        /\ Transmit(s, Aits(n.next, "AIT", id))
     \/ /\ kind = "ALO" /\ ~ok
        /\ Become(s, Spend(n, "SEND"), {})
        /\ UNCHANGED chan

\* Mutants of SendAita: the token is kept, the queue keeps its head, the
\* event number is advanced before it is written to the packet.
SendAitaKeepsToken(s) ==
  /\ mcn[s].state \in {"SA", "SAL"} /\ ~mcn[s].failed
  /\ Become(s, Spend(mcn[s], "SEND"), {"SEND", "SIG_AIT", "DROP_AIT"})
  /\ Transmit(s, Pkt("AITA", mcn[s].next))

SendAitaNoDrop(s) ==
  /\ mcn[s].state \in {"SA", "SAL"} /\ ~mcn[s].failed
  /\ Become(s, Spend(mcn[s], "RECEIVE"), {"SEND", "SIG_AIT"})
  /\ Transmit(s, Pkt("AITA", mcn[s].next))

SendAitaAdvancesFirst(s) ==
  /\ mcn[s].state \in {"SA", "SAL"} /\ ~mcn[s].failed
  /\ Become(s, Spend(mcn[s], "RECEIVE"), {"SEND", "SIG_AIT", "DROP_AIT"})
  /\ Transmit(s, Pkt("AITA", Plus2(mcn[s].next)))

\* SA and SAL acknowledge the acknowledgement and give the token away.
SendAita(s) ==
  LET n == mcn[s] IN
  /\ n.state \in {"SA", "SAL"} /\ ~n.failed
  /\ Become(s, Spend(n, "RECEIVE"), {"SEND", "SIG_AIT", "DROP_AIT"})
  /\ Transmit(s, Pkt("AITA", n.next))

\* Mutant: the wrong acknowledgement is sent.
SendAitrAsAita(s) ==
  LET n == mcn[s] IN
  /\ n.state \in {"SB", "SBL"} /\ ~n.failed
  /\ Become(s, Spend(n, IF n.state = "SB" THEN "RB" ELSE "RBL"), {"SEND"})
  /\ Transmit(s, Pkt("AITA", n.next))

SendAitr(s) ==
  LET n == mcn[s] IN
  /\ n.state \in {"SB", "SBL"} /\ ~n.failed
  /\ Become(s, Spend(n, IF n.state = "SB" THEN "RB" ELSE "RBL"), {"SEND"})
  /\ Transmit(s, Pkt("AITR", n.next))

\* Nothing to send while an answer is awaited, nor ever after an error.
SendNothing(s) ==
  /\ \/ mcn[s].failed
     \/ mcn[s].state \in {"RECEIVE", "RA", "RAL", "RB", "RBL"}
  /\ Ignore(s, {})
  /\ UNCHANGED chan

NextSend(s, kind, ok, id) ==
  \/ SendHello(s)
  \/ SendWait(s)
  \/ SendEvent(s, kind)
  \/ SendTransfer(s, kind, ok, id)
  \/ SendAita(s)
  \/ SendAitr(s)
  \/ SendNothing(s)
=============================================================================
