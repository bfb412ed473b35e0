------------------------------- MODULE AloLink -------------------------------
(***************************************************************************)
(* A link whose ends run atomic link operations: EntlLink with the         *)
(* registers of AtomicLinkOp at each end and the 8 bytes of data, opcode   *)
(* and register fields that go with each packet.  Every step is a step of  *)
(* EntlLink that also does what the state machine does with mcn->ao.       *)
(***************************************************************************)
EXTENDS EntlRegularLink, AtomicLinkOp

CONSTANT Commands      \* what a caller may put in the command register

ASSUME CommandsAssumption == Commands \subseteq Command

VARIABLES
  alo,     \* alo[s]: mcn->ao of end s
  cmd,     \* cmd[s]: the command s waits for in RAL, NoCommand elsewhere
  load     \* load[s]: command, data and status of each packet in chan[s]

aloVars == <<vars, alo, cmd, load>>

NoCommand == [op |-> "BAD", cond |-> "ALLWAYS", bit |-> 0, sc |-> 0, dt |-> 0]

AloInit ==
  /\ Init
  /\ alo \in [Side -> {r \in Registers : /\ r.buf = 0 /\ r.ret = 0 /\ ~r.flag
                                         /\ r.pend = "none" /\ r.dst = 0
                                         /\ r.changed = {}}]
  /\ cmd = [s \in Side |-> NoCommand]
  /\ load = [s \in Side |-> <<>>]

AloOffer(s) == Offer(s) /\ UNCHANGED <<alo, cmd, load>>

\* The registers after packet m with load p is handled at s.
Handled(s, m, p) ==
  LET r == alo[s]  st == mcn[s].state IN
  CASE st = "RECEIVE" /\ Expected(s, m, "AITS") /\ m.op = "ALO" -> AloExec(r, p.cmd, p.word)
    [] st = "RAL" /\ Expected(s, m, "AITR") -> AloComplete(r, p.status, p.word)
    [] st = "RBL" /\ Expected(s, m, "AITA") -> AloUpdate(r, p.status)
    [] st # "HELLO" /\ mcn'[s].state = "HELLO" -> AloRegsInit(r)
    [] OTHER -> r

\* ENTL_ACTION_SIG_AIT follows the values alo_complete and alo_update return.
Signals(s, m, p) ==
  \/ mcn[s].state = "RAL" /\ Expected(s, m, "AITR") /\ p.status
  \/ mcn[s].state = "RBL" /\ Expected(s, m, "AITA") /\ Updates(alo[s], p.status)

AloReceive(s) ==
  LET m == Head(chan[s])  p == Head(load[s]) IN
  /\ Receive(s)
  /\ load' = [load EXCEPT ![s] = Tail(@)]
  /\ alo' = [alo EXCEPT ![s] = Handled(s, m, p)]
  /\ cmd' = [cmd EXCEPT ![s] = IF mcn'[s].state = "RAL" THEN @ ELSE NoCommand]
  /\ mcn[s].state \in {"RAL", "RBL"} => ("SIG_AIT" \in act'[s] <=> Signals(s, m, p))

\* entl_next_send is about to call alo_initiate.
Initiating(s) ==
  /\ mcn[s].state = "SEND" /\ ~mcn[s].failed
  /\ MayTransfer(mcn[s]) /\ Offered(s) \in {"ALO", "BOTH"}

\* Mutant: SBL, like SAL, reports success though alo_exec refused.
LoadsSuccess(s, c) ==
  [cmd : {c},
   word : IF Initiating(s) THEN SourceWords(alo[s], c) ELSE {alo[s].ret},
   status : {mcn[s].state \in {"SBL", "SAL"}}]

\* What the packet end s sends carries.  SAL always reports success.
Loads(s, c) ==
  [cmd : {c},
   word : IF Initiating(s) THEN SourceWords(alo[s], c) ELSE {alo[s].ret},
   status : {IF mcn[s].state = "SBL" THEN alo[s].flag ELSE mcn[s].state = "SAL"}]

AloSend(s) ==
  /\ Send(s)
  /\ \E c \in IF Initiating(s) THEN Commands ELSE {NoCommand} :
       /\ Initiating(s) => (mcn'[s].state = "RAL" <=> Initiable(alo[s], c))
       /\ cmd' = IF mcn'[s].state = "RAL" /\ mcn[s].state # "RAL"
                 THEN [cmd EXCEPT ![s] = c] ELSE cmd
       /\ alo' = IF Initiating(s) THEN [alo EXCEPT ![s] = AloInitiate(@, c)] ELSE alo
       /\ \E p \in Loads(s, c) :
            load' = IF chan' = chan THEN load ELSE [load EXCEPT ![Peer(s)] = Append(@, p)]

AloLose(s) ==
  /\ Lose(s)
  /\ load' = [load EXCEPT ![s] = Tail(@)]
  /\ UNCHANGED <<alo, cmd>>

AloNext ==
  \E s \in Side : AloOffer(s) \/ AloReceive(s) \/ AloSend(s) \/ AloLose(s)

AloSpec == AloInit /\ [][AloNext]_aloVars

-----------------------------------------------------------------------------
(* Properties.                                                             *)

\* The source commits when the acknowledgement arrives, the destination when
\* the acknowledgement of that arrives: from the first on both have.
Committed(s) ==
  LET r == alo[s] IN
  IF mcn[s].state = "RBL" /\ mcn[Peer(s)].state # "RAL" /\ r.pend = "own"
  THEN [r.reg EXCEPT ![r.dst] = r.buf]
  ELSE r.reg

\* A command as the other end reads it.
OnWire(c) == [c EXCEPT !.dt = WireDt(@)]

Promise == INSTANCE AtomicRegisters
  WITH None <- NoCommand, Commands <- {OnWire(c) : c \in Commands},
       regs <- [s \in Side |-> Committed(s)],
       todo <- [s \in Side |-> OnWire(cmd[s])]

\* An operation changes the register its source names and the one the wire
\* names at the other end, or neither, as one step, whatever the interleaving
\* and the packets lost.
OperationsAreAtomic == Promise!Spec

Asked == INSTANCE AtomicRegisters
  WITH None <- NoCommand, regs <- [s \in Side |-> Committed(s)], todo <- cmd

\* The register an operation changes at the other end is the one its command
\* names, the one alo_tester.c looks at after every operation.
OperationsFindTheirRegister == Asked!Spec

\* Every register and every word on the wire fits the registers' width, and
\* each packet has the data, opcode and status that travel with it.
AloTypeOK ==
  /\ alo \in [Side -> Registers]
  /\ cmd \in [Side -> Commands \cup {NoCommand}]
  /\ \A s \in Side :
       /\ Len(load[s]) = Len(chan[s])
       /\ \A i \in DOMAIN load[s] : load[s][i].word \in Word

\* A result waits to be written to a register only while its operation is
\* under way: one left behind would be written by the next operation.
PendingOnlyInFlight ==
  \A s \in Side :
    alo[s].pend # "none" =>
      \/ mcn[s].state = "RAL" /\ cmd[s] # NoCommand
      \/ mcn[s].state \in {"SBL", "RBL"}

-----------------------------------------------------------------------------
(* Why operations are atomic: what an end x that waits in RAL, its peer y   *)
(* and the packets between them know of x's command.                        *)

RegisterFields == {"reg", "buf", "ret", "flag", "pend", "dst", "changed"}
Shape(r) ==
  /\ r = [f \in RegisterFields |-> r[f]]
  /\ r.reg = [i \in Reg |-> r.reg[i]] /\ r.dst \in Reg
  /\ r.flag \in BOOLEAN /\ r.pend \in {"none", "own", "reply"}

\* alo_initiate has run at x with cmd[x], and nothing touched x since then.
Initiated(x) ==
  IF mcn[x].state = "RAL"
  THEN /\ cmd[x] \in Commands /\ Initiable(alo[x], cmd[x])
       /\ alo[x] = AloInitiate(alo[x], cmd[x])
  ELSE cmd[x] = NoCommand

Requested(x, y) ==
  mcn[x].state = "RAL" =>
    \A i \in Places(y) : chan[y][i].type = "AITS" =>
      load[y][i].cmd = cmd[x] /\ load[y][i].word \in SourceWords(alo[x], cmd[x])

\* alo_exec has run at y, and nothing touched y since then.
Executed(x, y) ==
  mcn[x].state = "RAL" /\ mcn[y].state \in {"SBL", "RBL"} =>
    \E v \in SourceWords(alo[x], cmd[x]) : alo[y] = AloExec(alo[y], cmd[x], v)

Answered(x, y) ==
  mcn[x].state = "RAL" =>
    \A i \in Places(x) : chan[x][i].type = "AITR" =>
      load[x][i].word = alo[y].ret /\ load[x][i].status = alo[y].flag

\* SAL reports success, whatever alo_complete made of the reply.
Confirmed(y) ==
  mcn[y].state = "RBL" =>
    /\ alo[y].pend # "reply"
    /\ \A i \in Places(y) : chan[y][i].type = "AITA" => load[y][i].status

\* The elements of a sequence.
Items(c) == {c[i] : i \in DOMAIN c}

\* Inductive together with IInv.
AloInv ==
  /\ alo = [s \in Side |-> alo[s]] /\ cmd = [s \in Side |-> cmd[s]]
  /\ load = [s \in Side |-> load[s]]
  /\ \A s \in Side :
       Shape(alo[s]) /\ load[s] \in Seq(Items(load[s])) /\ Len(load[s]) = Len(chan[s])
  /\ PendingOnlyInFlight
  /\ \A x \in Side : LET y == Peer(x) IN
       Initiated(x) /\ Requested(x, y) /\ Executed(x, y) /\ Answered(x, y) /\ Confirmed(x)
=============================================================================
