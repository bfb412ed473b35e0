------------------------------ MODULE AtomicLinkOp ------------------------------
(***************************************************************************)
(* The registers of an atomic link operation (ALO) and the four functions  *)
(* of nfsim/entl_libs/atomic_link_op.c an operation runs through:          *)
(* alo_initiate at the source, alo_exec at the destination, alo_complete   *)
(* at the source, alo_update at the destination.                           *)
(*                                                                         *)
(* An opcode is a name with a condition or bit number beside it.  The      *)
(* flags word is reduced to its change bit and its register number.        *)
(***************************************************************************)
EXTENDS Integers

CONSTANTS
  Width,      \* bits of a register: 64 in the code
  RegCount    \* registers of an end: 32 in the code

ASSUME WidthAssumption == Width \in Nat \ {0}
ASSUME RegCountAssumption == RegCount \in Nat \ {0}

Reg == 0 .. RegCount - 1
Bit == 0 .. Width - 1
Size == 2 ^ Width
Word == 0 .. Size - 1

SourceOps == {"INC", "DEC", "INCS", "DECS"}     \* computed at the source
ReplyOps == {"ADD", "SUBS", "SUBD", "AND", "OR", "INCD", "DECD"}
CondOps == {"RD", "WR", "SWAP"}
BitOps == {"BSET", "BRESET", "BTESTSET", "BTESTRESET"}
\* OTHER stands for the codes without a case, which no register meets.
Cond == {"ALLWAYS", "EQ", "LT", "LE", "GT", "GE", "OTHER"}

\* BAD stands for ALO_NOP and every opcode without a case.
Op == SourceOps \cup ReplyOps \cup CondOps \cup BitOps \cup {"BAD"}
Command == [op : Op, cond : Cond, bit : Bit, sc : Reg, dt : Reg]

\* SET_ECLP_ALO writes the 5 bits of dt at bit 37 of the address, ALO_DT reads
\* 5 bits at bit 36, the top bit of the etype, which is 0 in an AITS.
WireDt(dt) == (2 * dt) % RegCount

\* pend: which result goes to reg[dst] once the other end agrees, the end's
\* own result_buffer (0x80000000), the other end's reply (0x40000000) or none.
Registers ==
  [reg : [Reg -> Word], buf : Word, ret : Word, flag : BOOLEAN,
   pend : {"none", "own", "reply"}, dst : Reg, changed : SUBSET Reg]

AloRegsInit(r) ==
  [r EXCEPT !.reg = [i \in Reg |-> 0], !.buf = 0, !.pend = "none", !.changed = {}]

-----------------------------------------------------------------------------
BitOf(x, b) == (x \div 2 ^ b) % 2
SetBit(x, b) == IF BitOf(x, b) = 0 THEN x + 2 ^ b ELSE x
ResetBit(x, b) == IF BitOf(x, b) = 1 THEN x - 2 ^ b ELSE x

\* C's & and |: the word whose bits are combined from those of x and y.
BitAnd(x, y) == CHOOSE z \in Word : \A b \in Bit : BitOf(z, b) = BitOf(x, b) * BitOf(y, b)
BitOr(x, y) ==
  CHOOSE z \in Word : \A b \in Bit : BitOf(z, b) = 0 <=> BitOf(x, b) = 0 /\ BitOf(y, b) = 0

\* What a bit operation makes of a register, and whether it may.
BitResult(op, x, b) == IF op \in {"BSET", "BTESTSET"} THEN SetBit(x, b) ELSE ResetBit(x, b)
BitTest(op, x, b) ==
  /\ op = "BTESTSET" => BitOf(x, b) = 0
  /\ op = "BTESTRESET" => BitOf(x, b) = 1

Condition(cond, x, v) ==
  CASE cond = "ALLWAYS" -> TRUE
    [] cond = "EQ" -> x = v
    [] cond = "LT" -> x < v
    [] cond = "LE" -> x <= v
    [] cond = "GT" -> x > v
    [] cond = "GE" -> x >= v
    [] cond = "OTHER" -> FALSE

-----------------------------------------------------------------------------
(* alo_initiate                                                            *)

Initiable(r, c) == c.op # "BAD" /\ BitTest(c.op, r.reg[c.sc], c.bit)

\* Mutant: the result is not cut to the width of a register.
SourceStepUnmasked(op, x) == IF op \in {"INC", "INCS"} THEN x + 1 ELSE x - 1

SourceStep(op, x) == IF op \in {"INC", "INCS"} THEN (x + 1) % Size ELSE (x - 1) % Size

\* The word sent along: a bit operation leaves *s_value as it finds it.
SourceWords(r, c) ==
  IF c.op \in BitOps THEN Word
  ELSE IF c.op \in SourceOps THEN {SourceStep(c.op, r.reg[c.sc])}
  ELSE {r.reg[c.sc]}

AloInitiate(r, c) ==
  LET x == r.reg[c.sc] IN
  CASE ~Initiable(r, c) \/ c.op = "WR" -> [r EXCEPT !.pend = "none"]
    [] Initiable(r, c) /\ c.op \in BitOps ->
         [r EXCEPT !.buf = BitResult(c.op, x, c.bit), !.pend = "own", !.dst = c.sc]
    [] Initiable(r, c) /\ c.op \in SourceOps ->
         [r EXCEPT !.buf = SourceStep(c.op, x), !.pend = "own", !.dst = c.sc]
    [] Initiable(r, c) /\ c.op \in ReplyOps \cup {"RD", "SWAP"} ->
         [r EXCEPT !.pend = "reply", !.dst = c.sc]

(* alo_exec                                                                *)

Executable(r, c, v) ==
  LET y == r.reg[WireDt(c.dt)] IN
  /\ c.op # "BAD"
  /\ c.op \in CondOps => Condition(c.cond, y, v)
  /\ BitTest(c.op, y, c.bit)

\* What the destination makes of its own word y and the word v it was sent.
DestinationStep(op, y, v) ==
  CASE op = "ADD" -> (v + y) % Size
    [] op = "SUBS" -> (y - v) % Size
    [] op = "SUBD" -> (v - y) % Size
    [] op = "AND" -> BitAnd(v, y)
    [] op = "OR" -> BitOr(v, y)
    [] op \in {"INC", "INCD"} -> (y + 1) % Size
    [] op \in {"DEC", "DECD"} -> (y - 1) % Size
    [] op \in {"INCS", "DECS", "WR", "SWAP"} -> v

AloExec(r, c, v) ==
  LET y == r.reg[WireDt(c.dt)]
      agreed == [r EXCEPT !.flag = TRUE, !.pend = "own", !.dst = WireDt(c.dt)]
      refused == [r EXCEPT !.flag = FALSE, !.pend = "none"]
  IN
  CASE ~Executable(r, c, v) -> IF c.op \in BitOps THEN [refused EXCEPT !.ret = v] ELSE refused
    [] Executable(r, c, v) /\ c.op = "RD" ->
         [r EXCEPT !.flag = TRUE, !.ret = y, !.pend = "none"]
    [] Executable(r, c, v) /\ c.op = "SWAP" -> [agreed EXCEPT !.ret = y, !.buf = v]
    [] Executable(r, c, v) /\ c.op \in BitOps ->
         [agreed EXCEPT !.ret = v, !.buf = BitResult(c.op, y, c.bit)]
    [] Executable(r, c, v) /\ c.op \in SourceOps \cup ReplyOps \cup {"WR"} ->
         [agreed EXCEPT !.ret = DestinationStep(c.op, y, v),
                        !.buf = DestinationStep(c.op, y, v)]

-----------------------------------------------------------------------------
Commit(r, v) ==
  [r EXCEPT !.reg[r.dst] = v, !.changed = {r.dst}, !.pend = "none"]

\* Mutants: the answer of the other end is ignored, a refused operation
\* leaves its result pending.
AloCompleteBlind(r, status, v) ==
  IF r.pend = "none" THEN r ELSE Commit(r, IF r.pend = "own" THEN r.buf ELSE v)

AloCompleteForgets(r, status, v) ==
  IF r.pend = "none" \/ ~status THEN r
  ELSE Commit(r, IF r.pend = "own" THEN r.buf ELSE v)

\* alo_complete(status, v) returns status, whatever was pending.
AloComplete(r, status, v) ==
  IF r.pend = "none" \/ ~status THEN [r EXCEPT !.pend = "none"]
  ELSE Commit(r, IF r.pend = "own" THEN r.buf ELSE v)

\* alo_update returns whether it wrote a register, and clears the change bit
\* when it did not.
Updates(r, status) == r.pend # "none" /\ status

AloUpdate(r, status) ==
  IF Updates(r, status) THEN Commit(r, r.buf)
  ELSE [r EXCEPT !.pend = "none", !.changed = {}]
=============================================================================
