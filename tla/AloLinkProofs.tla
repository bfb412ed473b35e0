---------------------------- MODULE AloLinkProofs ----------------------------
(***************************************************************************)
(* Operations on the registers of a regular link are atomic: AloLink       *)
(* implements AtomicRegisters, and no word outgrows a register.  AloInv of *)
(* AloLink is inductive together with IInv of EntlRegularLink.             *)
(***************************************************************************)
EXTENDS AloLink, EntlRegularLinkProofs, SequenceTheorems, FunctionTheorems,
        FiniteSetTheorems, WellFoundedInduction

Ops == SourceOps \cup ReplyOps \cup CondOps \cup BitOps

-----------------------------------------------------------------------------
(* The four functions of atomic_link_op.c.                                  *)

\* What waits in n after alo_initiate, x being the source's word.
InitiateFields(n, c, x) ==
  /\ c.op = "WR" => n.pend = "none"
  /\ c.op # "WR" => n.dst = c.sc
  /\ c.op \in BitOps => n.pend = "own" /\ n.buf = BitResult(c.op, x, c.bit)
  /\ c.op \in SourceOps => n.pend = "own" /\ n.buf = SourceStep(c.op, x)
  /\ c.op \notin BitOps \cup SourceOps \cup {"WR"} => n.pend = "reply"

\* What waits in n after alo_exec, y being the destination's word.
ReplyWord(c, y, v) ==
  IF c.op = "SWAP" THEN y ELSE IF c.op \in BitOps THEN v ELSE DestinationStep(c.op, y, v)
ResultWord(c, y, v) ==
  IF c.op = "SWAP" THEN v
  ELSE IF c.op \in BitOps THEN BitResult(c.op, y, c.bit)
  ELSE DestinationStep(c.op, y, v)
ExecFields(n, c, y, v) ==
  /\ ~n.flag => n.pend = "none"
  /\ n.flag /\ c.op = "RD" => n.pend = "none" /\ n.ret = y
  /\ n.flag /\ c.op # "RD" =>
       /\ n.pend = "own" /\ n.dst = WireDt(c.dt)
       /\ n.ret = ReplyWord(c, y, v) /\ n.buf = ResultWord(c, y, v)

\* alo_initiate touches no register; called again it does the same.
LEMMA InitiateFacts ==
  ASSUME NEW r, Shape(r), NEW c \in Command
  PROVE  LET n == AloInitiate(r, c) IN
         /\ Shape(n) /\ n.reg = r.reg /\ n.flag = r.flag /\ n.ret = r.ret
         /\ ~Initiable(r, c) => n.pend = "none"
         /\ Initiable(r, c) => AloInitiate(n, c) = n /\ Initiable(n, c)
         /\ SourceWords(n, c) = SourceWords(r, c)
         /\ Initiable(r, c) => InitiateFields(n, c, r.reg[c.sc])
<1>. DEFINE n == AloInitiate(r, c)
<1>0. c.op \in Ops \cup {"BAD"} /\ c.sc \in Reg
  BY DEF Command, Op, Ops
<1>1. CASE ~Initiable(r, c) \/ c.op = "WR"
  <2>1. n = [r EXCEPT !.pend = "none"]
    BY <1>1 DEF AloInitiate, BitOps, SourceOps, ReplyOps
  <2>2. Shape(n) /\ n.reg = r.reg /\ n.flag = r.flag /\ n.ret = r.ret /\ n.pend = "none"
    BY <2>1 DEF Shape, RegisterFields
  <2>3. Initiable(n, c) <=> Initiable(r, c)
    BY <2>2 DEF Initiable
  <2>4. SourceWords(n, c) = SourceWords(r, c)
    BY <2>2 DEF SourceWords
  <2>5. Initiable(r, c) => AloInitiate(n, c) = [n EXCEPT !.pend = "none"]
    BY <1>1, <2>3 DEF AloInitiate, BitOps, SourceOps, ReplyOps
  <2>6. [n EXCEPT !.pend = "none"] = n
    BY <2>2 DEF Shape, RegisterFields
  <2>7. Initiable(r, c) => InitiateFields(n, c, r.reg[c.sc])
    BY <1>1, <2>2 DEF InitiateFields, BitOps, SourceOps
  <2>. QED
    BY <2>2, <2>3, <2>4, <2>5, <2>6, <2>7
<1>2. CASE Initiable(r, c) /\ c.op # "WR"
  <2>1. \/ c.op \in BitOps \/ c.op \in SourceOps \/ c.op \in ReplyOps \cup {"RD", "SWAP"}
    BY <1>0, <1>2 DEF Ops, CondOps, Initiable
  <2>2. /\ BitOps \cap (SourceOps \cup ReplyOps \cup {"RD", "SWAP", "WR"}) = {}
        /\ SourceOps \cap (ReplyOps \cup {"RD", "SWAP", "WR"}) = {}
    BY DEF BitOps, SourceOps, ReplyOps
  <2>3. \A q : Initiable(q, c) /\ q.reg = r.reg =>
          AloInitiate(q, c) =
            IF c.op \in BitOps
            THEN [q EXCEPT !.buf = BitResult(c.op, r.reg[c.sc], c.bit), !.pend = "own", !.dst = c.sc]
            ELSE IF c.op \in SourceOps
            THEN [q EXCEPT !.buf = SourceStep(c.op, r.reg[c.sc]), !.pend = "own", !.dst = c.sc]
            ELSE [q EXCEPT !.pend = "reply", !.dst = c.sc]
    <3>1. CASE c.op \in BitOps
      BY <1>2, <2>2, <3>1 DEF AloInitiate
    <3>2. CASE c.op \in SourceOps
      BY <1>2, <2>2, <3>2 DEF AloInitiate
    <3>3. CASE c.op \in ReplyOps \cup {"RD", "SWAP"}
      BY <1>2, <2>2, <3>3 DEF AloInitiate
    <3>. QED
      BY <2>1, <3>1, <3>2, <3>3
  <2>4. /\ Shape(n) /\ n.reg = r.reg /\ n.flag = r.flag /\ n.ret = r.ret
        /\ n.pend = IF c.op \in BitOps \cup SourceOps THEN "own" ELSE "reply"
        /\ n.dst = c.sc
        /\ c.op \in BitOps => n.buf = BitResult(c.op, r.reg[c.sc], c.bit)
        /\ c.op \in SourceOps => n.buf = SourceStep(c.op, r.reg[c.sc])
    <3>1. CASE c.op \in BitOps
      <4>1. n = [r EXCEPT !.buf = BitResult(c.op, r.reg[c.sc], c.bit), !.pend = "own", !.dst = c.sc]
        BY <1>2, <2>3, <3>1
      <4>2. c.op \notin SourceOps
        BY <2>2, <3>1
      <4>. QED
        BY <1>0, <3>1, <4>1, <4>2 DEF Shape, RegisterFields
    <3>2. CASE c.op \in SourceOps
      <4>1. c.op \notin BitOps
        BY <2>2, <3>2
      <4>2. n = [r EXCEPT !.buf = SourceStep(c.op, r.reg[c.sc]), !.pend = "own", !.dst = c.sc]
        BY <1>2, <2>3, <3>2, <4>1
      <4>. QED
        BY <1>0, <3>2, <4>1, <4>2 DEF Shape, RegisterFields
    <3>3. CASE c.op \notin BitOps \cup SourceOps
      <4>1. n = [r EXCEPT !.pend = "reply", !.dst = c.sc]
        BY <1>2, <2>3, <3>3
      <4>. QED
        BY <1>0, <3>3, <4>1 DEF Shape, RegisterFields
    <3>. QED
      BY <3>1, <3>2, <3>3
  <2>5. Initiable(n, c)
    BY <1>2, <2>4 DEF Initiable
  <2>6. SourceWords(n, c) = SourceWords(r, c)
    BY <2>4 DEF SourceWords
  <2>7. AloInitiate(n, c) =
          IF c.op \in BitOps
          THEN [n EXCEPT !.buf = n.buf, !.pend = n.pend, !.dst = n.dst]
          ELSE IF c.op \in SourceOps
          THEN [n EXCEPT !.buf = n.buf, !.pend = n.pend, !.dst = n.dst]
          ELSE [n EXCEPT !.pend = n.pend, !.dst = n.dst]
    BY <2>3, <2>4, <2>5
  <2>8. AloInitiate(n, c) = n
    BY <2>4, <2>7 DEF Shape, RegisterFields
  <2>9. InitiateFields(n, c, r.reg[c.sc])
    BY <1>2, <2>2, <2>4 DEF InitiateFields
  <2>. QED
    BY <1>2, <2>4, <2>5, <2>6, <2>8, <2>9
<1>. QED
  BY <1>1, <1>2

\* alo_exec touches no register either, and does not wait for a reply.
LEMMA ExecFacts ==
  ASSUME NEW r, Shape(r), NEW c \in Command, NEW v
  PROVE  LET n == AloExec(r, c, v) IN
         /\ Shape(n) /\ n.reg = r.reg /\ n.pend # "reply"
         /\ AloExec(n, c, v) = n
         /\ n.flag <=> Executable(r, c, v)
         /\ ExecFields(n, c, r.reg[WireDt(c.dt)], v)
<1>. DEFINE n == AloExec(r, c, v)
            d == WireDt(c.dt)
            y == r.reg[d]
<1>0. c.op \in Ops \cup {"BAD"} /\ d \in Reg
  <2>1. c.dt \in Reg /\ RegCount \in Nat \ {0}
    BY RegCountAssumption DEF Command
  <2>2. d \in Reg
    BY <2>1 DEF WireDt, Reg
  <2>. QED
    BY <2>2 DEF Command, Op, Ops
<1>1. /\ BitOps \cap (SourceOps \cup ReplyOps \cup {"RD", "SWAP", "WR"}) = {}
      /\ (SourceOps \cup ReplyOps) \cap {"RD", "SWAP", "WR"} = {}
  BY DEF BitOps, SourceOps, ReplyOps
<1>2. \A q : q.reg = r.reg => (Executable(q, c, v) <=> Executable(r, c, v))
  BY DEF Executable
<1>3. CASE ~Executable(r, c, v)
  <2>1. \A q : q.reg = r.reg => AloExec(q, c, v) =
          IF c.op \in BitOps THEN [q EXCEPT !.flag = FALSE, !.pend = "none", !.ret = v]
          ELSE [q EXCEPT !.flag = FALSE, !.pend = "none"]
    <3>. SUFFICES ASSUME NEW q, q.reg = r.reg
         PROVE  AloExec(q, c, v) =
                  IF c.op \in BitOps THEN [q EXCEPT !.flag = FALSE, !.pend = "none", !.ret = v]
                  ELSE [q EXCEPT !.flag = FALSE, !.pend = "none"]
      OBVIOUS
    <3>1. ~Executable(q, c, v)
      BY <1>2, <1>3
    <3>. QED
      BY <3>1 DEF AloExec
  <2>2. CASE c.op \in BitOps
    <3>1. n = [r EXCEPT !.flag = FALSE, !.pend = "none", !.ret = v]
      BY <2>1, <2>2
    <3>2. Shape(n) /\ n.reg = r.reg /\ n.pend = "none" /\ n.flag = FALSE /\ n.ret = v
      BY <3>1 DEF Shape, RegisterFields
    <3>3. AloExec(n, c, v) = [n EXCEPT !.flag = n.flag, !.pend = n.pend, !.ret = n.ret]
      BY <2>1, <2>2, <3>2
    <3>4. [n EXCEPT !.flag = n.flag, !.pend = n.pend, !.ret = n.ret] = n
      BY <3>2 DEF Shape, RegisterFields
    <3>5. ExecFields(n, c, y, v)
      BY <3>2 DEF ExecFields
    <3>. QED
      BY <1>3, <3>2, <3>3, <3>4, <3>5
  <2>3. CASE c.op \notin BitOps
    <3>1. n = [r EXCEPT !.flag = FALSE, !.pend = "none"]
      BY <2>1, <2>3
    <3>2. Shape(n) /\ n.reg = r.reg /\ n.pend = "none" /\ n.flag = FALSE
      BY <3>1 DEF Shape, RegisterFields
    <3>3. AloExec(n, c, v) = [n EXCEPT !.flag = n.flag, !.pend = n.pend]
      BY <2>1, <2>3, <3>2
    <3>4. [n EXCEPT !.flag = n.flag, !.pend = n.pend] = n
      BY <3>2 DEF Shape, RegisterFields
    <3>5. ExecFields(n, c, y, v)
      BY <3>2 DEF ExecFields
    <3>. QED
      BY <1>3, <3>2, <3>3, <3>4, <3>5
  <2>. QED
    BY <2>2, <2>3
<1>4. CASE Executable(r, c, v) /\ c.op = "RD"
  <2>1. \A q : q.reg = r.reg =>
          AloExec(q, c, v) = [q EXCEPT !.flag = TRUE, !.ret = y, !.pend = "none"]
    <3>. SUFFICES ASSUME NEW q, q.reg = r.reg
         PROVE  AloExec(q, c, v) = [q EXCEPT !.flag = TRUE, !.ret = y, !.pend = "none"]
      OBVIOUS
    <3>1. Executable(q, c, v)
      BY <1>2, <1>4
    <3>. QED
      BY <1>1, <1>4, <3>1 DEF AloExec
  <2>2. n = [r EXCEPT !.flag = TRUE, !.ret = y, !.pend = "none"]
    BY <2>1
  <2>. HIDE DEF y
  <2>3. Shape(n) /\ n.reg = r.reg /\ n.pend = "none" /\ n.flag = TRUE /\ n.ret = y
    BY <2>2 DEF Shape, RegisterFields
  <2>4. AloExec(n, c, v) = [n EXCEPT !.flag = n.flag, !.ret = n.ret, !.pend = n.pend]
    BY <2>1, <2>3
  <2>5. [n EXCEPT !.flag = n.flag, !.ret = n.ret, !.pend = n.pend] = n
    BY <2>3 DEF Shape, RegisterFields
  <2>6. ExecFields(n, c, y, v)
    BY <1>4, <2>3 DEF ExecFields
  <2>. QED
    BY <1>4, <2>3, <2>4, <2>5, <2>6 DEF y
<1>5. CASE Executable(r, c, v) /\ c.op # "RD"
  <2>. DEFINE ret == ReplyWord(c, y, v)
              buf == ResultWord(c, y, v)
  <2>1. \A q : q.reg = r.reg => AloExec(q, c, v) =
          [q EXCEPT !.flag = TRUE, !.pend = "own", !.dst = d, !.ret = ret, !.buf = buf]
    <3>. SUFFICES ASSUME NEW q, q.reg = r.reg
         PROVE  AloExec(q, c, v) =
                  [q EXCEPT !.flag = TRUE, !.pend = "own", !.dst = d, !.ret = ret, !.buf = buf]
      OBVIOUS
    <3>1. Executable(q, c, v)
      BY <1>2, <1>5
    <3>2. c.op \in BitOps \cup SourceOps \cup ReplyOps \cup {"WR", "SWAP"}
      BY <1>0, <1>5 DEF Ops, CondOps, Executable
    <3>3. CASE c.op = "SWAP"
      BY <1>1, <3>1, <3>3 DEF AloExec, ReplyWord, ResultWord
    <3>4. CASE c.op \in BitOps
      BY <1>1, <3>1, <3>4 DEF AloExec, ReplyWord, ResultWord
    <3>5. CASE c.op \in SourceOps \cup ReplyOps \cup {"WR"}
      BY <1>1, <3>1, <3>5 DEF AloExec, ReplyWord, ResultWord
    <3>. QED
      BY <3>2, <3>3, <3>4, <3>5
  <2>. HIDE DEF ret, buf, y, d
  <2>2. n = [r EXCEPT !.flag = TRUE, !.pend = "own", !.dst = d, !.ret = ret, !.buf = buf]
    BY <2>1
  <2>3. Shape(n) /\ n.reg = r.reg /\ n.pend = "own" /\ n.flag = TRUE /\ n.dst = d
        /\ n.ret = ret /\ n.buf = buf
    BY <1>0, <2>2 DEF Shape, RegisterFields
  <2>4. AloExec(n, c, v) = [n EXCEPT !.flag = n.flag, !.pend = n.pend, !.dst = n.dst,
                                     !.ret = n.ret, !.buf = n.buf]
    BY <2>1, <2>3
  <2>5. [n EXCEPT !.flag = n.flag, !.pend = n.pend, !.dst = n.dst,
                  !.ret = n.ret, !.buf = n.buf] = n
    BY <2>3 DEF Shape, RegisterFields
  <2>6. ExecFields(n, c, y, v)
    BY <1>5, <2>3 DEF ExecFields, ret, buf, d
  <2>. QED
    BY <1>5, <2>3, <2>4, <2>5, <2>6 DEF y, d
<1>. QED
  BY <1>3, <1>4, <1>5

-----------------------------------------------------------------------------
(* Both ends together.                                                      *)

\* The words AtomicRegisters computes are those of atomic_link_op.c.
LEMMA SameOperators ==
  /\ \A x, y : Promise!BitAnd(x, y) = BitAnd(x, y) /\ Promise!BitOr(x, y) = BitOr(x, y)
  /\ \A op, x, b : /\ Promise!BitResult(op, x, b) = BitResult(op, x, b)
                   /\ Promise!BitTest(op, x, b) <=> BitTest(op, x, b)
  /\ \A k, x, y : Promise!Condition(k, x, y) <=> Condition(k, x, y)
  /\ Promise!CondOps = CondOps /\ Promise!BitOps = BitOps /\ Promise!Size = Size
<1>1. \A x, b : Promise!BitOf(x, b) = BitOf(x, b)
  BY DEF Promise!BitOf, BitOf
<1>2. Promise!Bit = Bit /\ Promise!Word = Word /\ Promise!Size = Size
  BY DEF Promise!Bit, Bit, Promise!Word, Word, Promise!Size, Size
<1>3. \A x, y : Promise!BitAnd(x, y) = BitAnd(x, y) /\ Promise!BitOr(x, y) = BitOr(x, y)
  BY <1>1, <1>2 DEF Promise!BitAnd, BitAnd, Promise!BitOr, BitOr
<1>4. \A op, x, b : /\ Promise!BitResult(op, x, b) = BitResult(op, x, b)
                    /\ Promise!BitTest(op, x, b) <=> BitTest(op, x, b)
  BY <1>1 DEF Promise!BitResult, BitResult, Promise!BitTest, BitTest,
              Promise!SetBit, SetBit, Promise!ResetBit, ResetBit
<1>5. \A k, x, y : Promise!Condition(k, x, y) <=> Condition(k, x, y)
  BY DEF Promise!Condition, Condition
<1>6. Promise!CondOps = CondOps /\ Promise!BitOps = BitOps
  BY DEF Promise!CondOps, CondOps, Promise!BitOps, BitOps
<1>. QED
  BY <1>2, <1>3, <1>4, <1>5, <1>6

\* The two words after c, operation by operation.
LEMMA PromisedWords ==
  ASSUME NEW c, NEW x, NEW y
  PROVE  LET a == Promise!After(c, x, y) IN
         /\ c.op = "ADD" => a = <<(x + y) % Size, (x + y) % Size>>
         /\ c.op = "SUBS" => a = <<(y - x) % Size, (y - x) % Size>>
         /\ c.op = "SUBD" => a = <<(x - y) % Size, (x - y) % Size>>
         /\ c.op = "AND" => a = <<BitAnd(x, y), BitAnd(x, y)>>
         /\ c.op = "OR" => a = <<BitOr(x, y), BitOr(x, y)>>
         /\ c.op = "INC" => a = <<(x + 1) % Size, (y + 1) % Size>>
         /\ c.op = "DEC" => a = <<(x - 1) % Size, (y - 1) % Size>>
         /\ c.op = "INCS" => a = <<(x + 1) % Size, (x + 1) % Size>>
         /\ c.op = "DECS" => a = <<(x - 1) % Size, (x - 1) % Size>>
         /\ c.op = "INCD" => a = <<(y + 1) % Size, (y + 1) % Size>>
         /\ c.op = "DECD" => a = <<(y - 1) % Size, (y - 1) % Size>>
         /\ c.op = "RD" => a = <<y, y>>
         /\ c.op = "WR" => a = <<x, x>>
         /\ c.op = "SWAP" => a = <<y, x>>
<1>. DEFINE a == Promise!After(c, x, y)
<1>1. \A u, v : Promise!Sum(u, v) = (u + v) % Size /\ Promise!Difference(u, v) = (u - v) % Size
  BY SameOperators DEF Promise!Sum, Promise!Difference
<1>2. \A u, v : Promise!BitAnd(u, v) = BitAnd(u, v) /\ Promise!BitOr(u, v) = BitOr(u, v)
  BY SameOperators
<1>3. CASE c.op \in {"ADD", "SUBS", "SUBD"}
  BY <1>1, <1>3 DEF Promise!After, Promise!BitOps
<1>4. CASE c.op \in {"AND", "OR"}
  BY <1>2, <1>4 DEF Promise!After, Promise!BitOps
<1>5. CASE c.op \in {"INC", "DEC", "INCS", "DECS"}
  BY <1>1, <1>5 DEF Promise!After, Promise!BitOps
<1>6. CASE c.op \in {"INCD", "DECD"}
  BY <1>1, <1>6 DEF Promise!After, Promise!BitOps
<1>7. CASE c.op \in {"RD", "WR", "SWAP"}
  BY <1>7 DEF Promise!After, Promise!BitOps
<1>. QED
  BY <1>3, <1>4, <1>5, <1>6, <1>7

\* What the two ends agreed on is what AtomicRegisters does in one step: x is
\* the source's word, y the destination's, in the register the wire names.
LEMMA Outcome ==
  ASSUME NEW r, Shape(r), NEW q, Shape(q), NEW c \in Command,
         NEW v \in SourceWords(r, c), Initiable(r, c), r = AloInitiate(r, c),
         q = AloExec(q, c, v)
  PROVE  LET x == r.reg[c.sc]
             y == q.reg[WireDt(c.dt)]
         IN  /\ q.flag <=> Promise!May(c, x, y)
             /\ q.flag =>
                  /\ AloComplete(r, TRUE, q.ret).reg
                       = [r.reg EXCEPT ![c.sc] = Promise!After(c, x, y)[1]]
                  /\ (IF q.pend = "own" THEN [q.reg EXCEPT ![q.dst] = q.buf] ELSE q.reg)
                       = [q.reg EXCEPT ![WireDt(c.dt)] = Promise!After(c, x, y)[2]]
             /\ ~q.flag => q.pend = "none"
<1>. DEFINE x == r.reg[c.sc]
            y == q.reg[WireDt(c.dt)]
<1>0. c.op \in Ops /\ c.sc \in Reg /\ WireDt(c.dt) \in Reg /\ c.op # "BAD"
  BY RegCountAssumption DEF Command, Op, Ops, Initiable, WireDt, Reg
<1>1. Executable(q, c, v) <=> Promise!May(c, x, y)
  <2>1. c.op \in CondOps => v = x
    BY DEF SourceWords, CondOps, BitOps, SourceOps
  <2>2. BitTest(c.op, x, c.bit)
    BY DEF Initiable
  <2>. QED
    BY <1>0, <2>1, <2>2, SameOperators DEF Executable, Promise!May
<1>2. (q.flag <=> Executable(q, c, v)) /\ ExecFields(q, c, y, v)
  BY ExecFacts
<1>3. InitiateFields(r, c, x)
  BY InitiateFacts
<1>. DEFINE w == IF c.op = "WR" THEN x ELSE IF c.op \in BitOps \cup SourceOps THEN r.buf ELSE q.ret
            z == IF c.op = "RD" THEN y ELSE q.buf
<1>4. AloComplete(r, TRUE, q.ret).reg = [r.reg EXCEPT ![c.sc] = w]
  <2>1. CASE c.op = "WR"
    <3>1. AloComplete(r, TRUE, q.ret) = [r EXCEPT !.pend = "none"] /\ w = x
      BY <1>3, <2>1 DEF AloComplete, InitiateFields
    <3>2. AloComplete(r, TRUE, q.ret).reg = r.reg
      BY <3>1 DEF Shape, RegisterFields
    <3>3. r.reg = [r.reg EXCEPT ![c.sc] = x]
      BY <1>0 DEF Shape
    <3>. QED
      BY <3>1, <3>2, <3>3
  <2>2. CASE c.op # "WR"
    <3>1. r.pend # "none" /\ r.dst = c.sc /\ w = IF r.pend = "own" THEN r.buf ELSE q.ret
      BY <1>3, <2>2 DEF InitiateFields, BitOps, SourceOps
    <3>2. AloComplete(r, TRUE, q.ret) = Commit(r, w)
      BY <3>1 DEF AloComplete
    <3>3. Commit(r, w).reg = [r.reg EXCEPT ![r.dst] = w]
      BY DEF Commit, Shape, RegisterFields
    <3>. QED
      BY <3>1, <3>2, <3>3
  <2>. QED
    BY <2>1, <2>2
<1>5. q.flag => (IF q.pend = "own" THEN [q.reg EXCEPT ![q.dst] = q.buf] ELSE q.reg)
                   = [q.reg EXCEPT ![WireDt(c.dt)] = z]
  <2>1. q.reg = [q.reg EXCEPT ![WireDt(c.dt)] = y]
    BY <1>0 DEF Shape
  <2>. QED
    BY <1>2, <2>1 DEF ExecFields
<1>6. q.flag => w = Promise!After(c, x, y)[1] /\ z = Promise!After(c, x, y)[2]
  <2>. SUFFICES ASSUME q.flag PROVE w = Promise!After(c, x, y)[1] /\ z = Promise!After(c, x, y)[2]
    OBVIOUS
  <2>1. CASE c.op \in BitOps
    <3>1. w = BitResult(c.op, x, c.bit) /\ z = BitResult(c.op, y, c.bit)
      BY <1>2, <1>3, <2>1 DEF BitOps, InitiateFields, ExecFields, ResultWord
    <3>2. Promise!After(c, x, y) = <<BitResult(c.op, x, c.bit), BitResult(c.op, y, c.bit)>>
      BY <2>1, SameOperators DEF Promise!After, BitOps
    <3>. QED
      BY <3>1, <3>2
  <2>2. CASE c.op \in SourceOps
    <3>1. w = SourceStep(c.op, x) /\ z = DestinationStep(c.op, y, v) /\ v = SourceStep(c.op, x)
      BY <1>2, <1>3, <2>2
      DEF SourceWords, SourceOps, BitOps, InitiateFields, ExecFields, ResultWord
    <3>. HIDE DEF w, x, y, z
    <3>2. CASE c.op \in {"INC", "DEC"}
      BY <3>1, <3>2, PromisedWords DEF SourceStep, DestinationStep
    <3>3. CASE c.op \in {"INCS", "DECS"}
      BY <3>1, <3>3, PromisedWords DEF SourceStep, DestinationStep
    <3>. QED
      BY <2>2, <3>2, <3>3 DEF SourceOps
  <2>3. CASE c.op \in ReplyOps
    <3>1. w = DestinationStep(c.op, y, x) /\ z = w
      BY <1>2, <1>3, <2>3
      DEF SourceWords, SourceOps, BitOps, ReplyOps, ExecFields, ReplyWord, ResultWord
    <3>. HIDE DEF w, x, y, z
    <3>2. CASE c.op \in {"ADD", "SUBS", "SUBD"}
      BY <3>1, <3>2, PromisedWords DEF DestinationStep
    <3>3. CASE c.op \in {"AND", "OR"}
      BY <3>1, <3>3, PromisedWords DEF DestinationStep
    <3>4. CASE c.op \in {"INCD", "DECD"}
      BY <3>1, <3>4, PromisedWords DEF DestinationStep
    <3>. QED
      BY <2>3, <3>2, <3>3, <3>4 DEF ReplyOps
  <2>4. CASE c.op \in CondOps
    <3>1. v = x
      BY <2>4 DEF SourceWords, CondOps, SourceOps, BitOps
    <3>2. /\ w = IF c.op = "WR" THEN x ELSE y
          /\ z = IF c.op = "RD" THEN y ELSE x
      BY <1>2, <2>4, <3>1
      DEF DestinationStep, CondOps, SourceOps, BitOps, ExecFields, ReplyWord, ResultWord
    <3>. HIDE DEF w, x, y, z
    <3>. QED
      BY <2>4, <3>2, PromisedWords DEF CondOps
  <2>. QED
    BY <1>0, <2>1, <2>2, <2>3, <2>4 DEF Ops
<1>. QED
  BY <1>1, <1>2, <1>4, <1>5, <1>6 DEF ExecFields

\* The register number on the wire is all that is different there.
LEMMA OnTheWire ==
  ASSUME NEW c \in Command
  PROVE  LET d == OnWire(c) IN
         /\ d.sc = c.sc /\ d.dt = WireDt(c.dt) /\ d.op = c.op
         /\ \A x, y : /\ Promise!May(d, x, y) <=> Promise!May(c, x, y)
                      /\ Promise!After(d, x, y) = Promise!After(c, x, y)
<1>. DEFINE d == OnWire(c)
<1>1. d.sc = c.sc /\ d.dt = WireDt(c.dt) /\ d.op = c.op /\ d.bit = c.bit /\ d.cond = c.cond
  BY DEF OnWire, Command
<1>. HIDE DEF d
<1>2. \A x, y : Promise!May(d, x, y) <=> Promise!May(c, x, y)
  BY <1>1 DEF Promise!May
<1>3. \A x, y : Promise!After(d, x, y) = Promise!After(c, x, y)
  BY <1>1 DEF Promise!After
<1>. QED
  BY <1>1, <1>2, <1>3 DEF d

\* Nothing asked for is nothing asked for on the wire too.
LEMMA NothingOnTheWire ==
  /\ OnWire(NoCommand) = NoCommand
  /\ \A c \in Command : c.op # "BAD" => OnWire(c) # NoCommand
<1>1. WireDt(0) = 0
  BY RegCountAssumption DEF WireDt
<1>2. OnWire(NoCommand) = NoCommand
  BY <1>1 DEF OnWire, NoCommand
<1>3. \A c \in Command : c.op # "BAD" => OnWire(c) # NoCommand
  BY OnTheWire DEF NoCommand
<1>. QED
  BY <1>2, <1>3

-----------------------------------------------------------------------------
(* Which packets and states go with which step of an operation.             *)

\* What the state of s says about the other end q and about the wire.
OperationFacts(s, q) ==
  /\ mcn[s].state = "SBL" => mcn[q].state = "RAL" /\ chan[s] = <<>>
  /\ mcn[s].state = "SAL" => mcn[q].state = "RBL"
  /\ mcn[s].state = "SEND" => mcn[q].state \notin {"RAL", "SBL", "RBL"}
  /\ mcn[s].state = "SEND" /\ MayTransfer(mcn[s]) =>
       chan[s] = <<>> /\ \A i \in Places(q) : chan[q][i].type = "ENTL"
  /\ mcn[s].state = "RAL" /\ chan[s] # <<>> => mcn[q].state = "RBL"
  /\ mcn[s].state = "RBL" /\ chan[s] # <<>> => mcn[q].state = "RECEIVE"
  /\ mcn[s].state = "RECEIVE" /\ chan[s] # <<>>
       /\ chan[s][1].type = "AITS" /\ chan[s][1].op = "ALO"
       => mcn[q].state = "RAL" /\ chan[q] = <<>>

LEMMA OperationStates ==
  ASSUME IInv, NEW s \in Side
  PROVE  OperationFacts(s, Peer(s))
<1>. DEFINE q == Peer(s)
<1>0. /\ q \in Side /\ Peer(q) = s /\ TypeOK
      /\ chan[s] # <<>> => 1 \in Places(s)
  BY SideFacts, TailFacts DEF IInv, TypeOK, Places
<1>1. CASE Greeting \/ Inviting
  BY <1>0, <1>1, EndsFacts DEF OperationFacts, Greeting, Inviting, UpperWaits
<1>2. CASE Invited \/ Replied
  BY <1>0, <1>2, EndsFacts
  DEF OperationFacts, Invited, Replied, UpperWaits, MayTransfer, Invitation, Pkt
<1>3. CASE Holds(s)
  BY <1>0, <1>3 DEF OperationFacts, Holds, HolderPair, Stale, Invitation, Pkt
<1>4. CASE Holds(q)
  <2>1. \A i \in Places(s) : Stale(s, i)
    BY <1>0, <1>4 DEF Holds
  <2>2. chan[s] # <<>> => mcn[s].state = "RECEIVE" /\ chan[s][1].type = "ENTL"
    BY <1>0, <2>1 DEF Stale, Invitation, Pkt
  <2>3. mcn[s].state \in WaitingState
    BY <1>0, <1>4 DEF Holds, HolderPair, WaitingState
  <2>. QED
    BY <2>2, <2>3 DEF OperationFacts, WaitingState
<1>5. CASE Flight(s)
  <2>1. mcn[s].state \in WaitingState /\ chan[s] = <<>>
    BY <1>5 DEF Flight
  <2>. QED
    BY <2>1 DEF OperationFacts, WaitingState
<1>6. CASE Flight(q)
  <2>1. /\ mcn[s].state \in WaitingState /\ mcn[q].state \in WaitingState /\ chan[q] = <<>>
        /\ chan[s] # <<>> => Stale(s, 1) \/ FlightPair(q, chan[s][1], s)
    BY <1>0, <1>6 DEF Flight
  <2>2. Stale(s, 1) => mcn[s].state = "RECEIVE" /\ chan[s][1].type = "ENTL"
    BY DEF Stale, Invitation, Pkt
  <2>. QED
    BY <2>1, <2>2 DEF OperationFacts, WaitingState, FlightPair
<1>. QED
  BY <1>1, <1>2, <1>3, <1>4, <1>5, <1>6, SideFacts DEF IInv, Phase

\* What entl_received does to the states an operation runs through.
LEMMA ReceivedOperation ==
  ASSUME TypeOK, NEW s \in Side, NEW m, NEW full, Received(s, m, full),
         ~mcn'[s].failed
  PROVE  /\ mcn[s].state = "RAL" => mcn'[s].state = "SAL" /\ Expected(s, m, "AITR")
         /\ mcn[s].state = "RBL" /\ Expected(s, m, "AITA") => mcn'[s].state = "SEND"
         /\ mcn[s].state = "RBL" /\ ~Expected(s, m, "AITA") => mcn'[s].state = "RBL"
         /\ mcn[s].state = "RECEIVE" /\ Expected(s, m, "AITS") /\ m.op = "ALO"
              => mcn'[s].state = "SBL"
         /\ mcn[s].state = "RECEIVE" /\ ~(Expected(s, m, "AITS") /\ m.op = "ALO")
              => mcn'[s].state \notin {"RAL", "SBL", "RBL"}
         /\ mcn[s].state \notin {"RAL", "RBL", "RECEIVE"} =>
              (mcn'[s].state \in {"RAL", "SBL", "RBL"} => mcn'[s].state = mcn[s].state)
         /\ mcn[s].state = "SBL" => mcn'[s].state = "SBL"
         /\ mcn'[s].state = "HELLO" => mcn[s].state \in {"HELLO", "WAIT"}
<1>a. \A v, st, flags : Become(s, Accept(mcn[s], v, st), flags) => mcn'[s].state = st
  BY NewStates
<1>b. \A flags : \/ Ignore(s, flags)
                 \/ Become(s, SetError(mcn[s]), flags)
                 \/ Become(s, CountHello(mcn[s]), flags)
                 \/ \E v : Become(s, SetRandom(mcn[s], v), flags)
                 => mcn'[s].state = mcn[s].state
  BY NewStates DEF Ignore
<1>c. \A flags : Become(s, StartWaiting(mcn[s]), flags) => mcn'[s].state = "WAIT"
  BY NewStates
<1>d. \A flags : BackToHello(s, mcn[s], flags) => mcn'[s].state = "HELLO"
  BY NewStates DEF BackToHello
<1>1. \A flags : ~SequenceError(s, flags)
  BY ErrorsFail
<1>2. CASE ReceivedHello(s, m)
  <2>1. mcn[s].state = "HELLO" /\ mcn'[s].state \in {"HELLO", "WAIT", "SEND"}
    BY <1>a, <1>b, <1>c, <1>2 DEF ReceivedHello
  <2>. QED
    BY <2>1
<1>3. CASE ReceivedWait(s, m)
  <2>1. mcn[s].state = "WAIT" /\ mcn'[s].state \in {"HELLO", "WAIT", "SEND"}
    BY <1>a, <1>b, <1>d, <1>1, <1>3 DEF ReceivedWait
  <2>. QED
    BY <2>1
<1>4. CASE ReceivedSend(s, m)
  <2>1. mcn[s].state = "SEND" /\ mcn'[s].state = "SEND"
    BY <1>b, <1>1, <1>4 DEF ReceivedSend
  <2>. QED
    BY <2>1
<1>5. CASE ReceivedReceive(s, m, full)
  <2>1. mcn[s].state = "RECEIVE"
    BY <1>5 DEF ReceivedReceive
  <2>2. CASE Expected(s, m, "AITS") /\ m.op = "ALO"
    <3>1. mcn'[s].state = "SBL"
      BY <1>a, <1>1, <1>5, <2>2 DEF ReceivedReceive, Expected
    <3>. QED
      BY <2>1, <2>2, <3>1
  <2>3. CASE ~(Expected(s, m, "AITS") /\ m.op = "ALO")
    <3>1. mcn'[s].state \in {"SEND", "SB", "RECEIVE"}
      BY <1>a, <1>b, <1>1, <1>5, <2>1, <2>3 DEF ReceivedReceive
    <3>. QED
      BY <2>1, <2>3, <3>1
  <2>. QED
    BY <2>2, <2>3
<1>6. CASE ReceivedRA(s, m)
  <2>1. mcn[s].state = "RA" /\ mcn'[s].state \in {"SEND", "SA"}
    BY <1>a, <1>1, <1>6 DEF ReceivedRA
  <2>. QED
    BY <2>1
<1>7. CASE ReceivedRAL(s, m)
  <2>1. mcn[s].state = "RAL" /\ mcn'[s].state = "SAL" /\ Expected(s, m, "AITR")
    BY <1>a, <1>1, <1>7 DEF ReceivedRAL
  <2>. QED
    BY <2>1
<1>8. CASE ReceivedSA(s, m)
  <2>1. mcn[s].state \in {"SA", "SAL"} /\ mcn'[s].state = mcn[s].state
    BY <1>b, <1>1, <1>8 DEF ReceivedSA, ReceivedAcking
  <2>. QED
    BY <2>1
<1>9. CASE ReceivedSB(s, m)
  <2>1. mcn[s].state \in {"SB", "SBL"} /\ mcn'[s].state = mcn[s].state
    BY <1>b, <1>1, <1>9 DEF ReceivedSB, ReceivedAcking
  <2>. QED
    BY <2>1
<1>10. CASE ReceivedRB(s, m)
  <2>1. mcn[s].state = "RB" /\ mcn'[s].state \in {"SEND", "RB"}
    BY <1>a, <1>b, <1>1, <1>10 DEF ReceivedRB
  <2>. QED
    BY <2>1
<1>11. CASE ReceivedRBL(s, m)
  <2>1. mcn[s].state = "RBL"
    BY <1>11 DEF ReceivedRBL
  <2>2. IF Expected(s, m, "AITA") THEN mcn'[s].state = "SEND" ELSE mcn'[s].state = "RBL"
    BY <1>a, <1>b, <1>1, <1>11, <2>1 DEF ReceivedRBL, Expected, Repeated
  <2>. QED
    BY <2>1, <2>2
<1>. QED
  BY <1>2, <1>3, <1>4, <1>5, <1>6, <1>7, <1>8, <1>9, <1>10, <1>11 DEF Received

\* An end that has left HELLO never goes back: its registers are not reset.
LEMMA NeverReset ==
  ASSUME IInv, IInv', NEW s \in Side, Receive(s), mcn[s].state # "HELLO"
  PROVE  mcn'[s].state # "HELLO"
<1>. SUFFICES ASSUME mcn'[s].state = "HELLO" PROVE FALSE
  OBVIOUS
<1>. DEFINE q == Peer(s)
<1>1. /\ TypeOK /\ q \in Side /\ Consumed(s) /\ mcn'[q] = mcn[q] /\ chan[s] # <<>>
      /\ ~mcn'[s].failed
  BY SideFacts, ConsumedByReceive DEF IInv, Consumed, Steady
<1>2. PICK full : Received(s, chan[s][1], full)
  BY <1>1, ConsumedByReceive
<1>3. mcn[s].state = "WAIT"
  BY <1>1, <1>2, ReceivedOperation
<1>4. s = Upper /\ q = Lower /\ UpperWaits /\ (Inviting \/ Invited \/ Replied)
  <2>1. ~Greeting
    BY <1>3 DEF Greeting
  <2>2. ASSUME NEW y \in Side, Holds(y) \/ Flight(y) PROVE FALSE
    BY <1>3, <2>2, SideFacts DEF Holds, Flight, HolderPair, WaitingState
  <2>. QED
    BY <1>3, <2>1, <2>2, EndsFacts DEF IInv, Phase, Inviting, Invited, Replied, UpperWaits
<1>5. mcn[q].state = "HELLO"
  <2>1. CASE Greeting'
    BY <1>1, <2>1 DEF Greeting
  <2>2. ~Inviting' /\ ~Invited' /\ ~Replied'
    BY <1>4 DEF Inviting, Invited, Replied, UpperWaits
  <2>3. ASSUME NEW y \in Side, Holds(y)' \/ Flight(y)' PROVE FALSE
    <3>1. mcn'[s].state = "HELLO" /\ (y = s \/ Peer(y) = s)
      BY SideFacts
    <3>. QED
      BY <2>3, <3>1 DEF Holds, Flight, HolderPair, WaitingState
  <2>. QED
    BY <2>1, <2>2, <2>3 DEF IInv, Phase
<1>6. Inviting
  BY <1>4, <1>5 DEF Invited, Replied
<1>7. chan[Upper][1] = HelloFrom(Lower) /\ mcn[Upper].count = 0
  <2>1. 1 \in Places(Upper) /\ Len(chan[Upper]) # 0
    BY <1>1, <1>4, Lengths DEF Consumed
  <2>2. chan[Upper][1] = HelloFrom(Lower)
    BY <1>6, <2>1 DEF Inviting
  <2>3. mcn[Upper].count = 0
    BY <1>1, <1>6, <2>1, InvitingBounds
  <2>. QED
    BY <2>2, <2>3
<1>8. UpperWaits'
  BY <1>1, <1>4, <1>7, UpperCounts DEF IInv, Steady, Sound
<1>. QED
  BY <1>4, <1>8 DEF UpperWaits

-----------------------------------------------------------------------------
(* The data that go with the packets.                                       *)

\* A sequence is one over its own elements; taking one off and adding one.
LEMMA OwnElements ==
  ASSUME NEW S, NEW c \in Seq(S)
  PROVE  c \in Seq(Items(c))
<1>. DEFINE E == {c[i] : i \in DOMAIN c}
<1>1. Len(c) \in Nat /\ c \in [1 .. Len(c) -> S] /\ DOMAIN c = 1 .. Len(c)
  BY LenProperties
<1>2. c \in [1 .. Len(c) -> E]
  BY <1>1
<1>3. Seq(E) = UNION {[1 .. n -> E] : n \in Nat}
  BY SeqDef
<1>. HIDE DEF E
<1>4. c \in UNION {[1 .. n -> E] : n \in Nat}
  BY <1>1, <1>2
<1>. QED
  BY <1>3, <1>4 DEF E, Items

LEMMA LoadTail ==
  ASSUME NEW S, NEW c \in Seq(S), c # <<>>
  PROVE  LET t == Tail(c) IN
         /\ t \in Seq(Items(t)) /\ Len(t) = Len(c) - 1
         /\ Head(c) = c[1]
         /\ \A i \in 1 .. Len(c) - 1 : t[i] = c[i + 1]
<1>1. Tail(c) \in Seq(S)
  OBVIOUS
<1>. QED
  BY <1>1, OwnElements, TailFacts

LEMMA LoadAppend ==
  ASSUME NEW S, NEW c \in Seq(S), NEW e
  PROVE  LET t == Append(c, e) IN
         /\ t \in Seq(Items(t)) /\ Len(t) = Len(c) + 1
         /\ t[Len(c) + 1] = e
         /\ \A i \in 1 .. Len(c) : t[i] = c[i]
<1>1. c \in Seq(S \cup {e})
  BY SeqMonotonic
<1>2. Append(c, e) \in Seq(S \cup {e})
  BY <1>1
<1>3. Append(c, e) \in Seq(Items(Append(c, e)))
  BY <1>2, OwnElements
<1>. QED
  BY <1>1, <1>3

-----------------------------------------------------------------------------
(* The steps of an operation.                                               *)

\* Nothing but the wire changes at the other end.
Elsewhere(q) ==
  mcn'[q] = mcn[q] /\ alo'[q] = alo[q] /\ cmd'[q] = cmd[q]

\* A packet and its load leave the wire towards s.
Taken(s) ==
  /\ chan[s] # <<>> /\ load[s] # <<>>
  /\ Places(s)' = 1 .. Len(chan[s]) - 1 /\ Len(load'[s]) = Len(chan'[s])
  /\ load'[s] \in Seq(Items(load'[s]))
  /\ \A i \in Places(s)' : /\ i + 1 \in Places(s)
                           /\ chan'[s][i] = chan[s][i + 1] /\ load'[s][i] = load[s][i + 1]
  /\ chan'[Peer(s)] = chan[Peer(s)] /\ load'[Peer(s)] = load[Peer(s)]
  /\ load' = [t \in Side |-> load'[t]]

\* s sends packet m with load p.
Given(s, m, p) ==
  LET q == Peer(s) IN
  /\ Len(load'[q]) = Len(chan'[q]) /\ load'[q] \in Seq(Items(load'[q]))
  /\ \A i \in Places(q)' :
       \/ i \in Places(q) /\ chan'[q][i] = chan[q][i] /\ load'[q][i] = load[q][i]
       \/ chan'[q][i] = m /\ load'[q][i] = p
  /\ chan'[s] = chan[s] /\ load'[s] = load[s]
  /\ load' = [t \in Side |-> load'[t]]

\* The states of an end between the first and the last step of an operation.
Engaged == {"RAL", "SBL", "RBL"}

\* What an end does when it receives a packet.
Executes(s) ==
  LET q == Peer(s) IN
  /\ mcn[s].state = "RECEIVE" /\ mcn'[s].state = "SBL"
  /\ mcn[q].state = "RAL" /\ chan[q] = <<>> /\ cmd' = cmd
  /\ \E v \in SourceWords(alo[q], cmd[q]) : alo'[s] = AloExec(alo[s], cmd[q], v)
Completes(s) ==
  LET q == Peer(s) IN
  /\ mcn[s].state = "RAL" /\ mcn'[s].state = "SAL"
  /\ mcn[q].state = "RBL" /\ cmd' = [cmd EXCEPT ![s] = NoCommand]
  /\ alo'[s] = AloComplete(alo[s], alo[q].flag, alo[q].ret)
Finishes(s) ==
  /\ mcn[s].state = "RBL" /\ mcn'[s].state = "SEND"
  /\ mcn[Peer(s)].state = "RECEIVE" /\ cmd' = cmd
  /\ alo'[s] = AloUpdate(alo[s], TRUE)

\* What it does when it sends.
Requests(s, c) ==
  /\ mcn[s].state = "SEND" /\ mcn'[s].state = "RAL"
  /\ mcn[Peer(s)].state \notin Engaged /\ chan[s] = <<>>
  /\ \A i \in Places(Peer(s)) : chan[Peer(s)][i].type = "ENTL"
  /\ c \in Commands /\ Initiable(alo[s], c)
  /\ cmd' = [cmd EXCEPT ![s] = c] /\ alo'[s] = AloInitiate(alo[s], c)
Fails(s) ==
  /\ mcn[s].state = "SEND" /\ mcn'[s].state \notin Engaged
  /\ mcn[Peer(s)].state \notin Engaged
  /\ cmd' = cmd /\ Shape(alo'[s])
  /\ alo'[s].reg = alo[s].reg /\ alo'[s].pend = "none"
Answers(s) ==
  /\ mcn[s].state = "SBL" /\ mcn'[s].state = "RBL"
  /\ mcn[Peer(s)].state = "RAL" /\ chan[s] = <<>>
  /\ cmd' = cmd /\ alo' = alo

\* Any other step.
Rests(s) ==
  /\ mcn[s].state \in Engaged \/ mcn'[s].state \in Engaged => mcn'[s].state = mcn[s].state
  /\ cmd' = cmd /\ alo' = alo

LEMMA TakenOff ==
  ASSUME TypeOK, AloInv, NEW s \in Side, Consumed(s),
         chan' = [chan EXCEPT ![s] = Tail(@)], load' = [load EXCEPT ![s] = Tail(@)]
  PROVE  Taken(s) /\ Head(load[s]) = load[s][1] /\ Head(chan[s]) = chan[s][1]
<1>1. /\ load[s] \in Seq(Items(load[s])) /\ Len(load[s]) = Len(chan[s])
      /\ chan[s] \in Seq(Packet) /\ chan[s] # <<>> /\ load[s] # <<>>
      /\ load = [t \in Side |-> load[t]]
  <2>1. /\ load[s] \in Seq(Items(load[s])) /\ Len(load[s]) = Len(chan[s])
        /\ load = [t \in Side |-> load[t]]
    BY DEF AloInv
  <2>2. chan[s] \in Seq(Packet) /\ chan[s] # <<>>
    BY DEF TypeOK, Consumed
  <2>3. Len(chan[s]) # 0
    BY <2>2, Lengths
  <2>4. load[s] # <<>>
    BY <2>1, <2>3
  <2>. QED
    BY <2>1, <2>2, <2>4
<1>2. /\ load'[s] = Tail(load[s]) /\ load'[Peer(s)] = load[Peer(s)]
      /\ load' = [t \in Side |-> load'[t]]
  BY <1>1, SideFacts
<1>3. /\ Tail(load[s]) \in Seq(Items(Tail(load[s])))
      /\ Len(Tail(load[s])) = Len(load[s]) - 1 /\ Head(load[s]) = load[s][1]
      /\ \A i \in 1 .. Len(load[s]) - 1 : Tail(load[s])[i] = load[s][i + 1]
  BY <1>1, LoadTail
<1>4. Head(chan[s]) = chan[s][1]
  BY <1>1, TailFacts
<1>. QED
  BY <1>1, <1>2, <1>3, <1>4 DEF Taken, Consumed

LEMMA PutOn ==
  ASSUME TypeOK, AloInv, NEW s \in Side, NEW m \in Packet, NEW p, Transmit(s, m),
         load' = [load EXCEPT ![Peer(s)] = Append(@, p)]
  PROVE  Given(s, m, p)
<1>. DEFINE q == Peer(s)
<1>1. /\ load[q] \in Seq(Items(load[q])) /\ Len(load[q]) = Len(chan[q])
      /\ load = [t \in Side |-> load[t]] /\ q \in Side /\ q # s
  BY SideFacts DEF AloInv
<1>2. /\ load'[q] = Append(load[q], p) /\ load'[s] = load[s]
      /\ load' = [t \in Side |-> load'[t]]
  BY <1>1
<1>3. /\ Append(load[q], p) \in Seq(Items(Append(load[q], p)))
      /\ Len(Append(load[q], p)) = Len(load[q]) + 1
      /\ Append(load[q], p)[Len(load[q]) + 1] = p
      /\ \A i \in 1 .. Len(load[q]) : Append(load[q], p)[i] = load[q][i]
  BY <1>1, LoadAppend
<1>4. Produced(s, m) /\ Len(chan[q]) \in Nat
  BY <1>1, ProducedByTransmit, Lengths
<1>. QED
  BY <1>1, <1>2, <1>3, <1>4 DEF Given, Produced, Places

LEMMA ReceiveSteps ==
  ASSUME IInv, IInv', AloInv, NEW s \in Side, AloReceive(s)
  PROVE  /\ Elsewhere(Peer(s)) /\ Taken(s)
         /\ alo' = [t \in Side |-> alo'[t]]
         /\ Executes(s) \/ Completes(s) \/ Finishes(s) \/ Rests(s)
<1>. DEFINE q == Peer(s)
            m == chan[s][1]
            p == load[s][1]
<1>1. /\ TypeOK /\ q \in Side /\ q # s /\ Peer(q) = s /\ Receive(s)
      /\ ~mcn'[s].failed
  BY SideFacts DEF IInv, Steady, AloReceive
<1>2. /\ Consumed(s) /\ mcn'[q] = mcn[q] /\ chan[s] # <<>> /\ 1 \in Places(s)
  BY <1>1, ConsumedByReceive DEF Consumed
<1>3. /\ chan' = [chan EXCEPT ![s] = Tail(@)] /\ load' = [load EXCEPT ![s] = Tail(@)]
      /\ alo' = [alo EXCEPT ![s] = Handled(s, Head(chan[s]), Head(load[s]))]
      /\ cmd' = [cmd EXCEPT ![s] = IF mcn'[s].state = "RAL" THEN @ ELSE NoCommand]
  BY DEF AloReceive, Receive
<1>4. Taken(s) /\ Head(load[s]) = p /\ Head(chan[s]) = m
  BY <1>1, <1>2, <1>3, TakenOff
<1>5. /\ alo = [t \in Side |-> alo[t]] /\ cmd = [t \in Side |-> cmd[t]]
      /\ mcn[s].state # "RAL" => cmd[s] = NoCommand
  BY DEF AloInv, Initiated
<1>6. /\ alo' = [alo EXCEPT ![s] = Handled(s, m, p)]
      /\ alo'[s] = Handled(s, m, p) /\ alo'[q] = alo[q] /\ cmd'[q] = cmd[q]
      /\ alo' = [t \in Side |-> alo'[t]]
  BY <1>1, <1>3, <1>4, <1>5
<1>7. PICK full : Received(s, m, full)
  BY <1>1, ConsumedByReceive
<1>8. OperationFacts(s, q)
  BY OperationStates
<1>9. mcn[s].state # "HELLO" => mcn'[s].state # "HELLO"
  BY <1>1, NeverReset
<1>10. mcn'[s].state # "RAL"
  BY <1>1, <1>7, ReceivedOperation
<1>11. /\ cmd' = [cmd EXCEPT ![s] = NoCommand]
       /\ mcn[s].state # "RAL" => cmd' = cmd
  BY <1>3, <1>5, <1>10
<1>12. CASE mcn[s].state = "RECEIVE" /\ Expected(s, m, "AITS") /\ m.op = "ALO"
  <2>1. alo'[s] = AloExec(alo[s], p.cmd, p.word)
    <3>1. mcn'[s].state = "SBL"
      BY <1>1, <1>7, <1>12, ReceivedOperation
    <3>. QED
      BY <1>6, <1>12, <3>1 DEF Handled
  <2>2. mcn[q].state = "RAL" /\ chan[q] = <<>>
    BY <1>2, <1>8, <1>12 DEF OperationFacts, Expected
  <2>3. p.cmd = cmd[q] /\ p.word \in SourceWords(alo[q], cmd[q])
    <3>1. Requested(q, s) /\ m.type = "AITS"
      BY <1>1, <1>12 DEF AloInv, Expected
    <3>. QED
      BY <1>2, <2>2, <3>1 DEF Requested
  <2>4. mcn'[s].state = "SBL"
    BY <1>1, <1>7, <1>12, ReceivedOperation
  <2>5. Executes(s)
    BY <1>11, <1>12, <2>1, <2>2, <2>3, <2>4 DEF Executes
  <2>. QED
    BY <1>2, <1>4, <1>6, <2>5 DEF Elsewhere
<1>13. CASE mcn[s].state = "RAL"
  <2>1. mcn'[s].state = "SAL" /\ Expected(s, m, "AITR")
    BY <1>1, <1>7, <1>13, ReceivedOperation
  <2>2. alo'[s] = AloComplete(alo[s], p.status, p.word)
    BY <1>6, <1>13, <2>1 DEF Handled
  <2>3. mcn[q].state = "RBL"
    BY <1>2, <1>8, <1>13 DEF OperationFacts
  <2>4. p.status = alo[q].flag /\ p.word = alo[q].ret
    <3>1. Answered(s, q) /\ m.type = "AITR"
      BY <2>1 DEF AloInv, Expected
    <3>. QED
      BY <1>2, <1>13, <3>1 DEF Answered
  <2>5. Completes(s)
    BY <1>11, <1>13, <2>1, <2>2, <2>3, <2>4 DEF Completes
  <2>. QED
    BY <1>2, <1>4, <1>6, <2>5 DEF Elsewhere
<1>14. CASE mcn[s].state = "RBL" /\ Expected(s, m, "AITA")
  <2>1. mcn'[s].state = "SEND"
    BY <1>1, <1>7, <1>14, ReceivedOperation
  <2>2. alo'[s] = AloUpdate(alo[s], p.status)
    BY <1>6, <1>14, <2>1 DEF Handled
  <2>3. mcn[q].state = "RECEIVE"
    BY <1>2, <1>8, <1>14 DEF OperationFacts
  <2>4. p.status
    <3>1. Confirmed(s) /\ m.type = "AITA"
      BY <1>14 DEF AloInv, Expected
    <3>. QED
      BY <1>2, <1>14, <3>1 DEF Confirmed
  <2>5. AloUpdate(alo[s], p.status) = AloUpdate(alo[s], TRUE)
    BY <2>4 DEF AloUpdate, Updates
  <2>6. Finishes(s)
    BY <1>11, <1>14, <2>1, <2>2, <2>3, <2>5 DEF Finishes
  <2>. QED
    BY <1>2, <1>4, <1>6, <2>6 DEF Elsewhere
<1>15. CASE /\ ~(mcn[s].state = "RECEIVE" /\ Expected(s, m, "AITS") /\ m.op = "ALO")
            /\ mcn[s].state # "RAL" /\ ~(mcn[s].state = "RBL" /\ Expected(s, m, "AITA"))
  <2>1. Handled(s, m, p) = alo[s]
    BY <1>9, <1>15 DEF Handled
  <2>2. alo' = alo
    BY <1>5, <1>6, <2>1
  <2>3. mcn[s].state \in Engaged \/ mcn'[s].state \in Engaged
          => mcn'[s].state = mcn[s].state
    BY <1>1, <1>7, <1>15, ReceivedOperation DEF Engaged
  <2>4. Rests(s)
    BY <1>11, <1>15, <2>2, <2>3 DEF Rests
  <2>. QED
    BY <1>2, <1>4, <1>6, <2>4 DEF Elsewhere
<1>. QED
  BY <1>12, <1>13, <1>14, <1>15

\* What a packet carries that is not the first or the second of an operation.
Harmless(s, m, p) ==
  LET q == Peer(s) IN
  /\ mcn[s].state \notin Engaged
  /\ mcn[q].state = "RAL" => m.type # "AITR"
  /\ mcn[q].state = "RBL" /\ m.type = "AITA" => p.status

LEMMA SendSteps ==
  ASSUME IInv, AloInv, NEW s \in Side, AloSend(s)
  PROVE  /\ Elsewhere(Peer(s)) /\ alo' = [t \in Side |-> alo'[t]]
         /\ \/ chan' = chan /\ load' = load /\ (Fails(s) \/ Rests(s))
            \/ \E m, p : /\ Given(s, m, p)
                         /\ \/ /\ Requests(s, p.cmd)
                               /\ p.word \in SourceWords(alo[s], p.cmd)
                            \/ Fails(s)
                            \/ /\ Answers(s)
                               /\ m.type = "AITR" /\ p.word = alo[s].ret
                               /\ p.status = alo[s].flag
                            \/ Rests(s) /\ Harmless(s, m, p)
<1>. DEFINE q == Peer(s)
<1>1. /\ TypeOK /\ q \in Side /\ q # s /\ Peer(q) = s /\ Send(s) /\ ~mcn[s].failed
      /\ dropped[s] \in Nat
  BY SideFacts DEF IInv, Steady, AloSend, TypeOK
<1>2. PICK ok : NextSend(s, Offered(s), ok, dropped[s] + 1)
  BY <1>1, SendByEnd
<1>3. \/ Silent(s)
      \/ \E m \in Packet : Transmit(s, m) /\ Sends(s, m, Offered(s), dropped[s] + 1)
  BY <1>1, <1>2, NextSendMoves
<1>4. mcn'[q] = mcn[q]
  BY <1>1, <1>2, NextSendOnlyHere
<1>5. PICK c \in IF Initiating(s) THEN Commands ELSE {NoCommand} :
        /\ Initiating(s) => (mcn'[s].state = "RAL" <=> Initiable(alo[s], c))
        /\ cmd' = IF mcn'[s].state = "RAL" /\ mcn[s].state # "RAL"
                  THEN [cmd EXCEPT ![s] = c] ELSE cmd
        /\ alo' = IF Initiating(s) THEN [alo EXCEPT ![s] = AloInitiate(@, c)] ELSE alo
        /\ \E p \in Loads(s, c) :
             load' = IF chan' = chan THEN load ELSE [load EXCEPT ![q] = Append(@, p)]
  BY DEF AloSend
<1>6. /\ alo = [t \in Side |-> alo[t]] /\ cmd = [t \in Side |-> cmd[t]]
      /\ Shape(alo[s]) /\ PendingOnlyInFlight
  BY DEF AloInv
<1>7. /\ Elsewhere(q) /\ alo' = [t \in Side |-> alo'[t]]
      /\ Initiating(s) => alo'[s] = AloInitiate(alo[s], c)
      /\ ~Initiating(s) => alo' = alo
  <2>1. cmd'[q] = cmd[q]
    BY <1>1, <1>5, <1>6
  <2>2. CASE Initiating(s)
    BY <1>1, <1>4, <1>5, <1>6, <2>1, <2>2 DEF Elsewhere
  <2>3. CASE ~Initiating(s)
    BY <1>1, <1>4, <1>5, <1>6, <2>1, <2>3 DEF Elsewhere
  <2>. QED
    BY <2>2, <2>3
<1>8. OperationFacts(s, q)
  BY OperationStates
<1>9. mcn[s].state # "SEND" => ~Initiating(s)
  BY DEF Initiating
<1>10. mcn'[s].state # "RAL" \/ mcn[s].state = "RAL" => cmd' = cmd
  BY <1>5
<1>11. CASE Silent(s)
  <2>1. chan' = chan /\ load' = load /\ mcn'[s].state = mcn[s].state
    BY <1>5, <1>11 DEF Silent
  <2>2. CASE mcn[s].state = "SEND"
    <3>1. mcn'[s].state = "SEND" /\ cmd' = cmd
      BY <1>10, <2>1, <2>2
    <3>2. mcn[q].state \notin Engaged /\ alo[s].pend = "none"
      BY <1>6, <1>8, <2>2 DEF OperationFacts, Engaged, PendingOnlyInFlight
    <3>3. Shape(alo'[s]) /\ alo'[s].reg = alo[s].reg /\ alo'[s].pend = "none"
      <4>1. CASE Initiating(s)
        <5>1. c \in Command /\ ~Initiable(alo[s], c)
          BY <1>5, <3>1, <4>1, CommandsAssumption
        <5>. QED
          BY <1>6, <1>7, <4>1, <5>1, InitiateFacts
      <4>2. CASE ~Initiating(s)
        BY <1>6, <1>7, <3>2, <4>2
      <4>. QED
        BY <4>1, <4>2
    <3>4. Fails(s)
      BY <2>2, <3>1, <3>2, <3>3 DEF Fails, Engaged
    <3>. QED
      BY <1>7, <2>1, <3>4
  <2>3. CASE mcn[s].state # "SEND"
    <3>1. Rests(s)
      BY <1>7, <1>9, <1>10, <2>1, <2>3 DEF Rests
    <3>. QED
      BY <1>7, <2>1, <3>1
  <2>. QED
    BY <2>2, <2>3
<1>12. ASSUME NEW m \in Packet, Transmit(s, m), Sends(s, m, Offered(s), dropped[s] + 1)
       PROVE  \E n, p : /\ Given(s, n, p)
                        /\ \/ /\ Requests(s, p.cmd)
                              /\ p.word \in SourceWords(alo[s], p.cmd)
                           \/ Fails(s)
                           \/ /\ Answers(s)
                              /\ n.type = "AITR" /\ p.word = alo[s].ret
                              /\ p.status = alo[s].flag
                           \/ Rests(s) /\ Harmless(s, n, p)
  <2>1. chan' # chan
    <3>1. Produced(s, m) /\ Len(chan[q]) \in Nat
      BY <1>1, <1>12, ProducedByTransmit, Lengths
    <3>2. Len(chan[q]) + 1 # Len(chan[q])
      BY <3>1
    <3>. QED
      BY <3>1, <3>2 DEF Produced
  <2>2. PICK p \in Loads(s, c) : load' = [load EXCEPT ![q] = Append(@, p)]
    BY <1>5, <2>1
  <2>3. Given(s, m, p)
    BY <1>1, <1>12, <2>2, PutOn
  <2>4. /\ p.cmd = c
        /\ p.word \in IF Initiating(s) THEN SourceWords(alo[s], c) ELSE {alo[s].ret}
        /\ p.status = IF mcn[s].state = "SBL" THEN alo[s].flag ELSE mcn[s].state = "SAL"
    BY <2>2 DEF Loads
  <2>5. CASE mcn[s].state = "SEND" /\ mcn'[s].state = "RAL"
    <3>1. SendEvent(s, Offered(s)) \/ SendTransfer(s, Offered(s), ok, dropped[s] + 1)
      BY <1>1, <1>2, <2>5, NextSendByState
    <3>2. ~SendEvent(s, Offered(s))
      <4>1. SendEvent(s, Offered(s)) => mcn'[s].state = "RECEIVE"
        BY <1>1, NewStates DEF SendEvent
      <4>. QED
        BY <2>5, <4>1
    <3>3. MayTransfer(mcn[s])
      BY <3>1, <3>2 DEF SendTransfer
    <3>4. Offered(s) \in {"ALO", "BOTH"}
      BY <1>12, <2>5 DEF Sends
    <3>5. Initiating(s)
      BY <1>1, <2>5, <3>3, <3>4 DEF Initiating
    <3>6. Requests(s, c)
      BY <1>5, <1>7, <1>8, <2>5, <3>3, <3>5 DEF Requests, OperationFacts, Engaged
    <3>. QED
      BY <2>3, <2>4, <3>5, <3>6
  <2>6. CASE mcn[s].state = "SEND" /\ mcn'[s].state # "RAL"
    <3>1. mcn'[s].state \notin Engaged /\ cmd' = cmd
      BY <1>10, <1>12, <2>6 DEF Sends, Engaged
    <3>2. mcn[q].state \notin Engaged /\ alo[s].pend = "none"
      BY <1>6, <1>8, <2>6 DEF OperationFacts, Engaged, PendingOnlyInFlight
    <3>3. Shape(alo'[s]) /\ alo'[s].reg = alo[s].reg /\ alo'[s].pend = "none"
      <4>1. CASE Initiating(s)
        <5>1. c \in Command /\ ~Initiable(alo[s], c)
          BY <1>5, <2>6, <4>1, CommandsAssumption
        <5>. QED
          BY <1>6, <1>7, <4>1, <5>1, InitiateFacts
      <4>2. CASE ~Initiating(s)
        BY <1>6, <1>7, <3>2, <4>2
      <4>. QED
        BY <4>1, <4>2
    <3>4. Fails(s)
      BY <2>6, <3>1, <3>2, <3>3 DEF Fails
    <3>. QED
      BY <2>3, <3>4
  <2>7. CASE mcn[s].state = "SBL"
    <3>1. mcn'[s].state = "RBL" /\ m.type = "AITR"
      BY <1>12, <2>7 DEF Sends
    <3>2. Answers(s)
      BY <1>7, <1>8, <1>9, <1>10, <2>7, <3>1 DEF Answers, OperationFacts
    <3>. QED
      BY <1>9, <2>3, <2>4, <2>7, <3>1, <3>2
  <2>8. CASE mcn[s].state \notin {"SEND", "SBL"}
    <3>1. mcn[s].state \notin Engaged /\ mcn'[s].state \notin Engaged
      BY <1>12, <2>8 DEF Sends, Engaged
    <3>2. Rests(s)
      BY <1>7, <1>9, <1>10, <2>8, <3>1 DEF Rests, Engaged
    <3>3. mcn[q].state = "RAL" => m.type # "AITR"
      <4>1. m.type = "AITR" => mcn[s].state = "SB"
        BY <1>12, <2>8 DEF Sends
      <4>. QED
        BY <4>1, PeerOfHolder
    <3>4. mcn[q].state = "RBL" /\ m.type = "AITA" => p.status
      <4>1. m.type = "AITA" => mcn[s].state \in {"SA", "SAL"}
        BY <1>12, <2>8 DEF Sends
      <4>2. mcn[s].state = "SA" => mcn[q].state = "RB"
        BY PeerOfHolder
      <4>3. mcn[s].state = "SAL" => p.status
        BY <2>4
      <4>. QED
        BY <4>1, <4>2, <4>3
    <3>5. Harmless(s, m, p)
      BY <3>1, <3>3, <3>4 DEF Harmless
    <3>. QED
      BY <2>3, <3>2, <3>5
  <2>. QED
    BY <2>5, <2>6, <2>7, <2>8
<1>. QED
  BY <1>3, <1>7, <1>11, <1>12

-----------------------------------------------------------------------------
(* What both ends know of an operation is kept.                             *)

Pending(s) ==
  alo[s].pend # "none" =>
    \/ mcn[s].state = "RAL" /\ cmd[s] # NoCommand
    \/ mcn[s].state \in {"SBL", "RBL"}

Pair(x, y) ==
  Initiated(x) /\ Requested(x, y) /\ Executed(x, y) /\ Answered(x, y) /\ Confirmed(x)

\* AloInv without the types of the three variables.
Core(s) ==
  LET q == Peer(s) IN
  Shape(alo[s]) /\ Shape(alo[q]) /\ Pending(s) /\ Pending(q) /\ Pair(s, q) /\ Pair(q, s)

\* Packet i towards t was there before.
OldAt(t, i) ==
  \E j \in Places(t) : chan'[t][i] = chan[t][j] /\ load'[t][i] = load[t][j]

LEMMA RestsKeeps ==
  ASSUME NEW s \in Side, Core(s), Rests(s), Elsewhere(Peer(s)),
         \A i \in Places(s)' : OldAt(s, i),
         \A i \in Places(Peer(s))' :
           OldAt(Peer(s), i) \/ Harmless(s, chan'[Peer(s)][i], load'[Peer(s)][i])
  PROVE  Core(s)'
<1>. DEFINE q == Peer(s)
<1>1. /\ alo' = alo /\ cmd' = cmd /\ mcn'[q] = mcn[q]
      /\ mcn[s].state \in Engaged \/ mcn'[s].state \in Engaged => mcn'[s].state = mcn[s].state
      /\ Shape(alo[s]) /\ Shape(alo[q]) /\ Pending(s) /\ Pending(q)
      /\ Pair(s, q) /\ Pair(q, s)
  BY DEF Core, Rests, Elsewhere
<1>2. Pending(s)' /\ Pending(q)'
  BY <1>1 DEF Pending, Engaged
<1>3. Initiated(s)' /\ Initiated(q)'
  BY <1>1 DEF Pair, Initiated, Engaged
<1>4. Requested(s, q)' /\ Requested(q, s)'
  <2>1. Requested(s, q) /\ Requested(q, s)
    BY <1>1 DEF Pair
  <2>2. Requested(s, q)'
    <3>. SUFFICES ASSUME mcn'[s].state = "RAL", NEW i \in Places(q)', chan'[q][i].type = "AITS"
         PROVE  load'[q][i].cmd = cmd[s] /\ load'[q][i].word \in SourceWords(alo[s], cmd[s])
      BY <1>1 DEF Requested
    <3>1. mcn[s].state = "RAL"
      BY <1>1 DEF Engaged
    <3>2. OldAt(q, i)
      BY <3>1 DEF Harmless, Engaged
    <3>. QED
      BY <2>1, <3>1, <3>2 DEF Requested, OldAt
  <2>3. Requested(q, s)'
    BY <1>1, <2>1 DEF Requested, OldAt
  <2>. QED
    BY <2>2, <2>3
<1>5. Executed(s, q)' /\ Executed(q, s)'
  BY <1>1 DEF Pair, Executed, Engaged
<1>6. Answered(s, q)' /\ Answered(q, s)'
  <2>1. Answered(s, q) /\ Answered(q, s)
    BY <1>1 DEF Pair
  <2>2. Answered(s, q)'
    BY <1>1, <2>1 DEF Answered, OldAt, Engaged
  <2>3. Answered(q, s)'
    <3>. SUFFICES ASSUME mcn[q].state = "RAL", NEW i \in Places(q)', chan'[q][i].type = "AITR"
         PROVE  load'[q][i].word = alo[s].ret /\ load'[q][i].status = alo[s].flag
      BY <1>1 DEF Answered
    <3>1. OldAt(q, i)
      BY DEF Harmless
    <3>. QED
      BY <2>1, <3>1 DEF Answered, OldAt
  <2>. QED
    BY <2>2, <2>3
<1>7. Confirmed(s)' /\ Confirmed(q)'
  <2>1. Confirmed(s) /\ Confirmed(q)
    BY <1>1 DEF Pair
  <2>2. Confirmed(s)'
    BY <1>1, <2>1 DEF Confirmed, OldAt, Engaged
  <2>3. Confirmed(q)'
    <3>. SUFFICES ASSUME mcn[q].state = "RBL"
         PROVE  /\ alo[q].pend # "reply"
                /\ \A i \in Places(q)' : chan'[q][i].type = "AITA" => load'[q][i].status
      BY <1>1 DEF Confirmed
    <3>1. ASSUME NEW i \in Places(q)', chan'[q][i].type = "AITA" PROVE load'[q][i].status
      <4>1. OldAt(q, i) \/ load'[q][i].status
        BY <3>1 DEF Harmless
      <4>. QED
        BY <2>1, <3>1, <4>1 DEF Confirmed, OldAt
    <3>. QED
      BY <2>1, <3>1 DEF Confirmed
  <2>. QED
    BY <2>2, <2>3
<1>. QED
  BY <1>1, <1>2, <1>3, <1>4, <1>5, <1>6, <1>7 DEF Core, Pair

\* Whether the result is written or dropped, nothing is pending afterwards.
LEMMA CommitShape ==
  ASSUME NEW r, NEW n, Shape(r),
         \/ n = [r EXCEPT !.pend = "none"]
         \/ n = [r EXCEPT !.pend = "none", !.changed = {}]
         \/ \E v : n = Commit(r, v)
  PROVE  Shape(n) /\ n.pend = "none"
<1>1. CASE \E v : n = Commit(r, v)
  BY <1>1 DEF Commit, Shape, RegisterFields
<1>2. CASE n = [r EXCEPT !.pend = "none"] \/ n = [r EXCEPT !.pend = "none", !.changed = {}]
  BY <1>2 DEF Shape, RegisterFields
<1>. QED
  BY <1>1, <1>2

LEMMA ReceiveKeeps ==
  ASSUME NEW s \in Side, Core(s), Executes(s) \/ Completes(s) \/ Finishes(s),
         Elsewhere(Peer(s)), chan'[Peer(s)] = chan[Peer(s)], load'[Peer(s)] = load[Peer(s)],
         \A i \in Places(s)' : OldAt(s, i), cmd = [t \in Side |-> cmd[t]]
  PROVE  Core(s)'
<1>. DEFINE q == Peer(s)
<1>1. /\ alo'[q] = alo[q] /\ cmd'[q] = cmd[q] /\ mcn'[q] = mcn[q] /\ q \in Side /\ q # s
      /\ Shape(alo[s]) /\ Shape(alo[q]) /\ Pending(s) /\ Pending(q)
      /\ Initiated(s) /\ Requested(s, q) /\ Executed(s, q) /\ Answered(s, q) /\ Confirmed(s)
      /\ Initiated(q) /\ Requested(q, s) /\ Executed(q, s) /\ Answered(q, s) /\ Confirmed(q)
  BY SideFacts DEF Core, Elsewhere, Pair
<1>2. Shape(alo[q])' /\ Pending(q)' /\ Initiated(q)' /\ Confirmed(q)'
  BY <1>1 DEF Shape, Pending, Initiated, Confirmed, Places
<1>3. Requested(q, s)'
  BY <1>1 DEF Requested, OldAt
<1>4. CASE Executes(s)
  <2>1. PICK v \in SourceWords(alo[q], cmd[q]) : alo'[s] = AloExec(alo[s], cmd[q], v)
    BY <1>4 DEF Executes
  <2>2. /\ mcn[s].state = "RECEIVE" /\ mcn'[s].state = "SBL" /\ cmd' = cmd
        /\ mcn[q].state = "RAL" /\ chan[q] = <<>>
    BY <1>4 DEF Executes
  <2>3. cmd[q] \in Command
    BY <1>1, <2>2, CommandsAssumption DEF Initiated
  <2>4. Shape(alo'[s]) /\ AloExec(alo'[s], cmd[q], v) = alo'[s]
    BY <1>1, <2>1, <2>3, ExecFacts
  <2>5. Pending(s)' /\ Initiated(s)' /\ Requested(s, q)' /\ Executed(s, q)'
          /\ Answered(s, q)' /\ Confirmed(s)'
    BY <1>1, <2>2 DEF Pending, Initiated, Requested, Executed, Answered, Confirmed
  <2>6. Executed(q, s)'
    BY <1>1, <2>2, <2>4 DEF Executed
  <2>7. Answered(q, s)'
    BY <1>1, <2>2 DEF Answered, Places
  <2>. QED
    BY <1>2, <1>3, <2>4, <2>5, <2>6, <2>7 DEF Core, Pair
<1>5. CASE Completes(s) \/ Finishes(s)
  <2>1. /\ mcn'[s].state \in {"SAL", "SEND"} /\ mcn[q].state \in {"RBL", "RECEIVE"}
        /\ cmd'[s] = NoCommand
    BY <1>1, <1>5 DEF Completes, Finishes, Initiated
  <2>2. Shape(alo'[s]) /\ alo'[s].pend = "none"
    <3>1. CASE Completes(s)
      <4>1. \/ alo'[s] = [alo[s] EXCEPT !.pend = "none"]
            \/ \E v : alo'[s] = Commit(alo[s], v)
        BY <3>1 DEF Completes, AloComplete
      <4>. QED
        BY <1>1, <4>1, CommitShape
    <3>2. CASE Finishes(s)
      <4>1. \/ alo'[s] = [alo[s] EXCEPT !.pend = "none", !.changed = {}]
            \/ \E v : alo'[s] = Commit(alo[s], v)
        BY <3>2 DEF Finishes, AloUpdate, Updates
      <4>. QED
        BY <1>1, <4>1, CommitShape
    <3>. QED
      BY <1>5, <3>1, <3>2
  <2>3. Pending(s)' /\ Initiated(s)' /\ Requested(s, q)' /\ Executed(s, q)'
          /\ Answered(s, q)' /\ Confirmed(s)'
    BY <2>1, <2>2 DEF Pending, Initiated, Requested, Executed, Answered, Confirmed
  <2>4. Executed(q, s)' /\ Answered(q, s)'
    BY <1>1, <2>1 DEF Executed, Answered
  <2>. QED
    BY <1>2, <1>3, <2>2, <2>3, <2>4 DEF Core, Pair
<1>. QED
  BY <1>4, <1>5

LEMMA FailsKeeps ==
  ASSUME NEW s \in Side, Core(s), Fails(s), Elsewhere(Peer(s)),
         chan'[s] = chan[s], load'[s] = load[s]
  PROVE  Core(s)'
<1>. DEFINE q == Peer(s)
<1>1. /\ alo'[q] = alo[q] /\ cmd'[q] = cmd[q] /\ mcn'[q] = mcn[q]
      /\ Shape(alo[q]) /\ Pending(q) /\ Initiated(q) /\ Initiated(s) /\ cmd' = cmd
      /\ mcn[s].state = "SEND" /\ mcn'[s].state \notin Engaged /\ mcn[q].state \notin Engaged
      /\ Shape(alo'[s]) /\ alo'[s].pend = "none"
  BY DEF Core, Elsewhere, Pair, Fails
<1>2. Shape(alo[q])' /\ Pending(q)' /\ Initiated(q)' /\ Pending(s)' /\ Initiated(s)'
  BY <1>1 DEF Shape, Pending, Initiated, Engaged
<1>3. /\ Requested(s, q)' /\ Executed(s, q)' /\ Answered(s, q)' /\ Confirmed(s)'
      /\ Requested(q, s)' /\ Executed(q, s)' /\ Answered(q, s)' /\ Confirmed(q)'
  BY <1>1 DEF Requested, Executed, Answered, Confirmed, Engaged
<1>. QED
  BY <1>1, <1>2, <1>3, SideFacts DEF Core, Pair

LEMMA RequestKeeps ==
  ASSUME NEW s \in Side, Core(s), NEW c, Requests(s, c), Elsewhere(Peer(s)),
         NEW m, NEW p, Given(s, m, p), p.cmd = c, p.word \in SourceWords(alo[s], c),
         cmd = [t \in Side |-> cmd[t]]
  PROVE  Core(s)'
<1>. DEFINE q == Peer(s)
<1>1. /\ alo'[q] = alo[q] /\ cmd'[q] = cmd[q] /\ mcn'[q] = mcn[q] /\ q \in Side /\ q # s
      /\ Shape(alo[q]) /\ Shape(alo[s]) /\ Pending(q) /\ Initiated(q)
      /\ mcn'[s].state = "RAL" /\ mcn[q].state \notin Engaged /\ chan[s] = <<>>
      /\ \A i \in Places(q) : chan[q][i].type = "ENTL"
      /\ c \in Commands /\ c \in Command /\ Initiable(alo[s], c)
      /\ cmd'[s] = c /\ alo'[s] = AloInitiate(alo[s], c)
  BY SideFacts, CommandsAssumption DEF Core, Elsewhere, Pair, Requests
<1>2. /\ Shape(alo'[s]) /\ AloInitiate(alo'[s], c) = alo'[s] /\ Initiable(alo'[s], c)
      /\ SourceWords(alo'[s], c) = SourceWords(alo[s], c)
  BY <1>1, InitiateFacts
<1>3. c # NoCommand
  BY <1>1 DEF Initiable, NoCommand
<1>4. /\ Shape(alo[q])' /\ Pending(q)' /\ Initiated(q)' /\ Pending(s)'
  BY <1>1, <1>3 DEF Shape, Pending, Initiated, Engaged
<1>5. Initiated(s)'
  BY <1>1, <1>2 DEF Initiated
<1>6. Requested(s, q)'
  BY <1>1, <1>2 DEF Requested, Given
<1>7. Answered(s, q)'
  BY <1>1 DEF Answered, Given, Places
<1>8. /\ Executed(s, q)' /\ Confirmed(s)'
      /\ Requested(q, s)' /\ Executed(q, s)' /\ Answered(q, s)' /\ Confirmed(q)'
  BY <1>1 DEF Requested, Executed, Answered, Confirmed, Engaged
<1>. QED
  BY <1>1, <1>2, <1>4, <1>5, <1>6, <1>7, <1>8, SideFacts DEF Core, Pair

LEMMA AnswerKeeps ==
  ASSUME NEW s \in Side, Core(s), Answers(s), Elsewhere(Peer(s)),
         NEW m, NEW p, Given(s, m, p), m.type = "AITR",
         p.word = alo[s].ret, p.status = alo[s].flag
  PROVE  Core(s)'
<1>. DEFINE q == Peer(s)
<1>1. /\ alo' = alo /\ cmd' = cmd /\ mcn'[q] = mcn[q] /\ chan[s] = <<>>
      /\ mcn[s].state = "SBL" /\ mcn'[s].state = "RBL" /\ mcn[q].state = "RAL"
      /\ Shape(alo[s]) /\ Shape(alo[q]) /\ Pending(s) /\ Pending(q)
      /\ Initiated(s) /\ Initiated(q) /\ Executed(q, s) /\ Answered(q, s) /\ Requested(q, s)
  BY DEF Core, Elsewhere, Pair, Answers
<1>2. /\ Pending(q)' /\ Initiated(q)' /\ Pending(s)' /\ Initiated(s)'
  BY <1>1 DEF Pending, Initiated
<1>3. Executed(q, s)'
  BY <1>1 DEF Executed
<1>4. Answered(q, s)'
  BY <1>1 DEF Answered, Given
<1>5. Requested(q, s)'
  BY <1>1 DEF Given, Requested, Places
<1>6. Confirmed(s)'
  <2>1. PICK v : alo[s] = AloExec(alo[s], cmd[q], v)
    BY <1>1 DEF Executed
  <2>2. cmd[q] \in Command
    BY <1>1, CommandsAssumption DEF Initiated
  <2>3. alo[s].pend # "reply"
    BY <1>1, <2>1, <2>2, ExecFacts
  <2>4. Places(s)' = {}
    BY <1>1 DEF Given, Places
  <2>. QED
    BY <1>1, <2>3, <2>4 DEF Confirmed
<1>7. /\ Requested(s, q)' /\ Executed(s, q)' /\ Answered(s, q)' /\ Confirmed(q)'
  BY <1>1 DEF Requested, Executed, Answered, Confirmed
<1>. QED
  BY <1>1, <1>2, <1>3, <1>4, <1>5, <1>6, <1>7, SideFacts DEF Core, Pair

\* AloInv is Core and the types of the three variables.
Aligned ==
  /\ alo = [s \in Side |-> alo[s]] /\ cmd = [s \in Side |-> cmd[s]]
  /\ load = [s \in Side |-> load[s]]
  /\ \A s \in Side : load[s] \in Seq(Items(load[s])) /\ Len(load[s]) = Len(chan[s])

LEMMA AloInvParts ==
  ASSUME NEW s \in Side
  PROVE  AloInv <=> Aligned /\ Core(s)
<1>1. Peer(s) \in Side /\ Peer(Peer(s)) = s /\ \A t \in Side : t = s \/ t = Peer(s)
  BY SideFacts
<1>2. AloInv => Aligned /\ Core(s)
  BY <1>1 DEF AloInv, Aligned, Core, Pair, PendingOnlyInFlight, Pending
<1>3. Aligned /\ Core(s) => AloInv
  <2>. SUFFICES ASSUME Aligned, Core(s) PROVE AloInv
    OBVIOUS
  <2>1. PendingOnlyInFlight
    BY <1>1 DEF Core, PendingOnlyInFlight, Pending
  <2>2. \A x \in Side : LET y == Peer(x) IN
          Initiated(x) /\ Requested(x, y) /\ Executed(x, y) /\ Answered(x, y) /\ Confirmed(x)
    BY <1>1 DEF Core, Pair
  <2>. QED
    BY <1>1, <2>1, <2>2 DEF AloInv, Aligned, Core
<1>. QED
  BY <1>2, <1>3

LEMMA AloInitInv == AloInit => AloInv
<1>. SUFFICES ASSUME AloInit PROVE AloInv
  OBVIOUS
<1>1. /\ alo \in [Side -> Registers] /\ cmd = [s \in Side |-> NoCommand]
      /\ load = [s \in Side |-> <<>>] /\ chan = [s \in Side |-> <<>>]
      /\ \A s \in Side : mcn[s].state = "HELLO" /\ alo[s].pend = "none"
  BY DEF AloInit, Init, Booted
<1>2. Aligned
  <2>1. \A s \in Side : load[s] = <<>> /\ chan[s] = <<>>
    BY <1>1
  <2>2. <<>> \in Seq(Items(<<>>))
    BY EmptySeq
  <2>. QED
    BY <1>1, <2>1, <2>2 DEF Aligned
<1>3. \A s \in Side : Shape(alo[s])
  <2>. SUFFICES ASSUME NEW s \in Side PROVE Shape(alo[s])
    OBVIOUS
  <2>1. alo[s] \in Registers
    BY <1>1
  <2>2. alo[s] = [f \in RegisterFields |-> alo[s][f]]
    BY <2>1 DEF Registers, RegisterFields
  <2>3. /\ alo[s].reg \in [Reg -> Word] /\ alo[s].dst \in Reg /\ alo[s].flag \in BOOLEAN
        /\ alo[s].pend \in {"none", "own", "reply"}
    BY <2>1 DEF Registers
  <2>. QED
    BY <2>2, <2>3 DEF Shape
<1>4. \A s \in Side : Pending(s) /\ Pair(s, Peer(s)) /\ Peer(s) \in Side
  BY <1>1, SideFacts
  DEF Pending, Pair, Initiated, Requested, Executed, Answered, Confirmed
<1>5. Core(A)
  BY <1>3, <1>4, SideFacts DEF Core
<1>. QED
  BY <1>2, <1>5, AloInvParts, SideFacts

LEMMA AloReceiveKeeps ==
  ASSUME IInv, IInv', AloInv, NEW s \in Side, AloReceive(s)
  PROVE  AloInv'
<1>. DEFINE q == Peer(s)
<1>1. /\ Elsewhere(q) /\ Taken(s) /\ alo' = [t \in Side |-> alo'[t]]
      /\ Executes(s) \/ Completes(s) \/ Finishes(s) \/ Rests(s)
  BY ReceiveSteps
<1>2. Aligned /\ Core(s) /\ q \in Side
  BY AloInvParts, SideFacts
<1>3. /\ \A i \in Places(s)' : OldAt(s, i)
      /\ \A i \in Places(q)' : OldAt(q, i)
      /\ chan'[q] = chan[q] /\ load'[q] = load[q]
  BY <1>1 DEF Taken, OldAt, Places
<1>4. Aligned'
  <2>1. cmd' = [t \in Side |-> cmd'[t]]
    BY <1>1, <1>2 DEF Aligned, Executes, Completes, Finishes, Rests
  <2>2. \A t \in Side : load'[t] \in Seq(Items(load'[t])) /\ Len(load'[t]) = Len(chan'[t])
    <3>1. load'[s] \in Seq(Items(load'[s])) /\ Len(load'[s]) = Len(chan'[s])
      BY <1>1 DEF Taken
    <3>2. load'[q] \in Seq(Items(load'[q])) /\ Len(load'[q]) = Len(chan'[q])
      BY <1>2, <1>3 DEF Aligned
    <3>. QED
      BY <3>1, <3>2, SideFacts
  <2>. QED
    BY <1>1, <2>1, <2>2 DEF Aligned, Taken
<1>5. Core(s)'
  <2>1. CASE Rests(s)
    BY <1>1, <1>2, <1>3, <2>1, RestsKeeps
  <2>2. CASE Executes(s) \/ Completes(s) \/ Finishes(s)
    BY <1>1, <1>2, <1>3, <2>2, ReceiveKeeps DEF Aligned
  <2>. QED
    BY <1>1, <2>1, <2>2
<1>6. AloInv' <=> Aligned' /\ Core(s)'
  BY AloInvParts, PTL
<1>. QED
  BY <1>4, <1>5, <1>6

LEMMA AloSendKeeps ==
  ASSUME IInv, AloInv, NEW s \in Side, AloSend(s)
  PROVE  AloInv'
<1>. DEFINE q == Peer(s)
<1>1. /\ Elsewhere(q) /\ alo' = [t \in Side |-> alo'[t]]
      /\ Aligned /\ Core(s) /\ q \in Side
  BY SendSteps, AloInvParts, SideFacts
<1>2. ASSUME chan' = chan, load' = load, Fails(s) \/ Rests(s)
      PROVE  Aligned' /\ Core(s)'
  <2>1. cmd' = cmd
    BY <1>2 DEF Fails, Rests
  <2>2. Aligned'
    BY <1>1, <1>2, <2>1 DEF Aligned
  <2>3. /\ \A i \in Places(s)' : OldAt(s, i)
        /\ \A i \in Places(q)' : OldAt(q, i)
    BY <1>2 DEF OldAt, Places
  <2>4. CASE Fails(s)
    BY <1>1, <1>2, <2>2, <2>4, FailsKeeps
  <2>5. CASE Rests(s)
    BY <1>1, <2>2, <2>3, <2>5, RestsKeeps
  <2>. QED
    BY <1>2, <2>4, <2>5, <2>2
<1>3. ASSUME NEW m, NEW p, Given(s, m, p)
      PROVE  /\ cmd' = [t \in Side |-> cmd'[t]] => Aligned'
             /\ \A i \in Places(s)' : OldAt(s, i)
             /\ chan'[s] = chan[s] /\ load'[s] = load[s]
  <2>1. /\ load'[q] \in Seq(Items(load'[q])) /\ Len(load'[q]) = Len(chan'[q])
        /\ load'[s] = load[s] /\ chan'[s] = chan[s] /\ load' = [t \in Side |-> load'[t]]
    BY <1>3 DEF Given
  <2>2. \A t \in Side : load'[t] \in Seq(Items(load'[t])) /\ Len(load'[t]) = Len(chan'[t])
    BY <1>1, <2>1, SideFacts DEF Aligned
  <2>. QED
    BY <1>1, <2>1, <2>2 DEF Aligned, OldAt, Places
<1>4. ASSUME NEW m, NEW p, Given(s, m, p), Requests(s, p.cmd),
             p.word \in SourceWords(alo[s], p.cmd)
      PROVE  Aligned' /\ Core(s)'
  <2>1. Core(s)'
    BY <1>1, <1>4, RequestKeeps DEF Aligned
  <2>2. cmd' = [t \in Side |-> cmd'[t]]
    BY <1>1, <1>4 DEF Requests, Aligned
  <2>. QED
    BY <1>3, <1>4, <2>1, <2>2
<1>5. ASSUME NEW m, NEW p, Given(s, m, p), Fails(s)
      PROVE  Aligned' /\ Core(s)'
  <2>1. cmd' = [t \in Side |-> cmd'[t]]
    BY <1>1, <1>5 DEF Fails, Aligned
  <2>. QED
    BY <1>1, <1>3, <1>5, <2>1, FailsKeeps
<1>6. ASSUME NEW m, NEW p, Given(s, m, p), Answers(s), m.type = "AITR",
             p.word = alo[s].ret, p.status = alo[s].flag
      PROVE  Aligned' /\ Core(s)'
  <2>1. cmd' = [t \in Side |-> cmd'[t]]
    BY <1>1, <1>6 DEF Answers, Aligned
  <2>. QED
    BY <1>1, <1>3, <1>6, <2>1, AnswerKeeps
<1>7. ASSUME NEW m, NEW p, Given(s, m, p), Rests(s), Harmless(s, m, p)
      PROVE  Aligned' /\ Core(s)'
  <2>1. cmd' = [t \in Side |-> cmd'[t]]
    BY <1>1, <1>7 DEF Rests, Aligned
  <2>2. \A i \in Places(q)' : OldAt(q, i) \/ Harmless(s, chan'[q][i], load'[q][i])
    BY <1>7 DEF Given, OldAt
  <2>3. Core(s)'
    BY <1>1, <1>3, <1>7, <2>2, RestsKeeps
  <2>. QED
    BY <1>3, <1>7, <2>1, <2>3
<1>8. Aligned' /\ Core(s)'
  BY <1>2, <1>4, <1>5, <1>6, <1>7, SendSteps
<1>9. AloInv' <=> Aligned' /\ Core(s)'
  BY AloInvParts, PTL
<1>. QED
  BY <1>8, <1>9

LEMMA AloLoseSteps ==
  ASSUME IInv, AloInv, NEW s \in Side, AloLose(s)
  PROVE  Elsewhere(Peer(s)) /\ Taken(s) /\ Rests(s)
<1>1. TypeOK /\ Lose(s) /\ alo' = alo /\ cmd' = cmd
  BY DEF IInv, AloLose
<1>2. Consumed(s) /\ mcn' = mcn
  BY <1>1, ConsumedByLose
<1>3. Taken(s)
  BY <1>1, <1>2, TakenOff DEF Lose, AloLose
<1>. QED
  BY <1>1, <1>2, <1>3 DEF Elsewhere, Rests

LEMMA AloLoseKeeps ==
  ASSUME IInv, AloInv, NEW s \in Side, AloLose(s)
  PROVE  AloInv'
<1>. DEFINE q == Peer(s)
<1>1. /\ Elsewhere(q) /\ Taken(s) /\ Rests(s) /\ alo' = alo /\ cmd' = cmd
  BY AloLoseSteps DEF AloLose
<1>2. Aligned /\ Core(s) /\ q \in Side
  BY AloInvParts, SideFacts
<1>3. /\ \A i \in Places(s)' : OldAt(s, i)
      /\ \A i \in Places(q)' : OldAt(q, i)
      /\ chan'[q] = chan[q] /\ load'[q] = load[q]
  BY <1>1 DEF Taken, OldAt, Places
<1>4. Aligned'
  <2>1. \A t \in Side : load'[t] \in Seq(Items(load'[t])) /\ Len(load'[t]) = Len(chan'[t])
    <3>1. load'[s] \in Seq(Items(load'[s])) /\ Len(load'[s]) = Len(chan'[s])
      BY <1>1 DEF Taken
    <3>2. load'[q] \in Seq(Items(load'[q])) /\ Len(load'[q]) = Len(chan'[q])
      BY <1>2, <1>3 DEF Aligned
    <3>. QED
      BY <3>1, <3>2, SideFacts
  <2>. QED
    BY <1>1, <1>2, <2>1 DEF Aligned, Taken
<1>5. Core(s)'
  BY <1>1, <1>2, <1>3, RestsKeeps
<1>6. AloInv' <=> Aligned' /\ Core(s)'
  BY AloInvParts, PTL
<1>. QED
  BY <1>4, <1>5, <1>6

LEMMA AloStep == [AloNext]_aloVars => [Next]_vars
BY DEF AloNext, AloOffer, AloReceive, AloSend, AloLose, Next, aloVars

LEMMA NextAloInv ==
  IInv /\ IInv' /\ AloInv /\ [AloNext]_aloVars => AloInv'
<1>. SUFFICES ASSUME IInv, IInv', AloInv, [AloNext]_aloVars PROVE AloInv'
  OBVIOUS
<1>1. ASSUME NEW s \in Side, AloOffer(s) \/ UNCHANGED aloVars PROVE AloInv'
  <2>1. mcn' = mcn /\ chan' = chan /\ alo' = alo /\ cmd' = cmd /\ load' = load
    BY <1>1 DEF AloOffer, Offer, aloVars, vars
  <2>. QED
    BY <2>1 DEF AloInv, PendingOnlyInFlight, Initiated, Requested, Executed, Answered,
                Confirmed, Places
<1>. QED
  BY <1>1, AloReceiveKeeps, AloSendKeeps, AloLoseKeeps, SideFacts DEF AloNext

\* The operation under way is the same at both ends and on the wire, from
\* alo_initiate to the alo_update that ends it.
THEOREM AloInvariance == AloSpec => [](IInv /\ AloInv)
<1>1. AloInit => Init
  BY DEF AloInit
<1>2. AloSpec => Spec
  BY <1>1, AloStep, PTL DEF AloSpec, Spec
<1>. QED
  BY <1>2, AloInitInv, NextAloInv, Invariance, PTL DEF AloSpec

\* A result computed by alo_initiate or alo_exec waits to be written only while
\* its operation is under way: alo_complete and alo_update, or the refusal, have
\* cleared the pending flags before the next one starts.
THEOREM PendingInFlight == AloSpec => []PendingOnlyInFlight
<1>1. AloInv => PendingOnlyInFlight
  BY DEF AloInv
<1>. QED
  BY <1>1, AloInvariance, PTL

-----------------------------------------------------------------------------
(* Every operation is one step of AtomicRegisters.                          *)

\* The registers of both ends, as committed, do not change.
SameRegisters(s) ==
  Committed(s)' = Committed(s) /\ Committed(Peer(s))' = Committed(Peer(s))

LEMMA CommittedSame ==
  ASSUME NEW s \in Side, Elsewhere(Peer(s)), Rests(s) \/ Fails(s) \/ Answers(s)
  PROVE  SameRegisters(s) /\ cmd' = cmd
<1>. DEFINE q == Peer(s)
<1>0. Peer(q) = s /\ mcn'[q] = mcn[q] /\ alo'[q] = alo[q]
  BY SideFacts DEF Elsewhere
<1>1. CASE Rests(s)
  BY <1>0, <1>1 DEF Rests, SameRegisters, Committed, Engaged
<1>2. CASE Fails(s)
  BY <1>0, <1>2 DEF Fails, SameRegisters, Committed, Engaged
<1>3. CASE Answers(s)
  BY <1>0, <1>3 DEF Answers, SameRegisters, Committed, Engaged
<1>. QED
  BY <1>1, <1>2, <1>3 DEF Rests, Fails, Answers

LEMMA RequestIssues ==
  ASSUME NEW s \in Side, Core(s), Elsewhere(Peer(s)), NEW c, Requests(s, c)
  PROVE  SameRegisters(s) /\ cmd[s] = NoCommand /\ c \in Commands
         /\ cmd' = [cmd EXCEPT ![s] = c]
<1>. DEFINE q == Peer(s)
<1>0. Peer(q) = s /\ mcn'[q] = mcn[q] /\ alo'[q] = alo[q]
  BY SideFacts DEF Elsewhere
<1>1. /\ mcn[s].state = "SEND" /\ mcn'[s].state = "RAL" /\ mcn[q].state \notin Engaged
      /\ c \in Commands /\ alo'[s] = AloInitiate(alo[s], c)
      /\ cmd' = [cmd EXCEPT ![s] = c]
  BY DEF Requests
<1>2. alo'[s].reg = alo[s].reg
  BY <1>1, InitiateFacts, CommandsAssumption DEF Core
<1>3. cmd[s] = NoCommand
  BY <1>1 DEF Core, Pair, Initiated
<1>. QED
  BY <1>0, <1>1, <1>2, <1>3 DEF SameRegisters, Committed, Engaged

LEMMA ExecuteOrFinish ==
  ASSUME NEW s \in Side, Core(s), Elsewhere(Peer(s)), Executes(s) \/ Finishes(s)
  PROVE  SameRegisters(s) /\ cmd' = cmd
<1>. DEFINE q == Peer(s)
<1>0. /\ Peer(q) = s /\ mcn'[q] = mcn[q] /\ alo'[q] = alo[q]
      /\ Shape(alo[s]) /\ Initiated(q) /\ Confirmed(s)
  BY SideFacts DEF Elsewhere, Core, Pair
<1>1. CASE Executes(s)
  <2>1. PICK v : alo'[s] = AloExec(alo[s], cmd[q], v)
    BY <1>1 DEF Executes
  <2>2. /\ mcn[s].state = "RECEIVE" /\ mcn'[s].state = "SBL" /\ mcn[q].state = "RAL"
        /\ cmd' = cmd
    BY <1>1 DEF Executes
  <2>3. alo'[s].reg = alo[s].reg
    BY <1>0, <2>1, <2>2, ExecFacts, CommandsAssumption DEF Initiated
  <2>. QED
    BY <1>0, <2>2, <2>3 DEF SameRegisters, Committed
<1>2. CASE Finishes(s)
  <2>1. /\ mcn[s].state = "RBL" /\ mcn'[s].state = "SEND" /\ mcn[q].state = "RECEIVE"
        /\ cmd' = cmd /\ alo'[s] = AloUpdate(alo[s], TRUE)
    BY <1>2 DEF Finishes
  <2>2. alo[s].pend \in {"none", "own"}
    BY <1>0, <2>1 DEF Confirmed, Shape
  <2>3. alo'[s].reg = IF alo[s].pend = "own"
                      THEN [alo[s].reg EXCEPT ![alo[s].dst] = alo[s].buf] ELSE alo[s].reg
    BY <1>0, <2>1, <2>2 DEF AloUpdate, Updates, Commit, Shape, RegisterFields
  <2>. QED
    BY <1>0, <2>1, <2>3 DEF SameRegisters, Committed
<1>. QED
  BY <1>1, <1>2

LEMMA CompleteDoes ==
  ASSUME NEW s \in Side, Core(s), Elsewhere(Peer(s)), Completes(s)
  PROVE  LET q == Peer(s)
             c == OnWire(cmd[s])
             x == Committed(s)[c.sc]
             y == Committed(q)[c.dt]
         IN  /\ c # NoCommand
             /\ Promise!May(c, x, y) =>
                  /\ Committed(s)' = [Committed(s) EXCEPT ![c.sc] = Promise!After(c, x, y)[1]]
                  /\ Committed(q)' = [Committed(q) EXCEPT ![c.dt] = Promise!After(c, x, y)[2]]
             /\ ~Promise!May(c, x, y) => SameRegisters(s)
<1>. DEFINE q == Peer(s)
            d == cmd[s]
            c == OnWire(d)
            r == alo[s]
<1>0. /\ Peer(q) = s /\ mcn'[q] = mcn[q] /\ alo'[q] = alo[q]
      /\ Shape(r) /\ Shape(alo[q]) /\ Initiated(s) /\ Executed(s, q)
      /\ mcn[s].state = "RAL" /\ mcn'[s].state = "SAL" /\ mcn[q].state = "RBL"
      /\ alo'[s] = AloComplete(r, alo[q].flag, alo[q].ret)
  BY SideFacts DEF Elsewhere, Core, Pair, Completes
<1>1. d \in Command /\ Initiable(r, d) /\ r = AloInitiate(r, d) /\ c # NoCommand
  BY <1>0, CommandsAssumption, NothingOnTheWire DEF Initiated, Initiable
<1>2. PICK v \in SourceWords(r, d) : alo[q] = AloExec(alo[q], d, v)
  BY <1>0 DEF Executed
<1>3. /\ Committed(s) = r.reg /\ Committed(q) = alo[q].reg
      /\ Committed(s)' = alo'[s].reg
      /\ Committed(q)' = IF alo[q].pend = "own"
                         THEN [alo[q].reg EXCEPT ![alo[q].dst] = alo[q].buf] ELSE alo[q].reg
  BY <1>0 DEF Committed
<1>. DEFINE x == r.reg[c.sc]
            y == alo[q].reg[c.dt]
<1>4. /\ alo[q].flag <=> Promise!May(c, x, y)
      /\ alo[q].flag =>
           /\ AloComplete(r, TRUE, alo[q].ret).reg
                = [r.reg EXCEPT ![c.sc] = Promise!After(c, x, y)[1]]
           /\ (IF alo[q].pend = "own" THEN [alo[q].reg EXCEPT ![alo[q].dst] = alo[q].buf]
               ELSE alo[q].reg)
                = [alo[q].reg EXCEPT ![c.dt] = Promise!After(c, x, y)[2]]
      /\ ~alo[q].flag => alo[q].pend = "none"
  <2>1. c.sc = d.sc /\ c.dt = WireDt(d.dt)
    BY <1>1, OnTheWire
  <2>2. Promise!May(c, x, y) <=> Promise!May(d, x, y)
    BY <1>1, OnTheWire
  <2>3. Promise!After(c, x, y) = Promise!After(d, x, y)
    BY <1>1, OnTheWire
  <2>4. LET u == r.reg[d.sc]
            w == alo[q].reg[WireDt(d.dt)]
        IN  /\ alo[q].flag <=> Promise!May(d, u, w)
            /\ alo[q].flag =>
                 /\ AloComplete(r, TRUE, alo[q].ret).reg
                      = [r.reg EXCEPT ![d.sc] = Promise!After(d, u, w)[1]]
                 /\ (IF alo[q].pend = "own" THEN [alo[q].reg EXCEPT ![alo[q].dst] = alo[q].buf]
                     ELSE alo[q].reg)
                      = [alo[q].reg EXCEPT ![WireDt(d.dt)] = Promise!After(d, u, w)[2]]
            /\ ~alo[q].flag => alo[q].pend = "none"
    BY <1>0, <1>1, <1>2, Outcome
  <2>. HIDE DEF c, d, r
  <2>. QED
    BY <2>1, <2>2, <2>3, <2>4
<1>5. CASE alo[q].flag
  <2>1. \A w : AloComplete(r, alo[q].flag, w) = AloComplete(r, TRUE, w)
    BY <1>5 DEF AloComplete
  <2>2. AloComplete(r, TRUE, alo[q].ret).reg
          = [r.reg EXCEPT ![c.sc] = Promise!After(c, x, y)[1]]
    BY <1>4, <1>5
  <2>3. Committed(s)' = [Committed(s) EXCEPT ![c.sc] = Promise!After(c, x, y)[1]]
    BY <1>0, <1>3, <2>1, <2>2
  <2>4. Committed(q)' = [Committed(q) EXCEPT ![c.dt] = Promise!After(c, x, y)[2]]
    BY <1>3, <1>4, <1>5
  <2>5. x = Committed(s)[c.sc] /\ y = Committed(q)[c.dt] /\ Promise!May(c, x, y)
    BY <1>3, <1>4, <1>5
  <2>. QED
    BY <1>1, <2>3, <2>4, <2>5
<1>6. CASE ~alo[q].flag
  <2>1. AloComplete(r, alo[q].flag, alo[q].ret).reg = r.reg
    BY <1>0, <1>6 DEF AloComplete, Shape, RegisterFields
  <2>2. SameRegisters(s)
    BY <1>0, <1>3, <1>4, <1>6, <2>1 DEF SameRegisters
  <2>3. ~Promise!May(c, Committed(s)[c.sc], Committed(q)[c.dt])
    BY <1>3, <1>4, <1>6
  <2>. QED
    BY <1>1, <2>2, <2>3
<1>. QED
  BY <1>5, <1>6

LEMMA InitPromise == AloInit => Promise!Init
<1>. SUFFICES ASSUME AloInit PROVE Promise!Init
  OBVIOUS
<1>1. /\ alo \in [Side -> Registers] /\ cmd = [s \in Side |-> NoCommand]
      /\ \A s \in Side : mcn[s].state = "HELLO"
  BY DEF AloInit, Init, Booted
<1>2. \A s \in Side : Committed(s) = alo[s].reg /\ alo[s].reg \in [Reg -> Word]
  BY <1>1 DEF Committed, Registers
<1>3. Promise!Ends = Side /\ Promise!Reg = Reg /\ Promise!Word = Word
  BY DEF Promise!Ends, Side, Promise!Reg, Reg, Promise!Word, Word, Promise!Size, Size
<1>4. [s \in Side |-> Committed(s)] \in [Side -> [Reg -> Word]]
  BY <1>2
<1>5. [s \in Side |-> OnWire(cmd[s])] = [s \in Side |-> NoCommand]
  BY <1>1, NothingOnTheWire
<1>. QED
  BY <1>3, <1>4, <1>5 DEF Promise!Init

LEMMA SameMaps ==
  ASSUME NEW s \in Side, SameRegisters(s), cmd' = cmd
  PROVE  UNCHANGED Promise!registerVars
<1>1. \A t \in Side : Committed(t)' = Committed(t)
  BY SideFacts DEF SameRegisters
<1>2. [t \in Side |-> Committed(t)]' = [t \in Side |-> Committed(t)]
  BY <1>1
<1>3. [t \in Side |-> OnWire(cmd[t])]' = [t \in Side |-> OnWire(cmd[t])]
  OBVIOUS
<1>. QED
  BY <1>2, <1>3 DEF Promise!registerVars

LEMMA CompleteMaps ==
  ASSUME NEW s \in Side, Core(s), Elsewhere(Peer(s)), Completes(s),
         cmd = [t \in Side |-> cmd[t]]
  PROVE  Promise!Do(s)
<1>. DEFINE q == Peer(s)
            c == OnWire(cmd[s])
            x == Committed(s)[c.sc]
            y == Committed(q)[c.dt]
            before == [t \in Side |-> Committed(t)]
            after == [t \in Side |-> Committed(t)']
<1>1. q \in Side /\ q # s /\ Promise!Other(s) = q
  BY SideFacts DEF Promise!Other, Peer
<1>2. /\ c # NoCommand
      /\ Promise!May(c, x, y) =>
           /\ Committed(s)' = [Committed(s) EXCEPT ![c.sc] = Promise!After(c, x, y)[1]]
           /\ Committed(q)' = [Committed(q) EXCEPT ![c.dt] = Promise!After(c, x, y)[2]]
      /\ ~Promise!May(c, x, y) => SameRegisters(s)
  BY CompleteDoes
<1>3. before[s] = Committed(s) /\ before[q] = Committed(q)
  BY <1>1
<1>4. Promise!May(c, x, y) =>
        after = [before EXCEPT ![s][c.sc] = Promise!After(c, x, y)[1],
                               ![q][c.dt] = Promise!After(c, x, y)[2]]
  <2>. SUFFICES ASSUME Promise!May(c, x, y)
       PROVE  after = [before EXCEPT ![s][c.sc] = Promise!After(c, x, y)[1],
                                     ![q][c.dt] = Promise!After(c, x, y)[2]]
    OBVIOUS
  <2>. DEFINE u == Promise!After(c, x, y)[1]
              w == Promise!After(c, x, y)[2]
  <2>1. /\ Committed(s)' = [Committed(s) EXCEPT ![c.sc] = u]
        /\ Committed(q)' = [Committed(q) EXCEPT ![c.dt] = w]
    BY <1>2
  <2>. HIDE DEF u, w
  <2>2. \A t \in Side : t = s \/ t = q
    BY SideFacts
  <2>3. \A t \in Side :
          after[t] = [before EXCEPT ![s][c.sc] = u, ![q][c.dt] = w][t]
    BY <1>1, <1>3, <2>1, <2>2
  <2>4. after = [before EXCEPT ![s][c.sc] = u, ![q][c.dt] = w]
    BY <2>3
  <2>. QED
    BY <2>4 DEF u, w
<1>5. ~Promise!May(c, x, y) => after = before
  BY <1>2, SideFacts DEF SameRegisters
<1>6. [t \in Side |-> OnWire(cmd[t])]'
        = [[t \in Side |-> OnWire(cmd[t])] EXCEPT ![s] = NoCommand]
  BY NothingOnTheWire DEF Completes
<1>. QED
  BY <1>1, <1>2, <1>3, <1>4, <1>5, <1>6 DEF Promise!Do

LEMMA StepPromise ==
  ASSUME IInv, IInv', AloInv, AloNext
  PROVE  Promise!Next \/ UNCHANGED Promise!registerVars
<1>0. /\ Promise!Ends = Side
      /\ \A s \in Side : Peer(s) \in Side /\ Core(s)
      /\ cmd = [t \in Side |-> cmd[t]]
  BY SideFacts, AloInvParts DEF Promise!Ends, Side, Aligned
<1>1. ASSUME NEW s \in Side, AloOffer(s) PROVE UNCHANGED Promise!registerVars
  <2>1. mcn' = mcn /\ alo' = alo /\ cmd' = cmd
    BY <1>1 DEF AloOffer, Offer
  <2>2. SameRegisters(s)
    BY <2>1 DEF SameRegisters, Committed
  <2>. QED
    BY <2>1, <2>2, SameMaps
<1>2. ASSUME NEW s \in Side, AloReceive(s)
      PROVE  Promise!Do(s) \/ UNCHANGED Promise!registerVars
  <2>1. Elsewhere(Peer(s)) /\ (Executes(s) \/ Completes(s) \/ Finishes(s) \/ Rests(s))
    BY <1>2, ReceiveSteps
  <2>2. CASE Completes(s)
    BY <1>0, <2>1, <2>2, CompleteMaps
  <2>3. CASE Executes(s) \/ Finishes(s) \/ Rests(s)
    <3>1. SameRegisters(s) /\ cmd' = cmd
      BY <1>0, <2>1, <2>3, ExecuteOrFinish, CommittedSame
    <3>. QED
      BY <3>1, SameMaps
  <2>. QED
    BY <2>1, <2>2, <2>3
<1>3. ASSUME NEW s \in Side, AloSend(s)
      PROVE  (\E c \in Commands : Promise!Issue(s, OnWire(c))) \/ UNCHANGED Promise!registerVars
  <2>1. /\ Elsewhere(Peer(s))
        /\ Fails(s) \/ Rests(s) \/ Answers(s) \/ \E c : Requests(s, c)
    BY <1>3, SendSteps
  <2>2. CASE Fails(s) \/ Rests(s) \/ Answers(s)
    <3>1. SameRegisters(s) /\ cmd' = cmd
      BY <2>1, <2>2, CommittedSame
    <3>. QED
      BY <3>1, SameMaps
  <2>3. ASSUME NEW c, Requests(s, c) PROVE \E d \in Commands : Promise!Issue(s, OnWire(d))
    <3>1. /\ SameRegisters(s) /\ cmd[s] = NoCommand /\ c \in Commands
          /\ cmd' = [cmd EXCEPT ![s] = c]
      BY <1>0, <2>1, <2>3, RequestIssues
    <3>2. \A t \in Side : Committed(t)' = Committed(t)
      BY <3>1, SideFacts DEF SameRegisters
    <3>3. [t \in Side |-> Committed(t)]' = [t \in Side |-> Committed(t)]
      BY <3>2
    <3>4. [t \in Side |-> OnWire(cmd[t])]'
            = [[t \in Side |-> OnWire(cmd[t])] EXCEPT ![s] = OnWire(c)]
      BY <1>0, <3>1
    <3>5. [t \in Side |-> OnWire(cmd[t])][s] = NoCommand
      BY <3>1, NothingOnTheWire
    <3>. QED
      BY <3>1, <3>3, <3>4, <3>5 DEF Promise!Issue
  <2>. QED
    BY <2>1, <2>2, <2>3
<1>4. ASSUME NEW s \in Side, AloLose(s) PROVE UNCHANGED Promise!registerVars
  <2>1. SameRegisters(s) /\ cmd' = cmd
    BY <1>4, AloLoseSteps, CommittedSame
  <2>. QED
    BY <2>1, SameMaps
<1>. QED
  BY <1>0, <1>1, <1>2, <1>3, <1>4 DEF AloNext, Promise!Next

\* Whatever the two ends send, lose and refuse, an operation reads and changes
\* two registers as one step, at the moment its source learns that alo_exec
\* agreed: the one the command names at the source and, at the other end, the
\* one whose number ALO_DT reads from the wire.
THEOREM OperationsAtomic == AloSpec => OperationsAreAtomic
<1>1. IInv /\ IInv' /\ AloInv /\ [AloNext]_aloVars
        => [Promise!Next]_(Promise!registerVars)
  <2>. SUFFICES ASSUME IInv, IInv', AloInv, [AloNext]_aloVars
       PROVE  Promise!Next \/ UNCHANGED Promise!registerVars
    BY DEF Promise!registerVars
  <2>1. CASE UNCHANGED aloVars
    <3>1. mcn' = mcn /\ alo' = alo /\ cmd' = cmd
      BY <2>1 DEF aloVars, vars
    <3>2. SameRegisters(A)
      BY <3>1 DEF SameRegisters, Committed
    <3>. QED
      BY <3>1, <3>2, SameMaps, SideFacts
  <2>. QED
    BY <2>1, StepPromise
<1>. QED
  BY <1>1, InitPromise, AloInvariance, PTL DEF AloSpec, OperationsAreAtomic, Promise!Spec

-----------------------------------------------------------------------------
(* The bits of a word.                                                      *)

\* A set of natural numbers has a least element: with the least counterexample
\* a statement about 2 ^ n is proved by induction on n.
LEMMA Least ==
  ASSUME NEW S, S \subseteq Nat, S # {}
  PROVE  \E n \in S : \A k \in S : n <= k
<1>1. IsWellFoundedOn(OpToRel(<, Nat), Nat)
  BY NatLessThanWellFounded
<1>2. PICK n \in S : \A k \in S : ~(<<k, n>> \in OpToRel(<, Nat))
  BY <1>1, WFMin
<1>3. \A k \in S : ~(k < n)
  BY <1>2 DEF OpToRel
<1>. QED
  BY <1>3

\* 2 ^ n counts the subsets of 1 .. n; half of those of 1 .. n + 1 have n + 1.
LEMMA PowerOfTwo ==
  ASSUME NEW n \in Nat
  PROVE  2 ^ n \in Nat \ {0} /\ 2 ^ (n + 1) = 2 * 2 ^ n
<1>. DEFINE S == SUBSET (1 .. n)
            T == {X \cup {n + 1} : X \in S}
<1>1. \A k \in Nat : IsFiniteSet(SUBSET (1 .. k)) /\ Cardinality(SUBSET (1 .. k)) = 2 ^ k
  <2>1. \A k \in Nat : IsFiniteSet(1 .. k) /\ Cardinality(1 .. k) = k
    BY FS_Interval
  <2>. QED
    BY <2>1, FS_SUBSET
<1>2. IsFiniteSet(S) /\ Cardinality(S) = 2 ^ n /\ 2 ^ n \in Nat \ {0}
  <2>1. IsFiniteSet(S) /\ Cardinality(S) = 2 ^ n
    BY <1>1
  <2>2. {} \in S
    OBVIOUS
  <2>3. S # {}
    BY <2>2
  <2>. QED
    BY <2>1, <2>3, FS_CardinalityType, FS_EmptySet
<1>3. IsFiniteSet(T) /\ Cardinality(T) = Cardinality(S)
  <2>. DEFINE F == [X \in S |-> X \cup {n + 1}]
  <2>1. F \in [S -> T] /\ \A t \in T : \E s \in S : F[s] = t
    OBVIOUS
  <2>2. \A a, b \in S : F[a] = F[b] => a = b
    <3>. SUFFICES ASSUME NEW a \in S, NEW b \in S, F[a] = F[b] PROVE a = b
      OBVIOUS
    <3>1. a \cup {n + 1} = b \cup {n + 1} /\ n + 1 \notin a /\ n + 1 \notin b
      OBVIOUS
    <3>2. a = (a \cup {n + 1}) \ {n + 1} /\ b = (b \cup {n + 1}) \ {n + 1}
      BY <3>1
    <3>. QED
      BY <3>1, <3>2
  <2>3. F \in Bijection(S, T)
    BY <2>1, <2>2, Fun_IsBij
  <2>4. ExistsBijection(S, T)
    BY <2>3 DEF ExistsBijection
  <2>. QED
    BY <1>2, <2>4, FS_Bijection
<1>4. SUBSET (1 .. n + 1) = S \cup T
  <2>1. ASSUME NEW X \in SUBSET (1 .. n + 1) PROVE X \in S \cup T
    <3>1. CASE n + 1 \in X
      <4>1. X \ {n + 1} \in S /\ X = (X \ {n + 1}) \cup {n + 1}
        BY <3>1
      <4>. QED
        BY <4>1
    <3>2. CASE n + 1 \notin X
      BY <3>2
    <3>. QED
      BY <3>1, <3>2
  <2>2. ASSUME NEW X \in S \cup T PROVE X \in SUBSET (1 .. n + 1)
    OBVIOUS
  <2>. QED
    BY <2>1, <2>2
<1>5. S \cap T = {}
  OBVIOUS
<1>6. Cardinality(S \cup T) = Cardinality(S) + Cardinality(T) - Cardinality(S \cap T)
  BY <1>2, <1>3, FS_Union
<1>7. Cardinality(S \cap T) = 0
  BY <1>5, FS_EmptySet
<1>8. Cardinality(S \cup T) = 2 ^ (n + 1)
  <2>1. Cardinality(SUBSET (1 .. n + 1)) = 2 ^ (n + 1)
    BY <1>1
  <2>. QED
    BY <1>4, <2>1
<1>. HIDE DEF S, T
<1>. QED
  BY <1>2, <1>3, <1>6, <1>7, <1>8

\* The power of a sum.
LEMMA PowerSum ==
  ASSUME NEW b \in Nat
  PROVE  \A n \in Nat : 2 ^ (b + n) = 2 ^ b * 2 ^ n
<1>. DEFINE S == {n \in Nat : 2 ^ (b + n) # 2 ^ b * 2 ^ n}
<1>1. SUFFICES ASSUME S # {} PROVE FALSE
  OBVIOUS
<1>2. PICK n \in S : \A k \in S : n <= k
  BY <1>1, Least
<1>3. n # 0
  <2>1. 2 ^ 0 = 1 /\ 2 ^ b \in Nat /\ b + 0 = b
    BY PowerOfTwo
  <2>2. 2 ^ (b + 0) = 2 ^ b * 2 ^ 0
    BY <2>1
  <2>3. 0 \notin S
    BY <2>2
  <2>. QED
    BY <2>3
<1>4. PICK k \in Nat : n = k + 1
  <2>1. n - 1 \in Nat /\ n = (n - 1) + 1
    BY <1>3
  <2>. QED
    BY <2>1
<1>5. 2 ^ (b + k) = 2 ^ b * 2 ^ k
  <2>1. k \notin S
    BY <1>2, <1>4
  <2>. QED
    BY <2>1
<1>6. 2 ^ ((b + k) + 1) = 2 * 2 ^ (b + k) /\ 2 ^ (k + 1) = 2 * 2 ^ k
      /\ 2 ^ b \in Nat /\ 2 ^ k \in Nat
  BY PowerOfTwo
<1>7. PICK p, q : p = 2 ^ b /\ q = 2 ^ k
  OBVIOUS
<1>8. 2 * (p * q) = p * (2 * q)
  BY <1>6, <1>7
<1>9. (b + k) + 1 = b + (k + 1)
  OBVIOUS
<1>10. 2 ^ (b + (k + 1)) = 2 ^ b * 2 ^ (k + 1)
  BY <1>5, <1>6, <1>7, <1>8, <1>9
<1>. QED
  BY <1>4, <1>10

\* What division by d gives, and that nothing else does.
LEMMA Quotients ==
  \A x \in Nat, d \in Nat \ {0} :
    /\ x \div d \in Nat /\ x % d \in 0 .. d - 1 /\ x = d * (x \div d) + (x % d)
    /\ \A q \in Nat, r \in Nat : r < d /\ x = d * q + r => x \div d = q
OBVIOUS

\* A word of n bits, split at bit b.
SplitAt(x, b, n, d, f, q, r) ==
  /\ r < d /\ 2 ^ b = d /\ 2 ^ n = d * (2 * f)
  /\ x = d * q + r /\ x \div d = q /\ BitOf(x, b) = q % 2
  /\ x < 2 ^ n => q < 2 * f

\* Every bit of a word splits it.
LEMMA SplitWord ==
  ASSUME NEW n \in Nat, NEW b \in Nat, b < n, NEW x \in Nat
  PROVE  \E d \in Nat \ {0}, f \in Nat \ {0}, q \in Nat, r \in Nat :
           SplitAt(x, b, n, d, f, q, r)
<1>1. PICK d \in Nat \ {0} : d = 2 ^ b
  BY PowerOfTwo
<1>2. n - b - 1 \in Nat /\ (n - b - 1) + 1 = n - b /\ b + (n - b) = n /\ b \in Nat /\ n - b \in Nat
  OBVIOUS
<1>3. PICK f \in Nat \ {0} : f = 2 ^ (n - b - 1)
  BY <1>2, PowerOfTwo
<1>4. 2 ^ (n - b) = 2 * f
  <2>1. 2 ^ ((n - b - 1) + 1) = 2 * 2 ^ (n - b - 1)
    BY <1>2, PowerOfTwo
  <2>. QED
    BY <1>2, <1>3, <2>1
<1>5. 2 ^ n = d * (2 * f)
  <2>1. 2 ^ (b + (n - b)) = 2 ^ b * 2 ^ (n - b)
    BY <1>2, PowerSum
  <2>. QED
    BY <1>1, <1>2, <1>4, <2>1
<1>6. PICK q \in Nat, r \in Nat : r < d /\ q = x \div d /\ x = d * q + r
  BY Quotients
<1>7. ASSUME x < 2 ^ n PROVE q < 2 * f
  <2>1. d * q < d * (2 * f)
    BY <1>5, <1>6, <1>7
  <2>2. PICK e \in Nat : e = 2 * f
    OBVIOUS
  <2>3. q >= e => d * q >= d * e
    OBVIOUS
  <2>. QED
    BY <2>1, <2>2, <2>3
<1>. QED
  BY <1>1, <1>5, <1>6, <1>7 DEF BitOf, SplitAt

\* Setting or clearing a bit the register has stays within its width.
LEMMA BitsFit ==
  ASSUME NEW x \in Word, NEW b \in Bit
  PROVE  SetBit(x, b) \in Word /\ ResetBit(x, b) \in Word
<1>1. /\ Size = 2 ^ Width /\ Size \in Nat \ {0} /\ Width \in Nat /\ b \in Nat /\ b < Width
      /\ x \in Nat /\ x < Size
  BY WidthAssumption, PowerOfTwo DEF Size, Word, Bit
<1>2. PICK d \in Nat \ {0}, f \in Nat \ {0}, q \in Nat, r \in Nat :
        SplitAt(x, b, Width, d, f, q, r)
  BY <1>1, SplitWord
<1>0. /\ r < d /\ 2 ^ b = d /\ 2 ^ Width = d * (2 * f)
      /\ x = d * q + r /\ BitOf(x, b) = q % 2
      /\ x < 2 ^ Width => q < 2 * f
  BY <1>2 DEF SplitAt
<1>3. ASSUME BitOf(x, b) = 0 PROVE x + d \in Word
  <2>1. q + 2 <= 2 * f
    BY <1>1, <1>0, <1>3
  <2>2. PICK e \in Nat : e = 2 * f
    OBVIOUS
  <2>3. d * (q + 2) <= d * e
    BY <2>1, <2>2
  <2>4. x + d < d * (q + 2)
    BY <1>0
  <2>5. d * e = Size
    BY <1>1, <1>0, <2>2
  <2>6. d * (q + 2) \in Nat /\ d * e \in Nat
    OBVIOUS
  <2>. QED
    BY <1>1, <2>3, <2>4, <2>5, <2>6 DEF Word
<1>4. ASSUME BitOf(x, b) = 1 PROVE x - d \in Word
  <2>1. q # 0
    BY <1>0, <1>4
  <2>2. d * q >= d
    BY <2>1
  <2>. QED
    BY <1>1, <1>0, <2>2 DEF Word
<1>5. SetBit(x, b) \in Word
  BY <1>0, <1>3 DEF SetBit
<1>6. ResetBit(x, b) \in Word
  BY <1>0, <1>4 DEF ResetBit
<1>. QED
  BY <1>5, <1>6

\* Every combination of n bits is that of a number below 2 ^ n.
LEMMA BitPatterns ==
  ASSUME NEW f \in [Nat -> {0, 1}]
  PROVE  \A n \in Nat : \E z \in 0 .. 2 ^ n - 1 : \A b \in 0 .. n - 1 : BitOf(z, b) = f[b]
<1>. DEFINE P(n) == \E z \in 0 .. 2 ^ n - 1 : \A b \in 0 .. n - 1 : BitOf(z, b) = f[b]
            S == {n \in Nat : ~P(n)}
<1>1. SUFFICES ASSUME S # {} PROVE FALSE
  OBVIOUS
<1>2. PICK n \in S : \A k \in S : n <= k
  BY <1>1, Least
<1>3. n # 0
  <2>1. 2 ^ 0 = 1 /\ 0 \in 0 .. 1 - 1 /\ 0 .. 0 - 1 = {}
    OBVIOUS
  <2>2. P(0)
    BY <2>1
  <2>. QED
    BY <2>2
<1>4. PICK k \in Nat : n = k + 1
  <2>1. n - 1 \in Nat /\ n = (n - 1) + 1
    BY <1>3
  <2>. QED
    BY <2>1
<1>5. P(k)
  <2>1. k \notin S
    BY <1>2, <1>4
  <2>. QED
    BY <2>1
<1>6. PICK z \in 0 .. 2 ^ k - 1 : \A b \in 0 .. k - 1 : BitOf(z, b) = f[b]
  BY <1>5
<1>7. PICK s \in Nat \ {0} : s = 2 ^ k /\ 2 ^ (k + 1) = 2 * s
  BY PowerOfTwo
<1>8. PICK y : y = z + f[k] * s
  OBVIOUS
<1>9. f[k] \in {0, 1} /\ z \in Nat /\ z < s /\ y \in Nat /\ y < 2 * s
  BY <1>6, <1>7, <1>8
<1>10. BitOf(y, k) = f[k]
  <2>1. y = s * f[k] + z /\ f[k] % 2 = f[k]
    BY <1>8, <1>9
  <2>2. y \div s = f[k]
    BY <1>9, <2>1, Quotients
  <2>. QED
    BY <1>7, <2>1, <2>2 DEF BitOf
<1>11. ASSUME NEW b \in 0 .. k - 1 PROVE BitOf(y, b) = BitOf(z, b)
  <2>1. CASE f[k] = 0
    BY <1>8, <1>9, <2>1
  <2>2. CASE f[k] = 1
    <3>1. PICK d \in Nat \ {0}, h \in Nat \ {0}, q \in Nat, r \in Nat :
            SplitAt(z, b, k, d, h, q, r)
      <4>1. b \in Nat /\ b < k /\ z \in Nat
        BY <1>9
      <4>. QED
        BY <4>1, SplitWord
    <3>0. /\ r < d /\ 2 ^ b = d /\ 2 ^ k = d * (2 * h)
          /\ z = d * q + r /\ BitOf(z, b) = q % 2
      BY <3>1 DEF SplitAt
    <3>2. y = d * (q + 2 * h) + r
      BY <1>7, <1>8, <1>9, <2>2, <3>0
    <3>3. y \div d = q + 2 * h
      <4>1. PICK p \in Nat : p = q + 2 * h
        OBVIOUS
      <4>2. y = d * p + r
        BY <3>2, <4>1
      <4>3. \A i \in Nat, j \in Nat : j < d /\ y = d * i + j => y \div d = i
        BY <1>9, Quotients
      <4>4. r < d
        BY <3>0
      <4>. QED
        BY <4>1, <4>2, <4>3, <4>4
    <3>4. (q + 2 * h) % 2 = q % 2
      OBVIOUS
    <3>. QED
      BY <3>0, <3>3, <3>4 DEF BitOf
  <2>. QED
    BY <1>9, <2>1, <2>2
<1>12. \A b \in 0 .. n - 1 : BitOf(y, b) = f[b]
  <2>. SUFFICES ASSUME NEW b \in 0 .. n - 1 PROVE BitOf(y, b) = f[b]
    OBVIOUS
  <2>1. b = k \/ b \in 0 .. k - 1
    BY <1>4
  <2>. QED
    BY <1>6, <1>10, <1>11, <2>1
<1>13. y \in 0 .. 2 ^ n - 1
  BY <1>4, <1>7, <1>9
<1>. QED
  BY <1>12, <1>13

\* There is a word with the bits & and | ask for.
LEMMA CombinedFit ==
  ASSUME NEW x \in Word, NEW y \in Word
  PROVE  BitAnd(x, y) \in Word /\ BitOr(x, y) \in Word
<1>1. /\ Word = 0 .. 2 ^ Width - 1 /\ Bit = 0 .. Width - 1 /\ Width \in Nat
      /\ x \in Nat /\ y \in Nat
  BY WidthAssumption, PowerOfTwo DEF Size, Word, Bit
<1>2. \A b \in Nat : BitOf(x, b) \in {0, 1} /\ BitOf(y, b) \in {0, 1}
  <2>. SUFFICES ASSUME NEW b \in Nat PROVE BitOf(x, b) \in {0, 1} /\ BitOf(y, b) \in {0, 1}
    OBVIOUS
  <2>1. 2 ^ b \in Nat \ {0}
    BY PowerOfTwo
  <2>2. x \div 2 ^ b \in Nat /\ y \div 2 ^ b \in Nat
    BY <1>1, <2>1, Quotients
  <2>. QED
    BY <2>2 DEF BitOf
<1>3. \E z \in Word : \A b \in Bit : BitOf(z, b) = BitOf(x, b) * BitOf(y, b)
  <2>. DEFINE f == [b \in Nat |-> BitOf(x, b) * BitOf(y, b)]
  <2>1. f \in [Nat -> {0, 1}]
    BY <1>2
  <2>. HIDE DEF f
  <2>2. \E z \in 0 .. 2 ^ Width - 1 : \A b \in 0 .. Width - 1 : BitOf(z, b) = f[b]
    BY <1>1, <2>1, BitPatterns
  <2>3. \A b \in Bit : f[b] = BitOf(x, b) * BitOf(y, b)
    BY <1>1 DEF f
  <2>. QED
    BY <1>1, <2>2, <2>3
<1>4. \E z \in Word : \A b \in Bit : BitOf(z, b) = 0 <=> BitOf(x, b) = 0 /\ BitOf(y, b) = 0
  <2>. DEFINE f == [b \in Nat |-> IF BitOf(x, b) = 0 /\ BitOf(y, b) = 0 THEN 0 ELSE 1]
  <2>1. f \in [Nat -> {0, 1}]
    OBVIOUS
  <2>. HIDE DEF f
  <2>2. \E z \in 0 .. 2 ^ Width - 1 : \A b \in 0 .. Width - 1 : BitOf(z, b) = f[b]
    BY <1>1, <2>1, BitPatterns
  <2>3. \A b \in Bit : f[b] = 0 <=> BitOf(x, b) = 0 /\ BitOf(y, b) = 0
    BY <1>1 DEF f
  <2>. QED
    BY <1>1, <2>2, <2>3
<1>. QED
  BY <1>3, <1>4, Zenon DEF BitAnd, BitOr

-----------------------------------------------------------------------------
(* Registers and the words on the wire keep their width.                    *)

\* The words the opcodes compute fit: the sums wrap at Size.
LEMMA StepsFit ==
  ASSUME NEW x \in Word, NEW y \in Word, NEW b \in Bit
  PROVE  /\ \A op : SourceStep(op, x) \in Word /\ BitResult(op, x, b) \in Word
         /\ \A op \in SourceOps \cup ReplyOps \cup {"WR"} :
              DestinationStep(op, x, y) \in Word
<1>1. Size \in Nat \ {0} /\ Word = 0 .. Size - 1
  BY WidthAssumption, PowerOfTwo DEF Size, Word
<1>2. \A k \in Int : (k % Size) \in Word
  BY <1>1
<1>3. /\ x \in Int /\ y \in Int
      /\ x + 1 \in Int /\ x - 1 \in Int /\ x - y \in Int /\ y - x \in Int /\ y + x \in Int
  BY <1>1
<1>4. \A op : SourceStep(op, x) \in Word
  BY <1>2, <1>3 DEF SourceStep
<1>5. \A op : BitResult(op, x, b) \in Word
  BY BitsFit DEF BitResult
<1>6. ASSUME NEW op \in SourceOps \cup ReplyOps \cup {"WR"}
      PROVE  DestinationStep(op, x, y) \in Word
  <2>1. BitAnd(y, x) \in Word /\ BitOr(y, x) \in Word
    BY CombinedFit
  <2>2. /\ ((y + x) % Size) \in Word /\ ((x - y) % Size) \in Word /\ ((y - x) % Size) \in Word
        /\ ((x + 1) % Size) \in Word /\ ((x - 1) % Size) \in Word
    BY <1>2, <1>3
  <2>3. CASE op \in {"ADD", "SUBS", "SUBD"}
    BY <2>2, <2>3 DEF DestinationStep
  <2>4. CASE op \in {"AND", "OR"}
    BY <2>1, <2>4 DEF DestinationStep
  <2>5. CASE op \in {"INC", "INCD", "DEC", "DECD"}
    BY <2>2, <2>5 DEF DestinationStep
  <2>6. CASE op \in {"INCS", "DECS", "WR"}
    BY <2>6 DEF DestinationStep
  <2>. QED
    BY <2>3, <2>4, <2>5, <2>6 DEF SourceOps, ReplyOps
<1>. QED
  BY <1>4, <1>5, <1>6

\* So does every word sent along with a command.
LEMMA SourceWordsFit ==
  ASSUME NEW r \in Registers, NEW c \in Command
  PROVE  SourceWords(r, c) \subseteq Word
<1>1. r.reg[c.sc] \in Word /\ c.bit \in Bit
  BY DEF Registers, Command
<1>. QED
  BY <1>1, StepsFit DEF SourceWords

\* The four functions leave registers of the right kind.
LEMMA InitiateFits ==
  ASSUME NEW r \in Registers, NEW c \in Command
  PROVE  AloInitiate(r, c) \in Registers
<1>1. PICK n, x, u, w : /\ n = AloInitiate(r, c) /\ x = r.reg[c.sc]
                        /\ u = BitResult(c.op, x, c.bit) /\ w = SourceStep(c.op, x)
  OBVIOUS
<1>. SUFFICES n \in Registers
  BY <1>1
<1>2. /\ x \in Word /\ c.sc \in Reg /\ c.bit \in Bit /\ r.flag \in BOOLEAN
      /\ c.op \in Op
  BY <1>1 DEF Registers, Command
<1>3. u \in Word /\ w \in Word
  BY <1>1, <1>2, StepsFit
<1>4. /\ BitOps \cap (SourceOps \cup ReplyOps \cup {"RD", "SWAP", "WR"}) = {}
      /\ SourceOps \cap (ReplyOps \cup {"RD", "SWAP", "WR"}) = {}
  BY DEF BitOps, SourceOps, ReplyOps
<1>5. CASE ~Initiable(r, c) \/ c.op = "WR"
  <2>1. n = [r EXCEPT !.pend = "none"]
    BY <1>1, <1>5 DEF AloInitiate, BitOps, SourceOps, ReplyOps
  <2>. QED
    BY <1>2, <1>3, <2>1 DEF Registers
<1>6. CASE Initiable(r, c) /\ c.op # "WR"
  <2>1. c.op \in BitOps \/ c.op \in SourceOps \/ c.op \in ReplyOps \cup {"RD", "SWAP"}
    BY <1>2, <1>6 DEF Op, CondOps, Initiable
  <2>2. CASE c.op \in BitOps
    <3>1. n = [r EXCEPT !.buf = u, !.pend = "own", !.dst = c.sc]
      BY <1>1, <1>4, <1>6, <2>2 DEF AloInitiate
    <3>. QED
      BY <1>2, <1>3, <3>1 DEF Registers
  <2>3. CASE c.op \in SourceOps
    <3>1. n = [r EXCEPT !.buf = w, !.pend = "own", !.dst = c.sc]
      BY <1>1, <1>4, <1>6, <2>3 DEF AloInitiate
    <3>. QED
      BY <1>2, <1>3, <3>1 DEF Registers
  <2>4. CASE c.op \in ReplyOps \cup {"RD", "SWAP"}
    <3>1. n = [r EXCEPT !.pend = "reply", !.dst = c.sc]
      BY <1>1, <1>4, <1>6, <2>4 DEF AloInitiate
    <3>. QED
      BY <1>2, <1>3, <3>1 DEF Registers
  <2>. QED
    BY <2>1, <2>2, <2>3, <2>4
<1>. QED
  BY <1>5, <1>6

LEMMA ExecFits ==
  ASSUME NEW r \in Registers, NEW c \in Command, NEW v \in Word
  PROVE  AloExec(r, c, v) \in Registers
<1>1. PICK n, d, y, u, w : /\ n = AloExec(r, c, v) /\ d = WireDt(c.dt) /\ y = r.reg[d]
                           /\ u = BitResult(c.op, y, c.bit)
                           /\ w = DestinationStep(c.op, y, v)
  OBVIOUS
<1>. SUFFICES n \in Registers
  BY <1>1
<1>2. d \in Reg
  <2>1. c.dt \in Reg /\ RegCount \in Nat \ {0}
    BY RegCountAssumption DEF Command
  <2>. QED
    BY <1>1, <2>1 DEF WireDt, Reg
<1>3. y \in Word /\ c.bit \in Bit /\ c.op \in Op
  BY <1>1, <1>2 DEF Registers, Command
<1>4. u \in Word
  BY <1>1, <1>3, StepsFit
<1>5. /\ BitOps \cap (SourceOps \cup ReplyOps \cup {"RD", "SWAP", "WR"}) = {}
      /\ (SourceOps \cup ReplyOps) \cap {"RD", "SWAP", "WR"} = {}
  BY DEF BitOps, SourceOps, ReplyOps
<1>6. CASE ~Executable(r, c, v)
  <2>1. n = IF c.op \in BitOps THEN [r EXCEPT !.flag = FALSE, !.pend = "none", !.ret = v]
            ELSE [r EXCEPT !.flag = FALSE, !.pend = "none"]
    BY <1>1, <1>6 DEF AloExec
  <2>. QED
    BY <1>2, <2>1 DEF Registers
<1>7. CASE Executable(r, c, v) /\ c.op = "RD"
  <2>1. n = [r EXCEPT !.flag = TRUE, !.ret = y, !.pend = "none"]
    BY <1>1, <1>5, <1>7 DEF AloExec
  <2>. QED
    BY <1>2, <1>3, <2>1 DEF Registers
<1>8. CASE Executable(r, c, v) /\ c.op # "RD"
  <2>1. \/ c.op \in BitOps \/ c.op \in SourceOps \cup ReplyOps \cup {"WR"}
        \/ c.op = "SWAP"
    BY <1>3, <1>8 DEF Op, CondOps, Executable
  <2>2. CASE c.op = "SWAP"
    <3>1. n = [r EXCEPT !.flag = TRUE, !.pend = "own", !.dst = d, !.ret = y, !.buf = v]
      BY <1>1, <1>5, <1>8, <2>2 DEF AloExec
    <3>. QED
      BY <1>2, <1>3, <3>1 DEF Registers
  <2>3. CASE c.op \in BitOps
    <3>1. n = [r EXCEPT !.flag = TRUE, !.pend = "own", !.dst = d, !.ret = v, !.buf = u]
      BY <1>1, <1>5, <1>8, <2>3 DEF AloExec
    <3>. QED
      BY <1>2, <1>4, <3>1 DEF Registers
  <2>4. CASE c.op \in SourceOps \cup ReplyOps \cup {"WR"}
    <3>1. n = [r EXCEPT !.flag = TRUE, !.pend = "own", !.dst = d, !.ret = w, !.buf = w]
      BY <1>1, <1>5, <1>8, <2>4 DEF AloExec
    <3>2. w \in Word
      BY <1>1, <1>3, <2>4, StepsFit
    <3>. QED
      BY <1>2, <3>1, <3>2 DEF Registers
  <2>. QED
    BY <2>1, <2>2, <2>3, <2>4
<1>. QED
  BY <1>6, <1>7, <1>8

LEMMA CommitFits ==
  ASSUME NEW r \in Registers, NEW v \in Word, NEW status
  PROVE  /\ AloComplete(r, status, v) \in Registers
         /\ AloUpdate(r, status) \in Registers
<1>1. ASSUME NEW w \in Word PROVE Commit(r, w) \in Registers
  BY DEF Commit, Registers
<1>2. /\ [r EXCEPT !.pend = "none"] \in Registers
      /\ [r EXCEPT !.pend = "none", !.changed = {}] \in Registers /\ r.buf \in Word
  BY DEF Registers
<1>3. AloComplete(r, status, v) \in Registers
  BY <1>1, <1>2 DEF AloComplete
<1>4. AloUpdate(r, status) \in Registers
  BY <1>1, <1>2 DEF AloUpdate
<1>. QED
  BY <1>3, <1>4

\* The words of the packets towards s.
CarriesWords(s) == \A i \in DOMAIN load[s] : load[s][i].word \in Word

LEMMA SendFits ==
  ASSUME IInv, AloInv, AloTypeOK, NEW s \in Side, AloSend(s)
  PROVE  /\ alo' \in [Side -> Registers] /\ cmd' \in [Side -> Commands \cup {NoCommand}]
         /\ \A t \in Side : CarriesWords(t)'
<1>. DEFINE q == Peer(s)
<1>1. PICK c \in IF Initiating(s) THEN Commands ELSE {NoCommand} :
        /\ cmd' = IF mcn'[s].state = "RAL" /\ mcn[s].state # "RAL"
                  THEN [cmd EXCEPT ![s] = c] ELSE cmd
        /\ alo' = IF Initiating(s) THEN [alo EXCEPT ![s] = AloInitiate(@, c)] ELSE alo
        /\ \E p \in Loads(s, c) :
             load' = IF chan' = chan THEN load ELSE [load EXCEPT ![q] = Append(@, p)]
  BY DEF AloSend
<1>2. PICK p \in Loads(s, c) :
        load' = IF chan' = chan THEN load ELSE [load EXCEPT ![q] = Append(@, p)]
  BY <1>1
<1>3. /\ alo \in [Side -> Registers] /\ cmd \in [Side -> Commands \cup {NoCommand}]
      /\ \A t \in Side : CarriesWords(t)
      /\ alo[s] \in Registers /\ q \in Side /\ q # s /\ \A t \in Side : t = s \/ t = q
  BY SideFacts DEF AloTypeOK, CarriesWords
<1>4. Initiating(s) => c \in Command
  BY <1>1, CommandsAssumption
<1>5. alo' \in [Side -> Registers]
  <2>1. CASE Initiating(s)
    <3>1. AloInitiate(alo[s], c) \in Registers
      BY <1>3, <1>4, <2>1, InitiateFits
    <3>. QED
      BY <1>1, <1>3, <2>1, <3>1
  <2>. QED
    BY <1>1, <1>3, <2>1
<1>6. cmd' \in [Side -> Commands \cup {NoCommand}]
  <2>1. c \in Commands \cup {NoCommand}
    BY <1>1
  <2>. QED
    BY <1>1, <1>3, <2>1
<1>7. p.word \in Word
  <2>1. CASE Initiating(s)
    <3>1. p.word \in SourceWords(alo[s], c)
      BY <2>1 DEF Loads
    <3>. QED
      BY <1>3, <1>4, <2>1, <3>1, SourceWordsFit
  <2>2. CASE ~Initiating(s)
    <3>1. p.word = alo[s].ret
      BY <2>2 DEF Loads
    <3>. QED
      BY <1>3, <3>1 DEF Registers
  <2>. QED
    BY <2>1, <2>2
<1>8. \A t \in Side : CarriesWords(t)'
  <2>1. CASE load' = load
    BY <1>3, <2>1 DEF CarriesWords
  <2>2. CASE load' # load
    <3>1. load = [t \in Side |-> load[t]] /\ load[q] \in Seq(Items(load[q]))
      BY <1>3 DEF AloInv
    <3>2. load'[q] = Append(load[q], p) /\ load'[s] = load[s]
      BY <1>2, <1>3, <2>2, <3>1
    <3>3. PICK t : t = Append(load[q], p)
      OBVIOUS
    <3>4. /\ t \in Seq(Items(t)) /\ Len(t) = Len(load[q]) + 1 /\ t[Len(load[q]) + 1] = p
          /\ \A i \in 1 .. Len(load[q]) : t[i] = load[q][i]
      BY <3>1, <3>3, LoadAppend
    <3>5. DOMAIN t = 1 .. Len(load[q]) + 1 /\ DOMAIN load[q] = 1 .. Len(load[q])
          /\ Len(load[q]) \in Nat
      BY <3>1, <3>4, LenProperties
    <3>6. \A i \in DOMAIN t : t[i].word \in Word
      <4>. SUFFICES ASSUME NEW i \in DOMAIN t PROVE t[i].word \in Word
        OBVIOUS
      <4>1. CASE i \in 1 .. Len(load[q])
        BY <1>3, <3>4, <3>5, <4>1 DEF CarriesWords
      <4>2. CASE i = Len(load[q]) + 1
        BY <1>7, <3>4, <4>2
      <4>. QED
        BY <3>5, <4>1, <4>2
    <3>7. CarriesWords(q)'
      BY <3>2, <3>3, <3>6 DEF CarriesWords
    <3>8. CarriesWords(s)'
      BY <1>3, <3>2 DEF CarriesWords
    <3>. QED
      BY <1>3, <3>7, <3>8
  <2>. QED
    BY <2>1, <2>2
<1>. QED
  BY <1>5, <1>6, <1>8

LEMMA TakenFits ==
  ASSUME IInv', AloInv, AloInv', AloTypeOK, NEW s \in Side, Taken(s)
  PROVE  \A t \in Side : CarriesWords(t)'
<1>. DEFINE q == Peer(s)
<1>1. /\ q \in Side /\ \A t \in Side : t = s \/ t = q
      /\ CarriesWords(s) /\ CarriesWords(q) /\ load'[q] = load[q]
  BY SideFacts DEF AloTypeOK, CarriesWords, Taken
<1>2. CarriesWords(q)'
  BY <1>1 DEF CarriesWords
<1>3. CarriesWords(s)'
  <2>1. DOMAIN load[s] = 1 .. Len(load[s]) /\ Len(load[s]) = Len(chan[s])
    <3>1. load[s] \in Seq(Items(load[s])) /\ Len(load[s]) = Len(chan[s])
      BY DEF AloInv
    <3>. QED
      BY <3>1, LenProperties
  <2>2. DOMAIN load'[s] = 1 .. Len(load'[s]) /\ Len(load'[s]) = Len(chan'[s])
    <3>1. load'[s] \in Seq(Items(load'[s])) /\ Len(load'[s]) = Len(chan'[s])
      BY DEF Taken
    <3>2. PICK t : t = load'[s]
      OBVIOUS
    <3>3. DOMAIN t = 1 .. Len(t)
      BY <3>1, <3>2, LenProperties
    <3>. QED
      BY <3>1, <3>2, <3>3
  <2>3. Places(s)' = 1 .. Len(chan'[s]) /\ Places(s) = 1 .. Len(chan[s])
    BY DEF Places
  <2>4. \A i \in DOMAIN load'[s] : i + 1 \in DOMAIN load[s] /\ load'[s][i] = load[s][i + 1]
    BY <2>1, <2>2, <2>3 DEF Taken
  <2>. QED
    BY <1>1, <2>4 DEF CarriesWords
<1>. QED
  BY <1>1, <1>2, <1>3

LEMMA ReceiveFits ==
  ASSUME IInv, IInv', AloInv, AloTypeOK, NEW s \in Side, AloReceive(s)
  PROVE  alo' \in [Side -> Registers] /\ cmd' \in [Side -> Commands \cup {NoCommand}]
<1>. DEFINE q == Peer(s)
<1>1. /\ Elsewhere(q) /\ alo' = [t \in Side |-> alo'[t]]
      /\ Executes(s) \/ Completes(s) \/ Finishes(s) \/ Rests(s)
  BY ReceiveSteps
<1>2. /\ alo[s] \in Registers /\ alo[q] \in Registers /\ q \in Side
      /\ \A t \in Side : t = s \/ t = q
      /\ cmd \in [Side -> Commands \cup {NoCommand}]
  BY SideFacts DEF AloTypeOK
<1>3. cmd' \in [Side -> Commands \cup {NoCommand}]
  BY <1>2 DEF AloReceive
<1>4. alo'[s] \in Registers
  <2>1. CASE Executes(s)
    <3>1. PICK v \in SourceWords(alo[q], cmd[q]) : alo'[s] = AloExec(alo[s], cmd[q], v)
      BY <2>1 DEF Executes
    <3>2. cmd[q] \in Command
      <4>1. mcn[q].state = "RAL" /\ Initiated(q)
        BY <1>2, <2>1 DEF Executes, AloInv
      <4>. QED
        BY <4>1, CommandsAssumption DEF Initiated
    <3>3. v \in Word
      BY <1>2, <3>2, SourceWordsFit
    <3>. QED
      BY <1>2, <3>1, <3>2, <3>3, ExecFits
  <2>2. CASE Completes(s)
    <3>1. alo'[s] = AloComplete(alo[s], alo[q].flag, alo[q].ret)
      BY <2>2 DEF Completes
    <3>2. alo[q].ret \in Word
      BY <1>2 DEF Registers
    <3>. QED
      BY <1>2, <3>1, <3>2, CommitFits
  <2>3. CASE Finishes(s)
    <3>1. alo'[s] = AloUpdate(alo[s], TRUE)
      BY <2>3 DEF Finishes
    <3>2. alo[s].buf \in Word
      BY <1>2 DEF Registers
    <3>. QED
      BY <1>2, <3>1, <3>2, CommitFits
  <2>4. CASE Rests(s)
    BY <1>2, <2>4 DEF Rests
  <2>. QED
    BY <1>1, <2>1, <2>2, <2>3, <2>4
<1>5. alo'[q] \in Registers
  BY <1>1, <1>2 DEF Elsewhere
<1>. QED
  BY <1>1, <1>2, <1>3, <1>4, <1>5

\* Whatever is computed and sent, a register, a buffer and a word on the wire
\* stay within the width of a register: alo_initiate and alo_exec wrap their
\* sums, and a bit operation changes a bit the register has.
THEOREM RegistersFit == AloSpec => []AloTypeOK
<1>1. AloInit /\ IInv /\ AloInv => AloTypeOK
  <2>. SUFFICES ASSUME AloInit, AloInv PROVE AloTypeOK
    OBVIOUS
  <2>1. /\ alo \in [Side -> Registers] /\ cmd \in [Side -> Commands \cup {NoCommand}]
        /\ \A s \in Side : load[s] = <<>>
    BY DEF AloInit
  <2>2. \A s \in Side : Len(load[s]) = Len(chan[s])
    BY DEF AloInv
  <2>. QED
    BY <2>1, <2>2 DEF AloTypeOK
<1>2. IInv /\ IInv' /\ AloInv /\ AloInv' /\ AloTypeOK /\ [AloNext]_aloVars => AloTypeOK'
  <2>. SUFFICES ASSUME IInv, IInv', AloInv, AloInv', AloTypeOK, [AloNext]_aloVars
       PROVE  AloTypeOK'
    OBVIOUS
  <2>1. /\ alo \in [Side -> Registers] /\ cmd \in [Side -> Commands \cup {NoCommand}]
        /\ \A t \in Side : CarriesWords(t)
        /\ \A t \in Side : Len(load'[t]) = Len(chan'[t])
    BY DEF AloTypeOK, CarriesWords, AloInv
  <2>2. SUFFICES /\ alo' \in [Side -> Registers]
                 /\ cmd' \in [Side -> Commands \cup {NoCommand}]
                 /\ \A t \in Side : CarriesWords(t)'
    BY <2>1, <2>2 DEF AloTypeOK, CarriesWords
  <2>3. ASSUME NEW s \in Side, AloOffer(s) \/ UNCHANGED aloVars
        PROVE  alo' = alo /\ cmd' = cmd /\ load' = load
    BY <2>3 DEF AloOffer, aloVars
  <2>4. CASE alo' = alo /\ cmd' = cmd /\ load' = load
    BY <2>1, <2>4 DEF CarriesWords
  <2>5. ASSUME NEW s \in Side, AloReceive(s)
        PROVE  /\ alo' \in [Side -> Registers]
               /\ cmd' \in [Side -> Commands \cup {NoCommand}]
               /\ \A t \in Side : CarriesWords(t)'
    <3>1. Taken(s)
      BY <2>5, ReceiveSteps
    <3>. QED
      BY <2>5, <3>1, ReceiveFits, TakenFits
  <2>6. ASSUME NEW s \in Side, AloLose(s)
        PROVE  /\ alo' \in [Side -> Registers]
               /\ cmd' \in [Side -> Commands \cup {NoCommand}]
               /\ \A t \in Side : CarriesWords(t)'
    <3>1. Taken(s) /\ alo' = alo /\ cmd' = cmd
      BY <2>6, AloLoseSteps DEF AloLose
    <3>. QED
      BY <2>1, <3>1, TakenFits
  <2>. QED
    BY <2>3, <2>4, <2>5, <2>6, SendFits, SideFacts DEF AloNext
<1>. QED
  BY <1>1, <1>2, AloInvariance, PTL DEF AloSpec
==============================================================================
