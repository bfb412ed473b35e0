---------------------------- MODULE AtomicRegisters ----------------------------
(***************************************************************************)
(* What atomic link operations promise: two sets of registers, and commands *)
(* that change the registers they name at both ends in one step, or none   *)
(* of them if the operation's condition does not hold.                     *)
(***************************************************************************)
EXTENDS AtomicLinkOp

CONSTANTS
  A, B,          \* the two ends
  Commands,      \* the commands they may give
  None

VARIABLES
  regs,     \* regs[s][r]: register r of end s
  todo      \* todo[s]: the command end s has given, or None

registerVars == <<regs, todo>>

Ends == {A, B}
Other(s) == IF s = A THEN B ELSE A

\* The words of source and destination after c, from those before it.
Sum(x, y) == (x + y) % Size
Difference(x, y) == (x - y) % Size

After(c, x, y) ==
  CASE c.op = "ADD" -> <<Sum(x, y), Sum(x, y)>>
    [] c.op = "SUBS" -> <<Difference(y, x), Difference(y, x)>>
    [] c.op = "SUBD" -> <<Difference(x, y), Difference(x, y)>>
    [] c.op = "AND" -> <<BitAnd(x, y), BitAnd(x, y)>>
    [] c.op = "OR" -> <<BitOr(x, y), BitOr(x, y)>>
    [] c.op = "INC" -> <<Sum(x, 1), Sum(y, 1)>>
    [] c.op = "DEC" -> <<Difference(x, 1), Difference(y, 1)>>
    [] c.op = "INCS" -> <<Sum(x, 1), Sum(x, 1)>>
    [] c.op = "DECS" -> <<Difference(x, 1), Difference(x, 1)>>
    [] c.op = "INCD" -> <<Sum(y, 1), Sum(y, 1)>>
    [] c.op = "DECD" -> <<Difference(y, 1), Difference(y, 1)>>
    [] c.op = "RD" -> <<y, y>>
    [] c.op = "WR" -> <<x, x>>
    [] c.op = "SWAP" -> <<y, x>>
    [] c.op \in BitOps -> <<BitResult(c.op, x, c.bit), BitResult(c.op, y, c.bit)>>

May(c, x, y) ==
  /\ c.op # "BAD"
  /\ c.op \in CondOps => Condition(c.cond, y, x)
  /\ BitTest(c.op, x, c.bit) /\ BitTest(c.op, y, c.bit)

Issue(s, c) ==
  /\ todo[s] = None
  /\ todo' = [todo EXCEPT ![s] = c]
  /\ UNCHANGED regs

Do(s) ==
  LET c == todo[s]
      x == regs[s][c.sc]
      y == regs[Other(s)][c.dt]
  IN
  /\ c # None
  /\ regs' = IF May(c, x, y)
             THEN [regs EXCEPT ![s][c.sc] = After(c, x, y)[1],
                               ![Other(s)][c.dt] = After(c, x, y)[2]]
             ELSE regs
  /\ todo' = [todo EXCEPT ![s] = None]

Init == regs \in [Ends -> [Reg -> Word]] /\ todo = [s \in Ends |-> None]
Next == \E s \in Ends : Do(s) \/ \E c \in Commands : Issue(s, c)
Spec == Init /\ [][Next]_registerVars
=============================================================================
