--------------------------- MODULE ReorderRingProofs ---------------------------
(***************************************************************************)
(* The reorder ring serves packets alone and in order of arrival, whatever *)
(* the number of contexts and packets, if it has a word for each context.  *)
(***************************************************************************)
EXTENDS ReorderRing, FunctionTheorems, FiniteSetTheorems, TLAPS

\* Two numbers of one window of RingSize numbers do not share a word.
LEMMA SameWord ==
  ASSUME NEW m \in Nat, NEW n \in Nat, m <= n, n < m + RingSize, Word(m) = Word(n)
  PROVE  m = n
<1>1. RingSize \in Nat \ {0}
  BY RingAssumption
<1> DEFINE R == RingSize
           a == m \div R
           b == n \div R
<1>2. /\ a \in Int /\ b \in Int
      /\ m = R * a + (m % R)
      /\ n = R * b + (n % R)
  BY <1>1, SMT
<1>3. n - m = R * b - R * a
  BY <1>2, <1>1 DEF Word
<1> HIDE DEF a, b
<1>4. ~(b > a)
  <2>1. SUFFICES ASSUME b >= a + 1 PROVE FALSE
    BY <1>2
  <2>2. R * b >= R * (a + 1)
    BY <2>1, <1>1, <1>2, SMT
  <2>3. R * (a + 1) = R * a + R
    BY <1>1, <1>2, SMT
  <2>. QED
    BY <2>2, <2>3, <1>3, <1>1, <1>2, SMT
<1>5. ~(b < a)
  <2>1. SUFFICES ASSUME a >= b + 1 PROVE FALSE
    BY <1>2
  <2>2. R * a >= R * (b + 1)
    BY <2>1, <1>1, <1>2, SMT
  <2>3. R * (b + 1) = R * b + R
    BY <1>1, <1>2, SMT
  <2>. QED
    BY <2>2, <2>3, <1>3, <1>1, <1>2, SMT
<1>6. a = b
  BY <1>4, <1>5, <1>2
<1>. QED
  BY <1>6, <1>2, <1>1 DEF Word

\* No more packets are under way than there are contexts to hold them.
LEMMA Window ==
  ASSUME IInv, EnoughWords
  PROVE  arrived <= head + RingSize
<1> DEFINE W == head .. arrived - 1
           f == [n \in W |-> CHOOSE c \in Contexts : pc[c] # "idle" /\ seq[c] = n]
<1>1. /\ head \in Nat /\ arrived \in Nat
      /\ RingSize \in Nat
      /\ IsFiniteSet(Contexts)
  BY RingAssumption DEF IInv, TypeOK
<1>2. \A n \in W : f[n] \in Contexts /\ seq[f[n]] = n
  BY DEF IInv, Covered
<1>3. f \in Injection(W, Contexts)
  BY <1>2, Fun_IsInj
<1>4. Cardinality(W) <= Cardinality(Contexts)
  BY <1>3, <1>1, FS_Injection
<1>5. Cardinality(W) = IF head > arrived - 1 THEN 0 ELSE arrived - head
  BY <1>1, FS_Interval
<1>6. Cardinality(Contexts) \in Nat
  BY <1>1, FS_CardinalityType
<1> HIDE DEF W
<1>. QED
  BY <1>1, <1>4, <1>5, <1>6 DEF EnoughWords

LEMMA InitIInv == Init => IInv
BY RingAssumption
   DEF Init, IInv, TypeOK, Covered, InWindow, OneEach, HeadInside, WordsMatch, SignalsMatchWaiters, Word

LEMMA ReceiveIInv ==
  ASSUME IInv, NEW c \in Contexts, Receive(c)
  PROVE  IInv'
<1> USE RingAssumption DEF Receive, IInv
<1>1. TypeOK'
  BY DEF TypeOK
<1>2. Covered'
  BY DEF TypeOK, Covered
<1>3. InWindow'
  BY DEF TypeOK, InWindow
<1>4. OneEach'
  BY DEF TypeOK, OneEach, InWindow
<1>5. HeadInside'
  BY DEF TypeOK, HeadInside
<1>6. SignalsMatchWaiters'
  BY DEF TypeOK, SignalsMatchWaiters, Word
<1>7. WordsMatch'
  BY DEF TypeOK, WordsMatch, SignalsMatchWaiters, Word
<1>. QED
  BY <1>1, <1>2, <1>3, <1>4, <1>5, <1>6, <1>7

LEMMA WordOfHead ==
  ASSUME IInv, EnoughWords, NEW c \in Contexts, pc[c] # "idle", Word(seq[c]) = Word(head)
  PROVE  seq[c] = head
<1>1. arrived <= head + RingSize
  BY Window
<1>2. /\ head \in Nat /\ arrived \in Nat /\ RingSize \in Nat
      /\ seq[c] \in Nat /\ head <= seq[c] /\ seq[c] < arrived
  BY RingAssumption DEF IInv, TypeOK, InWindow
<1>. QED
  BY <1>1, <1>2, SameWord

LEMMA WordOfNext ==
  ASSUME IInv, EnoughWords, NEW c \in Contexts, pc[c] # "idle", seq[c] # head,
         Word(seq[c]) = Word(head + 1)
  PROVE  seq[c] = head + 1
<1>1. arrived <= head + RingSize
  BY Window
<1>2. /\ head \in Nat /\ arrived \in Nat /\ RingSize \in Nat
      /\ seq[c] \in Nat /\ head <= seq[c] /\ seq[c] < arrived
  BY RingAssumption DEF IInv, TypeOK, InWindow
<1>. QED
  BY <1>1, <1>2, SameWord

\* Two contexts that hold packets do not share a word.
LEMMA DifferentWords ==
  ASSUME IInv, EnoughWords, NEW c \in Contexts, NEW d \in Contexts,
         pc[c] # "idle", pc[d] # "idle", Word(seq[c]) = Word(seq[d])
  PROVE  c = d
<1>1. arrived <= head + RingSize
  BY Window
<1>2. /\ head \in Nat /\ arrived \in Nat /\ RingSize \in Nat
      /\ seq[c] \in Nat /\ head <= seq[c] /\ seq[c] < arrived
      /\ seq[d] \in Nat /\ head <= seq[d] /\ seq[d] < arrived
  BY RingAssumption DEF IInv, TypeOK, InWindow
<1>3. seq[c] = seq[d]
  <2>1. CASE seq[c] <= seq[d]
    BY <2>1, <1>1, <1>2, SameWord
  <2>2. CASE seq[d] <= seq[c]
    BY <2>2, <1>1, <1>2, SameWord
  <2>. QED
    BY <2>1, <2>2, <1>2
<1>. QED
  BY <1>3 DEF IInv, OneEach

LEMMA EnterIInv ==
  ASSUME IInv, EnoughWords, NEW c \in Contexts, Enter(c)
  PROVE  IInv'
<1>1. seq[c] = head
  BY WordOfHead DEF Enter
<1> USE RingAssumption DEF Enter, IInv
<1>2. TypeOK'
  BY DEF TypeOK
<1>3. Covered' /\ InWindow' /\ OneEach'
  BY DEF TypeOK, Covered, InWindow, OneEach
<1>4. HeadInside'
  BY <1>1 DEF TypeOK, HeadInside
<1>5. SignalsMatchWaiters' /\ WordsMatch'
  BY DEF TypeOK, SignalsMatchWaiters, WordsMatch, Word
<1>. QED
  BY <1>2, <1>3, <1>4, <1>5

LEMMA WaitIInv ==
  ASSUME IInv, EnoughWords, NEW c \in Contexts, Wait(c)
  PROVE  IInv'
<1>1. Word(seq[c]) \in 0 .. RingSize - 1
  BY RingAssumption DEF IInv, TypeOK, Word
<1>2. \A d \in Contexts : pc[d] # "idle" /\ d # c => Word(seq[d]) # Word(seq[c])
  BY DifferentWords DEF Wait
<1>3. seq[c] # head
  BY DEF Wait
<1> USE RingAssumption DEF Wait, IInv
<1>4. TypeOK'
  BY <1>1 DEF TypeOK
<1>5. Covered' /\ InWindow' /\ OneEach'
  BY DEF TypeOK, Covered, InWindow, OneEach
<1>6. HeadInside'
  BY <1>3 DEF TypeOK, HeadInside
<1>7. word[Word(seq[c])] = None
  BY <1>1, <1>2 DEF TypeOK, SignalsMatchWaiters, WordsMatch
<1>8. SignalsMatchWaiters'
  BY <1>1, <1>2, <1>7 DEF TypeOK, SignalsMatchWaiters, Word
<1>9. WordsMatch'
  BY <1>1 DEF TypeOK, WordsMatch, Word
<1>. QED
  BY <1>4, <1>5, <1>6, <1>8, <1>9

LEMMA UnlockIInv ==
  ASSUME IInv, EnoughWords, NEW c \in Contexts, reorder_unlock(c)
  PROVE  IInv'
<1> DEFINE next == Word(head + 1)
<1>1. seq[c] = head /\ pc[c] = "inside" /\ head \in Nat /\ head < arrived
  <2>1. pc[c] = "inside" /\ seq[c] = head
    BY DEF reorder_unlock, IInv, HeadInside
  <2>2. head \in Nat /\ arrived \in Nat
    BY RingAssumption DEF IInv, TypeOK
  <2>3. seq[c] \in head .. arrived - 1
    BY <2>1 DEF IInv, InWindow
  <2>. QED
    BY <2>1, <2>2, <2>3
<1>2. next \in 0 .. RingSize - 1
  BY <1>1, RingAssumption DEF Word
<1>3. \A d \in Contexts : pc[d] # "idle" /\ d # c => seq[d] # head
  BY <1>1 DEF IInv, OneEach
<1>4. \A d \in Contexts : pc[d] = "waiting" =>
          (d = word[next] <=> seq[d] = head + 1)
  <2> SUFFICES ASSUME NEW d \in Contexts, pc[d] = "waiting"
               PROVE  d = word[next] <=> seq[d] = head + 1
    OBVIOUS
  <2>1. word[Word(seq[d])] = d /\ seq[d] # head
    BY DEF IInv, SignalsMatchWaiters, HeadInside
  <2>2. ASSUME d = word[next] PROVE seq[d] = head + 1
    <3>1. Word(seq[d]) = next
      BY <1>2, <2>2, RingAssumption DEF IInv, TypeOK, WordsMatch
    <3>. QED
      BY <2>1, <3>1, WordOfNext
  <2>3. ASSUME seq[d] = head + 1 PROVE d = word[next]
    BY <2>1, <2>3
  <2>. QED
    BY <2>2, <2>3
<1>5. \A d \in Contexts : d = word[next] => pc[d] = "waiting" /\ d # c
  BY <1>1, <1>2, RingAssumption DEF IInv, SignalsMatchWaiters, TypeOK
<1> HIDE DEF next
<1>6. pc' = [d \in Contexts |-> IF d = c THEN "idle"
                               ELSE IF d = word[next] THEN "inside" ELSE pc[d]]
  BY DEF reorder_unlock, next
<1>7. /\ word' = [word EXCEPT ![next] = None]
      /\ head' = head + 1 /\ arrived' = arrived /\ seq' = [seq EXCEPT ![c] = 0]
  BY DEF reorder_unlock, next
<1> USE RingAssumption DEF IInv
<1>8. TypeOK'
  BY <1>1, <1>2, <1>6, <1>7 DEF TypeOK
<1>9. \A d \in Contexts : pc'[d] # "idle" <=> pc[d] # "idle" /\ d # c
  BY <1>5, <1>6 DEF TypeOK
<1>10. InWindow' /\ OneEach'
  BY <1>3, <1>7, <1>9, <1>1 DEF TypeOK, InWindow, OneEach
<1>11. Covered'
  <2> SUFFICES ASSUME NEW n \in head + 1 .. arrived - 1
               PROVE  \E d \in Contexts : pc'[d] # "idle" /\ seq'[d] = n
    BY <1>7 DEF Covered
  <2>1. n \in head .. arrived - 1 /\ n # head
    BY <1>1 DEF TypeOK
  <2>2. PICK d \in Contexts : pc[d] # "idle" /\ seq[d] = n
    BY <2>1 DEF Covered
  <2>3. d # c
    BY <2>1, <2>2, <1>1
  <2>. QED
    BY <2>2, <2>3, <1>7, <1>9 DEF TypeOK
<1>12. HeadInside'
  BY <1>1, <1>3, <1>4, <1>5, <1>6, <1>7 DEF TypeOK, HeadInside
<1>13. SignalsMatchWaiters'
  <2>1. ASSUME NEW d \in Contexts, pc'[d] = "waiting"
        PROVE  word'[Word(seq'[d])] = d
    <3>1. pc[d] = "waiting" /\ d # c /\ d # word[next] /\ seq'[d] = seq[d]
      BY <2>1, <1>6, <1>7 DEF TypeOK
    <3>2. word[Word(seq[d])] = d
      BY <3>1 DEF SignalsMatchWaiters
    <3>3. Word(seq[d]) \in 0 .. RingSize - 1 /\ Word(seq[d]) # next
      BY <3>1, <3>2 DEF TypeOK, Word
    <3>. QED
      BY <3>1, <3>2, <3>3, <1>7 DEF TypeOK, Word
  <2>2. ASSUME NEW w \in DOMAIN word', word'[w] # None
        PROVE  pc'[word'[w]] = "waiting"
    <3>1. w \in 0 .. RingSize - 1 /\ w # next /\ word'[w] = word[w]
      BY <2>2, <1>2, <1>7 DEF TypeOK
    <3>2. pc[word[w]] = "waiting" /\ word[w] \in Contexts
      BY <2>2, <3>1 DEF SignalsMatchWaiters, TypeOK
    <3>3. word[w] # c /\ word[w] # word[next]
      BY <1>1, <1>2, <3>1, <3>2 DEF TypeOK, WordsMatch
    <3>. QED
      BY <3>1, <3>2, <3>3, <1>6
  <2>. QED
    BY <2>1, <2>2 DEF SignalsMatchWaiters, Word
<1>14. WordsMatch'
  <2> SUFFICES ASSUME NEW w \in 0 .. RingSize - 1, word'[w] # None
               PROVE  Word(seq'[word'[w]]) = w
    BY <1>2, <1>7 DEF TypeOK, WordsMatch, Word
  <2>1. w # next /\ word'[w] = word[w]
    BY <1>2, <1>7 DEF TypeOK
  <2>2. word[w] \in Contexts /\ word[w] # c /\ Word(seq[word[w]]) = w
    BY <2>1, <1>1 DEF TypeOK, SignalsMatchWaiters, WordsMatch
  <2>. QED
    BY <2>1, <2>2, <1>7 DEF TypeOK
<1>. QED
  BY <1>8, <1>10, <1>11, <1>12, <1>13, <1>14

LEMMA StepIInv == IInv /\ EnoughWords /\ [Next]_vars => IInv'
<1> SUFFICES ASSUME IInv, EnoughWords, [Next]_vars PROVE IInv'
  OBVIOUS
<1>1. CASE UNCHANGED vars
  BY <1>1 DEF vars, IInv, TypeOK, Covered, InWindow, OneEach, HeadInside, WordsMatch,
              SignalsMatchWaiters, Word
<1>2. ASSUME NEW c \in Contexts, Receive(c) PROVE IInv'
  BY <1>2, ReceiveIInv
<1>3. ASSUME NEW c \in Contexts, reorder_lock(c) PROVE IInv'
  BY <1>3, EnterIInv, WaitIInv DEF reorder_lock
<1>4. ASSUME NEW c \in Contexts, reorder_unlock(c) PROVE IInv'
  BY <1>4, UnlockIInv
<1>. QED
  BY <1>1, <1>2, <1>3, <1>4 DEF Next

LEMMA IInvImplies == IInv => OldestAlone
<1> SUFFICES ASSUME IInv, NEW c \in Contexts, NEW d \in Contexts,
                    pc[c] = "inside", pc[d] # "idle", c # d
             PROVE  pc[d] # "inside" /\ seq[c] < seq[d]
  BY DEF OldestAlone
<1>1. seq[c] = head /\ (pc[d] = "inside" => seq[d] = head)
  BY DEF IInv, HeadInside
<1>2. seq[d] # seq[c]
  BY DEF IInv, OneEach
<1>3. seq[d] \in head .. arrived - 1 /\ head \in Nat /\ arrived \in Nat
  BY RingAssumption DEF IInv, InWindow, TypeOK
<1>. QED
  BY <1>1, <1>2, <1>3

\* The numbers between the head and the last arrival stay one context's each,
\* through every lock and unlock: why the ring of cls_reorder.c works.
THEOREM RingInvariance ==
  ASSUME EnoughWords
  PROVE  Spec => []IInv
<1>1. IInv /\ [Next]_vars => IInv'
  BY StepIInv
<1>. QED
  BY InitIInv, <1>1, PTL DEF Spec

\* With a word for every context, the region between reorder_lock and
\* reorder_unlock is entered by one packet at a time, oldest first.
THEOREM OrderedExclusion ==
  ASSUME EnoughWords
  PROVE  Spec => []OldestAlone
BY IInvImplies, RingInvariance, PTL

\* With a word for every context, reorder_unlock never loses the signal of a
\* context that waits, nor signals one that does not.
THEOREM SignalsKept ==
  ASSUME EnoughWords
  PROVE  Spec => []SignalsMatchWaiters
<1>1. IInv => SignalsMatchWaiters
  BY DEF IInv
<1>. QED
  BY <1>1, RingInvariance, PTL
=============================================================================
