--------------------------- MODULE PadStoreProofs ---------------------------
(***************************************************************************)
(* Theorems about one copy of a pair, for every value of the constants.    *)
(***************************************************************************)
EXTENDS PadStore, TLAPS

-----------------------------------------------------------------------------
(* Lemmas about the operators the actions are built from.                  *)

LEMMA AnyDirIsDir == AnyDir \in Dirs
BY SizesAreNatural DEF AnyDir

LEMMA NoAttemptsType == NoAttempts \in [Records -> Nat]
BY DEF NoAttempts

LEMMA IdleType == Idle \in Op /\ Idle.phase = "idle"
<1>1. FreshHead \in Head
  BY NoAttemptsType DEF FreshHead, Head
<1>2. InitLine \in Line
  BY DEF InitLine, Line, LineOps
<1>3. NoMark \in Mark
  BY DEF NoMark, Mark
<1> QED
  BY <1>1, <1>2, <1>3, AnyDirIsDir DEF Idle, Op, Phases, Kinds

LEMMA BumpType ==
  ASSUME NEW S, NEW f \in [S -> Nat], NEW x
  PROVE  [f EXCEPT ![x] = @ + 1] \in [S -> Nat]
<1>1. CASE x \in S
  BY <1>1
<1>2. CASE x \notin S
  <2> DEFINE e == f[x] + 1
  <2>1. [f EXCEPT ![x] = e] \in [S -> Nat]
    <3> HIDE DEF e
    <3> QED BY <1>2
  <2> QED
    BY <2>1
<1> QED
  BY <1>1, <1>2

LEMMA UpdateType ==
  ASSUME NEW S, NEW T, NEW f \in [S -> T], NEW x, NEW e \in T
  PROVE  [f EXCEPT ![x] = e] \in [S -> T]
OBVIOUS

LEMMA AdvanceHeadType ==
  ASSUME NEW h \in Head, NEW offset \in Nat, NEW sequence \in Nat,
         NEW attempts \in [Records -> Nat]
  PROVE  AdvanceHead(h, offset, sequence, attempts) \in Head
BY DEF AdvanceHead, Head

LEMMA ApplyType ==
  ASSUME NEW j \in Journal, NEW l \in Line
  PROVE  Apply(j, l) \in Journal
<1>1. Larger(j.maxOffset, l.off) \in Nat /\ Larger(j.maxSequence, l.seq) \in Nat
      /\ Larger(j.failureCount + 1, l.count) \in Nat
  BY DEF Larger, Journal, Line
<1>2. j.attempts \in [Records -> Nat]
  BY DEF Journal
<1>3. [j.attempts EXCEPT ![l.seq] = @ + 1] \in [Records -> Nat]
  BY <1>2, BumpType
<1> QED
  BY <1>1, <1>2, <1>3 DEF Apply, Journal, Line

(* A line never lowers what the journal remembers.                         *)
LEMMA ApplyGrows ==
  ASSUME NEW j \in Journal, NEW l \in Line
  PROVE  /\ Apply(j, l).maxOffset >= j.maxOffset
         /\ Apply(j, l).maxSequence >= j.maxSequence
         /\ l.op \in Advances => /\ Apply(j, l).maxOffset >= l.off
                                 /\ Apply(j, l).maxSequence >= l.seq
BY DEF Larger, Apply, Journal, Line
LEMMA ReadJournalType ==
  ASSUME TypeOK, NEW d \in Dirs
  PROVE  ReadJournal(d) \in Journal
<1>1. jrn[d] \in Journal /\ tail[d].line \in Line
  BY DEF TypeOK, Tail
<1> QED
  BY <1>1, ApplyType DEF ReadJournal

LEMMA EffectiveType ==
  ASSUME TypeOK, NEW d \in Dirs
  PROVE  Effective(d) \in [nextOffset : Nat, nextSequence : Nat,
                           attempts : [Records -> Nat], reserved : Nat,
                           failureCount : Nat, cleared : Nat]
<1> DEFINE j == ReadJournal(d)
           h == head[d]
<1>1. j \in Journal /\ h \in Head
  BY ReadJournalType DEF TypeOK
<1>2. [s \in Records |-> Larger(h.attempts[s], j.attempts[s])] \in [Records -> Nat]
  BY <1>1 DEF Journal, Head, Larger
<1>3. /\ Larger(h.failureCount, j.failureCount) \in Nat
      /\ Larger(h.cleared, j.cleared) \in Nat
  BY <1>1 DEF Journal, Head, Larger
<1> HIDE DEF j, h
<1>4. /\ h.nextOffset \in Nat /\ h.nextSequence \in Nat /\ j.reserved \in Nat
  BY <1>1 DEF Journal, Head
<1> QED
  BY <1>2, <1>3, <1>4 DEF Effective, j, h

LEMMA AppendLineType ==
  ASSUME TypeOK, NEW d \in Dirs, NEW l \in Line, AppendLine(d, l)
  PROVE  jrn' \in [Dirs -> Journal] /\ tail' \in [Dirs -> Tail]
<1>1. jrn \in [Dirs -> Journal] /\ tail \in [Dirs -> Tail] /\ jrn[d] \in Journal
  BY DEF TypeOK
<1>2. Apply(jrn[d], l) \in Journal
  BY <1>1, ApplyType
<1>3. \A k \in {"clean", "torn", "unterminated", "fused", "damaged"} :
         [kind |-> k, line |-> InitLine] \in Tail
  BY DEF Tail, Line, LineOps, InitLine
<1>4. \/ jrn' = [jrn EXCEPT ![d] = Apply(jrn[d], l)] /\ tail' = tail
      \/ jrn' = jrn /\ tail' = [tail EXCEPT ![d] = [kind |-> "fused", line |-> InitLine]]
      \/ jrn' = jrn /\ tail' = [tail EXCEPT ![d] = [kind |-> "damaged", line |-> InitLine]]
  BY DEF AppendLine
<1> QED
  BY <1>1, <1>2, <1>3, <1>4

LEMMA ClearedType ==
  ASSUME TypeOK, NEW d \in Dirs, NEW rest \in SUBSET Dirs
  PROVE  Cleared(d, rest) \in Op
<1>1. Effective(d).failureCount \in Nat
  BY EffectiveType
<1>2. head[d] \in Head
  BY DEF TypeOK
<1>3. [head[d] EXCEPT !.failureCount = Effective(d).failureCount,
                      !.cleared = Effective(d).failureCount] \in Head
  BY <1>1, <1>2 DEF Head
<1>4. [op |-> "clear-freeze", seq |-> 0, off |-> 0,
       count |-> Effective(d).failureCount] \in Line
  BY <1>1 DEF Line, LineOps
<1> QED
  BY <1>3, <1>4, IdleType DEF Cleared, Op, Phases, Kinds
-----------------------------------------------------------------------------
(* Type correctness.                                                       *)

LEMMA BeginType ==
  ASSUME TypeOK, Begin
  PROVE  TypeOK'
<1>1. ASSUME NEW newOp \in Op, Start(newOp)
      PROVE  TypeOK'
  BY <1>1 DEF TypeOK, Start, disk, past, world
<1>2. ASSUME NEW d \in Dirs, NEW len \in Lengths, Burn(d, len)
      PROVE  TypeOK'
  <2> DEFINE e == Effective(d)
  <2>1. e.nextOffset \in Nat /\ e.nextSequence \in Nat /\ e.reserved \in Nat /\ len \in Nat
    BY EffectiveType, SizesAreNatural
  <2>2. head[d] \in Head /\ head[d].attempts \in [Records -> Nat]
    BY DEF TypeOK, Head
  <2> HIDE DEF e
  <2>3. AdvanceHead(head[d], e.nextOffset + len, e.nextSequence + 1, head[d].attempts) \in Head
    <3>1. e.nextOffset + len \in Nat /\ e.nextSequence + 1 \in Nat
      BY <2>1
    <3> QED
      BY <2>2, <3>1, AdvanceHeadType
  <2>4. [op |-> "send", seq |-> e.nextSequence + 1,
         off |-> e.nextOffset + len, count |-> 0] \in Line
    BY <2>1 DEF Line, LineOps, Advances
  <2>5. [nextOffset |-> e.nextOffset + len, nextSequence |-> e.nextSequence + 1,
         reserved |-> e.reserved] \in Mark
    BY <2>1 DEF Mark
  <2>6. \E newOp \in Op : Start(newOp)
    BY <1>2, <2>1, <2>3, <2>4, <2>5, IdleType DEF Burn, Op, Phases, Kinds, e
  <2> QED
    BY <1>1, <2>6
<1>3. ASSUME NEW d \in Dirs, NEW s \in Records, NEW start \in 0 .. Capacity,
             NEW len \in Lengths, Open(d, s, start, len)
      PROVE  TypeOK'
  <2> DEFINE e == Effective(d)
  <2>1. /\ e.nextOffset \in Nat /\ e.nextSequence \in Nat /\ e.reserved \in Nat
        /\ e.failureCount \in Nat /\ e.attempts[s] \in Nat
    BY EffectiveType
  <2>2. head[d] \in Head /\ s \in Nat /\ start \in Nat /\ len \in Nat
    BY SizesAreNatural DEF TypeOK, Records
  <2> HIDE DEF e
  <2>3. [op |-> "attempt", seq |-> s, off |-> 0, count |-> 0] \in Line
    BY <2>2 DEF Line, LineOps
  <2>4. [nextOffset |-> e.nextOffset, nextSequence |-> e.nextSequence,
         reserved |-> e.reserved + 1] \in Mark
    BY <2>1 DEF Mark
  <2>5. \E newOp \in Op : Start(newOp)
    BY <1>3, <2>1, <2>2, <2>3, <2>4, IdleType DEF Open, Op, Phases, Kinds, e
  <2> QED
    BY <1>1, <2>5
<1>4. ASSUME NEW d \in Dirs, NEW sequence \in 1 .. CapacityRecords,
             NEW offset \in 0 .. Capacity, Retire(d, sequence, offset)
      PROVE  TypeOK'
  <2> DEFINE e == Effective(d)
  <2>1. e.reserved \in Nat /\ sequence \in Nat /\ offset \in Nat
    BY EffectiveType, SizesAreNatural
  <2>2. head[d] \in Head /\ Prune(head[d].attempts, sequence) \in [Records -> Nat]
    BY DEF TypeOK, Head, Prune
  <2> HIDE DEF e
  <2>3. AdvanceHead(head[d], offset, sequence, Prune(head[d].attempts, sequence)) \in Head
    BY <2>1, <2>2, AdvanceHeadType
  <2>4. [op |-> "retire", seq |-> sequence, off |-> offset, count |-> 0] \in Line
    BY <2>1 DEF Line, LineOps, Advances
  <2>5. [nextOffset |-> offset, nextSequence |-> sequence, reserved |-> e.reserved] \in Mark
    BY <2>1 DEF Mark
  <2>6. \E newOp \in Op : Start(newOp)
    BY <1>4, <2>3, <2>4, <2>5, IdleType DEF Retire, Op, Phases, Kinds, e
  <2> QED
    BY <1>1, <2>6
<1>5. ASSUME NEW d \in Dirs, ClearFreeze(d)
      PROVE  TypeOK'
  <2>1. Cleared(d, {x \in Dirs : Frozen(x)} \ {d}) \in Op
    BY ClearedType
  <2> QED
    BY <1>1, <1>5, <2>1 DEF ClearFreeze
<1> QED
  BY <1>2, <1>3, <1>4, <1>5 DEF Begin

LEMMA AdvanceType ==
  ASSUME TypeOK, NEW d \in Dirs, NEW mark \in Mark, Advance(d, mark)
  PROVE  wit' \in [Dirs -> Mark]
<1>1. wit \in [Dirs -> Mark] /\ wit[d] \in Mark
  BY DEF TypeOK
<1>2. ElementwiseMax(wit[d], mark) \in Mark
  BY <1>1 DEF ElementwiseMax, Mark, Larger
<1> QED
  BY <1>1, <1>2 DEF Advance

LEMMA RunType ==
  ASSUME TypeOK, Run
  PROVE  TypeOK'
<1> DEFINE d == op.dir
<1>1. /\ d \in Dirs /\ op.line \in Line /\ op.mark \in Mark /\ op.next \in Head
      /\ op.todo \in SUBSET Dirs /\ op \in Op
  BY DEF TypeOK, Op
<1>2. \A phase \in Phases : [op EXCEPT !.phase = phase] \in Op
  BY <1>1 DEF Op
<1>3. \A next \in Head : [head EXCEPT ![d] = next] \in [Dirs -> Head]
  BY <1>1 DEF TypeOK
<1>4. CASE ReserveAttempt \/ AppendAuthFail
  <2>1. jrn' \in [Dirs -> Journal] /\ tail' \in [Dirs -> Tail]
    BY <1>1, <1>4, AppendLineType DEF ReserveAttempt, AppendAuthFail
  <2>2. op' \in Op
    BY <1>2, <1>4 DEF ReserveAttempt, AppendAuthFail, Proceed, Phases
  <2> QED
    BY <1>4, <2>1, <2>2 DEF ReserveAttempt, AppendAuthFail, TypeOK, past, world
<1>5. CASE MarkAttempt
  <2>1. wit' \in [Dirs -> Mark]
    BY <1>1, <1>5, AdvanceType DEF MarkAttempt
  <2>2. op' \in Op
    BY <1>2, <1>5 DEF MarkAttempt, Proceed, Phases
  <2> QED
    BY <1>5, <2>1, <2>2 DEF MarkAttempt, TypeOK, disk, past, world
<1>6. ASSUME Verify, op' \in Op
      PROVE  TypeOK'
  <2>1. begun' \in [Dirs -> [Records -> Nat]]
    <3>1. [begun[d] EXCEPT ![op.seq] = @ + 1] \in [Records -> Nat]
      BY <1>1, BumpType DEF TypeOK
    <3>2. begun \in [Dirs -> [Records -> Nat]]
      BY DEF TypeOK
    <3>3. begun' = [begun EXCEPT ![d] = [begun[d] EXCEPT ![op.seq] = @ + 1]]
      BY <1>6 DEF Verify
    <3> QED
      BY <3>1, <3>2, <3>3, UpdateType
  <2>2. begunAll' \in [Dirs -> Nat]
    BY <1>1, <1>6 DEF Verify, TypeOK
  <2> QED
    BY <1>6, <2>1, <2>2 DEF Verify, TypeOK, disk, world
<1>7. CASE VerifyFails
  <2>1. op.fails + 1 \in Nat /\ op.tries + 1 \in Nat /\ op.seq \in Nat
    BY <1>1 DEF Op
  <2>2. op.next.attempts \in [Records -> Nat]
    BY <1>1 DEF Head
  <2>3. [op.next EXCEPT !.failureCount = op.fails + 1,
                        !.attempts[op.seq] = op.tries + 1] \in Head
    BY <1>1, <2>1, <2>2 DEF Head
  <2>4. [op |-> "auth-fail", seq |-> op.seq, off |-> 0, count |-> op.fails + 1] \in Line
    BY <2>1 DEF Line, LineOps
  <2> DEFINE next == [op.next EXCEPT !.failureCount = op.fails + 1,
                                     !.attempts[op.seq] = op.tries + 1]
             line == [op |-> "auth-fail", seq |-> op.seq, off |-> 0, count |-> op.fails + 1]
  <2>5. op' = [op EXCEPT !.phase = "failLine", !.next = next, !.line = line]
    BY <1>7 DEF VerifyFails
  <2> HIDE DEF next, line
  <2>6. op' \in Op
    <3>1. next \in Head /\ line \in Line
      BY <2>3, <2>4 DEF next, line
    <3> QED
      BY <1>1, <2>5, <3>1 DEF Op, Phases
  <2> QED
    BY <1>6, <1>7, <2>6 DEF VerifyFails
<1>8. CASE VerifyPasses
  <2> DEFINE offset == op.start + op.len
             sequence == op.seq + 1
  <2>1. offset \in Nat /\ sequence \in Nat
    BY <1>1 DEF Op
  <2>2. Prune(op.next.attempts, sequence) \in [Records -> Nat]
    BY <1>1 DEF Head, Prune
  <2> HIDE DEF offset, sequence
  <2>3. AdvanceHead(op.next, offset, sequence, Prune(op.next.attempts, sequence)) \in Head
    BY <1>1, <2>1, <2>2, AdvanceHeadType
  <2>4. [op |-> "open", seq |-> sequence, off |-> offset, count |-> 0] \in Line
    BY <2>1 DEF Line, LineOps, Advances
  <2>5. [op.mark EXCEPT !.nextOffset = offset, !.nextSequence = sequence] \in Mark
    BY <1>1, <2>1 DEF Mark
  <2>6. op' \in Op
    BY <1>1, <1>8, <2>3, <2>4, <2>5 DEF VerifyPasses, Op, Phases, offset, sequence
  <2> QED
    BY <1>6, <1>8, <2>6 DEF VerifyPasses
<1>9. CASE RefuseAuthFailed
  <2>1. refused' \in [Dirs -> Nat]
    BY <1>1, <1>9 DEF RefuseAuthFailed, TypeOK
  <2>2. head' \in [Dirs -> Head]
    BY <1>1, <1>3, <1>9 DEF RefuseAuthFailed
  <2> QED
    BY <1>9, <2>1, <2>2, IdleType DEF RefuseAuthFailed, Finish, TypeOK, world
<1>10. CASE CommitHead
  <2>1. op' \in Op
    BY <1>2, <1>10 DEF CommitHead, Proceed, Phases
  <2>2. refused' \in [Dirs -> Nat]
    BY <1>1, <1>10 DEF CommitHead, TypeOK
  <2> QED
    BY <1>1, <1>3, <1>10, <2>1, <2>2 DEF CommitHead, TypeOK, world
<1>11. CASE CommitLine
  <2>1. jrn' \in [Dirs -> Journal] /\ tail' \in [Dirs -> Tail]
    BY <1>1, <1>11, AppendLineType DEF CommitLine
  <2>2. \A x \in op.todo : Cleared(x, op.todo \ {x}) \in Op
    BY <1>1, ClearedType
  <2>3. op' \in Op /\ locked' \in BOOLEAN
    BY <1>2, <1>11, <2>2, IdleType DEF CommitLine, Proceed, Finish, Phases, TypeOK
  <2> QED
    BY <1>11, <2>1, <2>3 DEF CommitLine, TypeOK, past, world
<1>12. CASE AdvanceWitness
  <2>1. wit' \in [Dirs -> Mark]
    BY <1>1, <1>12, AdvanceType DEF AdvanceWitness
  <2>2. op' \in Op /\ locked' \in BOOLEAN
    BY <1>2, <1>12, IdleType DEF AdvanceWitness, Proceed, Finish, Phases, TypeOK
  <2> QED
    BY <1>12, <2>1, <2>2 DEF AdvanceWitness, TypeOK, disk, past, world
<1>13. CASE Output
  <2>1. recUse' \in [Dirs -> [Records -> Nat]]
    <3>1. [recUse[d] EXCEPT ![op.seq] = @ + 1] \in [Records -> Nat]
      BY <1>1, BumpType DEF TypeOK
    <3>2. recUse \in [Dirs -> [Records -> Nat]]
      BY DEF TypeOK
    <3>3. recUse' = [recUse EXCEPT ![d] = [recUse[d] EXCEPT ![op.seq] = @ + 1]]
      BY <1>13 DEF Output
    <3> QED
      BY <3>1, <3>2, <3>3, UpdateType
  <2>2. padUse' \in [Dirs -> [Offsets -> Nat]]
    <3> DEFINE new == [o \in Offsets |->
                         padUse[d][o] + (IF o \in Window(op.start, op.len) THEN 1 ELSE 0)]
    <3>1. new \in [Offsets -> Nat]
      BY <1>1 DEF TypeOK
    <3>2. padUse' = [padUse EXCEPT ![d] = new]
      BY <1>13 DEF Output
    <3> HIDE DEF new
    <3> QED
      BY <1>1, <3>1, <3>2 DEF TypeOK
  <2> QED
    BY <1>13, <2>1, <2>2, IdleType DEF Output, Finish, TypeOK, disk, world
<1>14. CASE Withhold
  BY <1>14, IdleType DEF Withhold, Finish, TypeOK, disk, past, world
<1> QED
  BY <1>4, <1>5, <1>7, <1>8, <1>9, <1>10, <1>11, <1>12, <1>13, <1>14 DEF Run

LEMMA FaultType ==
  ASSUME TypeOK, Fault
  PROVE  TypeOK'
<1>1. CASE Crash
  BY <1>1, IdleType DEF Crash, TypeOK, disk, past
<1>2. ASSUME NEW tear \in Tears, CrashInAppend(tear)
      PROVE  TypeOK'
  <2>1. /\ op.dir \in Dirs /\ op.line \in Line /\ tail[op.dir] \in Tail
        /\ tear \in {"torn", "unterminated"}
    BY ModesAreKnown DEF TypeOK, Op
  <2>2. InitLine \in Line
    BY DEF InitLine, Line, LineOps
  <2>3. TornTail(tail[op.dir], tear, op.line) \in Tail
    BY <2>1, <2>2 DEF TornTail, Tail
  <2>4. tail' \in [Dirs -> Tail]
    BY <1>2, <2>1, <2>3 DEF CrashInAppend, TypeOK
  <2> QED
    BY <1>2, <2>4, IdleType DEF CrashInAppend, TypeOK, past
<1> QED
  BY <1>1, <1>2 DEF Fault

LEMMA OperatorType ==
  ASSUME TypeOK, Operator
  PROVE  TypeOK'
<1>1. CASE RemoveStaleLock
  BY <1>1 DEF RemoveStaleLock, TypeOK, disk, past, world
<1>2. ASSUME NEW d \in Dirs, RemoveLastLine(d)
      PROVE  TypeOK'
  <2>1. CleanTail \in Tail
    BY DEF CleanTail, Tail, Line, LineOps, InitLine
  <2> QED
    BY <1>2, <2>1 DEF RemoveLastLine, TypeOK, past, world
<1>3. ASSUME NEW d \in Dirs, TakeBackup(d)
      PROVE  TypeOK'
  <2>1. Image(d) \in [dir : Dirs, head : Head, jrn : Journal, tail : Tail]
    BY DEF Image, TypeOK
  <2> QED
    BY <1>3, <2>1 DEF TakeBackup, TypeOK, disk, past
<1>4. ASSUME NEW image \in backups, NEW part \in Restores, Restore(image, part)
      PROVE  TypeOK'
  <2>1. image \in [dir : Dirs, head : Head, jrn : Journal, tail : Tail]
    BY DEF TypeOK
  <2> QED
    BY <1>4, <2>1 DEF Restore, TypeOK, past
<1> QED
  BY <1>1, <1>2, <1>3, <1>4 DEF Operator

LEMMA InitType == Init => TypeOK
<1>1. FreshHead \in Head /\ FreshJournal \in Journal /\ NoMark \in Mark
  BY NoAttemptsType DEF FreshHead, FreshJournal, Head, Journal, NoMark, Mark
<1>2. CleanTail \in Tail
  BY DEF CleanTail, Tail, Line, LineOps, InitLine
<1> SUFFICES ASSUME Init PROVE TypeOK
  OBVIOUS
<1>3. /\ head \in [Dirs -> Head] /\ jrn \in [Dirs -> Journal]
      /\ tail \in [Dirs -> Tail] /\ wit \in [Dirs -> Mark]
  BY <1>1, <1>2 DEF Init
<1>4. /\ recUse \in [Dirs -> [Records -> Nat]] /\ padUse \in [Dirs -> [Offsets -> Nat]]
      /\ begun \in [Dirs -> [Records -> Nat]]
      /\ begunAll \in [Dirs -> Nat] /\ refused \in [Dirs -> Nat]
  BY NoAttemptsType DEF Init
<1> QED
  BY <1>3, <1>4, IdleType DEF Init, TypeOK

LEMMA NextType == TypeOK /\ [Next]_vars => TypeOK'
<1>1. TypeOK /\ UNCHANGED vars => TypeOK'
  BY DEF TypeOK, vars
<1> QED
  BY <1>1, BeginType, RunType, FaultType, OperatorType DEF Next

(* Every variable keeps its type, whatever the sizes, the tears and the    *)
(* restores.                                                               *)
THEOREM TypeCorrect == Spec => []TypeOK
BY InitType, NextType, PTL DEF Spec
-----------------------------------------------------------------------------
(* The inductive invariant behind MaterialUsedOnce. Three things can       *)
(* remember what was used: the witness; without one the header, if nobody  *)
(* restores files; and, if only headers are restored and no crash leaves   *)
(* an unterminated line, the journal.                                      *)

JournalKept == ~Witnessed /\ Restores = {"head"} /\ Tears \subseteq {"torn"}
Remembers == Witnessed \/ Restores = {} \/ JournalKept

RememberedSequence(d) ==
  IF Witnessed THEN wit[d].nextSequence
  ELSE IF Restores = {} THEN head[d].nextSequence ELSE jrn[d].maxSequence
RememberedOffset(d) ==
  IF Witnessed THEN wit[d].nextOffset
  ELSE IF Restores = {} THEN head[d].nextOffset ELSE jrn[d].maxOffset

(* Every output so far is remembered, and was the only one.                *)
UsedIsRemembered ==
  \A d \in Dirs :
    /\ \A s \in Records : /\ recUse[d][s] <= 1
                          /\ recUse[d][s] > 0 => s < RememberedSequence(d)
    /\ \A o \in Offsets : /\ padUse[d][o] <= 1
                          /\ padUse[d][o] > 0 => o < RememberedOffset(d)

Opening == {"reserve", "markAttempt", "verify", "failLine", "failHead"}
MakesOutput == op.phase # "idle" /\ op.kind \in {"burn", "open"}

(* The verb in progress works above everything used, and what it will      *)
(* write covers what it is about to use.                                   *)
OpeningIsAhead ==
  op.phase \in Opening =>
    /\ op.kind = "open"
    /\ op.seq >= head[op.dir].nextSequence
    /\ op.start >= head[op.dir].nextOffset
NextNeverBehind ==
  op.phase # "idle" =>
    /\ op.next.nextSequence >= head[op.dir].nextSequence
    /\ op.next.nextOffset >= head[op.dir].nextOffset
OpIsAboveUsed ==
  MakesOutput =>
    /\ \A s \in Records : recUse[op.dir][s] > 0 => s < op.seq
    /\ \A o \in Offsets : padUse[op.dir][o] > 0 => o < op.start
CommitCoversUse ==
  MakesOutput /\ op.phase \in {"head", "line", "mark"} =>
    /\ op.next.nextSequence = op.seq + 1 /\ op.next.nextOffset = op.start + op.len
    /\ op.mark.nextSequence = op.seq + 1 /\ op.mark.nextOffset = op.start + op.len
    /\ op.line.seq = op.seq + 1 /\ op.line.off = op.start + op.len
    /\ op.line.op \in Advances
HeadIsCommitted ==
  MakesOutput /\ op.phase \in {"line", "mark", "output"} =>
    /\ head[op.dir].nextSequence = op.seq + 1
    /\ head[op.dir].nextOffset = op.start + op.len
LineIsCommitted ==
  MakesOutput /\ JournalKept /\ op.phase \in {"mark", "output"} =>
    /\ jrn[op.dir].maxSequence > op.seq
    /\ jrn[op.dir].maxOffset >= op.start + op.len
OutputIsRemembered ==
  op.phase = "output" =>
    /\ MakesOutput
    /\ RememberedSequence(op.dir) > op.seq
    /\ RememberedOffset(op.dir) >= op.start + op.len
KindFitsPhase ==
  /\ op.phase # "idle" => op.kind # "none"
  /\ op.phase = "mark" => op.kind # "clear"
TailsAreKept ==
  JournalKept =>
    \A d \in Dirs : /\ tail[d].kind \in {"clean", "torn"}
                    /\ op.phase # "idle" => tail[d].kind = "clean"

OpInv ==
  /\ OpeningIsAhead /\ NextNeverBehind /\ OpIsAboveUsed /\ CommitCoversUse
  /\ HeadIsCommitted /\ LineIsCommitted /\ OutputIsRemembered
  /\ KindFitsPhase /\ TailsAreKept
UseInv == UsedIsRemembered /\ OpInv

(* An output is always of one of the direction's records.                  *)
RangeInv == MakesOutput => op.seq \in Records

(* The witness counts every verification before it begins.                 *)
AttemptInv ==
  Witnessed =>
    /\ \A d \in Dirs : begunAll[d] <= wit[d].reserved
    /\ op.phase \in {"reserve", "markAttempt"} => op.mark.reserved > begunAll[op.dir]
    /\ op.phase = "verify" => wit[op.dir].reserved > begunAll[op.dir]
LEMMA EffectiveCounters ==
  ASSUME NEW d \in Dirs
  PROVE  /\ Effective(d).nextOffset = head[d].nextOffset
         /\ Effective(d).nextSequence = head[d].nextSequence
BY DEF Effective

(* A verb that passes its checks starts above everything used.             *)
LEMMA StartsAboveUsed ==
  ASSUME TypeOK, UseInv, Remembers, NEW d \in Dirs, CanStart, Preflight(d)
  PROVE  /\ head[d].nextSequence >= RememberedSequence(d)
         /\ head[d].nextOffset >= RememberedOffset(d)
<1>1. CASE Witnessed
  BY <1>1, EffectiveCounters DEF Preflight, AtOrAbove, RememberedSequence, RememberedOffset
<1>2. CASE ~Witnessed /\ Restores = {}
  BY <1>2 DEF RememberedSequence, RememberedOffset, TypeOK, Head
<1>3. CASE ~Witnessed /\ Restores # {}
  <2>1. JournalKept
    BY <1>3 DEF Remembers, JournalKept
  <2>2. HalfLoads(d)
    BY DEF CanStart, PairLoads
  <2>3. tail[d].kind = "clean"
    BY <2>1, <2>2 DEF UseInv, OpInv, TailsAreKept, HalfLoads, Malformed
  <2>4. ReadJournal(d) = jrn[d]
    BY <2>3 DEF ReadJournal
  <2> QED
    BY <1>3, <2>2, <2>4 DEF HalfLoads, HeaderAboveJournal, RememberedSequence, RememberedOffset
<1> QED
  BY <1>1, <1>2, <1>3

LEMMA ClearedFields ==
  ASSUME TypeOK, NEW d \in Dirs, NEW rest
  PROVE  /\ Cleared(d, rest).phase = "head" /\ Cleared(d, rest).kind = "clear"
         /\ Cleared(d, rest).dir = d
         /\ Cleared(d, rest).next.nextSequence = head[d].nextSequence
         /\ Cleared(d, rest).next.nextOffset = head[d].nextOffset
<1> DEFINE fails == Effective(d).failureCount
           next == [head[d] EXCEPT !.failureCount = fails, !.cleared = fails]
<1>1. next.nextSequence = head[d].nextSequence /\ next.nextOffset = head[d].nextOffset
  BY DEF TypeOK, Head
<1>2. /\ Cleared(d, rest).phase = "head" /\ Cleared(d, rest).kind = "clear"
      /\ Cleared(d, rest).dir = d /\ Cleared(d, rest).next = next
  <2> HIDE DEF next
  <2>1. Cleared(d, rest) =
          [Idle EXCEPT !.phase = "head", !.kind = "clear", !.dir = d, !.todo = rest,
             !.next = next,
             !.line = [op |-> "clear-freeze", seq |-> 0, off |-> 0, count |-> fails]]
    BY DEF Cleared, next
  <2> HIDE DEF fails
  <2> QED
    BY <2>1 DEF Idle
<1> QED
  BY <1>1, <1>2

LEMMA BeginWritesNothing ==
  ASSUME Begin
  PROVE  UNCHANGED <<head, jrn, tail, wit, recUse, padUse, begun, begunAll>>
<1>1. \A newOp : Start(newOp) => UNCHANGED <<head, jrn, tail, wit, recUse, padUse, begun, begunAll>>
  BY DEF Start, disk, past
<1>2. ASSUME NEW d \in Dirs, ClearFreeze(d)
      PROVE  UNCHANGED <<head, jrn, tail, wit, recUse, padUse, begun, begunAll>>
  BY <1>1, <1>2 DEF ClearFreeze
<1>3. ASSUME NEW d \in Dirs, NEW len, Burn(d, len)
      PROVE  UNCHANGED <<head, jrn, tail, wit, recUse, padUse, begun, begunAll>>
  BY <1>1, <1>3 DEF Burn
<1>4. ASSUME NEW d \in Dirs, NEW s, NEW start, NEW len, Open(d, s, start, len)
      PROVE  UNCHANGED <<head, jrn, tail, wit, recUse, padUse, begun, begunAll>>
  BY <1>1, <1>4 DEF Open
<1>5. ASSUME NEW d \in Dirs, NEW sequence, NEW offset, Retire(d, sequence, offset)
      PROVE  UNCHANGED <<head, jrn, tail, wit, recUse, padUse, begun, begunAll>>
  BY <1>1, <1>5 DEF Retire
<1> QED
  BY <1>2, <1>3, <1>4, <1>5 DEF Begin

LEMMA BeginCanStart ==
  ASSUME Begin
  PROVE  CanStart
<1>1. \A d, len : Burn(d, len) => CanStart
  BY DEF Burn
<1>2. \A d, s, start, len : Open(d, s, start, len) => CanStart
  BY DEF Open
<1>3. \A d, sequence, offset : Retire(d, sequence, offset) => CanStart
  BY DEF Retire
<1>4. \A d : ClearFreeze(d) => CanStart
  BY DEF ClearFreeze
<1> QED
  BY <1>1, <1>2, <1>3, <1>4 DEF Begin

LEMMA BeginUse ==
  ASSUME TypeOK, UseInv, Remembers, Begin
  PROVE  UseInv'
<1>2. UNCHANGED <<head, jrn, tail, wit, recUse, padUse>>
  BY BeginWritesNothing
<1>3. UsedIsRemembered'
  BY <1>2 DEF UseInv, UsedIsRemembered, RememberedSequence, RememberedOffset
<1>4. CanStart
  BY BeginCanStart
<1>5. TailsAreKept'
  <2>1. ASSUME JournalKept, NEW d \in Dirs
        PROVE  tail[d].kind = "clean"
    BY <1>4, <2>1 DEF CanStart, PairLoads, HalfLoads, Malformed, UseInv, OpInv, TailsAreKept
  <2> QED
    BY <1>2, <2>1 DEF TailsAreKept, JournalKept
<1>6. ASSUME NEW d \in Dirs, Preflight(d)
      PROVE  /\ \A s \in Records : recUse[d][s] > 0 => s < head[d].nextSequence
             /\ \A o \in Offsets : padUse[d][o] > 0 => o < head[d].nextOffset
  <2>1. /\ head[d].nextSequence >= RememberedSequence(d)
        /\ head[d].nextOffset >= RememberedOffset(d)
    BY <1>4, <1>6, StartsAboveUsed
  <2>2. /\ head[d].nextSequence \in Nat /\ head[d].nextOffset \in Nat
        /\ RememberedSequence(d) \in Nat /\ RememberedOffset(d) \in Nat
    BY DEF TypeOK, Head, Mark, Journal, RememberedSequence, RememberedOffset
  <2>3. /\ \A s \in Records : recUse[d][s] > 0 => s < RememberedSequence(d)
        /\ \A o \in Offsets : padUse[d][o] > 0 => o < RememberedOffset(d)
    BY DEF UseInv, UsedIsRemembered
  <2>4. Records \subseteq Nat /\ Offsets \subseteq Nat
    BY SizesAreNatural DEF Records, Offsets
  <2>5. ASSUME NEW s \in Records, recUse[d][s] > 0
        PROVE  s < head[d].nextSequence
    <3>1. s < RememberedSequence(d) /\ s \in Nat
      BY <2>3, <2>4, <2>5
    <3> QED
      BY <2>1, <2>2, <3>1
  <2>6. ASSUME NEW o \in Offsets, padUse[d][o] > 0
        PROVE  o < head[d].nextOffset
    <3>1. o < RememberedOffset(d) /\ o \in Nat
      BY <2>3, <2>4, <2>6
    <3> QED
      BY <2>1, <2>2, <3>1
  <2> QED
    BY <2>5, <2>6
<1>7. ASSUME NEW d \in Dirs, NEW len \in Lengths, Burn(d, len)
      PROVE  OpInv'
  <2> DEFINE e == Effective(d)
  <2>1. /\ e.nextSequence = head[d].nextSequence /\ e.nextOffset = head[d].nextOffset
        /\ head[d] \in Head /\ len \in Nat
    BY EffectiveCounters, SizesAreNatural DEF TypeOK
  <2>2. /\ op'.phase = "head" /\ op'.kind = "burn" /\ op'.dir = d
        /\ op'.seq = e.nextSequence /\ op'.start = e.nextOffset /\ op'.len = len
        /\ op'.next = AdvanceHead(head[d], e.nextOffset + len, e.nextSequence + 1,
                                  head[d].attempts)
        /\ op'.line = [op |-> "send", seq |-> e.nextSequence + 1,
                       off |-> e.nextOffset + len, count |-> 0]
        /\ op'.mark = [nextOffset |-> e.nextOffset + len,
                       nextSequence |-> e.nextSequence + 1, reserved |-> e.reserved]
    BY <1>7 DEF Burn, Start, Idle
  <2> HIDE DEF e
  <2>3. /\ op'.next.nextSequence = e.nextSequence + 1
        /\ op'.next.nextOffset = e.nextOffset + len
    BY <2>1, <2>2 DEF AdvanceHead, Head
  <2>4. NextNeverBehind' /\ CommitCoversUse'
    BY <1>2, <2>1, <2>2, <2>3 DEF NextNeverBehind, CommitCoversUse, Advances, Head
  <2>5. OpIsAboveUsed'
    <3>1. Preflight(d)
      BY <1>7 DEF Burn
    <3> QED
      BY <1>2, <1>6, <2>1, <2>2, <3>1 DEF OpIsAboveUsed
  <2> QED
    BY <1>5, <2>2, <2>4, <2>5 DEF OpInv, OpeningIsAhead, HeadIsCommitted,
       LineIsCommitted, OutputIsRemembered, KindFitsPhase, Opening
<1>8. ASSUME NEW d \in Dirs, NEW s \in Records, NEW start \in 0 .. Capacity,
             NEW len \in Lengths, Open(d, s, start, len)
      PROVE  OpInv'
  <2> DEFINE e == Effective(d)
  <2>1. /\ e.nextSequence = head[d].nextSequence /\ e.nextOffset = head[d].nextOffset
        /\ head[d] \in Head /\ s \in Nat /\ start \in Nat
    BY EffectiveCounters, SizesAreNatural DEF TypeOK, Records
  <2>2. /\ op'.phase = "reserve" /\ op'.kind = "open" /\ op'.dir = d
        /\ op'.seq = s /\ op'.start = start /\ op'.next = head[d]
    BY <1>8 DEF Open, Start, Idle
  <2>3. s >= head[d].nextSequence /\ start >= head[d].nextOffset
    BY <1>8, <2>1 DEF Open, Head
  <2>4. NextNeverBehind' /\ OpeningIsAhead'
    BY <1>2, <2>1, <2>2, <2>3 DEF NextNeverBehind, OpeningIsAhead, Head
  <2>5. OpIsAboveUsed'
    <3>1. Preflight(d)
      BY <1>8 DEF Open
    <3>2. Records \subseteq Nat /\ Offsets \subseteq Nat
      BY SizesAreNatural DEF Records, Offsets
    <3> QED
      BY <1>2, <1>6, <2>1, <2>2, <2>3, <3>1, <3>2 DEF OpIsAboveUsed, Head
  <2> QED
    BY <1>5, <2>2, <2>4, <2>5 DEF OpInv, CommitCoversUse, HeadIsCommitted,
       LineIsCommitted, OutputIsRemembered, KindFitsPhase
<1>9. ASSUME NEW d \in Dirs, NEW sequence \in 1 .. CapacityRecords,
             NEW offset \in 0 .. Capacity, Retire(d, sequence, offset)
      PROVE  OpInv'
  <2>1. /\ Effective(d).nextSequence = head[d].nextSequence
        /\ Effective(d).nextOffset = head[d].nextOffset
        /\ head[d] \in Head
    BY EffectiveCounters DEF TypeOK
  <2>2. /\ op'.phase = "head" /\ op'.kind = "retire" /\ op'.dir = d
        /\ op'.next = AdvanceHead(head[d], offset, sequence,
                                  Prune(head[d].attempts, sequence))
        /\ sequence >= head[d].nextSequence /\ offset >= head[d].nextOffset
    BY <1>9, <2>1 DEF Retire, Start, Idle, Head
  <2>3. NextNeverBehind'
    BY <1>2, <2>1, <2>2 DEF NextNeverBehind, AdvanceHead, Head
  <2> QED
    BY <1>5, <2>2, <2>3 DEF OpInv, OpeningIsAhead, OpIsAboveUsed, CommitCoversUse,
       HeadIsCommitted, LineIsCommitted, OutputIsRemembered, KindFitsPhase, MakesOutput, Opening
<1>10. ASSUME NEW d \in Dirs, ClearFreeze(d)
       PROVE  OpInv'
  <2>1. /\ op'.phase = "head" /\ op'.kind = "clear" /\ op'.dir = d
        /\ op'.next.nextSequence = head[d].nextSequence
        /\ op'.next.nextOffset = head[d].nextOffset
    BY <1>10, ClearedFields DEF ClearFreeze, Start
  <2>2. NextNeverBehind'
    BY <1>2, <2>1 DEF NextNeverBehind, TypeOK, Head
  <2> QED
    BY <1>5, <2>1, <2>2 DEF OpInv, OpeningIsAhead, OpIsAboveUsed, CommitCoversUse,
       HeadIsCommitted, LineIsCommitted, OutputIsRemembered, KindFitsPhase, MakesOutput, Opening
<1> QED
  BY <1>3, <1>7, <1>8, <1>9, <1>10 DEF Begin, UseInv

(* What remembers the use never forgets while a verb runs.                 *)
LEMMA RunGrows ==
  ASSUME TypeOK, UseInv, Run
  PROVE  \A x \in Dirs : /\ RememberedSequence(x)' >= RememberedSequence(x)
                         /\ RememberedOffset(x)' >= RememberedOffset(x)
<1> DEFINE d == op.dir
<1>1. /\ d \in Dirs /\ op.line \in Line /\ op.mark \in Mark /\ op.next \in Head
      /\ wit \in [Dirs -> Mark] /\ head \in [Dirs -> Head] /\ jrn \in [Dirs -> Journal]
  BY DEF TypeOK, Op
<1>2. \/ wit' = wit
      \/ Witnessed /\ wit' = [wit EXCEPT ![d] = ElementwiseMax(wit[d], op.mark)]
  BY DEF Run, ReserveAttempt, MarkAttempt, VerifyFails, VerifyPasses, Verify,
         AppendAuthFail, RefuseAuthFailed, CommitHead, CommitLine, AdvanceWitness,
         Output, Withhold, Advance
<1>3. \/ head' = head
      \/ op.phase # "idle" /\ head' = [head EXCEPT ![d] = op.next]
  BY DEF Run, ReserveAttempt, MarkAttempt, VerifyFails, VerifyPasses, Verify,
         AppendAuthFail, RefuseAuthFailed, CommitHead, CommitLine, AdvanceWitness,
         Output, Withhold, disk
<1>4. \/ jrn' = jrn
      \/ jrn' = [jrn EXCEPT ![d] = Apply(jrn[d], op.line)]
  BY DEF Run, ReserveAttempt, MarkAttempt, VerifyFails, VerifyPasses, Verify,
         AppendAuthFail, RefuseAuthFailed, CommitHead, CommitLine, AdvanceWitness,
         Output, Withhold, disk, AppendLine
<1>5. \A x \in Dirs : wit'[x].nextSequence >= wit[x].nextSequence
                     /\ wit'[x].nextOffset >= wit[x].nextOffset
  BY <1>1, <1>2 DEF ElementwiseMax, Larger, Mark
<1>6. \A x \in Dirs : head'[x].nextSequence >= head[x].nextSequence
                     /\ head'[x].nextOffset >= head[x].nextOffset
  BY <1>1, <1>3 DEF UseInv, OpInv, NextNeverBehind, Head
<1>7. \A x \in Dirs : jrn'[x].maxSequence >= jrn[x].maxSequence
                     /\ jrn'[x].maxOffset >= jrn[x].maxOffset
  <2>1. /\ Apply(jrn[d], op.line).maxSequence >= jrn[d].maxSequence
        /\ Apply(jrn[d], op.line).maxOffset >= jrn[d].maxOffset
    BY <1>1, ApplyGrows
  <2> QED
    BY <1>1, <1>4, <2>1 DEF Journal
<1> QED
  BY <1>5, <1>6, <1>7 DEF RememberedSequence, RememberedOffset

LEMMA GrowthKeepsUse ==
  ASSUME TypeOK, TypeOK', UsedIsRemembered, UNCHANGED <<recUse, padUse>>,
         \A x \in Dirs : /\ RememberedSequence(x)' >= RememberedSequence(x)
                         /\ RememberedOffset(x)' >= RememberedOffset(x)
  PROVE  UsedIsRemembered'
<1>1. \A x \in Dirs : /\ RememberedSequence(x) \in Nat /\ RememberedOffset(x) \in Nat
                      /\ RememberedSequence(x)' \in Nat /\ RememberedOffset(x)' \in Nat
  BY DEF TypeOK, Head, Mark, Journal, RememberedSequence, RememberedOffset
<1>2. Records \subseteq Nat /\ Offsets \subseteq Nat
  BY SizesAreNatural DEF Records, Offsets
<1> QED
  BY <1>1, <1>2 DEF UsedIsRemembered

(* A line appended after a clean line is folded in whole.                  *)
LEMMA AppendIsKept ==
  ASSUME TypeOK, UseInv, JournalKept, op.phase # "idle", AppendLine(op.dir, op.line)
  PROVE  /\ tail' = tail
         /\ op.line.op \in Advances =>
              /\ jrn'[op.dir].maxSequence >= op.line.seq
              /\ jrn'[op.dir].maxOffset >= op.line.off
<1>1. op.dir \in Dirs /\ op.line \in Line /\ jrn \in [Dirs -> Journal]
  BY DEF TypeOK, Op
<1>2. tail[op.dir].kind = "clean"
  BY <1>1 DEF UseInv, OpInv, TailsAreKept
<1>3. tail' = tail /\ jrn' = [jrn EXCEPT ![op.dir] = Apply(jrn[op.dir], op.line)]
  BY <1>2 DEF AppendLine
<1> QED
  BY <1>1, <1>3, ApplyGrows

LEMMA FinishUse ==
  ASSUME UseInv, op' = Idle, UNCHANGED tail
  PROVE  OpInv'
BY IdleType DEF UseInv, OpInv, OpeningIsAhead, NextNeverBehind, OpIsAboveUsed,
   CommitCoversUse, HeadIsCommitted, LineIsCommitted, OutputIsRemembered,
   KindFitsPhase, TailsAreKept, MakesOutput, Opening, JournalKept

LEMMA RunUse ==
  ASSUME TypeOK, UseInv, Remembers, Run
  PROVE  UseInv'
<1> DEFINE d == op.dir
<1> USE DEF UseInv
<1>1. /\ d \in Dirs /\ op.line \in Line /\ op.mark \in Mark /\ op.next \in Head
      /\ op.seq \in Nat /\ op.start \in Nat /\ op.len \in Nat
      /\ wit \in [Dirs -> Mark] /\ head \in [Dirs -> Head] /\ jrn \in [Dirs -> Journal]
      /\ op \in Op
  BY DEF TypeOK, Op
<1>2. TypeOK'
  BY RunType
<1>3. UNCHANGED <<recUse, padUse>> => UsedIsRemembered'
  BY <1>2, RunGrows, GrowthKeepsUse
<1>4. \A phase \in Phases :
        Proceed(phase) =>
          /\ op'.phase = phase /\ op'.kind = op.kind /\ op'.dir = d
          /\ op'.seq = op.seq /\ op'.start = op.start /\ op'.len = op.len
          /\ op'.next = op.next /\ op'.line = op.line /\ op'.mark = op.mark
  BY <1>1 DEF Proceed, Op
<1>5. CASE ReserveAttempt \/ AppendAuthFail
  <2>1. /\ op.phase \in {"reserve", "failLine"}
        /\ UNCHANGED <<head, wit, recUse, padUse>>
        /\ \/ Proceed("markAttempt")
           \/ Proceed("failHead")
        /\ AppendLine(d, op.line)
    BY <1>5 DEF ReserveAttempt, AppendAuthFail, past
  <2>2. /\ op'.phase \in {"markAttempt", "failHead"} /\ op'.kind = op.kind /\ op'.dir = d
        /\ op'.seq = op.seq /\ op'.start = op.start /\ op'.next = op.next
    BY <1>4, <2>1 DEF Phases
  <2>3. TailsAreKept'
    BY <1>1, <2>1, <2>2, AppendIsKept DEF TailsAreKept, OpInv, JournalKept
  <2>4. OpInv'
    BY <2>1, <2>2, <2>3 DEF OpInv, OpeningIsAhead, NextNeverBehind, OpIsAboveUsed,
       CommitCoversUse, HeadIsCommitted, LineIsCommitted, OutputIsRemembered,
       KindFitsPhase, MakesOutput, Opening
  <2> QED
    BY <1>3, <2>1, <2>4
<1>6. CASE MarkAttempt
  <2>1. /\ op.phase = "markAttempt" /\ UNCHANGED <<head, jrn, tail, recUse, padUse>>
        /\ Proceed("verify")
    BY <1>6 DEF MarkAttempt, disk, past
  <2>2. /\ op'.phase = "verify" /\ op'.kind = op.kind /\ op'.dir = d
        /\ op'.seq = op.seq /\ op'.start = op.start /\ op'.next = op.next
    BY <1>4, <2>1 DEF Phases
  <2>3. OpInv'
    BY <2>1, <2>2 DEF OpInv, OpeningIsAhead, NextNeverBehind, OpIsAboveUsed,
       CommitCoversUse, HeadIsCommitted, LineIsCommitted, OutputIsRemembered,
       KindFitsPhase, TailsAreKept, MakesOutput, Opening, JournalKept
  <2> QED
    BY <1>3, <2>1, <2>3
<1>7. CASE VerifyFails
  <2>1. /\ op.phase = "verify" /\ UNCHANGED <<head, jrn, tail, recUse, padUse>>
    BY <1>7 DEF VerifyFails, Verify, disk
  <2>2. /\ op'.phase = "failLine" /\ op'.kind = op.kind /\ op'.dir = d
        /\ op'.seq = op.seq /\ op'.start = op.start
        /\ op'.next.nextSequence = op.next.nextSequence
        /\ op'.next.nextOffset = op.next.nextOffset
    BY <1>1, <1>7 DEF VerifyFails, Op, Head
  <2>3. OpInv'
    BY <2>1, <2>2 DEF OpInv, OpeningIsAhead, NextNeverBehind, OpIsAboveUsed,
       CommitCoversUse, HeadIsCommitted, LineIsCommitted, OutputIsRemembered,
       KindFitsPhase, TailsAreKept, MakesOutput, Opening, JournalKept
  <2> QED
    BY <1>3, <2>1, <2>3
<1>8. CASE VerifyPasses
  <2> DEFINE offset == op.start + op.len
             sequence == op.seq + 1
             next == AdvanceHead(op.next, offset, sequence,
                                 Prune(op.next.attempts, sequence))
             line == [op |-> "open", seq |-> sequence, off |-> offset, count |-> 0]
             mark == [op.mark EXCEPT !.nextOffset = offset, !.nextSequence = sequence]
  <2>1. /\ op.phase = "verify" /\ UNCHANGED <<head, jrn, tail, recUse, padUse>>
    BY <1>8 DEF VerifyPasses, Verify, disk
  <2>2. /\ next.nextSequence = sequence /\ next.nextOffset = offset
        /\ mark.nextSequence = sequence /\ mark.nextOffset = offset
        /\ line.seq = sequence /\ line.off = offset /\ line.op \in Advances
    BY <1>1 DEF AdvanceHead, Head, Mark, Advances
  <2>3. op' = [op EXCEPT !.phase = "head", !.next = next, !.line = line, !.mark = mark]
    BY <1>8 DEF VerifyPasses
  <2>4. /\ op'.phase = "head" /\ op'.kind = op.kind /\ op'.dir = d
        /\ op'.seq = op.seq /\ op'.start = op.start /\ op'.len = op.len
        /\ op'.next = next /\ op'.line = line /\ op'.mark = mark
    <3> HIDE DEF next, line, mark
    <3> QED
      BY <1>1, <2>3 DEF Op
  <2>5. op.kind = "open" /\ op.seq >= head[d].nextSequence /\ op.start >= head[d].nextOffset
    BY <2>1 DEF OpInv, OpeningIsAhead, Opening
  <2>6. NextNeverBehind'
    BY <1>1, <2>1, <2>2, <2>4, <2>5 DEF NextNeverBehind, Head
  <2>7. CommitCoversUse'
    BY <2>2, <2>4 DEF CommitCoversUse
  <2>8. OpIsAboveUsed'
    BY <2>1, <2>4, <2>5 DEF OpInv, OpIsAboveUsed, MakesOutput
  <2>9. OpInv'
    <3> HIDE DEF next, line, mark
    <3> QED
      BY <2>1, <2>4, <2>5, <2>6, <2>7, <2>8 DEF OpInv, OpeningIsAhead, HeadIsCommitted,
         LineIsCommitted, OutputIsRemembered, KindFitsPhase, TailsAreKept, Opening,
         JournalKept
  <2> QED
    BY <1>3, <2>1, <2>9
<1>9. CASE RefuseAuthFailed \/ Withhold
  BY <1>3, <1>9, FinishUse DEF RefuseAuthFailed, Withhold, Finish, disk, past
<1>10. CASE CommitHead
  <2>1. /\ op.phase = "head" /\ UNCHANGED <<jrn, tail, wit, recUse, padUse>>
        /\ head' = [head EXCEPT ![d] = op.next] /\ Proceed("line")
    BY <1>10 DEF CommitHead
  <2>2. /\ op'.phase = "line" /\ op'.kind = op.kind /\ op'.dir = d
        /\ op'.seq = op.seq /\ op'.start = op.start /\ op'.len = op.len
        /\ op'.next = op.next /\ op'.line = op.line /\ op'.mark = op.mark
    BY <1>4, <2>1 DEF Phases
  <2>3. head'[d] = op.next
    BY <1>1, <2>1
  <2>4. OpIsAboveUsed' /\ CommitCoversUse'
    BY <2>1, <2>2 DEF OpInv, OpIsAboveUsed, CommitCoversUse, MakesOutput
  <2>5. NextNeverBehind' /\ HeadIsCommitted'
    BY <1>1, <2>1, <2>2, <2>3 DEF OpInv, NextNeverBehind, HeadIsCommitted,
       CommitCoversUse, MakesOutput, Head
  <2>6. OpInv'
    BY <2>1, <2>2, <2>4, <2>5 DEF OpInv, OpeningIsAhead, LineIsCommitted,
       OutputIsRemembered, KindFitsPhase, TailsAreKept, Opening, JournalKept
  <2> QED
    BY <1>3, <2>1, <2>6
<1>11. CASE CommitLine
  <2>1. /\ op.phase = "line" /\ UNCHANGED <<head, wit, recUse, padUse>>
        /\ AppendLine(d, op.line)
    BY <1>11 DEF CommitLine, past
  <2>2. JournalKept => tail' = tail
    BY <2>1, AppendIsKept
  <2>3. CASE op.kind # "clear"
    <3>1. Proceed("mark")
      BY <1>11, <2>3 DEF CommitLine
    <3>2. /\ op'.phase = "mark" /\ op'.kind = op.kind /\ op'.dir = d
          /\ op'.seq = op.seq /\ op'.start = op.start /\ op'.len = op.len
          /\ op'.next = op.next /\ op'.line = op.line /\ op'.mark = op.mark
      BY <1>4, <3>1 DEF Phases
    <3>3. OpIsAboveUsed' /\ CommitCoversUse' /\ HeadIsCommitted' /\ NextNeverBehind'
      BY <2>1, <3>2 DEF OpInv, OpIsAboveUsed, CommitCoversUse, HeadIsCommitted,
         NextNeverBehind, MakesOutput
    <3>4. LineIsCommitted'
      <4>1. SUFFICES ASSUME MakesOutput, JournalKept
                     PROVE  jrn'[d].maxSequence > op.seq /\ jrn'[d].maxOffset >= op.start + op.len
        <5>1. MakesOutput' <=> MakesOutput
          BY <2>1, <3>2 DEF MakesOutput
        <5> QED
          BY <3>2, <5>1 DEF LineIsCommitted, JournalKept
      <4>2. /\ op.line.seq = op.seq + 1 /\ op.line.off = op.start + op.len
            /\ op.line.op \in Advances
        BY <2>1, <4>1 DEF OpInv, CommitCoversUse
      <4>3. /\ jrn'[d].maxSequence >= op.line.seq /\ jrn'[d].maxOffset >= op.line.off
        BY <2>1, <4>1, <4>2, AppendIsKept
      <4>4. jrn'[d].maxSequence \in Nat
        BY <1>1, <1>2 DEF TypeOK, Journal
      <4> QED
        BY <1>1, <4>2, <4>3, <4>4
    <3>5. KindFitsPhase' /\ TailsAreKept'
      BY <2>1, <2>2, <2>3, <3>2 DEF OpInv, KindFitsPhase, TailsAreKept, JournalKept
    <3> QED
      BY <1>3, <2>1, <3>2, <3>3, <3>4, <3>5 DEF OpInv, OpeningIsAhead,
         OutputIsRemembered, Opening
  <2>4. CASE op.kind = "clear" /\ op.todo = {} /\ Finish
    <3>1. op' = Idle
      BY <2>4 DEF Finish
    <3>2. OpInv'
      BY <2>1, <2>2, <3>1, IdleType DEF OpInv, OpeningIsAhead, NextNeverBehind,
         OpIsAboveUsed, CommitCoversUse, HeadIsCommitted, LineIsCommitted,
         OutputIsRemembered, KindFitsPhase, TailsAreKept, MakesOutput, Opening,
         JournalKept
    <3> QED
      BY <1>3, <2>1, <3>2
  <2>5. ASSUME NEW x \in op.todo, op' = Cleared(x, op.todo \ {x})
        PROVE  UseInv'
    <3>1. x \in Dirs
      BY DEF TypeOK, Op
    <3>2. /\ op'.phase = "head" /\ op'.kind = "clear" /\ op'.dir = x
          /\ op'.next.nextSequence = head[x].nextSequence
          /\ op'.next.nextOffset = head[x].nextOffset
      BY <2>5, <3>1, ClearedFields
    <3>3. NextNeverBehind' /\ TailsAreKept'
      BY <1>1, <2>1, <2>2, <3>1, <3>2 DEF OpInv, NextNeverBehind, TailsAreKept,
         JournalKept, Head
    <3>4. OpInv'
      BY <3>2, <3>3 DEF OpInv, OpeningIsAhead, OpIsAboveUsed, CommitCoversUse,
         HeadIsCommitted, LineIsCommitted, OutputIsRemembered, KindFitsPhase,
         MakesOutput, Opening
    <3> QED
      BY <1>3, <2>1, <3>4
  <2> QED
    BY <1>11, <2>3, <2>4, <2>5 DEF CommitLine
<1>12. CASE AdvanceWitness
  <2>1. /\ op.phase = "mark" /\ UNCHANGED <<head, jrn, tail, recUse, padUse>>
        /\ Advance(d, op.mark)
    BY <1>12 DEF AdvanceWitness, disk, past
  <2>2. CASE op.kind = "retire" /\ Finish
    BY <1>3, <2>1, <2>2, FinishUse DEF Finish
  <2>3. CASE op.kind # "retire" /\ Proceed("output")
    <3>1. /\ op'.phase = "output" /\ op'.kind = op.kind /\ op'.dir = d
          /\ op'.seq = op.seq /\ op'.start = op.start /\ op'.len = op.len
          /\ op'.next = op.next
      BY <1>4, <2>3 DEF Phases
    <3>2. MakesOutput /\ MakesOutput'
      BY <1>1, <2>1, <2>3, <3>1 DEF OpInv, KindFitsPhase, MakesOutput, Op, Kinds
    <3>3. Witnessed => /\ wit'[d].nextSequence > op.seq
                       /\ wit'[d].nextOffset >= op.start + op.len
      <4>1. op.mark.nextSequence = op.seq + 1 /\ op.mark.nextOffset = op.start + op.len
        BY <2>1, <3>2 DEF OpInv, CommitCoversUse
      <4> QED
        BY <1>1, <2>1, <4>1 DEF Advance, ElementwiseMax, Larger, Mark
    <3>4. /\ head[d].nextSequence = op.seq + 1 /\ head[d].nextOffset = op.start + op.len
      BY <2>1, <3>2 DEF OpInv, HeadIsCommitted
    <3>5. JournalKept => /\ jrn[d].maxSequence > op.seq
                         /\ jrn[d].maxOffset >= op.start + op.len
      BY <2>1, <3>2 DEF OpInv, LineIsCommitted
    <3>6. OutputIsRemembered'
      BY <1>1, <2>1, <3>1, <3>2, <3>3, <3>4, <3>5 DEF OutputIsRemembered,
         RememberedSequence, RememberedOffset, Remembers, JournalKept
    <3>7. HeadIsCommitted' /\ LineIsCommitted' /\ OpIsAboveUsed' /\ NextNeverBehind'
      BY <2>1, <3>1, <3>2 DEF OpInv, HeadIsCommitted, LineIsCommitted, OpIsAboveUsed,
         NextNeverBehind, JournalKept
    <3> QED
      BY <1>3, <2>1, <3>1, <3>6, <3>7 DEF OpInv, OpeningIsAhead, CommitCoversUse,
         KindFitsPhase, TailsAreKept, Opening, JournalKept
  <2> QED
    BY <1>12, <2>2, <2>3 DEF AdvanceWitness
<1>13. CASE Output
  <2>1. /\ op.phase = "output" /\ op' = Idle
        /\ UNCHANGED <<head, jrn, tail, wit>>
        /\ recUse' = [recUse EXCEPT ![d][op.seq] = @ + 1]
        /\ padUse' = [padUse EXCEPT ![d] =
              [o \in Offsets |-> padUse[d][o] +
                                    (IF o \in Window(op.start, op.len) THEN 1 ELSE 0)]]
    BY <1>13 DEF Output, Finish, disk
  <2>2. OpInv'
    BY <2>1, FinishUse
  <2>3. UsedIsRemembered'
    <3>1. /\ RememberedSequence(d) > op.seq /\ RememberedOffset(d) >= op.start + op.len
          /\ \A s \in Records : recUse[d][s] > 0 => s < op.seq
          /\ \A o \in Offsets : padUse[d][o] > 0 => o < op.start
      <4>1. OutputIsRemembered /\ OpIsAboveUsed
        BY DEF OpInv
      <4>2. MakesOutput
        BY <2>1, <4>1 DEF OutputIsRemembered
      <4> QED
        BY <2>1, <4>1, <4>2 DEF OutputIsRemembered, OpIsAboveUsed
    <3>2. /\ recUse \in [Dirs -> [Records -> Nat]] /\ padUse \in [Dirs -> [Offsets -> Nat]]
          /\ Records \subseteq Nat /\ Offsets \subseteq Nat
      <4>1. recUse \in [Dirs -> [Records -> Nat]] /\ padUse \in [Dirs -> [Offsets -> Nat]]
        BY DEF TypeOK
      <4>2. Records \subseteq Nat /\ Offsets \subseteq Nat
        BY SizesAreNatural DEF Records, Offsets
      <4> QED
        BY <4>1, <4>2
    <3>3. ASSUME NEW x \in Dirs
          PROVE  /\ RememberedSequence(x)' = RememberedSequence(x)
                 /\ RememberedOffset(x)' = RememberedOffset(x)
                 /\ RememberedSequence(x) \in Nat /\ RememberedOffset(x) \in Nat
      BY <1>1, <2>1 DEF RememberedSequence, RememberedOffset, Head, Mark, Journal
    <3>4. ASSUME NEW x \in Dirs, NEW s \in Records
          PROVE  recUse'[x][s] <= 1 /\ (recUse'[x][s] > 0 => s < RememberedSequence(x)')
      <4>1. recUse[x][s] <= 1 /\ (recUse[x][s] > 0 => s < RememberedSequence(x))
        BY DEF UsedIsRemembered
      <4>2. CASE x = d /\ s = op.seq
        <5>1. recUse'[x][s] = recUse[d][s] + 1
          BY <1>1, <2>1, <3>2, <4>2
        <5>2. ~(recUse[d][s] > 0) /\ recUse[d][s] \in Nat
          BY <1>1, <3>1, <3>2, <4>2
        <5> QED
          BY <3>1, <3>3, <4>2, <5>1, <5>2
      <4>3. CASE ~(x = d /\ s = op.seq)
        <5>1. recUse'[x][s] = recUse[x][s]
          BY <1>1, <2>1, <3>2, <4>3
        <5> QED
          BY <3>3, <4>1, <5>1
      <4> QED
        BY <4>2, <4>3
    <3>5. ASSUME NEW x \in Dirs, NEW o \in Offsets
          PROVE  padUse'[x][o] <= 1 /\ (padUse'[x][o] > 0 => o < RememberedOffset(x)')
      BY <1>1, <2>1, <3>1, <3>2, <3>3, <3>5 DEF UsedIsRemembered, Window
    <3> QED
      BY <3>4, <3>5 DEF UsedIsRemembered
  <2> QED
    BY <2>2, <2>3
<1> QED
  BY <1>5, <1>6, <1>7, <1>8, <1>9, <1>10, <1>11, <1>12, <1>13 DEF Run

LEMMA FaultUse ==
  ASSUME TypeOK, UseInv, Fault
  PROVE  UseInv'
<1>1. /\ op.phase # "idle" /\ op' = Idle
      /\ UNCHANGED <<head, jrn, wit, recUse, padUse>>
  BY DEF Fault, Crash, CrashInAppend, disk, past
<1>2. UsedIsRemembered'
  BY <1>1 DEF UseInv, UsedIsRemembered, RememberedSequence, RememberedOffset
<1>3. TailsAreKept'
  <2>1. CASE Crash
    BY <1>1, <2>1, IdleType DEF Crash, disk, UseInv, OpInv, TailsAreKept, JournalKept
  <2>2. ASSUME NEW tear \in Tears, CrashInAppend(tear)
        PROVE  TailsAreKept'
    <3>1. SUFFICES ASSUME JournalKept, NEW x \in Dirs
                   PROVE  tail'[x].kind \in {"clean", "torn"}
      BY <1>1, IdleType DEF TailsAreKept, JournalKept
    <3>2. tear = "torn" /\ op.dir \in Dirs /\ tail \in [Dirs -> Tail]
      BY <3>1 DEF JournalKept, TypeOK, Op
    <3>3. tail[x].kind = "clean" /\ tail[op.dir].kind = "clean"
      BY <1>1, <3>1, <3>2 DEF UseInv, OpInv, TailsAreKept
    <3>4. TornTail(tail[op.dir], tear, op.line) = [kind |-> "torn", line |-> InitLine]
      BY <3>2, <3>3 DEF TornTail
    <3>5. tail' = [tail EXCEPT ![op.dir] = [kind |-> "torn", line |-> InitLine]]
      BY <2>2, <3>4 DEF CrashInAppend
    <3> QED
      BY <3>2, <3>3, <3>5
  <2> QED
    BY <2>1, <2>2 DEF Fault
<1> QED
  BY <1>1, <1>2, <1>3, IdleType DEF UseInv, OpInv, OpeningIsAhead, NextNeverBehind,
     OpIsAboveUsed, CommitCoversUse, HeadIsCommitted, LineIsCommitted,
     OutputIsRemembered, KindFitsPhase, MakesOutput, Opening

(* What the operator restores is not what remembers.                       *)
LEMMA OperatorUse ==
  ASSUME TypeOK, UseInv, Remembers, Operator
  PROVE  UseInv'
<1>1. /\ op.phase = "idle" /\ op' = op /\ UNCHANGED <<wit, recUse, padUse>>
  BY DEF Operator, RemoveStaleLock, RemoveLastLine, TakeBackup, Restore, past
<1>2. /\ Restores = {} => head' = head
      /\ JournalKept => jrn' = jrn
  BY DEF Operator, RemoveStaleLock, RemoveLastLine, TakeBackup, Restore, disk, JournalKept
<1>3. UsedIsRemembered'
  BY <1>1, <1>2 DEF UseInv, UsedIsRemembered, RememberedSequence, RememberedOffset,
     Remembers
<1>4. TailsAreKept'
  <2>1. JournalKept => tail' = tail \/ \E x \in Dirs : tail' = [tail EXCEPT ![x] = CleanTail]
    BY DEF Operator, RemoveStaleLock, RemoveLastLine, TakeBackup, Restore, disk, JournalKept
  <2>2. tail \in [Dirs -> Tail]
    BY DEF TypeOK
  <2> QED
    BY <1>1, <2>1, <2>2 DEF UseInv, OpInv, TailsAreKept, JournalKept, CleanTail
<1> QED
  BY <1>1, <1>3, <1>4 DEF UseInv, OpInv, OpeningIsAhead, NextNeverBehind,
     OpIsAboveUsed, CommitCoversUse, HeadIsCommitted, LineIsCommitted,
     OutputIsRemembered, KindFitsPhase, MakesOutput, Opening

LEMMA InitUse == Init => UseInv
BY IdleType DEF Init, CleanTail, UseInv, OpInv, UsedIsRemembered, OpeningIsAhead,
   NextNeverBehind, OpIsAboveUsed, CommitCoversUse, HeadIsCommitted, LineIsCommitted,
   OutputIsRemembered, KindFitsPhase, TailsAreKept, MakesOutput, Opening

LEMMA NextUse ==
  ASSUME TypeOK, UseInv, Remembers, [Next]_vars
  PROVE  UseInv'
<1>1. CASE UNCHANGED vars
  BY <1>1 DEF vars, UseInv, OpInv, UsedIsRemembered, RememberedSequence,
     RememberedOffset, OpeningIsAhead, NextNeverBehind, OpIsAboveUsed, CommitCoversUse,
     HeadIsCommitted, LineIsCommitted, OutputIsRemembered, KindFitsPhase, TailsAreKept,
     MakesOutput, Opening, JournalKept
<1> QED
  BY <1>1, BeginUse, RunUse, FaultUse, OperatorUse DEF Next

LEMMA UseInvariant ==
  ASSUME Remembers
  PROVE  Spec => []UseInv
BY InitUse, NextUse, TypeCorrect, PTL DEF Spec

(* No record and no pad byte makes two outputs, for every size and every   *)
(* number of crashes, backups and restores: with a witness whatever is     *)
(* restored and however lines are torn; without one if only headers are    *)
(* restored and no crash leaves a line without its newline, or if nothing  *)
(* is restored at all (burn, open, commitAdvance, the O2/S0 preflight).    *)
THEOREM MaterialIsUsedOnce ==
  ASSUME Remembers
  PROVE  Spec => []MaterialUsedOnce
<1>1. UseInv => MaterialUsedOnce
  BY DEF UseInv, UsedIsRemembered, MaterialUsedOnce
<1> QED
  BY <1>1, UseInvariant, PTL

-----------------------------------------------------------------------------
(* The refinement: Output is the one step that uses material.              *)

(* Every step of a verb keeps its record, or ends it, or is the next half  *)
(* of a clear.                                                             *)
LEMMA RunKeepsRecord ==
  ASSUME TypeOK, Run
  PROVE  \/ op'.kind = op.kind /\ op'.seq = op.seq /\ op.phase # "idle"
         \/ op' = Idle
         \/ op'.kind = "clear"
<1>1. op \in Op
  BY DEF TypeOK
<1>2. CASE \E phase \in Phases : Proceed(phase)
  BY <1>1, <1>2 DEF Run, Proceed, Op, ReserveAttempt, MarkAttempt, VerifyFails, VerifyPasses,
     Verify, AppendAuthFail, RefuseAuthFailed, CommitHead, CommitLine, AdvanceWitness,
     Output, Withhold
<1>3. CASE Finish
  BY <1>3 DEF Finish
<1>4. CASE VerifyFails
  BY <1>1, <1>4 DEF VerifyFails, Verify, Op
<1>5. CASE VerifyPasses
  <2> DEFINE next == AdvanceHead(op.next, op.start + op.len, op.seq + 1,
                                 Prune(op.next.attempts, op.seq + 1))
             line == [op |-> "open", seq |-> op.seq + 1, off |-> op.start + op.len,
                      count |-> 0]
             mark == [op.mark EXCEPT !.nextOffset = op.start + op.len,
                                     !.nextSequence = op.seq + 1]
  <2>1. op' = [op EXCEPT !.phase = "head", !.next = next, !.line = line, !.mark = mark]
    BY <1>5 DEF VerifyPasses
  <2>2. op.phase # "idle"
    BY <1>5 DEF VerifyPasses, Verify
  <2> HIDE DEF next, line, mark
  <2> QED
    BY <1>1, <2>1, <2>2 DEF Op
<1>6. ASSUME NEW x \in op.todo, op' = Cleared(x, op.todo \ {x})
      PROVE  op'.kind = "clear"
  <2>1. x \in Dirs
    BY DEF TypeOK, Op
  <2> QED
    BY <1>6, <2>1, ClearedFields
<1> QED
  BY <1>2, <1>3, <1>4, <1>5, <1>6 DEF Run, ReserveAttempt, MarkAttempt, AppendAuthFail,
     RefuseAuthFailed, CommitHead, CommitLine, AdvanceWitness, Output, Withhold, Phases

LEMMA NextRange ==
  ASSUME TypeOK, RangeInv, [Next]_vars
  PROVE  RangeInv'
<1>1. CASE Begin
  <2>1. ASSUME NEW d \in Dirs, NEW len, Burn(d, len)
        PROVE  RangeInv'
    <3>1. /\ Effective(d).nextSequence < CapacityRecords
          /\ op'.seq = Effective(d).nextSequence
      BY <2>1 DEF Burn, Start, Idle
    <3> QED
      BY <3>1, EffectiveType, SizesAreNatural DEF RangeInv, Records
  <2>2. ASSUME NEW d \in Dirs, NEW s \in Records, NEW start, NEW len, Open(d, s, start, len)
        PROVE  RangeInv'
    <3>1. op'.seq = s
      BY <2>2 DEF Open, Start, Idle
    <3> QED
      BY <3>1 DEF RangeInv
  <2>3. ASSUME NEW d \in Dirs, NEW sequence, NEW offset, Retire(d, sequence, offset)
        PROVE  RangeInv'
    <3>1. op'.kind = "retire"
      BY <2>3 DEF Retire, Start, Idle
    <3> QED
      BY <3>1 DEF RangeInv, MakesOutput
  <2>4. ASSUME NEW d \in Dirs, ClearFreeze(d)
        PROVE  RangeInv'
    <3>1. op'.kind = "clear"
      BY <2>4, ClearedFields DEF ClearFreeze, Start
    <3> QED
      BY <3>1 DEF RangeInv, MakesOutput
  <2> QED
    BY <1>1, <2>1, <2>2, <2>3, <2>4 DEF Begin
<1>2. CASE Run
  BY <1>2, RunKeepsRecord, IdleType DEF RangeInv, MakesOutput
<1>3. CASE Fault
  BY <1>3, IdleType DEF Fault, Crash, CrashInAppend, RangeInv, MakesOutput
<1>4. CASE Operator \/ UNCHANGED vars
  <2>1. op' = op
    BY <1>4 DEF Operator, RemoveStaleLock, RemoveLastLine, TakeBackup, Restore, vars
  <2> QED
    BY <2>1 DEF RangeInv, MakesOutput
<1> QED
  BY <1>1, <1>2, <1>3, <1>4 DEF Next

LEMMA RangeInvariant == Spec => []RangeInv
<1>1. Init => RangeInv
  BY IdleType DEF Init, RangeInv, MakesOutput
<1> QED
  BY <1>1, NextRange, TypeCorrect, PTL DEF Spec

LEMMA StepRefines ==
  ASSUME TypeOK, UseInv, RangeInv, [Next]_vars
  PROVE  [Abstract!Next]_(Abstract!otpVars)
<1>1. CASE Output
  <2> DEFINE d == op.dir
             window == Window(op.start, op.len)
  <2>1. /\ op.phase = "output" /\ d \in Dirs /\ op.start \in Nat /\ op.len \in Nat
        /\ op.seq \in Nat
    BY <1>1 DEF Output, TypeOK, Op
  <2>2. MakesOutput /\ OpIsAboveUsed
    BY <2>1 DEF UseInv, OpInv, OutputIsRemembered
  <2>3. op.seq \in Records /\ window \in SUBSET Offsets
    BY <2>2 DEF RangeInv, Window
  <2>4. recUse \in [Dirs -> [Records -> Nat]] /\ padUse \in [Dirs -> [Offsets -> Nat]]
    BY DEF TypeOK
  <2>5. Records \subseteq Nat /\ Offsets \subseteq Nat
    BY SizesAreNatural DEF Records, Offsets
  <2>6. \A r \in Records : r >= op.seq => recUse[d][r] = 0
    BY <2>1, <2>2, <2>4, <2>5 DEF OpIsAboveUsed
  <2>7. \A w \in window, o \in Offsets : o >= w => padUse[d][o] = 0
    BY <2>1, <2>2, <2>4, <2>5 DEF OpIsAboveUsed, Window
  <2>8. Abstract!UseRecord(d, op.seq) /\ Abstract!UseWindow(d, window)
    BY <1>1, <2>6, <2>7 DEF Output, Abstract!UseRecord, Abstract!UseWindow
  <2> QED
    BY <2>1, <2>3, <2>8 DEF Abstract!Next
<1>2. CASE ~Output
  <2>1. UNCHANGED <<recUse, padUse>>
    <3>1. CASE Begin
      BY <3>1, BeginWritesNothing
    <3>2. CASE Run
      BY <1>2, <3>2 DEF Run, ReserveAttempt, MarkAttempt, VerifyFails, VerifyPasses, Verify,
         AppendAuthFail, RefuseAuthFailed, CommitHead, CommitLine, AdvanceWitness, Withhold,
         past
    <3>3. CASE Fault \/ Operator \/ UNCHANGED vars
      BY <3>3 DEF Fault, Crash, CrashInAppend, Operator, RemoveStaleLock, RemoveLastLine,
         TakeBackup, Restore, vars, past
    <3> QED
      BY <3>1, <3>2, <3>3 DEF Next
  <2> QED
    BY <2>1 DEF Abstract!otpVars
<1> QED
  BY <1>1, <1>2

(* A copy whose use is remembered implements the one-time pad: its outputs *)
(* are made from records and pad bytes above all the earlier ones, each at *)
(* most once, and everything else it does is a stuttering step.            *)
THEOREM ImplementsOneTimePad ==
  ASSUME Remembers
  PROVE  Spec => RefinesOneTimePad
<1>1. Init => Abstract!Init
  BY DEF Init, Abstract!Init
<1> QED
  BY <1>1, StepRefines, TypeCorrect, UseInvariant, RangeInvariant, PTL
     DEF Spec, RefinesOneTimePad, Abstract!Spec

-----------------------------------------------------------------------------
(* The witness and the verifications.                                      *)

LEMMA BeginAttempts ==
  ASSUME TypeOK, AttemptInv, Begin
  PROVE  AttemptInv'
<1> SUFFICES ASSUME Witnessed PROVE AttemptInv'
  BY DEF AttemptInv
<1>1. UNCHANGED <<wit, begunAll>>
  BY BeginWritesNothing
<1>2. ASSUME NEW d \in Dirs, NEW len, Burn(d, len)
      PROVE  op'.phase = "head"
  BY <1>2 DEF Burn, Start, Idle
<1>3. ASSUME NEW d \in Dirs, NEW s, NEW start, NEW len, Open(d, s, start, len)
      PROVE  op'.phase = "reserve" /\ op'.dir = d /\ op'.mark.reserved > begunAll[d]
  <2>1. /\ op'.phase = "reserve" /\ op'.dir = d
        /\ op'.mark.reserved = Effective(d).reserved + 1
    BY <1>3 DEF Open, Start, Idle
  <2>2. Effective(d).reserved >= wit[d].reserved
    BY <1>3 DEF Open, Preflight, AtOrAbove
  <2>3. Effective(d).reserved \in Nat /\ wit[d].reserved \in Nat /\ begunAll[d] \in Nat
    BY EffectiveType DEF TypeOK, Mark
  <2>4. begunAll[d] <= wit[d].reserved
    BY DEF AttemptInv
  <2> QED
    BY <2>1, <2>2, <2>3, <2>4
<1>4. ASSUME NEW d \in Dirs, NEW sequence, NEW offset, Retire(d, sequence, offset)
      PROVE  op'.phase = "head"
  BY <1>4 DEF Retire, Start, Idle
<1>5. ASSUME NEW d \in Dirs, ClearFreeze(d)
      PROVE  op'.phase = "head"
  BY <1>5, ClearedFields DEF ClearFreeze, Start
<1>6. \/ op'.phase = "head"
      \/ op'.phase = "reserve" /\ op'.mark.reserved > begunAll[op'.dir]
  BY <1>2, <1>3, <1>4, <1>5 DEF Begin
<1> QED
  BY <1>1, <1>6 DEF AttemptInv

LEMMA RunAttempts ==
  ASSUME TypeOK, AttemptInv, Run
  PROVE  AttemptInv'
<1> DEFINE d == op.dir
<1> SUFFICES ASSUME Witnessed PROVE AttemptInv'
  BY DEF AttemptInv
<1>1. /\ op \in Op /\ d \in Dirs /\ op.mark \in Mark /\ wit \in [Dirs -> Mark]
      /\ begunAll \in [Dirs -> Nat]
  BY DEF TypeOK, Op
<1>2. \A x \in Dirs : wit[x].reserved \in Nat /\ begunAll[x] <= wit[x].reserved
  BY <1>1 DEF AttemptInv, Mark
<1>3. ASSUME NEW m \in Mark
      PROVE  \A x \in Dirs :
               [wit EXCEPT ![d] = ElementwiseMax(wit[d], m)][x].reserved >= wit[x].reserved
  BY <1>1, <1>2 DEF ElementwiseMax, Larger, Mark
<1>4. CASE ReserveAttempt
  <2>1. UNCHANGED <<wit, begunAll>> /\ op.phase = "reserve"
    BY <1>4 DEF ReserveAttempt, past
  <2>2. op'.phase = "markAttempt" /\ op'.dir = d /\ op'.mark = op.mark
    BY <1>1, <1>4 DEF ReserveAttempt, Proceed, Op
  <2> QED
    BY <2>1, <2>2 DEF AttemptInv
<1>5. CASE MarkAttempt
  <2>1. /\ begunAll' = begunAll /\ op.phase = "markAttempt"
        /\ wit' = [wit EXCEPT ![d] = ElementwiseMax(wit[d], op.mark)]
    BY <1>5 DEF MarkAttempt, Advance, past
  <2>2. op'.phase = "verify" /\ op'.dir = d
    BY <1>1, <1>5 DEF MarkAttempt, Proceed, Op
  <2>3. wit'[d].reserved > begunAll[d]
    BY <1>1, <1>2, <2>1 DEF AttemptInv, ElementwiseMax, Larger, Mark
  <2>4. \A x \in Dirs : wit'[x].reserved \in Nat /\ wit'[x].reserved >= wit[x].reserved
    BY <1>1, <1>2, <1>3, <2>1 DEF ElementwiseMax, Larger, Mark
  <2> QED
    BY <1>1, <1>2, <2>1, <2>2, <2>3, <2>4 DEF AttemptInv
<1>6. CASE VerifyFails \/ VerifyPasses
  <2>1. /\ op.phase = "verify" /\ wit' = wit
        /\ begunAll' = [begunAll EXCEPT ![d] = begunAll[d] + 1]
    BY <1>6 DEF VerifyFails, VerifyPasses, Verify
  <2>2. op'.phase \in {"failLine", "head"}
    BY <1>1, <1>6 DEF VerifyFails, VerifyPasses, Op
  <2>3. wit[d].reserved > begunAll[d]
    BY <2>1 DEF AttemptInv
  <2>4. \A x \in Dirs : begunAll'[x] <= wit[x].reserved
    BY <1>1, <1>2, <2>1, <2>3
  <2> QED
    BY <2>1, <2>2, <2>4 DEF AttemptInv
<1>7. CASE AppendAuthFail \/ CommitHead \/ CommitLine
  <2>1. UNCHANGED <<wit, begunAll>>
    BY <1>7 DEF AppendAuthFail, CommitHead, CommitLine, past
  <2>2. op'.phase \in {"failHead", "line", "mark", "idle", "head"}
    <3>1. \A x \in op.todo : Cleared(x, op.todo \ {x}).phase = "head"
      BY ClearedFields DEF TypeOK, Op
    <3> QED
      BY <1>1, <1>7, <3>1, IdleType DEF AppendAuthFail, CommitHead, CommitLine, Proceed,
         Finish, Op
  <2> QED
    BY <2>1, <2>2 DEF AttemptInv
<1>8. CASE AdvanceWitness
  <2>1. begunAll' = begunAll /\ wit' = [wit EXCEPT ![d] = ElementwiseMax(wit[d], op.mark)]
    BY <1>8 DEF AdvanceWitness, Advance, past
  <2>2. op'.phase \in {"output", "idle"}
    BY <1>1, <1>8, IdleType DEF AdvanceWitness, Proceed, Finish, Op
  <2>3. \A x \in Dirs : wit'[x].reserved \in Nat /\ wit'[x].reserved >= wit[x].reserved
    BY <1>1, <1>2, <1>3, <2>1 DEF ElementwiseMax, Larger, Mark
  <2> QED
    BY <1>1, <1>2, <2>1, <2>2, <2>3 DEF AttemptInv
<1>9. CASE RefuseAuthFailed \/ Output \/ Withhold
  BY <1>9, IdleType DEF RefuseAuthFailed, Output, Withhold, Finish, AttemptInv, past
<1> QED
  BY <1>4, <1>5, <1>6, <1>7, <1>8, <1>9 DEF Run

LEMMA AttemptInvariant == Spec => []AttemptInv
<1>1. Init => AttemptInv
  BY IdleType DEF Init, AttemptInv, NoMark
<1>2. ASSUME TypeOK, AttemptInv, [Next]_vars
      PROVE  AttemptInv'
  <2>1. CASE Fault
    BY <1>2, <2>1, IdleType DEF Fault, Crash, CrashInAppend, AttemptInv, past
  <2>2. CASE Operator \/ UNCHANGED vars
    <3>1. UNCHANGED <<wit, op, begunAll>>
      BY <2>2 DEF Operator, RemoveStaleLock, RemoveLastLine, TakeBackup, Restore, vars, past
    <3> QED
      BY <1>2, <3>1 DEF AttemptInv
  <2> QED
    BY <1>2, <2>1, <2>2, BeginAttempts, RunAttempts DEF Next
<1> QED
  BY <1>1, <1>2, TypeCorrect, PTL DEF Spec

(* The witness stays ahead of everything that left the pair and of every   *)
(* verification that began, whatever the operator restores and wherever a  *)
(* crash falls (advance before the output, advance before the tag).        *)
THEOREM WitnessAlwaysCovers == Spec => []WitnessCovers
<1>1. CASE Witnessed
  <2>1. Remembers
    BY <1>1 DEF Remembers
  <2>2. UseInv /\ AttemptInv => WitnessCovers
    BY DEF UseInv, UsedIsRemembered, AttemptInv, WitnessCovers, RememberedSequence,
       RememberedOffset
  <2> QED
    BY <2>1, <2>2, UseInvariant, AttemptInvariant, PTL
<1>2. CASE ~Witnessed
  <2>1. WitnessCovers
    BY <1>2 DEF WitnessCovers
  <2>2. []WitnessCovers
    BY <2>1, PTL
  <2> QED
    BY <2>2, PTL
<1> QED
  BY <1>1, <1>2
-----------------------------------------------------------------------------
(* What a step makes of the verb's record, field by field.                 *)

LEMMA BurnEffect ==
  ASSUME TypeOK, NEW d \in Dirs, NEW len \in Lengths, Burn(d, len)
  PROVE  /\ op'.phase = "head" /\ op'.kind = "burn" /\ op'.dir = d
         /\ op'.line.op = "send" /\ op'.line.seq = op'.next.nextSequence
         /\ op'.line.off = op'.next.nextOffset
         /\ op'.next.nextSequence >= head[d].nextSequence
         /\ op'.next.nextOffset >= head[d].nextOffset
         /\ op'.next.failureCount = head[d].failureCount
         /\ op'.next.cleared = head[d].cleared
<1> DEFINE e == Effective(d)
<1>1. /\ e.nextSequence = head[d].nextSequence /\ e.nextOffset = head[d].nextOffset
      /\ head[d] \in Head /\ len \in Nat
  BY EffectiveCounters, SizesAreNatural DEF TypeOK
<1>2. /\ op'.phase = "head" /\ op'.kind = "burn" /\ op'.dir = d
      /\ op'.next = AdvanceHead(head[d], e.nextOffset + len, e.nextSequence + 1,
                                head[d].attempts)
      /\ op'.line = [op |-> "send", seq |-> e.nextSequence + 1,
                     off |-> e.nextOffset + len, count |-> 0]
  BY DEF Burn, Start, Idle
<1> HIDE DEF e
<1> QED
  BY <1>1, <1>2 DEF AdvanceHead, Head

LEMMA OpenEffect ==
  ASSUME TypeOK, NEW d \in Dirs, NEW s \in Records, NEW start \in 0 .. Capacity,
         NEW len \in Lengths, Open(d, s, start, len)
  PROVE  /\ op'.phase = "reserve" /\ op'.kind = "open" /\ op'.dir = d /\ op'.seq = s
         /\ op'.start = start /\ op'.next = head[d] /\ op'.fails = Effective(d).failureCount
         /\ op'.line.op = "attempt" /\ op'.line.seq = s
         /\ s >= head[d].nextSequence /\ start >= head[d].nextOffset
         /\ Effective(d).attempts[s] < VerifyAttemptLimit
         /\ ~Frozen(d)
<1>1. /\ Effective(d).nextSequence = head[d].nextSequence
      /\ Effective(d).nextOffset = head[d].nextOffset
      /\ head[d] \in Head /\ s \in Nat /\ start \in Nat
  BY EffectiveCounters, SizesAreNatural DEF TypeOK, Records
<1>2. s >= head[d].nextSequence /\ start >= head[d].nextOffset
  BY <1>1 DEF Open, Head
<1> QED
  BY <1>2 DEF Open, Start, Idle, NotFrozen

LEMMA RetireEffect ==
  ASSUME TypeOK, NEW d \in Dirs, NEW sequence \in 1 .. CapacityRecords,
         NEW offset \in 0 .. Capacity, Retire(d, sequence, offset)
  PROVE  /\ op'.phase = "head" /\ op'.kind = "retire" /\ op'.dir = d
         /\ op'.line.op = "retire" /\ op'.line.seq = op'.next.nextSequence
         /\ op'.line.off = op'.next.nextOffset
         /\ op'.next.nextSequence >= head[d].nextSequence
         /\ op'.next.nextOffset >= head[d].nextOffset
         /\ op'.next.failureCount = head[d].failureCount
         /\ op'.next.cleared = head[d].cleared
<1>1. /\ Effective(d).nextSequence = head[d].nextSequence
      /\ Effective(d).nextOffset = head[d].nextOffset
      /\ head[d] \in Head
  BY EffectiveCounters DEF TypeOK
<1>2. /\ op'.phase = "head" /\ op'.kind = "retire" /\ op'.dir = d
      /\ op'.next = AdvanceHead(head[d], offset, sequence,
                                Prune(head[d].attempts, sequence))
      /\ op'.line = [op |-> "retire", seq |-> sequence, off |-> offset, count |-> 0]
      /\ sequence >= head[d].nextSequence /\ offset >= head[d].nextOffset
  BY <1>1 DEF Retire, Start, Idle, Head
<1> QED
  BY <1>1, <1>2 DEF AdvanceHead, Head

LEMMA ClearedEffect ==
  ASSUME TypeOK, NEW d \in Dirs, NEW rest
  PROVE  /\ Cleared(d, rest).line.op = "clear-freeze"
         /\ Cleared(d, rest).line.count = Effective(d).failureCount
         /\ Cleared(d, rest).next.failureCount = Effective(d).failureCount
         /\ Cleared(d, rest).next.cleared = Effective(d).failureCount
<1> DEFINE fails == Effective(d).failureCount
           next == [head[d] EXCEPT !.failureCount = fails, !.cleared = fails]
           line == [op |-> "clear-freeze", seq |-> 0, off |-> 0, count |-> fails]
<1>1. next.failureCount = fails /\ next.cleared = fails
  BY DEF TypeOK, Head
<1>2. line.op = "clear-freeze" /\ line.count = fails
  OBVIOUS
<1>3. Cleared(d, rest) =
        [Idle EXCEPT !.phase = "head", !.kind = "clear", !.dir = d, !.todo = rest,
           !.next = next, !.line = line]
  BY DEF Cleared
<1> HIDE DEF next, line, fails
<1>4. Cleared(d, rest).next = next /\ Cleared(d, rest).line = line
  BY <1>3 DEF Idle
<1> QED
  BY <1>1, <1>2, <1>4 DEF fails

LEMMA ProceedEffect ==
  ASSUME TypeOK, NEW phase \in Phases, Proceed(phase)
  PROVE  /\ op'.phase = phase /\ op'.kind = op.kind /\ op'.dir = op.dir
         /\ op'.seq = op.seq /\ op'.start = op.start /\ op'.fails = op.fails
         /\ op'.next = op.next /\ op'.line = op.line
BY DEF Proceed, TypeOK, Op

LEMMA VerifyFailsEffect ==
  ASSUME TypeOK, VerifyFails
  PROVE  /\ op'.phase = "failLine" /\ op'.kind = op.kind /\ op'.dir = op.dir
         /\ op'.seq = op.seq /\ op'.start = op.start
         /\ op'.next.nextSequence = op.next.nextSequence
         /\ op'.next.nextOffset = op.next.nextOffset
         /\ op'.next.cleared = op.next.cleared
         /\ op'.next.failureCount = op.fails + 1
         /\ op'.line.op = "auth-fail" /\ op'.line.count = op.fails + 1
<1> DEFINE next == [op.next EXCEPT !.failureCount = op.fails + 1,
                                   !.attempts[op.seq] = op.tries + 1]
           line == [op |-> "auth-fail", seq |-> op.seq, off |-> 0, count |-> op.fails + 1]
<1>1. op \in Op /\ op.next \in Head
  BY DEF TypeOK, Op
<1>2. /\ next.nextSequence = op.next.nextSequence /\ next.nextOffset = op.next.nextOffset
      /\ next.cleared = op.next.cleared /\ next.failureCount = op.fails + 1
  BY <1>1 DEF Head
<1>3. line.op = "auth-fail" /\ line.count = op.fails + 1
  OBVIOUS
<1>4. op' = [op EXCEPT !.phase = "failLine", !.next = next, !.line = line]
  BY DEF VerifyFails
<1> HIDE DEF next, line
<1> QED
  BY <1>1, <1>2, <1>3, <1>4 DEF Op

LEMMA VerifyPassesEffect ==
  ASSUME TypeOK, VerifyPasses
  PROVE  /\ op'.phase = "head" /\ op'.kind = op.kind /\ op'.dir = op.dir
         /\ op'.next.nextSequence = op.seq + 1
         /\ op'.next.nextOffset = op.start + op.len
         /\ op'.next.cleared = op.next.cleared
         /\ op'.next.failureCount = op.next.failureCount
         /\ op'.line.op = "open" /\ op'.line.seq = op.seq + 1
         /\ op'.line.off = op.start + op.len
<1> DEFINE offset == op.start + op.len
           sequence == op.seq + 1
           next == AdvanceHead(op.next, offset, sequence, Prune(op.next.attempts, sequence))
           line == [op |-> "open", seq |-> sequence, off |-> offset, count |-> 0]
           mark == [op.mark EXCEPT !.nextOffset = offset, !.nextSequence = sequence]
<1>1. op \in Op /\ op.next \in Head
  BY DEF TypeOK, Op
<1>2. /\ next.nextSequence = sequence /\ next.nextOffset = offset
      /\ next.cleared = op.next.cleared /\ next.failureCount = op.next.failureCount
  BY <1>1 DEF AdvanceHead, Head
<1>3. line.op = "open" /\ line.seq = sequence /\ line.off = offset
  OBVIOUS
<1>4. op' = [op EXCEPT !.phase = "head", !.next = next, !.line = line, !.mark = mark]
  BY DEF VerifyPasses
<1> HIDE DEF next, line, mark
<1> QED
  BY <1>1, <1>2, <1>3, <1>4 DEF Op
-----------------------------------------------------------------------------
(* The inductive invariant behind CrashNeverRegresses: a line that carries *)
(* a position reaches the journal only after a header that covers it.      *)

FirstTheHeader ==
  /\ op.phase \in {"reserve", "failLine"} => op.line.op \notin Advances
  /\ op.phase = "head" /\ op.line.op \in Advances =>
       op.next.nextSequence >= op.line.seq /\ op.next.nextOffset >= op.line.off
  /\ op.phase = "line" /\ op.line.op \in Advances =>
       head[op.dir].nextSequence >= op.line.seq /\ head[op.dir].nextOffset >= op.line.off
OrderInv == OpeningIsAhead /\ NextNeverBehind /\ FirstTheHeader /\ CrashNeverRegresses

LEMMA LineIsBelow ==
  ASSUME NEW j \in Journal, NEW l \in Line, NEW h \in Head,
         h.nextSequence >= j.maxSequence, h.nextOffset >= j.maxOffset,
         l.op \in Advances => h.nextSequence >= l.seq /\ h.nextOffset >= l.off
  PROVE  /\ h.nextSequence >= Apply(j, l).maxSequence
         /\ h.nextOffset >= Apply(j, l).maxOffset
BY DEF Apply, Larger, Journal, Line, Head

(* The lines without the last one are no further than the lines with it.   *)
LEMMA TerminatedAreBelow ==
  ASSUME TypeOK, NEW d \in Dirs, HeaderAboveJournal(d)
  PROVE  /\ head[d].nextSequence >= jrn[d].maxSequence
         /\ head[d].nextOffset >= jrn[d].maxOffset
<1>1. jrn[d] \in Journal /\ tail[d].line \in Line /\ head[d] \in Head
  BY DEF TypeOK, Tail
<1>2. CASE tail[d].kind = "unterminated"
  <2>1. ReadJournal(d) = Apply(jrn[d], tail[d].line)
    BY <1>2 DEF ReadJournal
  <2>2. /\ ReadJournal(d).maxSequence >= jrn[d].maxSequence
        /\ ReadJournal(d).maxOffset >= jrn[d].maxOffset
    BY <1>1, <2>1, ApplyGrows
  <2>3. ReadJournal(d) \in Journal
    BY ReadJournalType
  <2> QED
    BY <1>1, <2>2, <2>3 DEF HeaderAboveJournal, Journal, Head
<1>3. CASE tail[d].kind # "unterminated"
  BY <1>3 DEF HeaderAboveJournal, ReadJournal
<1> QED
  BY <1>2, <1>3

LEMMA TearKinds ==
  ASSUME NEW t \in Tail, NEW tear \in {"torn", "unterminated"}, NEW l \in Line
  PROVE  \/ TornTail(t, tear, l).kind # "unterminated"
         \/ TornTail(t, tear, l).kind = "unterminated" /\ TornTail(t, tear, l).line = l
BY DEF TornTail, Tail

(* Appending a line the header already covers, or crashing inside it.      *)
LEMMA CoveredLine ==
  ASSUME TypeOK, NEW d \in Dirs, NEW l \in Line, UNCHANGED head,
         \A x \in Dirs : HeaderAboveJournal(x),
         l.op \in Advances => /\ head[d].nextSequence >= l.seq
                              /\ head[d].nextOffset >= l.off,
         \/ AppendLine(d, l)
         \/ /\ jrn' = jrn
            /\ \E tear \in Tears : tail' = [tail EXCEPT ![d] = TornTail(@, tear, l)]
  PROVE  \A x \in Dirs : HeaderAboveJournal(x)'
<1> TAKE x \in Dirs
<1>1. /\ jrn \in [Dirs -> Journal] /\ tail \in [Dirs -> Tail] /\ head[d] \in Head
      /\ tail[d] \in Tail /\ jrn[d] \in Journal
  BY DEF TypeOK
<1>2. CASE x # d
  <2>1. jrn'[x] = jrn[x] /\ tail'[x] = tail[x]
    BY <1>1, <1>2 DEF AppendLine
  <2> QED
    BY <2>1 DEF HeaderAboveJournal, ReadJournal
<1>3. CASE x = d
  <2>1. /\ head[d].nextSequence >= jrn[d].maxSequence
        /\ head[d].nextOffset >= jrn[d].maxOffset
    BY TerminatedAreBelow
  <2>2. /\ head[d].nextSequence >= Apply(jrn[d], l).maxSequence
        /\ head[d].nextOffset >= Apply(jrn[d], l).maxOffset
    BY <1>1, <2>1, LineIsBelow
  <2>3. \/ jrn'[d] = Apply(jrn[d], l) /\ tail'[d].kind # "unterminated"
        \/ jrn'[d] = jrn[d] /\ tail'[d].kind # "unterminated"
        \/ jrn'[d] = jrn[d] /\ tail'[d].kind = "unterminated" /\ tail'[d].line = l
    <3>1. CASE AppendLine(d, l)
      BY <1>1, <3>1 DEF AppendLine
    <3>2. ASSUME NEW tear \in Tears, jrn' = jrn,
                 tail' = [tail EXCEPT ![d] = TornTail(tail[d], tear, l)]
          PROVE  \/ jrn'[d] = jrn[d] /\ tail'[d].kind # "unterminated"
                 \/ /\ jrn'[d] = jrn[d] /\ tail'[d].kind = "unterminated"
                    /\ tail'[d].line = l
      <4>1. tail'[d] = TornTail(tail[d], tear, l)
        BY <1>1, <3>2
      <4> QED
        BY <1>1, <3>2, <4>1, TearKinds, ModesAreKnown
    <3> QED
      BY <3>1, <3>2
  <2>4. \/ ReadJournal(d)' = Apply(jrn[d], l)
        \/ ReadJournal(d)' = jrn[d]
    BY <2>3 DEF ReadJournal
  <2> QED
    BY <1>3, <2>1, <2>2, <2>4 DEF HeaderAboveJournal
<1> QED
  BY <1>2, <1>3

LEMMA BeginStarts ==
  ASSUME Begin
  PROVE  UNCHANGED <<disk, wit, past, world, backups, crashes, restores, refused>>
<1>1. \A newOp : Start(newOp) =>
        UNCHANGED <<disk, wit, past, world, backups, crashes, restores, refused>>
  BY DEF Start, past, world
<1>2. \A d, len : Burn(d, len) => \E newOp : Start(newOp)
  BY DEF Burn
<1>3. \A d, s, start, len : Open(d, s, start, len) => \E newOp : Start(newOp)
  BY DEF Open
<1>4. \A d, sequence, offset : Retire(d, sequence, offset) => \E newOp : Start(newOp)
  BY DEF Retire
<1>5. \A d : ClearFreeze(d) => \E newOp : Start(newOp)
  BY DEF ClearFreeze
<1>6. \E newOp : Start(newOp)
  BY <1>2, <1>3, <1>4, <1>5 DEF Begin
<1> QED
  BY <1>1, <1>6

LEMMA BeginOrder ==
  ASSUME TypeOK, OrderInv, Begin
  PROVE  OrderInv'
<1>1. UNCHANGED <<head, jrn, tail>> /\ restores' = restores
  BY BeginWritesNothing, BeginStarts
<1>2. CrashNeverRegresses'
  BY <1>1 DEF OrderInv, CrashNeverRegresses, HeaderAboveJournal, ReadJournal
<1>3. ASSUME NEW d \in Dirs, NEW len \in Lengths, Burn(d, len)
      PROVE  OpeningIsAhead' /\ NextNeverBehind' /\ FirstTheHeader'
  <2>1. op'.next \in Head
    BY BeginType DEF TypeOK, Op
  <2> QED
    BY <1>1, <1>3, <2>1, BurnEffect DEF OpeningIsAhead, NextNeverBehind, FirstTheHeader,
       Opening, Head
<1>4. ASSUME NEW d \in Dirs, NEW s \in Records, NEW start \in 0 .. Capacity,
             NEW len \in Lengths, Open(d, s, start, len)
      PROVE  OpeningIsAhead' /\ NextNeverBehind' /\ FirstTheHeader'
  <2>1. head[d] \in Head
    BY DEF TypeOK
  <2> QED
    BY <1>1, <1>4, <2>1, OpenEffect DEF OpeningIsAhead, NextNeverBehind, FirstTheHeader,
       Advances, Head
<1>5. ASSUME NEW d \in Dirs, NEW sequence \in 1 .. CapacityRecords,
             NEW offset \in 0 .. Capacity, Retire(d, sequence, offset)
      PROVE  OpeningIsAhead' /\ NextNeverBehind' /\ FirstTheHeader'
  <2>1. op'.next \in Head
    BY BeginType DEF TypeOK, Op
  <2> QED
    BY <1>1, <1>5, <2>1, RetireEffect DEF OpeningIsAhead, NextNeverBehind, FirstTheHeader,
       Opening, Head
<1>6. ASSUME NEW d \in Dirs, NEW rest, op' = Cleared(d, rest)
      PROVE  OpeningIsAhead' /\ NextNeverBehind' /\ FirstTheHeader'
  <2>1. head[d] \in Head
    BY DEF TypeOK
  <2>2. /\ op'.phase = "head" /\ op'.dir = d /\ op'.line.op = "clear-freeze"
        /\ op'.next.nextSequence = head[d].nextSequence
        /\ op'.next.nextOffset = head[d].nextOffset
    BY <1>6, ClearedFields, ClearedEffect
  <2> QED
    BY <1>1, <2>1, <2>2 DEF OpeningIsAhead, NextNeverBehind, FirstTheHeader, Opening,
       Advances, Head
<1>7. OpeningIsAhead' /\ NextNeverBehind' /\ FirstTheHeader'
  BY <1>3, <1>4, <1>5, <1>6 DEF Begin, ClearFreeze, Start
<1> QED
  BY <1>2, <1>7 DEF OrderInv

LEMMA FinishOrder ==
  ASSUME OrderInv, op' = Idle, CrashNeverRegresses'
  PROVE  OrderInv'
BY IdleType DEF OrderInv, OpeningIsAhead, NextNeverBehind, FirstTheHeader, Opening

LEMMA RunOrder ==
  ASSUME TypeOK, OrderInv, Run
  PROVE  OrderInv'
<1> DEFINE d == op.dir
<1> USE DEF OrderInv
<1>1. /\ d \in Dirs /\ op.line \in Line /\ op.next \in Head
      /\ op.seq \in Nat /\ op.start \in Nat /\ op.len \in Nat
      /\ head \in [Dirs -> Head] /\ jrn \in [Dirs -> Journal] /\ head[d] \in Head
      /\ op \in Op
  BY DEF TypeOK, Op
<1>2. restores' = restores
  BY DEF Run, ReserveAttempt, MarkAttempt, VerifyFails, VerifyPasses, Verify,
     AppendAuthFail, RefuseAuthFailed, CommitHead, CommitLine, AdvanceWitness,
     Output, Withhold, world
<1>3. UNCHANGED disk => CrashNeverRegresses'
  BY <1>2 DEF CrashNeverRegresses, HeaderAboveJournal, ReadJournal, disk
<1>4. ASSUME AppendLine(d, op.line), UNCHANGED head,
             op.line.op \in Advances => /\ head[d].nextSequence >= op.line.seq
                                        /\ head[d].nextOffset >= op.line.off
      PROVE  CrashNeverRegresses'
  BY <1>1, <1>2, <1>4, CoveredLine DEF CrashNeverRegresses
<1>5. ASSUME head' = [head EXCEPT ![d] = op.next], UNCHANGED <<jrn, tail>>,
             op.phase # "idle"
      PROVE  CrashNeverRegresses'
  <2>1. SUFFICES ASSUME restores = 0, NEW x \in Dirs
                 PROVE  HeaderAboveJournal(x)'
    BY <1>2 DEF CrashNeverRegresses
  <2>2. HeaderAboveJournal(x) /\ ReadJournal(x)' = ReadJournal(x) /\ ReadJournal(x) \in Journal
    BY <1>5, <2>1, ReadJournalType DEF CrashNeverRegresses, ReadJournal
  <2>3. head'[x] \in Head /\ head[x] \in Head
        /\ head'[x].nextSequence >= head[x].nextSequence
        /\ head'[x].nextOffset >= head[x].nextOffset
    BY <1>1, <1>5 DEF NextNeverBehind, Head
  <2> QED
    BY <2>2, <2>3 DEF HeaderAboveJournal, Journal, Head
<1>6. CASE ReserveAttempt \/ AppendAuthFail
  <2>1. /\ op.phase \in {"reserve", "failLine"} /\ UNCHANGED head /\ AppendLine(d, op.line)
        /\ Proceed("markAttempt") \/ Proceed("failHead")
    BY <1>6 DEF ReserveAttempt, AppendAuthFail
  <2>2. CrashNeverRegresses'
    BY <1>4, <2>1 DEF FirstTheHeader
  <2>3. /\ op'.phase \in {"markAttempt", "failHead"} /\ op'.kind = op.kind /\ op'.dir = d
        /\ op'.seq = op.seq /\ op'.start = op.start /\ op'.next = op.next
    BY <2>1, ProceedEffect DEF Phases
  <2> QED
    BY <2>1, <2>2, <2>3 DEF OpeningIsAhead, NextNeverBehind, FirstTheHeader, Opening
<1>7. CASE MarkAttempt
  <2>1. op.phase = "markAttempt" /\ UNCHANGED disk /\ UNCHANGED head /\ Proceed("verify")
    BY <1>7 DEF MarkAttempt, disk
  <2>2. /\ op'.phase = "verify" /\ op'.kind = op.kind /\ op'.dir = d
        /\ op'.seq = op.seq /\ op'.start = op.start /\ op'.next = op.next
    BY <2>1, ProceedEffect DEF Phases
  <2> QED
    BY <1>3, <2>1, <2>2 DEF OpeningIsAhead, NextNeverBehind, FirstTheHeader, Opening
<1>8. CASE VerifyFails
  <2>1. op.phase = "verify" /\ UNCHANGED disk /\ UNCHANGED head
    BY <1>8 DEF VerifyFails, Verify, disk
  <2> QED
    BY <1>3, <1>8, <2>1, VerifyFailsEffect DEF OpeningIsAhead, NextNeverBehind,
       FirstTheHeader, Opening, Advances
<1>9. CASE VerifyPasses
  <2>1. op.phase = "verify" /\ UNCHANGED disk /\ UNCHANGED head
    BY <1>9 DEF VerifyPasses, Verify, disk
  <2>2. op.seq >= head[d].nextSequence /\ op.start >= head[d].nextOffset
    BY <2>1 DEF OpeningIsAhead, Opening
  <2>3. head[d].nextSequence \in Nat /\ head[d].nextOffset \in Nat
    BY <1>1 DEF Head
  <2>4. /\ op.seq + 1 >= head[d].nextSequence /\ op.start + op.len >= head[d].nextOffset
        /\ op.seq + 1 >= op.seq + 1 /\ op.start + op.len >= op.start + op.len
    BY <1>1, <2>2, <2>3
  <2> QED
    BY <1>3, <1>9, <2>1, <2>4, VerifyPassesEffect DEF OpeningIsAhead, NextNeverBehind,
       FirstTheHeader, Opening
<1>10. CASE RefuseAuthFailed \/ Withhold
  <2>1. op' = Idle /\ CrashNeverRegresses'
    BY <1>3, <1>5, <1>10 DEF RefuseAuthFailed, Withhold, Finish
  <2> QED
    BY <2>1, FinishOrder
<1>11. CASE CommitHead
  <2>1. /\ op.phase = "head" /\ UNCHANGED <<jrn, tail>>
        /\ head' = [head EXCEPT ![d] = op.next] /\ Proceed("line")
    BY <1>11 DEF CommitHead
  <2>2. /\ op'.phase = "line" /\ op'.dir = d /\ op'.next = op.next /\ op'.line = op.line
    BY <2>1, ProceedEffect DEF Phases
  <2>3. head'[d] = op.next
    BY <1>1, <2>1
  <2> QED
    BY <1>1, <1>5, <2>1, <2>2, <2>3 DEF OpeningIsAhead, NextNeverBehind, FirstTheHeader,
       Opening, Head
<1>12. CASE CommitLine
  <2>1. op.phase = "line" /\ UNCHANGED head /\ AppendLine(d, op.line)
    BY <1>12 DEF CommitLine
  <2>2. CrashNeverRegresses'
    BY <1>4, <2>1 DEF FirstTheHeader
  <2>3. CASE Proceed("mark")
    <3>1. op'.phase = "mark" /\ op'.dir = d /\ op'.next = op.next
      BY <2>3, ProceedEffect DEF Phases
    <3> QED
      BY <2>1, <2>2, <3>1 DEF OpeningIsAhead, NextNeverBehind, FirstTheHeader, Opening
  <2>4. CASE Finish
    BY <2>2, <2>4, FinishOrder DEF Finish
  <2>5. ASSUME NEW x \in op.todo, op' = Cleared(x, op.todo \ {x})
        PROVE  OrderInv'
    <3>1. x \in Dirs /\ head[x] \in Head
      BY DEF TypeOK, Op
    <3>2. /\ op'.phase = "head" /\ op'.dir = x /\ op'.line.op = "clear-freeze"
          /\ op'.next.nextSequence = head[x].nextSequence
          /\ op'.next.nextOffset = head[x].nextOffset
      BY <2>5, <3>1, ClearedFields, ClearedEffect
    <3> QED
      BY <2>1, <2>2, <3>1, <3>2 DEF OpeningIsAhead, NextNeverBehind, FirstTheHeader,
         Opening, Advances, Head
  <2> QED
    BY <1>12, <2>3, <2>4, <2>5 DEF CommitLine
<1>13. CASE AdvanceWitness
  <2>1. /\ op.phase = "mark" /\ UNCHANGED disk /\ UNCHANGED head
        /\ Finish \/ Proceed("output")
    BY <1>13 DEF AdvanceWitness, disk
  <2>2. CASE Finish
    BY <1>3, <2>1, <2>2, FinishOrder DEF Finish
  <2>3. CASE Proceed("output")
    <3>1. op'.phase = "output" /\ op'.dir = d /\ op'.next = op.next
      BY <2>3, ProceedEffect DEF Phases
    <3> QED
      BY <1>3, <2>1, <3>1 DEF OpeningIsAhead, NextNeverBehind, FirstTheHeader, Opening
  <2> QED
    BY <2>1, <2>2, <2>3
<1>14. CASE Output
  BY <1>3, <1>14, FinishOrder DEF Output, Finish
<1> QED
  BY <1>6, <1>7, <1>8, <1>9, <1>10, <1>11, <1>12, <1>13, <1>14 DEF Run

LEMMA FaultOrder ==
  ASSUME TypeOK, OrderInv, Fault
  PROVE  OrderInv'
<1>1. op.dir \in Dirs /\ op.line \in Line /\ head[op.dir] \in Head
  BY DEF TypeOK, Op
<1>2. op' = Idle /\ restores' = restores /\ UNCHANGED <<head, jrn>>
  BY DEF Fault, Crash, CrashInAppend, disk
<1>3. CASE Crash
  <2>1. CrashNeverRegresses'
    BY <1>2, <1>3 DEF Crash, disk, OrderInv, CrashNeverRegresses, HeaderAboveJournal,
       ReadJournal
  <2> QED
    BY <1>2, <2>1, FinishOrder
<1>4. ASSUME NEW tear \in Tears, CrashInAppend(tear)
      PROVE  OrderInv'
  <2>1. /\ op.phase \in {"reserve", "failLine", "line"}
        /\ tail' = [tail EXCEPT ![op.dir] = TornTail(@, tear, op.line)]
    BY <1>4 DEF CrashInAppend
  <2>2. op.line.op \in Advances => /\ head[op.dir].nextSequence >= op.line.seq
                                   /\ head[op.dir].nextOffset >= op.line.off
    BY <2>1 DEF OrderInv, FirstTheHeader
  <2>3. CrashNeverRegresses'
    BY <1>1, <1>2, <2>1, <2>2, CoveredLine DEF OrderInv, CrashNeverRegresses
  <2> QED
    BY <1>2, <2>3, FinishOrder
<1> QED
  BY <1>3, <1>4 DEF Fault

LEMMA OperatorOrder ==
  ASSUME TypeOK, OrderInv, Operator
  PROVE  OrderInv'
<1>1. op.phase = "idle" /\ op' = op
  BY DEF Operator, RemoveStaleLock, RemoveLastLine, TakeBackup, Restore, past
<1>2. CASE RemoveStaleLock \/ \E d \in Dirs : TakeBackup(d)
  <2>1. UNCHANGED <<head, jrn, tail, restores>>
    BY <1>2 DEF RemoveStaleLock, TakeBackup, disk, world
  <2> QED
    BY <1>1, <2>1 DEF OrderInv, CrashNeverRegresses, HeaderAboveJournal, ReadJournal,
       OpeningIsAhead, NextNeverBehind, FirstTheHeader, Opening
<1>3. ASSUME NEW d \in Dirs, RemoveLastLine(d)
      PROVE  CrashNeverRegresses'
  <2>1. /\ UNCHANGED <<head, jrn, restores>> /\ tail' = [tail EXCEPT ![d] = CleanTail]
        /\ tail \in [Dirs -> Tail] /\ CleanTail.kind # "unterminated"
    BY <1>3 DEF RemoveLastLine, world, TypeOK, CleanTail
  <2>2. SUFFICES ASSUME restores = 0, NEW x \in Dirs
                 PROVE  HeaderAboveJournal(x)'
    BY <2>1 DEF CrashNeverRegresses
  <2>3. HeaderAboveJournal(x)
    BY <2>2 DEF OrderInv, CrashNeverRegresses
  <2>4. CASE x = d
    BY <2>1, <2>3, <2>4, TerminatedAreBelow DEF HeaderAboveJournal, ReadJournal
  <2>5. CASE x # d
    BY <2>1, <2>3, <2>5 DEF HeaderAboveJournal, ReadJournal
  <2> QED
    BY <2>4, <2>5
<1>4. ASSUME NEW image \in backups, NEW part \in Restores, Restore(image, part)
      PROVE  CrashNeverRegresses'
  BY <1>4 DEF Restore, CrashNeverRegresses, TypeOK
<1> QED
  BY <1>1, <1>2, <1>3, <1>4 DEF Operator, OrderInv, OpeningIsAhead, NextNeverBehind,
     FirstTheHeader, Opening

LEMMA InitOrder == Init => OrderInv
BY IdleType DEF Init, OrderInv, OpeningIsAhead, NextNeverBehind, FirstTheHeader, Opening,
   CrashNeverRegresses, HeaderAboveJournal, ReadJournal, FreshHead, FreshJournal, CleanTail

LEMMA NextOrder ==
  ASSUME TypeOK, OrderInv, [Next]_vars
  PROVE  OrderInv'
<1>1. CASE UNCHANGED vars
  BY <1>1 DEF vars, OrderInv, OpeningIsAhead, NextNeverBehind, FirstTheHeader, Opening,
     CrashNeverRegresses, HeaderAboveJournal, ReadJournal
<1> QED
  BY <1>1, BeginOrder, RunOrder, FaultOrder, OperatorOrder DEF Next

(* A crash, wherever it falls and whatever it leaves of the line it        *)
(* interrupts, never leaves a header behind its own journal: the header of *)
(* commitAdvance is durable before its line is, and no other line carries  *)
(* a position. Only a restore can make a load say regressed-below-mark.    *)
THEOREM CrashesNeverRegress == Spec => []CrashNeverRegresses
<1>1. OrderInv => CrashNeverRegresses
  BY DEF OrderInv
<1> QED
  BY <1>1, InitOrder, NextOrder, TypeCorrect, PTL DEF Spec
-----------------------------------------------------------------------------
(* What the two counts kept in the journal need. Without a witness nothing *)
(* else remembers a verification or a refusal: the operator may put back  *)
(* older headers but no older journal, and a crash inside an append        *)
(* leaves a proper prefix of the line. A verb then always runs over whole  *)
(* lines.                                                                  *)

LinesAreKept == Restores \subseteq {"head"} /\ Tears \subseteq {"torn"}

RunsOnCleanTails ==
  \A d \in Dirs : /\ tail[d].kind \in {"clean", "torn"}
                  /\ op.phase # "idle" => tail[d].kind = "clean"

LEMMA CleanAppend ==
  ASSUME TypeOK, RunsOnCleanTails, op.phase # "idle", AppendLine(op.dir, op.line)
  PROVE  tail' = tail /\ jrn' = [jrn EXCEPT ![op.dir] = Apply(@, op.line)]
BY DEF RunsOnCleanTails, AppendLine, TypeOK, Op

LEMMA BeginClean ==
  ASSUME TypeOK, RunsOnCleanTails, Begin
  PROVE  \A d \in Dirs : tail[d].kind = "clean" /\ ReadJournal(d) = jrn[d]
BY BeginCanStart DEF CanStart, PairLoads, HalfLoads, Malformed, RunsOnCleanTails, ReadJournal

(* What the verb in progress does to the journals.                         *)
LEMMA RunLines ==
  ASSUME TypeOK, RunsOnCleanTails, Run
  PROVE  /\ tail' = tail /\ backups' = backups /\ op.phase # "idle"
         /\ \/ jrn' = jrn
            \/ /\ op.phase \in {"reserve", "failLine", "line"}
               /\ jrn' = [jrn EXCEPT ![op.dir] = Apply(@, op.line)]
<1>1. CASE ReserveAttempt \/ AppendAuthFail \/ CommitLine
  BY <1>1, CleanAppend DEF ReserveAttempt, AppendAuthFail, CommitLine, world
<1>2. CASE ~(ReserveAttempt \/ AppendAuthFail \/ CommitLine)
  BY <1>2 DEF Run, MarkAttempt, VerifyFails, VerifyPasses, Verify, RefuseAuthFailed,
     CommitHead, AdvanceWitness, Output, Withhold, disk, world
<1> QED
  BY <1>1, <1>2

LEMMA NextClean ==
  ASSUME LinesAreKept, TypeOK, RunsOnCleanTails, [Next]_vars
  PROVE  RunsOnCleanTails'
<1>1. CASE Begin
  BY <1>1, BeginClean, BeginWritesNothing DEF RunsOnCleanTails
<1>2. CASE Run
  BY <1>2, RunLines DEF RunsOnCleanTails
<1>3. CASE Crash
  BY <1>3, IdleType DEF Crash, disk, RunsOnCleanTails
<1>4. ASSUME NEW tear \in Tears, CrashInAppend(tear)
      PROVE  RunsOnCleanTails'
  <2>1. tear = "torn" /\ op.dir \in Dirs /\ tail \in [Dirs -> Tail] /\ op.phase # "idle"
    BY <1>4 DEF CrashInAppend, LinesAreKept, TypeOK, Op
  <2>2. TornTail(tail[op.dir], tear, op.line).kind = "torn"
    BY <2>1 DEF RunsOnCleanTails, TornTail
  <2>3. /\ tail' = [tail EXCEPT ![op.dir] = TornTail(tail[op.dir], tear, op.line)]
        /\ op' = Idle
    BY <1>4 DEF CrashInAppend
  <2> HIDE DEF RunsOnCleanTails
  <2>4. \A x \in Dirs : tail'[x].kind \in {"clean", "torn"}
    BY <2>1, <2>2, <2>3 DEF RunsOnCleanTails
  <2> QED
    BY <2>3, <2>4, IdleType DEF RunsOnCleanTails
<1>5. CASE Operator
  <2>1. op.phase = "idle" /\ op' = op
    BY <1>5 DEF Operator, RemoveStaleLock, RemoveLastLine, TakeBackup, Restore, past
  <2>2. tail' = tail \/ \E x \in Dirs : tail' = [tail EXCEPT ![x] = CleanTail]
    BY <1>5 DEF Operator, RemoveStaleLock, RemoveLastLine, TakeBackup, Restore, disk,
       LinesAreKept
  <2>3. tail \in [Dirs -> Tail]
    BY DEF TypeOK
  <2> QED
    BY <2>1, <2>2, <2>3 DEF RunsOnCleanTails, CleanTail
<1>6. CASE UNCHANGED vars
  BY <1>6 DEF vars, RunsOnCleanTails
<1> QED
  BY <1>1, <1>2, <1>3, <1>4, <1>5, <1>6 DEF Next, Fault

-----------------------------------------------------------------------------
(* The inductive invariant behind VerificationsBounded: a verification has *)
(* its reservation in the journal, and a reservation is made only below    *)
(* the limit.                                                              *)

BegunIsReserved ==
  /\ \A d \in Dirs, s \in Records :
       begun[d][s] <= jrn[d].attempts[s] /\ begun[d][s] <= VerifyAttemptLimit
  /\ op.phase \in {"reserve", "markAttempt", "verify"} =>
       op.seq \in Records /\ begun[op.dir][op.seq] < VerifyAttemptLimit
  /\ op.phase = "reserve" => op.line.op = "attempt" /\ op.line.seq = op.seq
  /\ op.phase \in {"markAttempt", "verify"} =>
       begun[op.dir][op.seq] < jrn[op.dir].attempts[op.seq]
TriesInv == RunsOnCleanTails /\ BegunIsReserved

LEMMA ReservationsGrow ==
  ASSUME NEW j \in Journal, NEW l \in Line
  PROVE  /\ \A s \in Records : Apply(j, l).attempts[s] >= j.attempts[s]
         /\ l.op = "attempt" /\ l.seq \in Records =>
              Apply(j, l).attempts[l.seq] = j.attempts[l.seq] + 1
<1>1. j.attempts \in [Records -> Nat]
  BY DEF Journal
<1>2. Apply(j, l).attempts = IF l.op = "attempt" THEN [j.attempts EXCEPT ![l.seq] = @ + 1]
                                                 ELSE j.attempts
  BY DEF Apply
<1>3. CASE l.op = "attempt"
  BY <1>1, <1>2, <1>3
<1>4. CASE l.op # "attempt"
  BY <1>1, <1>2, <1>4
<1> QED
  BY <1>3, <1>4

LEMMA NextJournalsGrow ==
  ASSUME LinesAreKept, TypeOK, RunsOnCleanTails, [Next]_vars
  PROVE  \A d \in Dirs, s \in Records : jrn'[d].attempts[s] >= jrn[d].attempts[s]
<1>1. op.dir \in Dirs /\ op.line \in Line /\ jrn \in [Dirs -> Journal]
  BY DEF TypeOK, Op
<1>2. jrn' = jrn \/ jrn' = [jrn EXCEPT ![op.dir] = Apply(jrn[op.dir], op.line)]
  <2>1. CASE Run
    BY <2>1, RunLines
  <2>2. CASE ~Run
    BY <2>2, BeginWritesNothing DEF Next, Fault, Crash, CrashInAppend, Operator,
       RemoveStaleLock, RemoveLastLine, TakeBackup, Restore, LinesAreKept, disk, vars
  <2> QED
    BY <2>1, <2>2
<1>3. \A s \in Records :
        Apply(jrn[op.dir], op.line).attempts[s] >= jrn[op.dir].attempts[s]
  BY <1>1, ReservationsGrow
<1>4. \A d \in Dirs : jrn[d].attempts \in [Records -> Nat]
  BY <1>1 DEF Journal
<1> QED
  BY <1>1, <1>2, <1>3, <1>4

LEMMA SameBegun ==
  ASSUME LinesAreKept, TypeOK, TypeOK', TriesInv, [Next]_vars, UNCHANGED begun
  PROVE  \A d \in Dirs, s \in Records :
           begun'[d][s] <= jrn'[d].attempts[s] /\ begun'[d][s] <= VerifyAttemptLimit
<1> SUFFICES ASSUME NEW d \in Dirs, NEW s \in Records
             PROVE  begun[d][s] <= jrn'[d].attempts[s] /\ begun[d][s] <= VerifyAttemptLimit
  OBVIOUS
<1>1. begun[d][s] <= jrn[d].attempts[s] /\ begun[d][s] <= VerifyAttemptLimit
  BY DEF TriesInv, BegunIsReserved
<1>2. jrn'[d].attempts[s] >= jrn[d].attempts[s]
  BY NextJournalsGrow DEF TriesInv
<1>3. begun[d][s] \in Nat /\ jrn[d].attempts[s] \in Nat /\ jrn'[d].attempts[s] \in Nat
  BY DEF TypeOK, Journal
<1> QED
  BY <1>1, <1>2, <1>3

LEMMA BeginTries ==
  ASSUME LinesAreKept, TypeOK, TriesInv, Begin
  PROVE  BegunIsReserved'
<1>1. UNCHANGED <<jrn, begun>> /\ \A d \in Dirs : ReadJournal(d) = jrn[d]
  BY BeginWritesNothing, BeginClean DEF TriesInv
<1>2. ASSUME op'.phase = "head" PROVE BegunIsReserved'
  BY <1>1, <1>2 DEF TriesInv, BegunIsReserved
<1>3. ASSUME NEW d \in Dirs, NEW s \in Records, NEW start \in 0 .. Capacity,
             NEW len \in Lengths, Open(d, s, start, len)
      PROVE  BegunIsReserved'
  <2>1. Effective(d).attempts[s] = Larger(head[d].attempts[s], jrn[d].attempts[s])
    BY <1>1 DEF Effective
  <2>2. /\ begun[d][s] \in Nat /\ jrn[d].attempts[s] \in Nat /\ head[d].attempts[s] \in Nat
        /\ begun[d][s] <= jrn[d].attempts[s] /\ VerifyAttemptLimit \in Nat
    BY SizesAreNatural DEF TypeOK, Journal, Head, TriesInv, BegunIsReserved
  <2>3. begun[d][s] < VerifyAttemptLimit
    BY <1>3, <2>1, <2>2, OpenEffect DEF Larger
  <2>4. /\ op'.phase = "reserve" /\ op'.dir = d /\ op'.seq = s
        /\ op'.line.op = "attempt" /\ op'.line.seq = s
    BY <1>3, OpenEffect
  <2> QED
    BY <1>1, <2>3, <2>4 DEF TriesInv, BegunIsReserved
<1> QED
  BY <1>2, <1>3, BurnEffect, RetireEffect, ClearedFields DEF Begin, ClearFreeze, Start

LEMMA RunTries ==
  ASSUME LinesAreKept, TypeOK, TriesInv, Run
  PROVE  BegunIsReserved'
<1> DEFINE d == op.dir
<1>1. /\ d \in Dirs /\ op.line \in Line /\ jrn \in [Dirs -> Journal] /\ jrn[d] \in Journal
      /\ begun \in [Dirs -> [Records -> Nat]] /\ VerifyAttemptLimit \in Nat
  BY SizesAreNatural DEF TypeOK, Op
<1>2. UNCHANGED begun => \A x \in Dirs, s \in Records :
        begun'[x][s] <= jrn'[x].attempts[s] /\ begun'[x][s] <= VerifyAttemptLimit
  BY SameBegun, RunType DEF Next
<1>3. CASE ReserveAttempt
  <2>1. /\ op.phase = "reserve" /\ UNCHANGED begun /\ Proceed("markAttempt")
        /\ jrn' = [jrn EXCEPT ![d] = Apply(jrn[d], op.line)]
    BY <1>3, CleanAppend DEF ReserveAttempt, past, TriesInv
  <2>2. /\ op.seq \in Records /\ begun[d][op.seq] < VerifyAttemptLimit
        /\ op.line.op = "attempt" /\ op.line.seq = op.seq
        /\ begun[d][op.seq] <= jrn[d].attempts[op.seq]
    BY <1>1, <2>1 DEF TriesInv, BegunIsReserved
  <2>3. jrn'[d].attempts[op.seq] = jrn[d].attempts[op.seq] + 1
    BY <1>1, <2>1, <2>2, ReservationsGrow
  <2>4. begun[d][op.seq] \in Nat /\ jrn[d].attempts[op.seq] \in Nat
    BY <1>1, <2>2 DEF Journal
  <2>5. begun[d][op.seq] < jrn'[d].attempts[op.seq]
    BY <2>2, <2>3, <2>4
  <2>6. op'.phase = "markAttempt" /\ op'.dir = d /\ op'.seq = op.seq
    BY <2>1, ProceedEffect DEF Phases
  <2> QED
    BY <1>2, <2>1, <2>2, <2>5, <2>6 DEF BegunIsReserved
<1>4. CASE MarkAttempt
  <2>1. op.phase = "markAttempt" /\ UNCHANGED <<jrn, begun>> /\ Proceed("verify")
    BY <1>4 DEF MarkAttempt, disk, past
  <2>2. op'.phase = "verify" /\ op'.dir = d /\ op'.seq = op.seq
    BY <2>1, ProceedEffect DEF Phases
  <2> QED
    BY <1>2, <2>1, <2>2 DEF TriesInv, BegunIsReserved
<1>5. CASE VerifyFails \/ VerifyPasses
  <2>1. /\ op.phase = "verify" /\ jrn' = jrn
        /\ begun' = [begun EXCEPT ![d] = [begun[d] EXCEPT ![op.seq] = @ + 1]]
    BY <1>5 DEF VerifyFails, VerifyPasses, Verify, disk
  <2>2. /\ op.seq \in Records /\ begun[d][op.seq] < VerifyAttemptLimit
        /\ begun[d][op.seq] < jrn[d].attempts[op.seq]
    BY <2>1 DEF TriesInv, BegunIsReserved
  <2>3. op'.phase \in {"failLine", "head"}
    BY <1>5, VerifyFailsEffect, VerifyPassesEffect
  <2>4. ASSUME NEW x \in Dirs, NEW s \in Records
        PROVE  begun'[x][s] <= jrn[x].attempts[s] /\ begun'[x][s] <= VerifyAttemptLimit
    <3>1. CASE x = d /\ s = op.seq
      <4>1. begun'[x][s] = begun[d][op.seq] + 1
        BY <1>1, <2>1, <2>2, <3>1
      <4>2. begun[d][op.seq] \in Nat /\ jrn[d].attempts[op.seq] \in Nat
        BY <1>1, <2>2 DEF Journal
      <4> QED
        BY <1>1, <2>2, <3>1, <4>1, <4>2
    <3>2. CASE ~(x = d /\ s = op.seq)
      <4>1. begun'[x][s] = begun[x][s]
        BY <1>1, <2>1, <2>2, <3>2
      <4> QED
        BY <4>1 DEF TriesInv, BegunIsReserved
    <3> QED
      BY <3>1, <3>2
  <2> QED
    BY <2>1, <2>3, <2>4 DEF BegunIsReserved
<1>6. CASE AppendAuthFail \/ CommitHead
  <2>1. op'.phase \in {"failHead", "line"} /\ UNCHANGED begun
    BY <1>6, ProceedEffect DEF AppendAuthFail, CommitHead, Phases, past
  <2> QED
    BY <1>2, <2>1 DEF BegunIsReserved
<1>7. CASE RefuseAuthFailed \/ Withhold \/ Output
  BY <1>2, <1>7, IdleType DEF RefuseAuthFailed, Withhold, Output, Finish, past, BegunIsReserved
<1>8. CASE CommitLine \/ AdvanceWitness
  <2>1. op.todo \subseteq Dirs
    BY DEF TypeOK, Op
  <2>2. /\ UNCHANGED begun
        /\ \/ Proceed("mark") \/ Proceed("output") \/ Finish
           \/ \E x \in op.todo : op' = Cleared(x, op.todo \ {x})
    BY <1>8 DEF CommitLine, AdvanceWitness, past
  <2>3. Proceed("mark") \/ Proceed("output") => op'.phase \in {"mark", "output"}
    BY ProceedEffect DEF Phases
  <2>4. Finish => op'.phase = "idle"
    BY IdleType DEF Finish
  <2>5. ASSUME NEW x \in op.todo, op' = Cleared(x, op.todo \ {x})
        PROVE  op'.phase = "head"
    BY <2>1, <2>5, ClearedFields
  <2>6. op'.phase \in {"mark", "idle", "head", "output"}
    BY <2>2, <2>3, <2>4, <2>5
  <2> QED
    BY <1>2, <2>2, <2>6 DEF BegunIsReserved
<1> QED
  BY <1>3, <1>4, <1>5, <1>6, <1>7, <1>8 DEF Run

LEMMA NextTries ==
  ASSUME LinesAreKept, TypeOK, TriesInv, [Next]_vars
  PROVE  TriesInv'
<1>1. RunsOnCleanTails'
  BY NextClean DEF TriesInv
<1>2. CASE Fault
  <2>1. op'.phase = "idle" /\ UNCHANGED begun
    BY <1>2, IdleType DEF Fault, Crash, CrashInAppend, past
  <2> QED
    BY <1>1, <2>1, SameBegun, NextType DEF TriesInv, BegunIsReserved
<1>3. CASE Operator
  <2>1. op.phase = "idle" /\ op' = op /\ UNCHANGED begun
    BY <1>3 DEF Operator, RemoveStaleLock, RemoveLastLine, TakeBackup, Restore, past
  <2> QED
    BY <1>1, <2>1, SameBegun, NextType DEF TriesInv, BegunIsReserved
<1>4. CASE UNCHANGED vars
  BY <1>1, <1>4 DEF vars, TriesInv, BegunIsReserved
<1> QED
  BY <1>1, <1>2, <1>3, <1>4, BeginTries, RunTries DEF Next, TriesInv

LEMMA InitTries == Init => TriesInv
<1> SUFFICES ASSUME Init PROVE TriesInv
  OBVIOUS
<1>1. \A d \in Dirs, s \in Records : begun[d][s] = 0 /\ jrn[d].attempts[s] = 0
  BY DEF Init, NoAttempts, FreshJournal
<1>2. op.phase = "idle" /\ \A d \in Dirs : tail[d].kind = "clean"
  BY IdleType DEF Init, CleanTail
<1> QED
  BY <1>1, <1>2, SizesAreNatural DEF TriesInv, RunsOnCleanTails, BegunIsReserved

(* No record is verified against more often than verifyAttemptLimit, with  *)
(* a witness or without, for every number of crashes and of restored       *)
(* headers (open O3: reserve, durably, then verify). A restored journal    *)
(* and a line left without its newline are excluded: each forgets          *)
(* reservations, and TLC shows both behaviours.                            *)
THEOREM VerificationsAreBounded ==
  ASSUME LinesAreKept
  PROVE  Spec => []VerificationsBounded
<1>1. TriesInv => VerificationsBounded
  BY DEF TriesInv, BegunIsReserved, VerificationsBounded
<1> QED
  BY <1>1, InitTries, NextTries, TypeCorrect, PTL DEF Spec

(* "The journal can never under-count verifications actually begun" holds  *)
(* whenever lines are kept whole: what the run of                          *)
(* PadStoreUnterminated.cfg refutes it by, a crash that leaves a line      *)
(* without its newline, is the only way besides a restored journal.        *)
THEOREM AttemptsAreCounted ==
  ASSUME LinesAreKept
  PROVE  Spec => []AttemptsNeverUndercounted
<1>1. TypeOK /\ TriesInv => AttemptsNeverUndercounted
  <2> SUFFICES ASSUME TypeOK, TriesInv, NEW d \in Dirs, NEW s \in Records
               PROVE  begun[d][s] <= Effective(d).attempts[s]
    BY DEF AttemptsNeverUndercounted
  <2>1. ReadJournal(d) = jrn[d]
    BY DEF TriesInv, RunsOnCleanTails, ReadJournal
  <2>2. Effective(d).attempts[s] = Larger(head[d].attempts[s], jrn[d].attempts[s])
    BY <2>1 DEF Effective
  <2>3. /\ begun[d][s] \in Nat /\ jrn[d].attempts[s] \in Nat /\ head[d].attempts[s] \in Nat
        /\ begun[d][s] <= jrn[d].attempts[s]
    BY DEF TypeOK, Journal, Head, TriesInv, BegunIsReserved
  <2> QED
    BY <2>2, <2>3 DEF Larger
<1> QED
  BY <1>1, InitTries, NextTries, TypeCorrect, PTL DEF Spec
-----------------------------------------------------------------------------
(* The inductive invariant behind FreezeBounds. The journal's count is the *)
(* highest of all the counts on disk and in backups; whichever of those    *)
(* headers is current, the refusals since its clear fit between its clear  *)
(* and that count. A refusal is due between its line and its header.       *)

Heads(d) == {head[d]} \cup {b.head : b \in {x \in backups : x.dir = d}}
Due(d) == IF op.phase = "failHead" /\ op.dir = d THEN 1 ELSE 0
Counted(d) ==
  /\ refused[d] + Due(d) + jrn[d].cleared <= jrn[d].failureCount
  /\ \A h \in Heads(d) : /\ h.failureCount <= jrn[d].failureCount
                         /\ refused[d] + Due(d) + h.cleared <= jrn[d].failureCount

(* The verb in progress carries a header that will fit, and opens only     *)
(* with room for one more refusal.                                         *)
BrakeFits ==
  LET d == op.dir IN
  /\ op.phase # "idle" /\ op.phase # "failLine" => op.next.failureCount <= jrn[d].failureCount
  /\ op.phase # "idle" => op.next.cleared <= jrn[d].failureCount
  /\ op.phase # "idle" /\ op.kind # "clear" =>
       refused[d] + Due(d) + op.next.cleared <= jrn[d].failureCount
  /\ op.phase \in {"reserve", "markAttempt", "verify"} => op.fails <= jrn[d].failureCount
  /\ op.phase \in Opening => op.kind = "open" /\ refused[d] < FailureThreshold
  /\ op.phase = "failLine" => op.line.op = "auth-fail" /\ op.line.count = op.next.failureCount
  /\ op.phase \in {"reserve", "head", "line"} /\ op.line.op = "clear-freeze" =>
       /\ op.kind = "clear" /\ op.line.count <= jrn[d].failureCount
       /\ op.phase = "line" => refused[d] + op.line.count <= jrn[d].failureCount
FreezeInv ==
  RunsOnCleanTails /\ (\A d \in Dirs : Counted(d)) /\ BrakeFits /\ FreezeBounds

LEMMA FailuresGrow ==
  ASSUME NEW j \in Journal, NEW l \in Line
  PROVE  /\ Apply(j, l).failureCount >= j.failureCount
         /\ l.op = "auth-fail" => /\ Apply(j, l).failureCount >= j.failureCount + 1
                                  /\ Apply(j, l).failureCount >= l.count
         /\ l.op # "clear-freeze" => Apply(j, l).cleared = j.cleared
         /\ l.op = "clear-freeze" => Apply(j, l).cleared = l.count
BY DEF Apply, Larger, Journal, Line

(* A half that is not frozen has shown fewer refusals than the threshold.  *)
LEMMA UnfrozenHasRoom ==
  ASSUME TypeOK, FreezeInv, op.phase = "idle", NEW d \in Dirs, ~Frozen(d)
  PROVE  refused[d] < FailureThreshold
<1>1. ReadJournal(d) = jrn[d]
  BY DEF FreezeInv, RunsOnCleanTails, ReadJournal
<1>2. /\ head[d] \in Head /\ jrn[d] \in Journal /\ refused[d] \in Nat
      /\ FailureThreshold \in Nat
  BY SizesAreNatural DEF TypeOK
<1>3. Effective(d).failureCount = Larger(head[d].failureCount, jrn[d].failureCount)
      /\ Effective(d).cleared = Larger(head[d].cleared, jrn[d].cleared)
  BY <1>1 DEF Effective
<1>4. /\ refused[d] + jrn[d].cleared <= jrn[d].failureCount
      /\ head[d].failureCount <= jrn[d].failureCount
      /\ refused[d] + head[d].cleared <= jrn[d].failureCount
  <2>1. Due(d) = 0 /\ head[d] \in Heads(d)
    BY DEF Due, Heads
  <2>2. /\ refused[d] + Due(d) + jrn[d].cleared <= jrn[d].failureCount
        /\ head[d].failureCount <= jrn[d].failureCount
        /\ refused[d] + Due(d) + head[d].cleared <= jrn[d].failureCount
    BY <2>1 DEF FreezeInv, Counted
  <2> QED
    BY <1>2, <2>1, <2>2 DEF Head, Journal
<1>5. ~(Effective(d).failureCount >= FailureThreshold + Effective(d).cleared)
  BY DEF Frozen
<1>6. /\ jrn[d].cleared \in Nat /\ jrn[d].failureCount \in Nat
      /\ head[d].cleared \in Nat /\ head[d].failureCount \in Nat
  BY <1>2 DEF Head, Journal
<1>7. /\ Effective(d).failureCount = jrn[d].failureCount
      /\ Effective(d).cleared \in Nat
      /\ refused[d] + Effective(d).cleared <= jrn[d].failureCount
  BY <1>2, <1>3, <1>4, <1>6 DEF Larger
<1>8. \A r, c, f, t \in Nat : r + c <= f /\ ~(f >= t + c) => r < t
  OBVIOUS
<1> QED
  BY <1>2, <1>5, <1>6, <1>7, <1>8

LEMMA DueType == \A d : Due(d) \in {0, 1}
BY DEF Due

LEMMA HeadsType ==
  ASSUME TypeOK, NEW d \in Dirs
  PROVE  Heads(d) \subseteq Head
BY DEF TypeOK, Heads

(* When a step keeps a half's count.                                       *)
LEMMA StaysCounted ==
  ASSUME TypeOK, TypeOK', NEW d \in Dirs, Counted(d),
         jrn'[d].failureCount >= jrn[d].failureCount,
         refused'[d] + Due(d)' + jrn[d].failureCount
           <= refused[d] + Due(d) + jrn'[d].failureCount,
         \/ jrn'[d].cleared = jrn[d].cleared
         \/ refused'[d] + Due(d)' + jrn'[d].cleared <= jrn'[d].failureCount,
         \A h \in Heads(d)' :
           \/ h \in Heads(d)
           \/ /\ h.failureCount <= jrn'[d].failureCount
              /\ refused'[d] + Due(d)' + h.cleared <= jrn'[d].failureCount
  PROVE  Counted(d)'
<1>1. /\ jrn[d].failureCount \in Nat /\ jrn'[d].failureCount \in Nat
      /\ jrn[d].cleared \in Nat /\ jrn'[d].cleared \in Nat
      /\ refused[d] \in Nat /\ refused'[d] \in Nat
  BY DEF TypeOK, Journal
<1>2. Due(d) \in {0, 1} /\ Due(d)' \in {0, 1}
  BY DEF Due
<1>3. \A r, f, rr, ff, c \in Nat :
        ff >= f /\ rr + f <= r + ff /\ r + c <= f => rr + c <= ff
  OBVIOUS
<1>4. refused[d] + Due(d) \in Nat /\ refused'[d] + Due(d)' \in Nat
  BY <1>1, <1>2
<1>5. refused'[d] + Due(d)' + jrn'[d].cleared <= jrn'[d].failureCount
  BY <1>1, <1>3, <1>4 DEF Counted
<1>6. ASSUME NEW h \in Heads(d)'
      PROVE  /\ h.failureCount <= jrn'[d].failureCount
             /\ refused'[d] + Due(d)' + h.cleared <= jrn'[d].failureCount
  <2>1. CASE h \in Heads(d)
    <3>1. h.failureCount \in Nat /\ h.cleared \in Nat
      BY <2>1, HeadsType DEF Head
    <3>2. /\ h.failureCount <= jrn[d].failureCount
          /\ refused[d] + Due(d) + h.cleared <= jrn[d].failureCount
      BY <2>1 DEF Counted
    <3>3. h.failureCount <= jrn'[d].failureCount
      BY <1>1, <3>1, <3>2
    <3> QED
      BY <1>1, <1>3, <1>4, <3>1, <3>2, <3>3
  <2> QED
    BY <1>6, <2>1
<1> QED
  BY <1>5, <1>6 DEF Counted

(* A half that a step leaves alone.                                        *)
LEMMA UntouchedCounted ==
  ASSUME TypeOK, TypeOK', NEW d \in Dirs, Counted(d), jrn'[d] = jrn[d],
         refused'[d] = refused[d], Due(d)' = Due(d) \/ Due(d)' = 0,
         Heads(d)' \subseteq Heads(d)
  PROVE  Counted(d)'
<1>1. /\ jrn[d].failureCount \in Nat /\ refused[d] \in Nat
  BY DEF TypeOK, Journal
<1>2. Due(d) \in {0, 1} /\ Due(d)' \in {0, 1}
  BY DEF Due
<1>3. refused[d] + Due(d)' + jrn[d].failureCount <= refused[d] + Due(d) + jrn[d].failureCount
  BY <1>1, <1>2
<1> QED
  BY <1>1, <1>3, StaysCounted

LEMMA CountedNow ==
  ASSUME TypeOK, RunsOnCleanTails, NEW d \in Dirs, Counted(d)
  PROVE  /\ Effective(d).failureCount = jrn[d].failureCount
         /\ head[d].failureCount <= jrn[d].failureCount
         /\ refused[d] + head[d].cleared <= jrn[d].failureCount
         /\ head[d].cleared <= jrn[d].failureCount
<1>1. ReadJournal(d) = jrn[d]
  BY DEF RunsOnCleanTails, ReadJournal
<1>2. Effective(d).failureCount = Larger(head[d].failureCount, jrn[d].failureCount)
  BY <1>1 DEF Effective
<1>3. /\ head[d].failureCount <= jrn[d].failureCount
      /\ refused[d] + Due(d) + head[d].cleared <= jrn[d].failureCount
  BY DEF Counted, Heads
<1>4. /\ head[d].failureCount \in Nat /\ jrn[d].failureCount \in Nat
      /\ refused[d] \in Nat /\ head[d].cleared \in Nat
  BY DEF TypeOK, Head, Journal
<1>5. Due(d) \in {0, 1}
  BY DueType
<1>6. refused[d] + head[d].cleared <= jrn[d].failureCount
      /\ head[d].cleared <= jrn[d].failureCount
  BY <1>3, <1>4, <1>5
<1> QED
  BY <1>2, <1>3, <1>4, <1>6 DEF Larger

LEMMA BeginFreeze ==
  ASSUME TypeOK, FreezeInv, Begin
  PROVE  (\A d \in Dirs : Counted(d))' /\ BrakeFits'
<1>1. /\ UNCHANGED <<head, jrn, refused, backups>> /\ op.phase = "idle"
      /\ TypeOK' /\ refused \in [Dirs -> Nat]
  BY BeginWritesNothing, BeginStarts, BeginCanStart, BeginType DEF CanStart, world, TypeOK
<1>2. ASSUME op'.phase \in {"head", "reserve"} PROVE (\A d \in Dirs : Counted(d))'
  <2>1. \A d \in Dirs : Heads(d)' = Heads(d) /\ Due(d)' = 0
    BY <1>1, <1>2 DEF Heads, Due
  <2> QED
    BY <1>1, <2>1, UntouchedCounted DEF FreezeInv
<1>3. ASSUME NEW d \in Dirs, op'.phase = "head", op'.dir = d, op'.kind # "clear",
             op'.line.op # "clear-freeze",
             op'.next.failureCount = head[d].failureCount,
             op'.next.cleared = head[d].cleared
      PROVE  BrakeFits'
  <2>1. Due(d)' = 0 /\ refused[d] + 0 = refused[d]
    BY <1>1, <1>3 DEF Due
  <2> QED
    BY <1>1, <1>3, <2>1, CountedNow DEF FreezeInv, BrakeFits, Opening, TypeOK, Op
<1>4. ASSUME NEW d \in Dirs, NEW rest, op' = Cleared(d, rest)
      PROVE  op'.phase = "head" /\ BrakeFits'
  <2>1. /\ op'.phase = "head" /\ op'.kind = "clear" /\ op'.dir = d
        /\ op'.line.count = jrn[d].failureCount
        /\ op'.next.failureCount = jrn[d].failureCount
        /\ op'.next.cleared = jrn[d].failureCount
    BY <1>4, ClearedFields, ClearedEffect, CountedNow DEF FreezeInv, TypeOK, Op
  <2>2. jrn[d].failureCount \in Nat
    BY DEF TypeOK, Journal
  <2> QED
    BY <1>1, <2>1, <2>2 DEF BrakeFits, Opening
<1>5. ASSUME NEW d \in Dirs, NEW s \in Records, NEW start \in 0 .. Capacity,
             NEW len \in Lengths, Open(d, s, start, len)
      PROVE  op'.phase = "reserve" /\ BrakeFits'
  <2>1. /\ op'.phase = "reserve" /\ op'.dir = d /\ op'.kind = "open" /\ op'.next = head[d]
        /\ op'.fails = Effective(d).failureCount /\ op'.line.op = "attempt" /\ ~Frozen(d)
    BY <1>5, OpenEffect
  <2>2. refused[d] < FailureThreshold
    BY <1>1, <2>1, UnfrozenHasRoom
  <2>3. Due(d)' = 0 /\ refused[d] + 0 = refused[d]
    BY <1>1, <2>1 DEF Due
  <2>4. jrn[d].failureCount \in Nat
    BY DEF TypeOK, Journal
  <2> QED
    BY <1>1, <2>1, <2>2, <2>3, <2>4, CountedNow DEF FreezeInv, BrakeFits, Opening, TypeOK, Op
<1>6. ASSUME NEW d \in Dirs, NEW len \in Lengths, Burn(d, len)
      PROVE  op'.phase = "head" /\ BrakeFits'
  BY <1>3, <1>6, BurnEffect
<1>7. ASSUME NEW d \in Dirs, NEW sequence \in 1 .. CapacityRecords,
             NEW offset \in 0 .. Capacity, Retire(d, sequence, offset)
      PROVE  op'.phase = "head" /\ BrakeFits'
  BY <1>3, <1>7, RetireEffect
<1>8. op'.phase \in {"head", "reserve"} /\ BrakeFits'
  BY <1>4, <1>5, <1>6, <1>7 DEF Begin, ClearFreeze, Start
<1> QED
  BY <1>2, <1>8

LEMMA CommitLineEnds ==
  ASSUME TypeOK, CommitLine
  PROVE  op'.phase \in {"mark", "idle", "head"}
<1>1. op.todo \subseteq Dirs
  BY DEF TypeOK, Op
<1>2. Proceed("mark") => op'.phase = "mark"
  BY ProceedEffect DEF Phases
<1>3. ASSUME NEW x \in op.todo, op' = Cleared(x, op.todo \ {x})
      PROVE  op'.phase = "head"
  BY <1>1, <1>3, ClearedFields
<1> QED
  BY <1>2, <1>3, IdleType DEF CommitLine, Finish

(* Every half but the verb's own is left alone.                            *)
LEMMA OthersCounted ==
  ASSUME TypeOK, FreezeInv, Run, NEW x \in Dirs, x # op.dir
  PROVE  Counted(x)'
<1>1. /\ head \in [Dirs -> Head] /\ jrn \in [Dirs -> Journal] /\ refused \in [Dirs -> Nat]
      /\ TypeOK'
  BY RunType DEF TypeOK
<1>2. jrn'[x] = jrn[x] /\ backups' = backups
  BY <1>1, RunLines DEF FreezeInv
<1>3. head'[x] = head[x]
  BY <1>1 DEF Run, ReserveAttempt, MarkAttempt, VerifyFails, VerifyPasses, Verify,
     AppendAuthFail, RefuseAuthFailed, CommitHead, CommitLine, AdvanceWitness,
     Output, Withhold, disk
<1>4. refused'[x] = refused[x]
  BY <1>1 DEF Run, ReserveAttempt, MarkAttempt, VerifyFails, VerifyPasses, Verify,
     AppendAuthFail, RefuseAuthFailed, CommitHead, CommitLine, AdvanceWitness,
     Output, Withhold, past
<1>5. Due(x)' = 0
  <2>1. CASE op'.dir = op.dir
    BY <2>1 DEF Due
  <2>2. CASE op'.phase # "failHead"
    BY <2>2 DEF Due
  <2>3. op'.dir = op.dir \/ op'.phase # "failHead"
    <3>1. CASE AppendAuthFail
      BY <3>1, ProceedEffect DEF AppendAuthFail, Phases
    <3>2. CASE ReserveAttempt \/ MarkAttempt \/ CommitHead
      BY <3>2, ProceedEffect DEF ReserveAttempt, MarkAttempt, CommitHead, Phases
    <3>3. CASE VerifyFails \/ VerifyPasses
      BY <3>3, VerifyFailsEffect, VerifyPassesEffect
    <3>4. CASE RefuseAuthFailed \/ Withhold \/ Output
      BY <3>4, IdleType DEF RefuseAuthFailed, Withhold, Output, Finish
    <3>5. CASE CommitLine
      BY <3>5, CommitLineEnds
    <3>6. CASE AdvanceWitness
      BY <3>6, ProceedEffect, IdleType DEF AdvanceWitness, Finish, Phases
    <3> QED
      BY <3>1, <3>2, <3>3, <3>4, <3>5, <3>6 DEF Run
  <2> QED
    BY <2>1, <2>2, <2>3
<1>6. Heads(x)' = Heads(x)
  BY <1>2, <1>3 DEF Heads
<1> QED
  BY <1>1, <1>2, <1>4, <1>5, <1>6, UntouchedCounted DEF FreezeInv

LEMMA RunFreeze ==
  ASSUME TypeOK, FreezeInv, Run, NEW d \in Dirs, d = op.dir
  PROVE  Counted(d)' /\ BrakeFits' /\ FreezeBounds'
<1> DEFINE f == jrn[d].failureCount
           ff == jrn'[d].failureCount
           r == refused[d]
<1>1. /\ d = op.dir /\ op.line \in Line /\ op.next \in Head /\ op \in Op
      /\ head \in [Dirs -> Head] /\ jrn \in [Dirs -> Journal] /\ refused \in [Dirs -> Nat]
      /\ jrn[d] \in Journal /\ jrn'[d] \in Journal /\ TypeOK' /\ op.fails \in Nat
  BY RunType DEF TypeOK, Op
<1>2. /\ f \in Nat /\ ff \in Nat /\ r \in Nat /\ op.next.failureCount \in Nat
      /\ op.next.cleared \in Nat /\ op.line.count \in Nat /\ jrn[d].cleared \in Nat
  BY <1>1 DEF Journal, Head, Line
<1>3. op.phase # "idle" /\ Counted(d) /\ BrakeFits /\ FreezeBounds
      /\ backups' = backups /\ tail' = tail
  BY <1>1, RunLines DEF FreezeInv
<1>4. head' = head => Heads(d)' = Heads(d)
  BY <1>3 DEF Heads
<1>5. head' = [head EXCEPT ![d] = op.next] => Heads(d)' \subseteq Heads(d) \cup {op.next}
  BY <1>1, <1>3 DEF Heads
<1>6. refused' = refused => FreezeBounds'
  BY <1>3 DEF FreezeBounds
<1> USE <1>1
<1>7. CASE ReserveAttempt
  <2>1. /\ op.phase = "reserve" /\ UNCHANGED <<head, refused>> /\ Proceed("markAttempt")
        /\ jrn' = [jrn EXCEPT ![d] = Apply(jrn[d], op.line)]
    BY <1>7, CleanAppend DEF ReserveAttempt, past, FreezeInv
  <2>2. /\ op'.phase = "markAttempt" /\ op'.dir = d /\ op'.kind = op.kind
        /\ op'.next = op.next /\ op'.fails = op.fails
    BY <2>1, ProceedEffect DEF Phases
  <2>3. op.kind = "open" /\ op.line.op # "clear-freeze"
    BY <1>3, <2>1 DEF BrakeFits, Opening
  <2>4. ff >= f /\ jrn'[d].cleared = jrn[d].cleared
    BY <2>1, <2>3, FailuresGrow
  <2>5. Due(d) = 0 /\ Due(d)' = 0
    BY <2>1, <2>2 DEF Due
  <2>6. Counted(d)'
    BY <1>2, <1>3, <1>4, <2>1, <2>4, <2>5, StaysCounted
  <2>7. BrakeFits'
    BY <1>2, <1>3, <2>1, <2>2, <2>3, <2>4, <2>5 DEF BrakeFits, Opening
  <2> QED
    BY <1>6, <2>1, <2>6, <2>7
<1>8. CASE MarkAttempt
  <2>1. op.phase = "markAttempt" /\ UNCHANGED <<head, jrn, refused>> /\ Proceed("verify")
    BY <1>8 DEF MarkAttempt, disk, past
  <2>2. /\ op'.phase = "verify" /\ op'.dir = d /\ op'.kind = op.kind
        /\ op'.next = op.next /\ op'.fails = op.fails
    BY <2>1, ProceedEffect DEF Phases
  <2>3. Due(d) = 0 /\ Due(d)' = 0
    BY <2>1, <2>2 DEF Due
  <2>4. Counted(d)'
    BY <1>3, <1>4, <2>1, <2>3, UntouchedCounted
  <2>5. BrakeFits'
    BY <1>3, <2>1, <2>2, <2>3 DEF BrakeFits, Opening
  <2> QED
    BY <1>6, <2>1, <2>4, <2>5
<1>9. CASE VerifyFails \/ VerifyPasses
  <2>1. op.phase = "verify" /\ UNCHANGED <<head, jrn, refused>>
    BY <1>9 DEF VerifyFails, VerifyPasses, Verify, disk
  <2>2. /\ op'.phase \in {"failLine", "head"} /\ op'.dir = d /\ op'.kind = op.kind
        /\ op'.next.cleared = op.next.cleared
        /\ op'.phase = "head" => /\ op'.next.failureCount = op.next.failureCount
                                 /\ op'.line.op = "open"
        /\ op'.phase = "failLine" => /\ op'.line.op = "auth-fail"
                                     /\ op'.line.count = op'.next.failureCount
    BY <1>9, VerifyFailsEffect, VerifyPassesEffect
  <2>3. Due(d) = 0 /\ Due(d)' = 0
    BY <2>1, <2>2 DEF Due
  <2>4. Counted(d)'
    BY <1>3, <1>4, <2>1, <2>3, UntouchedCounted
  <2>5. BrakeFits'
    BY <1>3, <2>1, <2>2, <2>3 DEF BrakeFits, Opening
  <2> QED
    BY <1>6, <2>1, <2>4, <2>5
<1>10. CASE AppendAuthFail
  <2>1. /\ op.phase = "failLine" /\ UNCHANGED <<head, refused>> /\ Proceed("failHead")
        /\ jrn' = [jrn EXCEPT ![d] = Apply(jrn[d], op.line)]
    BY <1>10, CleanAppend DEF AppendAuthFail, past, FreezeInv
  <2>2. op'.phase = "failHead" /\ op'.dir = d /\ op'.kind = op.kind /\ op'.next = op.next
    BY <2>1, ProceedEffect DEF Phases
  <2>3. /\ op.line.op = "auth-fail" /\ op.line.count = op.next.failureCount
        /\ op.kind = "open" /\ r < FailureThreshold
        /\ op.next.cleared <= f /\ r + Due(d) + op.next.cleared <= f
    BY <1>3, <2>1 DEF BrakeFits, Opening
  <2>4. ff >= f + 1 /\ ff >= op.next.failureCount /\ jrn'[d].cleared = jrn[d].cleared
    BY <2>1, <2>3, FailuresGrow
  <2>5. Due(d) = 0 /\ Due(d)' = 1
    BY <2>1, <2>2 DEF Due
  <2>6. ff >= f /\ r + 1 + f <= r + 0 + ff /\ r + 1 + op.next.cleared <= ff
        /\ op.next.cleared <= ff
    BY <1>2, <2>3, <2>4, <2>5
  <2>7. Counted(d)'
    BY <1>3, <1>4, <2>1, <2>4, <2>5, <2>6, StaysCounted
  <2>8. BrakeFits'
    BY <2>1, <2>2, <2>3, <2>4, <2>5, <2>6 DEF BrakeFits, Opening
  <2> QED
    BY <1>6, <2>1, <2>7, <2>8
<1>11. CASE RefuseAuthFailed
  <2>1. /\ op.phase = "failHead" /\ head' = [head EXCEPT ![d] = op.next] /\ jrn' = jrn
        /\ refused' = [refused EXCEPT ![d] = @ + 1] /\ op' = Idle
    BY <1>11 DEF RefuseAuthFailed, Finish
  <2>2. Due(d) = 1 /\ Due(d)' = 0
    BY <2>1, IdleType DEF Due
  <2>3. /\ r < FailureThreshold /\ op.kind = "open" /\ op.next.failureCount <= f
        /\ r + Due(d) + op.next.cleared <= f
    BY <1>3, <2>1 DEF BrakeFits, Opening
  <2>4. refused'[d] = r + 1 /\ ff = f /\ jrn'[d].cleared = jrn[d].cleared
    BY <2>1
  <2>5. /\ ff >= f /\ refused'[d] + 0 + f <= r + 1 + ff
        /\ refused'[d] + 0 + op.next.cleared <= ff
    BY <1>2, <2>2, <2>3, <2>4
  <2>6. Counted(d)'
    BY <1>3, <1>5, <2>1, <2>2, <2>3, <2>4, <2>5, StaysCounted
  <2>7. FreezeBounds'
    BY <1>2, <1>3, <2>1, <2>3, SizesAreNatural DEF FreezeBounds
  <2> QED
    BY <2>1, <2>6, <2>7, IdleType DEF BrakeFits, Opening
<1>12. CASE CommitHead
  <2>1. /\ op.phase = "head" /\ head' = [head EXCEPT ![d] = op.next] /\ jrn' = jrn
        /\ refused' = IF op.kind = "clear" THEN [refused EXCEPT ![d] = 0] ELSE refused
        /\ Proceed("line")
    BY <1>12 DEF CommitHead
  <2>2. /\ op'.phase = "line" /\ op'.dir = d /\ op'.kind = op.kind
        /\ op'.next = op.next /\ op'.line = op.line
    BY <2>1, ProceedEffect DEF Phases
  <2>3. Due(d) = 0 /\ Due(d)' = 0
    BY <2>1, <2>2 DEF Due
  <2>4. /\ op.next.failureCount <= f /\ op.next.cleared <= f
        /\ op.kind # "clear" => r + Due(d) + op.next.cleared <= f
        /\ op.line.op = "clear-freeze" => op.kind = "clear" /\ op.line.count <= f
    BY <1>3, <2>1 DEF BrakeFits
  <2>5. /\ refused'[d] \in Nat /\ refused'[d] <= r
        /\ op.kind = "clear" => refused'[d] = 0
        /\ op.kind # "clear" => refused'[d] = r
    BY <1>2, <2>1
  <2>6. /\ refused'[d] + 0 + op.next.cleared <= f /\ refused'[d] + 0 + f <= r + 0 + f
        /\ op.line.op = "clear-freeze" => refused'[d] + op.line.count <= f
    <3>1. refused'[d] + 0 + f <= r + 0 + f
      BY <1>2, <2>5
    <3>2. CASE op.kind = "clear"
      <4>1. refused'[d] = 0
        BY <2>5, <3>2
      <4> QED
        BY <1>2, <2>4, <3>1, <4>1
    <3>3. CASE op.kind # "clear"
      <4>1. refused'[d] = r /\ r + 0 + op.next.cleared <= f
        BY <2>3, <2>4, <2>5, <3>3
      <4> QED
        BY <2>4, <3>1, <3>3, <4>1
    <3> QED
      BY <3>2, <3>3
  <2>7. Counted(d)'
    BY <1>2, <1>3, <1>5, <2>1, <2>3, <2>4, <2>6, StaysCounted
  <2>8. BrakeFits'
    BY <2>1, <2>2, <2>3, <2>4, <2>6 DEF BrakeFits, Opening
  <2>9. FreezeBounds'
    BY <1>2, <1>3, <2>1, <2>5, SizesAreNatural DEF FreezeBounds
  <2> QED
    BY <2>7, <2>8, <2>9
<1>13. CASE CommitLine
  <2>1. /\ op.phase = "line" /\ UNCHANGED <<head, refused>>
        /\ jrn' = [jrn EXCEPT ![d] = Apply(jrn[d], op.line)]
    BY <1>13, CleanAppend DEF CommitLine, past, FreezeInv
  <2>2. ff >= f
    BY <2>1, FailuresGrow
  <2>3. Due(d) = 0 /\ Due(d)' = 0
    BY <1>13, <2>1, CommitLineEnds DEF Due
  <2>4. \/ jrn'[d].cleared = jrn[d].cleared
        \/ r + 0 + jrn'[d].cleared <= ff
    <3>1. CASE op.line.op = "clear-freeze"
      <4>1. r + op.line.count <= f
        BY <1>3, <2>1, <3>1 DEF BrakeFits
      <4>2. jrn'[d].cleared = op.line.count
        BY <2>1, <3>1, FailuresGrow
      <4> QED
        BY <1>2, <2>2, <4>1, <4>2
    <3>2. CASE op.line.op # "clear-freeze"
      BY <2>1, <3>2, FailuresGrow
    <3> QED
      BY <3>1, <3>2
  <2>5. r + 0 + f <= r + 0 + ff
    BY <1>2, <2>2
  <2>6. Counted(d)'
    BY <1>3, <1>4, <2>1, <2>2, <2>3, <2>4, <2>5, StaysCounted
  <2>7. BrakeFits'
    <3>1. CASE op.kind # "clear" /\ Proceed("mark")
      <4>1. /\ op'.phase = "mark" /\ op'.dir = d /\ op'.kind = op.kind
            /\ op'.next = op.next /\ op'.fails = op.fails
        BY <3>1, ProceedEffect DEF Phases
      <4>2. /\ op.next.failureCount <= f /\ op.next.cleared <= f
            /\ r + Due(d) + op.next.cleared <= f
        BY <1>3, <2>1, <3>1 DEF BrakeFits
      <4>3. /\ op.next.failureCount <= ff /\ op.next.cleared <= ff
            /\ r + 0 + op.next.cleared <= ff
        BY <1>2, <2>2, <2>3, <4>2
      <4> QED
        BY <2>1, <2>3, <3>1, <4>1, <4>3 DEF BrakeFits, Opening
    <3>2. CASE op' = Idle
      BY <3>2, IdleType DEF BrakeFits, Opening
    <3>3. ASSUME NEW x \in op.todo, op' = Cleared(x, op.todo \ {x})
          PROVE  BrakeFits'
      <4>1. x \in Dirs /\ Counted(x)
        BY DEF TypeOK, Op, FreezeInv
      <4>2. /\ op'.phase = "head" /\ op'.kind = "clear" /\ op'.dir = x
            /\ op'.line.count = jrn[x].failureCount
            /\ op'.next.failureCount = jrn[x].failureCount
            /\ op'.next.cleared = jrn[x].failureCount
        BY <3>3, <4>1, ClearedFields, ClearedEffect, CountedNow DEF FreezeInv
      <4>3. jrn[x].failureCount \in Nat /\ jrn'[x].failureCount \in Nat
        BY <4>1 DEF TypeOK, Journal
      <4>4. jrn'[x].failureCount >= jrn[x].failureCount
        BY <2>1, <2>2, <4>1, <4>3
      <4> QED
        BY <4>2, <4>3, <4>4 DEF BrakeFits, Opening
    <3> QED
      BY <1>13, <3>1, <3>2, <3>3 DEF CommitLine, Finish
  <2> QED
    BY <1>6, <2>1, <2>6, <2>7
<1>14. CASE AdvanceWitness
  <2>1. op.phase = "mark" /\ UNCHANGED <<head, jrn, refused>>
    BY <1>14 DEF AdvanceWitness, disk, past
  <2>2. CASE op.kind # "retire" /\ Proceed("output")
    <3>1. /\ op'.phase = "output" /\ op'.dir = d /\ op'.kind = op.kind
          /\ op'.next = op.next /\ op'.fails = op.fails
      BY <2>2, ProceedEffect DEF Phases
    <3>2. Due(d) = 0 /\ Due(d)' = 0
      BY <2>1, <3>1 DEF Due
    <3>3. Counted(d)'
      BY <1>3, <1>4, <2>1, <3>2, UntouchedCounted
    <3>4. BrakeFits'
      BY <1>3, <2>1, <3>1, <3>2 DEF BrakeFits, Opening
    <3> QED
      BY <1>6, <2>1, <3>3, <3>4
  <2>3. CASE op' = Idle
    <3>1. Due(d)' = 0
      BY <2>3, IdleType DEF Due
    <3>2. Counted(d)'
      BY <1>3, <1>4, <2>1, <3>1, UntouchedCounted
    <3> QED
      BY <1>6, <2>1, <2>3, <3>2, IdleType DEF BrakeFits, Opening
  <2> QED
    BY <1>14, <2>2, <2>3 DEF AdvanceWitness, Finish
<1>15. CASE Withhold \/ Output
  <2>1. op' = Idle /\ UNCHANGED <<head, jrn, refused>>
    BY <1>15 DEF Withhold, Output, Finish, disk, past
  <2>2. Due(d)' = 0
    BY <2>1, IdleType DEF Due
  <2>3. Counted(d)'
    BY <1>3, <1>4, <2>1, <2>2, UntouchedCounted
  <2> QED
    BY <1>6, <2>1, <2>3, IdleType DEF BrakeFits, Opening
<1> QED
  BY <1>7, <1>8, <1>9, <1>10, <1>11, <1>12, <1>13, <1>14, <1>15 DEF Run

LEMMA NextFreeze ==
  ASSUME LinesAreKept, TypeOK, FreezeInv, [Next]_vars
  PROVE  FreezeInv'
<1>1. RunsOnCleanTails' /\ TypeOK'
  BY NextClean, NextType DEF FreezeInv
<1>2. CASE Begin
  BY <1>1, <1>2, BeginFreeze, BeginStarts DEF FreezeInv, FreezeBounds
<1>3. CASE Run
  <2>1. op.dir \in Dirs
    BY DEF TypeOK, Op
  <2>2. BrakeFits' /\ FreezeBounds' /\ \A d \in Dirs : Counted(d)'
    BY <1>3, <2>1, RunFreeze, OthersCounted
  <2> QED
    BY <1>1, <2>2 DEF FreezeInv
<1>4. ASSUME op'.phase = "idle", refused' = refused, jrn' = jrn,
             \A d \in Dirs : Heads(d)' \subseteq Heads(d)
      PROVE  FreezeInv'
  <2>1. \A d \in Dirs : Due(d)' = 0
    BY <1>4 DEF Due
  <2> QED
    BY <1>1, <1>4, <2>1, UntouchedCounted DEF FreezeInv, FreezeBounds, BrakeFits, Opening
<1>5. CASE Fault
  <2>1. op'.phase = "idle" /\ UNCHANGED <<head, jrn, refused, backups>>
    BY <1>5, IdleType DEF Fault, Crash, CrashInAppend, disk, past
  <2> QED
    BY <1>4, <2>1 DEF Heads
<1>6. CASE Operator
  <2>1. op'.phase = "idle" /\ UNCHANGED <<jrn, refused>>
    BY <1>6 DEF Operator, RemoveStaleLock, RemoveLastLine, TakeBackup, Restore, disk, past,
       LinesAreKept
  <2>2. ASSUME NEW x \in Dirs, TakeBackup(x), NEW d \in Dirs
        PROVE  Heads(d)' \subseteq Heads(d)
    BY <2>2 DEF TakeBackup, Image, disk, Heads
  <2>3. ASSUME NEW image \in backups, NEW part \in Restores, Restore(image, part),
               NEW d \in Dirs
        PROVE  Heads(d)' \subseteq Heads(d)
    <3>1. /\ backups' = backups /\ head' = [head EXCEPT ![image.dir] = image.head]
          /\ head \in [Dirs -> Head]
      BY <2>3 DEF Restore, LinesAreKept, TypeOK
    <3> QED
      BY <3>1 DEF Heads
  <2>4. ASSUME UNCHANGED <<head, backups>>, NEW d \in Dirs
        PROVE  Heads(d)' \subseteq Heads(d)
    BY <2>4 DEF Heads
  <2>5. RemoveStaleLock \/ (\E x \in Dirs : RemoveLastLine(x)) => UNCHANGED <<head, backups>>
    BY DEF RemoveStaleLock, RemoveLastLine, disk, world
  <2>6. \A d \in Dirs : Heads(d)' \subseteq Heads(d)
    BY <1>6, <2>2, <2>3, <2>4, <2>5 DEF Operator
  <2> QED
    BY <1>4, <2>1, <2>6
<1>7. CASE UNCHANGED vars
  BY <1>1, <1>7 DEF vars, FreezeInv, Counted, Due, Heads, BrakeFits, Opening, FreezeBounds
<1> QED
  BY <1>2, <1>3, <1>5, <1>6, <1>7 DEF Next

LEMMA InitFreeze == Init => FreezeInv
<1> SUFFICES ASSUME Init PROVE FreezeInv
  OBVIOUS
<1>1. \A d \in Dirs : /\ refused[d] = 0 /\ jrn[d].cleared = 0 /\ jrn[d].failureCount = 0
                      /\ head[d].failureCount = 0 /\ head[d].cleared = 0
  BY DEF Init, FreshHead, FreshJournal
<1>2. op.phase = "idle" /\ backups = {} /\ \A d \in Dirs : tail[d].kind = "clean"
  BY IdleType DEF Init, CleanTail
<1>3. \A d \in Dirs : Due(d) = 0 /\ Heads(d) = {head[d]}
  BY <1>2 DEF Due, Heads
<1>4. \A d \in Dirs : Counted(d)
  BY <1>1, <1>3 DEF Counted
<1> QED
  BY <1>1, <1>2, <1>4, SizesAreNatural DEF FreezeInv, RunsOnCleanTails, BrakeFits, Opening,
     FreezeBounds

(* The freeze is a brake that holds: between two clears no half shows more *)
(* auth-failed refusals than failurePolicy.threshold, although the counter *)
(* lives in two files written one after the other, crashes fall between    *)
(* them, and older headers, with older counts and older clears, are put    *)
(* back (persistAuthFail, commitClearFreeze, effective).                   *)
THEOREM TheBrakeHolds ==
  ASSUME LinesAreKept
  PROVE  Spec => []FreezeBounds
<1>1. FreezeInv => FreezeBounds
  BY DEF FreezeInv
<1> QED
  BY <1>1, InitFreeze, NextFreeze, TypeCorrect, PTL DEF Spec
=============================================================================
