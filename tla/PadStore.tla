------------------------------ MODULE PadStore ------------------------------
(***************************************************************************)
(* One copy of a v2 pair on disk: two direction stores, each a head.json   *)
(* rewritten atomically and a journal.log appended to line by line, behind *)
(* one pair lock, with an optional rollback witness in another failure     *)
(* domain (src/cli/v2/store2.ts, truepad2.ts, lock.ts).                    *)
(*                                                                         *)
(* A verb (burn, open, retire, clear-freeze) is a run of durable writes.   *)
(* Each write is a step of its own; the process may die before, inside or  *)
(* after any of them. Between verbs the operator removes a stale lock,     *)
(* removes a malformed last journal line as the refusal tells him to, and  *)
(* copies or restores files.                                               *)
(*                                                                         *)
(* secret.bin is never written after gen (the counters alone decide what   *)
(* is live), so the material is the index ranges 0 .. CapacityRecords - 1  *)
(* and 0 .. Capacity - 1. Whether a tag verifies is a free choice here:    *)
(* every statement about one copy holds whatever envelopes reach it.       *)
(***************************************************************************)
EXTENDS Naturals, FiniteSets

CONSTANTS
  Dirs,                \* "A->B" and "B->A"
  Capacity,            \* encryption.capacity, pad bytes of a direction
  CapacityRecords,     \* authentication.capacityRecords
  MaxAuthLookahead,    \* authentication.maxAuthLookahead
  VerifyAttemptLimit,  \* authentication.verifyAttemptLimit
  FailureThreshold,    \* verification.failurePolicy.threshold
  Lengths,             \* the ciphertext lengths tried
  Witnessed,           \* rollback.witnessClass is "separate-state-file"
  Tears,               \* what a crash may leave of the line it interrupts
  Restores,            \* the parts of a half the operator may restore
  MaxCrashes,          \* bound: crashes
  MaxRestores,         \* bound: restores
  MaxBackups           \* bound: copies kept

ASSUME SizesAreNatural ==
  /\ Capacity \in Nat /\ CapacityRecords \in Nat
  /\ MaxAuthLookahead \in Nat /\ VerifyAttemptLimit \in Nat
  /\ FailureThreshold \in Nat \ {0}
  /\ Lengths \subseteq Nat
  /\ Dirs # {}
  /\ MaxCrashes \in Nat /\ MaxRestores \in Nat /\ MaxBackups \in Nat
ASSUME ModesAreKnown ==
  /\ Witnessed \in BOOLEAN
  /\ Tears \subseteq {"torn", "unterminated"}
  /\ Restores \subseteq {"head", "journal", "both"}

VARIABLES
  head,      \* head[d]: head.json
  jrn,       \* jrn[d]: the aggregates of the terminated, well-formed lines
  tail,      \* tail[d]: what follows them
  wit,       \* wit[d]: the witness's entry for this pair and direction
  locked,    \* the lock file exists
  op,        \* the verb the lock's holder is running
  recUse,    \* history: recUse[d][s], outputs made with record s
  padUse,    \* history: padUse[d][o], outputs made with pad byte o
  begun,     \* history: begun[d][s], verifications begun on record s
  begunAll,  \* history: begunAll[d], verifications begun
  refused,   \* history: auth-failed refusals shown since the last clear
  backups,   \* copies the operator keeps
  crashes,   \* crashes so far
  restores   \* restores so far

disk == <<head, jrn, tail>>
past == <<recUse, padUse, begun, begunAll, refused>>
world == <<backups, crashes, restores>>
vars == <<head, jrn, tail, wit, locked, op, recUse, padUse, begun, begunAll,
          refused, backups, crashes, restores>>

Records == 0 .. CapacityRecords - 1
Offsets == 0 .. Capacity - 1
Window(start, len) == {o \in Offsets : start <= o /\ o < start + len}
Larger(a, b) == IF a >= b THEN a ELSE b
NoAttempts == [s \in Records |-> 0]

-----------------------------------------------------------------------------
(* The records on disk.                                                    *)

Head == [nextOffset : Nat, nextSequence : Nat, attempts : [Records -> Nat],
         failureCount : Nat, cleared : Nat]
Journal == [maxOffset : Nat, maxSequence : Nat, attempts : [Records -> Nat],
            reserved : Nat, failureCount : Nat, cleared : Nat]
Mark == [nextOffset : Nat, nextSequence : Nat, reserved : Nat]

(* Mutant: a sent record is not folded into the journal's high-water.      *)
AdvancesWithoutSend == {"open", "retire"}

Advances == {"send", "open", "retire"}
LineOps == Advances \cup {"init", "attempt", "auth-fail", "clear-freeze"}
Line == [op : LineOps, seq : Nat, off : Nat, count : Nat]
InitLine == [op |-> "init", seq |-> 0, off |-> 0, count |-> 0]

(* clean: the file ends with a newline after a well-formed line.           *)
(* torn: it ends in a prefix of a line. unterminated: it ends in a whole   *)
(* line without its newline, which load accepts. fused: its last line is   *)
(* two lines run together. damaged: a malformed line is followed by more.  *)
Tail == [kind : {"clean", "torn", "unterminated", "fused", "damaged"}, line : Line]
CleanTail == [kind |-> "clean", line |-> InitLine]
Malformed == {"torn", "fused", "damaged"}

(* What one line adds to the aggregates readJournal folds.                 *)
Apply(j, l) ==
  [maxOffset    |-> IF l.op \in Advances THEN Larger(j.maxOffset, l.off) ELSE j.maxOffset,
   maxSequence  |-> IF l.op \in Advances THEN Larger(j.maxSequence, l.seq) ELSE j.maxSequence,
   attempts     |-> IF l.op = "attempt" THEN [j.attempts EXCEPT ![l.seq] = @ + 1]
                                        ELSE j.attempts,
   reserved     |-> IF l.op = "attempt" THEN j.reserved + 1 ELSE j.reserved,
   failureCount |-> IF l.op = "auth-fail" THEN Larger(j.failureCount + 1, l.count)
                                          ELSE j.failureCount,
   cleared      |-> IF l.op = "clear-freeze" THEN l.count ELSE j.cleared]

(* The journal as readJournal reads it: split on newlines, a last line     *)
(* that parses counts whether or not a newline follows it.                 *)
ReadJournal(d) ==
  IF tail[d].kind = "unterminated" THEN Apply(jrn[d], tail[d].line) ELSE jrn[d]

(* The header is refused when it is behind its own journal; a header ahead *)
(* is the later truth.                                                     *)
HeaderAboveJournal(d) ==
  /\ head[d].nextSequence >= ReadJournal(d).maxSequence
  /\ head[d].nextOffset >= ReadJournal(d).maxOffset

HalfLoads(d) == tail[d].kind \notin Malformed /\ HeaderAboveJournal(d)

(* withPair loads both halves before any verb runs.                        *)
PairLoads == \A d \in Dirs : HalfLoads(d)

(* Mutant: the counts are read from the header alone.                      *)
EffectiveFromHeader(d) ==
  [nextOffset |-> head[d].nextOffset, nextSequence |-> head[d].nextSequence,
   attempts |-> head[d].attempts, reserved |-> ReadJournal(d).reserved,
   failureCount |-> head[d].failureCount, cleared |-> head[d].cleared]

Effective(d) ==
  LET j == ReadJournal(d)
      h == head[d]
  IN [nextOffset   |-> h.nextOffset,
      nextSequence |-> h.nextSequence,
      attempts     |-> [s \in Records |-> Larger(h.attempts[s], j.attempts[s])],
      reserved     |-> j.reserved,
      failureCount |-> Larger(h.failureCount, j.failureCount),
      cleared      |-> Larger(h.cleared, j.cleared)]

(* Mutant: the brake bites one failure late.                               *)
FrozenLate(d) == Effective(d).failureCount > FailureThreshold + Effective(d).cleared

Frozen(d) == Effective(d).failureCount >= FailureThreshold + Effective(d).cleared
NotFrozen == \A d \in Dirs : ~Frozen(d)

(* A fresh witness has no entry and reads as zeros.                        *)
NoMark == [nextOffset |-> 0, nextSequence |-> 0, reserved |-> 0]
(* Mutant: one counter at or above the witness is enough.                  *)
AtOrAboveInOne(m, n) ==
  m.nextOffset >= n.nextOffset \/ m.nextSequence >= n.nextSequence \/ m.reserved >= n.reserved

AtOrAbove(m, n) ==
  /\ m.nextOffset >= n.nextOffset
  /\ m.nextSequence >= n.nextSequence
  /\ m.reserved >= n.reserved
ElementwiseMax(m, n) ==
  [nextOffset   |-> Larger(m.nextOffset, n.nextOffset),
   nextSequence |-> Larger(m.nextSequence, n.nextSequence),
   reserved     |-> Larger(m.reserved, n.reserved)]
Preflight(d) == Witnessed => AtOrAbove(Effective(d), wit[d])

-----------------------------------------------------------------------------
(* The verb in progress. phase is the next thing it will do:               *)
(*   reserve, markAttempt, verify       OPEN O3 and O4                     *)
(*   failLine, failHead                 O4 when the tag does not verify    *)
(*   head, line, mark, output           the commit, the witness, the emit  *)

Phases == {"idle", "reserve", "markAttempt", "verify", "failLine", "failHead",
           "head", "line", "mark", "output"}
Kinds == {"none", "burn", "open", "retire", "clear"}
Op == [phase : Phases, kind : Kinds, dir : Dirs, seq : Nat, start : Nat,
       len : Nat, tries : Nat, fails : Nat, next : Head, line : Line,
       mark : Mark, todo : SUBSET Dirs]

FreshHead == [nextOffset |-> 0, nextSequence |-> 0, attempts |-> NoAttempts,
              failureCount |-> 0, cleared |-> 0]
FreshJournal == [maxOffset |-> 0, maxSequence |-> 0, attempts |-> NoAttempts,
                 reserved |-> 0, failureCount |-> 0, cleared |-> 0]

AnyDir == CHOOSE d \in Dirs : TRUE
Idle == [phase |-> "idle", kind |-> "none", dir |-> AnyDir, seq |-> 0,
         start |-> 0, len |-> 0, tries |-> 0, fails |-> 0, next |-> FreshHead,
         line |-> InitLine, mark |-> NoMark, todo |-> {}]

Init ==
  /\ head = [d \in Dirs |-> FreshHead]
  /\ jrn = [d \in Dirs |-> FreshJournal]
  /\ tail = [d \in Dirs |-> CleanTail]
  /\ wit = [d \in Dirs |-> NoMark]
  /\ locked = FALSE
  /\ op = Idle
  /\ recUse = [d \in Dirs |-> [s \in Records |-> 0]]
  /\ padUse = [d \in Dirs |-> [o \in Offsets |-> 0]]
  /\ begun = [d \in Dirs |-> NoAttempts]
  /\ begunAll = [d \in Dirs |-> 0]
  /\ refused = [d \in Dirs |-> 0]
  /\ backups = {}
  /\ crashes = 0
  /\ restores = 0

-----------------------------------------------------------------------------
(* withPair: the lock is taken, both halves load, the verb's free checks   *)
(* pass. Nothing durable happens before Start; a check that fails is a     *)
(* refusal that changes nothing and releases the lock.                     *)

CanStart == op.phase = "idle" /\ ~locked /\ PairLoads

Start(newOp) ==
  /\ locked' = TRUE
  /\ op' = newOp
  /\ UNCHANGED <<disk, wit, past, world>>

AdvanceHead(h, offset, sequence, attempts) ==
  [h EXCEPT !.nextOffset = offset, !.nextSequence = sequence, !.attempts = attempts]

(* Mutant: the entries of retired records are removed from the map.        *)
PruneDroppingKeys(attempts, sequence) ==
  [s \in {r \in Records : r >= sequence} |-> attempts[s]]

(* Attempts on the records below the new high-water are dropped.           *)
Prune(attempts, sequence) ==
  [s \in Records |-> IF s < sequence THEN 0 ELSE attempts[s]]

(* burn, S0 and S1: the next record and the next len pad bytes, in memory. *)
Burn(d, len) ==
  LET e == Effective(d)
  IN /\ CanStart
     /\ NotFrozen
     /\ Preflight(d)
     /\ e.nextSequence < CapacityRecords
     /\ e.nextOffset + len <= Capacity
     /\ Start([Idle EXCEPT
          !.phase = "head", !.kind = "burn", !.dir = d,
          !.seq = e.nextSequence, !.start = e.nextOffset, !.len = len,
          !.next = AdvanceHead(head[d], e.nextOffset + len, e.nextSequence + 1,
                               head[d].attempts),
          !.line = [op |-> "send", seq |-> e.nextSequence + 1,
                    off |-> e.nextOffset + len, count |-> 0],
          !.mark = [nextOffset |-> e.nextOffset + len,
                    nextSequence |-> e.nextSequence + 1,
                    reserved |-> e.reserved]])

(* open, O0 to O2, of an envelope for record s at pad offset start.        *)
Open(d, s, start, len) ==
  LET e == Effective(d)
  IN /\ CanStart
     /\ s \in e.nextSequence .. CapacityRecords - 1
     /\ s < e.nextSequence + MaxAuthLookahead
     /\ start >= e.nextOffset
     /\ start + len <= Capacity
     /\ NotFrozen
     /\ Preflight(d)
     /\ e.attempts[s] < VerifyAttemptLimit
     /\ Start([Idle EXCEPT
          !.phase = "reserve", !.kind = "open", !.dir = d,
          !.seq = s, !.start = start, !.len = len,
          !.tries = e.attempts[s], !.fails = e.failureCount, !.next = head[d],
          !.line = [op |-> "attempt", seq |-> s, off |-> 0, count |-> 0],
          !.mark = [nextOffset |-> e.nextOffset,
                    nextSequence |-> e.nextSequence,
                    reserved |-> e.reserved + 1]])

(* retire: the operator gives up the records below sequence and, if he     *)
(* names one, the pad bytes below offset. A freeze does not stop it.       *)
Retire(d, sequence, offset) ==
  LET e == Effective(d)
  IN /\ CanStart
     /\ Preflight(d)
     /\ sequence \in e.nextSequence + 1 .. CapacityRecords
     /\ offset \in e.nextOffset .. Capacity
     /\ Start([Idle EXCEPT
          !.phase = "head", !.kind = "retire", !.dir = d,
          !.next = AdvanceHead(head[d], offset, sequence,
                               Prune(head[d].attempts, sequence)),
          !.line = [op |-> "retire", seq |-> sequence, off |-> offset, count |-> 0],
          !.mark = [nextOffset |-> offset, nextSequence |-> sequence,
                    reserved |-> e.reserved]])

(* clear-freeze, from the half d on to the frozen halves still to do.      *)
Cleared(d, rest) ==
  LET fails == Effective(d).failureCount
  IN [Idle EXCEPT
        !.phase = "head", !.kind = "clear", !.dir = d, !.todo = rest,
        !.next = [head[d] EXCEPT !.failureCount = fails, !.cleared = fails],
        !.line = [op |-> "clear-freeze", seq |-> 0, off |-> 0, count |-> fails]]

ClearFreeze(d) ==
  /\ CanStart
  /\ Frozen(d)
  /\ Start(Cleared(d, {x \in Dirs : Frozen(x)} \ {d}))

-----------------------------------------------------------------------------
(* The durable writes.                                                     *)

Proceed(phase) == op' = [op EXCEPT !.phase = phase]
Finish == locked' = FALSE /\ op' = Idle

(* appendLineDurably: the line and its newline at the end of the file,     *)
(* whatever the file ends with.                                            *)
AppendLine(d, l) ==
  CASE tail[d].kind = "clean" ->
         /\ jrn' = [jrn EXCEPT ![d] = Apply(@, l)]
         /\ tail' = tail
    [] tail[d].kind = "unterminated" ->
         /\ jrn' = jrn
         /\ tail' = [tail EXCEPT ![d] = [kind |-> "fused", line |-> InitLine]]
    [] OTHER ->
         /\ jrn' = jrn
         /\ tail' = [tail EXCEPT ![d] = [kind |-> "damaged", line |-> InitLine]]

(* Mutant: the reservation stays in memory until the outcome is written.   *)
ReserveInMemory ==
  /\ op.phase = "reserve"
  /\ Proceed("markAttempt")
  /\ UNCHANGED <<disk, wit, locked, past, world>>

(* O3: the reservation, durable before anything is verified.               *)
ReserveAttempt ==
  /\ op.phase = "reserve"
  /\ AppendLine(op.dir, op.line)
  /\ Proceed("markAttempt")
  /\ UNCHANGED <<head, wit, locked, past, world>>

Advance(d, mark) ==
  wit' = IF Witnessed THEN [wit EXCEPT ![d] = ElementwiseMax(@, mark)] ELSE wit

(* Mutant: the witness is told of the commit only, not of the attempt.     *)
MarkNothing ==
  /\ op.phase = "markAttempt"
  /\ Proceed("verify")
  /\ UNCHANGED <<disk, wit, locked, past, world>>

(* The witness learns of the attempt before the tag is looked at.          *)
MarkAttempt ==
  /\ op.phase = "markAttempt"
  /\ Advance(op.dir, op.mark)
  /\ Proceed("verify")
  /\ UNCHANGED <<disk, locked, past, world>>

Verify ==
  /\ op.phase = "verify"
  /\ begun' = [begun EXCEPT ![op.dir][op.seq] = @ + 1]
  /\ begunAll' = [begunAll EXCEPT ![op.dir] = @ + 1]
  /\ UNCHANGED <<disk, wit, locked, recUse, padUse, refused, world>>

(* O4, the tag does not verify: the failure and the attempt are counted    *)
(* from the values loaded at the start.                                    *)
VerifyFails ==
  /\ Verify
  /\ op' = [op EXCEPT
       !.phase = "failLine",
       !.next = [op.next EXCEPT !.failureCount = op.fails + 1,
                                !.attempts[op.seq] = op.tries + 1],
       !.line = [op |-> "auth-fail", seq |-> op.seq, off |-> 0,
                 count |-> op.fails + 1]]

(* O4, the tag verifies: every position up to the record is retired in     *)
(* both namespaces, skipped ones included.                                 *)
VerifyPasses ==
  LET offset == op.start + op.len
      sequence == op.seq + 1
  IN /\ Verify
     /\ op' = [op EXCEPT
          !.phase = "head",
          !.next = AdvanceHead(op.next, offset, sequence,
                               Prune(op.next.attempts, sequence)),
          !.line = [op |-> "open", seq |-> sequence, off |-> offset, count |-> 0],
          !.mark = [op.mark EXCEPT !.nextOffset = offset, !.nextSequence = sequence]]

(* persistAuthFail: the journal line first, then the header; the refusal   *)
(* is shown once both are durable.                                         *)
AppendAuthFail ==
  /\ op.phase = "failLine"
  /\ AppendLine(op.dir, op.line)
  /\ Proceed("failHead")
  /\ UNCHANGED <<head, wit, locked, past, world>>

RefuseAuthFailed ==
  /\ op.phase = "failHead"
  /\ head' = [head EXCEPT ![op.dir] = op.next]
  /\ refused' = [refused EXCEPT ![op.dir] = @ + 1]
  /\ Finish
  /\ UNCHANGED <<jrn, tail, wit, recUse, padUse, begun, begunAll, world>>

(* Mutant: the journal line first.                                         *)
CommitLineFirst ==
  /\ op.phase = "head"
  /\ AppendLine(op.dir, op.line)
  /\ Proceed("line")
  /\ UNCHANGED <<head, wit, locked, past, world>>

(* commitAdvance: the header first, then the journal line. A clear takes   *)
(* effect with the header.                                                 *)
CommitHead ==
  /\ op.phase = "head"
  /\ head' = [head EXCEPT ![op.dir] = op.next]
  /\ refused' = IF op.kind = "clear" THEN [refused EXCEPT ![op.dir] = 0] ELSE refused
  /\ Proceed("line")
  /\ UNCHANGED <<jrn, tail, wit, locked, recUse, padUse, begun, begunAll, world>>

(* Mutant: the line is written over and over, whether or not it is there.  *)
CommitLineAgain ==
  /\ op.phase = "line"
  /\ AppendLine(op.dir, op.line)
  /\ UNCHANGED <<head, wit, locked, op, past, world>>

(* Mutant: the header is thought to say it all.                            *)
CommitHeaderOnly ==
  /\ op.phase = "line"
  /\ Proceed("mark")
  /\ UNCHANGED <<disk, wit, locked, past, world>>

CommitLine ==
  /\ op.phase = "line"
  /\ AppendLine(op.dir, op.line)
  /\ IF op.kind # "clear"
       THEN Proceed("mark") /\ UNCHANGED locked
       ELSE \/ /\ op.todo = {} /\ Finish
            \/ /\ \E d \in op.todo : op' = Cleared(d, op.todo \ {d})
               /\ UNCHANGED locked
  /\ UNCHANGED <<head, wit, past, world>>

(* After the commit and before the output.                                 *)
AdvanceWitness ==
  /\ op.phase = "mark"
  /\ Advance(op.dir, op.mark)
  /\ IF op.kind = "retire" THEN Finish ELSE Proceed("output") /\ UNCHANGED locked
  /\ UNCHANGED <<disk, past, world>>

(* S3 and O6: only now does the envelope or the plaintext leave.           *)
Output ==
  /\ op.phase = "output"
  /\ recUse' = [recUse EXCEPT ![op.dir][op.seq] = @ + 1]
  /\ padUse' = [padUse EXCEPT ![op.dir] =
                  [o \in Offsets |->
                     @[o] + (IF o \in Window(op.start, op.len) THEN 1 ELSE 0)]]
  /\ Finish
  /\ UNCHANGED <<disk, wit, begun, begunAll, refused, world>>

(* The witness cannot be advanced, or a fixed record's frame is invalid:   *)
(* an error after the commit, with nothing released.                       *)
Withhold ==
  /\ \/ op.phase \in {"markAttempt", "mark"} /\ Witnessed
     \/ op.phase = "output" /\ op.kind = "open"
  /\ Finish
  /\ UNCHANGED <<disk, wit, past, world>>

-----------------------------------------------------------------------------
(* Crashes, and what the operator does about them.                         *)

Crash ==
  /\ op.phase # "idle"
  /\ crashes < MaxCrashes
  /\ crashes' = crashes + 1
  /\ op' = Idle
  /\ UNCHANGED <<disk, wit, locked, past, backups, restores>>

(* A crash inside an append: part of the line is on disk, or all of it but *)
(* the newline.                                                            *)
TornTail(t, tear, l) ==
  CASE t.kind = "clean" /\ tear = "torn" -> [kind |-> "torn", line |-> InitLine]
    [] t.kind = "clean" /\ tear = "unterminated" -> [kind |-> tear, line |-> l]
    [] t.kind = "unterminated" -> [kind |-> "fused", line |-> InitLine]
    [] OTHER -> [kind |-> "damaged", line |-> InitLine]

CrashInAppend(tear) ==
  /\ op.phase \in {"reserve", "failLine", "line"}
  /\ crashes < MaxCrashes
  /\ crashes' = crashes + 1
  /\ tail' = [tail EXCEPT ![op.dir] = TornTail(@, tear, op.line)]
  /\ op' = Idle
  /\ UNCHANGED <<head, jrn, wit, locked, past, backups, restores>>

(* A lock left by a crash stays until the operator removes it.             *)
RemoveStaleLock ==
  /\ op.phase = "idle" /\ locked
  /\ locked' = FALSE
  /\ UNCHANGED <<disk, wit, op, past, world>>

(* "Remove only that last line and retry."                                 *)
RemoveLastLine(d) ==
  /\ op.phase = "idle" /\ ~locked
  /\ tail[d].kind \in {"torn", "fused"}
  /\ tail' = [tail EXCEPT ![d] = CleanTail]
  /\ UNCHANGED <<head, jrn, wit, locked, op, past, world>>

Image(d) == [dir |-> d, head |-> head[d], jrn |-> jrn[d], tail |-> tail[d]]

TakeBackup(d) ==
  /\ op.phase = "idle"
  /\ Cardinality(backups) < MaxBackups
  /\ backups' = backups \cup {Image(d)}
  /\ UNCHANGED <<disk, wit, locked, op, past, crashes, restores>>

Restore(image, part) ==
  /\ op.phase = "idle" /\ ~locked
  /\ restores < MaxRestores
  /\ restores' = restores + 1
  /\ head' = IF part = "journal" THEN head ELSE [head EXCEPT ![image.dir] = image.head]
  /\ jrn' = IF part = "head" THEN jrn ELSE [jrn EXCEPT ![image.dir] = image.jrn]
  /\ tail' = IF part = "head" THEN tail ELSE [tail EXCEPT ![image.dir] = image.tail]
  /\ UNCHANGED <<wit, locked, op, past, backups, crashes>>

-----------------------------------------------------------------------------
Begin ==
  \E d \in Dirs :
    \/ \E len \in Lengths : Burn(d, len)
    \/ \E s \in Records, start \in 0 .. Capacity, len \in Lengths : Open(d, s, start, len)
    \/ \E sequence \in 1 .. CapacityRecords, offset \in 0 .. Capacity :
         Retire(d, sequence, offset)
    \/ ClearFreeze(d)

Run ==
  \/ ReserveAttempt \/ MarkAttempt \/ VerifyFails \/ VerifyPasses
  \/ AppendAuthFail \/ RefuseAuthFailed
  \/ CommitHead \/ CommitLine \/ AdvanceWitness \/ Output \/ Withhold

Fault ==
  \/ Crash
  \/ \E tear \in Tears : CrashInAppend(tear)

Operator ==
  \/ RemoveStaleLock
  \/ \E d \in Dirs : RemoveLastLine(d)
  \/ \E d \in Dirs : TakeBackup(d)
  \/ \E image \in backups, part \in Restores : Restore(image, part)

Next == Begin \/ Run \/ Fault \/ Operator

Spec == Init /\ [][Next]_vars

(* A verb is straight-line synchronous code: once the lock is held it runs *)
(* on. A lock left behind is removed in the end.                           *)
FairSpec == Spec /\ WF_vars(Run) /\ WF_vars(RemoveStaleLock)

-----------------------------------------------------------------------------
TypeOK ==
  /\ head \in [Dirs -> Head]
  /\ jrn \in [Dirs -> Journal]
  /\ tail \in [Dirs -> Tail]
  /\ wit \in [Dirs -> Mark]
  /\ locked \in BOOLEAN
  /\ op \in Op
  /\ recUse \in [Dirs -> [Records -> Nat]]
  /\ padUse \in [Dirs -> [Offsets -> Nat]]
  /\ begun \in [Dirs -> [Records -> Nat]]
  /\ begunAll \in [Dirs -> Nat]
  /\ refused \in [Dirs -> Nat]
  /\ backups \subseteq [dir : Dirs, head : Head, jrn : Journal, tail : Tail]
  /\ crashes \in Nat
  /\ restores \in Nat

(* One authentication record makes at most one output, and so does one pad *)
(* byte, over any run of crashes, repairs and restores the model allows:   *)
(* the commit of S2/O5 stands between the material and the output.         *)
MaterialUsedOnce ==
  \A d \in Dirs :
    /\ \A s \in Records : recUse[d][s] <= 1
    /\ \A o \in Offsets : padUse[d][o] <= 1

(* A crash, wherever it falls, never leaves a header behind its own        *)
(* journal: a half nobody restored is refused only for a malformed line,   *)
(* never as regressed-below-mark (the order inside commitAdvance).         *)
CrashNeverRegresses == restores = 0 => \A d \in Dirs : HeaderAboveJournal(d)

(* "The journal can never under-count verifications actually begun": the   *)
(* attempts a load computes for a live record cover every verification     *)
(* that has begun on it.                                                   *)
AttemptsNeverUndercounted ==
  \A d \in Dirs, s \in Records :
    HalfLoads(d) /\ s >= Effective(d).nextSequence =>
      begun[d][s] <= Effective(d).attempts[s]

(* The finite forgery bound: no record is verified against more often than *)
(* verifyAttemptLimit, however often the verb crashed in between.          *)
VerificationsBounded ==
  \A d \in Dirs, s \in Records : begun[d][s] <= VerifyAttemptLimit

(* The freeze is a brake that holds: between two clears no half shows more *)
(* auth-failed refusals than the threshold, though the counter is kept in  *)
(* two files written one after the other.                                  *)
FreezeBounds == \A d \in Dirs : refused[d] <= FailureThreshold

(* What the witness knows covers everything that left the pair and every   *)
(* verification that began, so a restored store that forgets one of them   *)
(* is below it.                                                            *)
WitnessCovers ==
  Witnessed =>
    \A d \in Dirs :
      /\ \A s \in Records : recUse[d][s] > 0 => s < wit[d].nextSequence
      /\ \A o \in Offsets : padUse[d][o] > 0 => o < wit[d].nextOffset
      /\ begunAll[d] <= wit[d].reserved

(* Every verb that began ends, and the lock with it: no phase is a dead    *)
(* end, and a crash only leaves a lock the operator removes.               *)
LockEventuallyFree == locked ~> ~locked

(* The outputs of a copy are those of a one-time pad.                      *)
Abstract == INSTANCE OneTimePad
  WITH Dirs <- Dirs, Records <- Records, Offsets <- Offsets,
       recUse <- recUse, padUse <- padUse
RefinesOneTimePad == Abstract!Spec
=============================================================================
