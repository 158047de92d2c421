---------------------------- MODULE BrowserStore ----------------------------
(***************************************************************************)
(* The two direction stores of a pad in the Browser Edition and its        *)
(* rollback witness: src/browser/engine/store.ts, witness.ts, opfs-vfs.ts, *)
(* and burn, open, retire and clear-freeze of verbs.ts. The format and the *)
(* order of the writes are those of the command line tool (PadStore); what *)
(* is behind them is not. A header may be rewritten in place and be cut    *)
(* off half way, nobody can repair a journal, a closed tab gives its lock  *)
(* back, and the witness is one append-only file in another directory,     *)
(* whose records are framed so that a torn one loses only itself.          *)
(***************************************************************************)
EXTENDS Naturals, FileStates

CONSTANTS
  Dirs,                \* the directions of the pad
  CapacityRecords,     \* authentication records of a direction
  Capacity,            \* encryption bytes of a direction
  VerifyAttemptLimit, MaxAuthLookahead, FreezeThreshold,
  Lengths,             \* ciphertext lengths that occur
  MaxFaults,           \* bound on the writes that are cut off
  MaxRestores          \* bound on the times the pair directory is put back

ASSUME StoreSizes ==
  /\ CapacityRecords \in Nat /\ Capacity \in Nat /\ Lengths \subseteq Nat
  /\ VerifyAttemptLimit \in Nat /\ MaxAuthLookahead \in Nat /\ FreezeThreshold \in Nat
  /\ MaxFaults \in Nat /\ MaxRestores \in Nat

VARIABLES
  hd,        \* hd[d]: head.json, its counters or Torn
  jn,        \* jn[d]: journal.log as its lines add up, or Torn
  newline,   \* newline[d]: journal.log ends with a newline
  wlog,      \* wlog[d]: the maximum of the records of d in witness/<pairId>.log
  call,      \* the verb that holds the pad's lock, or Quiet
  recOut,    \* recOut[d][s]: the outputs made with record s
  padOut,    \* padOut[d][o]: the outputs made with pad byte o
  verified,  \* verified[d][s]: the verifications begun on record s
  begunIn,   \* begunIn[d]: the verifications begun in direction d
  kept,      \* a copy of the pair directory the operator has, or Torn
  faults, restored

pairDir == <<hd, jn, newline>>
history == <<recOut, padOut, verified, begunIn>>
bounds == <<kept, faults, restored>>
storeVars == <<hd, jn, newline, wlog, call, recOut, padOut, verified, begunIn,
               kept, faults, restored>>

Recs == 0 .. CapacityRecords - 1
Bytes == 0 .. Capacity - 1
Most(a, b) == IF a >= b THEN a ELSE b
NoTries == [s \in Recs |-> 0]

(* off and seq are nextOffset and nextSequence.                            *)
HeadFile == [off : 0 .. Capacity, seq : 0 .. CapacityRecords, tries : [Recs -> Nat],
             fails : Nat, cleared : Nat]
JournalFile == [off : Nat, seq : Nat, tries : [Recs -> Nat], reserved : Nat,
                fails : Nat, cleared : Nat]
WitnessMark == [off : Nat, seq : Nat, reserved : Nat]

ASSUME TornIsNoFile == Torn \notin HeadFile /\ Torn \notin JournalFile

FirstHead == [off |-> 0, seq |-> 0, tries |-> NoTries, fails |-> 0, cleared |-> 0]
FirstJournal == [off |-> 0, seq |-> 0, tries |-> NoTries, reserved |-> 0,
                 fails |-> 0, cleared |-> 0]
FirstMark == [off |-> 0, seq |-> 0, reserved |-> 0]
----------------------------------------------------------------------------
(* What loadStore and the witness read.                                    *)

(* One more line, as readJournal adds it up.                               *)
Added(j, l) ==
  CASE l.op = "attempt" ->
         [j EXCEPT !.tries[l.seq] = @ + 1, !.reserved = @ + 1]
    [] l.op = "auth-fail" -> [j EXCEPT !.fails = Most(@ + 1, l.count)]
    [] l.op = "clear-freeze" -> [j EXCEPT !.cleared = l.count]
    [] OTHER -> [j EXCEPT !.off = Most(@, l.off), !.seq = Most(@, l.seq)]

(* validateHead's bounds on the counters.                                  *)
HeadFits(h) == h.off <= Capacity /\ h.seq <= CapacityRecords

Loads(d) ==
  /\ hd[d] # Torn /\ HeadFits(hd[d]) /\ jn[d] # Torn
  /\ hd[d].seq >= jn[d].seq /\ hd[d].off >= jn[d].off

EffectiveByHeader(d) ==
  [off |-> hd[d].off, seq |-> hd[d].seq, reserved |-> jn[d].reserved, tries |-> hd[d].tries,
   fails |-> Most(hd[d].fails, jn[d].fails),
   cleared |-> Most(hd[d].cleared, jn[d].cleared)]

(* EffectiveState; the reserved attempts are the journal's alone.          *)
EffectiveOf(d) ==
  [off |-> hd[d].off, seq |-> hd[d].seq, reserved |-> jn[d].reserved,
   tries |-> [s \in Recs |-> Most(hd[d].tries[s], jn[d].tries[s])],
   fails |-> Most(hd[d].fails, jn[d].fails),
   cleared |-> Most(hd[d].cleared, jn[d].cleared)]

HalfFrozen(d) == EffectiveOf(d).fails >= FreezeThreshold + EffectiveOf(d).cleared

BelowInAll(e, w) == e.off < w.off /\ e.seq < w.seq /\ e.reserved < w.reserved
BelowWitness(e, w) == e.off < w.off \/ e.seq < w.seq \/ e.reserved < w.reserved

MarkMax(v, w) == [off |-> Most(v.off, w.off), seq |-> Most(v.seq, w.seq),
                  reserved |-> Most(v.reserved, w.reserved)]
----------------------------------------------------------------------------
Quiet == [at |-> "quiet"]
Kind == {"burn", "open", "retire", "clear-freeze"}
At == {"reserve", "markAttempt", "verify", "failLine", "failHead", "head", "line",
       "mark", "emit"}

StoreInit ==
  /\ hd = [d \in Dirs |-> FirstHead] /\ jn = [d \in Dirs |-> FirstJournal]
  /\ newline = [d \in Dirs |-> TRUE] /\ wlog = [d \in Dirs |-> FirstMark]
  /\ call = Quiet
  /\ recOut = [d \in Dirs |-> NoTries]
  /\ padOut = [d \in Dirs |-> [o \in Bytes |-> 0]]
  /\ verified = [d \in Dirs |-> NoTries] /\ begunIn = [d \in Dirs |-> 0]
  /\ kept = Torn /\ faults = 0 /\ restored = 0

(* withLock, then loadPair: both halves, whatever the direction.           *)
PairLoads == \A d \in Dirs : Loads(d)
NobodyIn == call = Quiet /\ PairLoads
PreflightPasses(d) == ~BelowWitness(EffectiveOf(d), wlog[d])
NoneFrozen == \A d \in Dirs : ~HalfFrozen(d)

Enter(c) == call' = c /\ UNCHANGED <<pairDir, wlog, history, bounds>>

Pruned(tries, seq) == [s \in Recs |-> IF s < seq THEN 0 ELSE tries[s]]
Advanced(h, off, seq) == [h EXCEPT !.off = off, !.seq = seq]

BurnPad(d, len) ==
  LET e == EffectiveOf(d) IN
  /\ NobodyIn /\ NoneFrozen /\ PreflightPasses(d)
  /\ e.seq < CapacityRecords /\ e.off + len <= Capacity
  /\ Enter([at |-> "head", kind |-> "burn", dir |-> d, seq |-> e.seq, start |-> e.off,
            len |-> len, head |-> Advanced(hd[d], e.off + len, e.seq + 1),
            line |-> [op |-> "send", seq |-> e.seq + 1, off |-> e.off + len],
            mark |-> [off |-> e.off + len, seq |-> e.seq + 1, reserved |-> e.reserved]])

(* O0 to O2 of an envelope that names record s and pad offset start.       *)
OpenEnvelope(d, s, start, len) ==
  LET e == EffectiveOf(d) IN
  /\ NobodyIn
  /\ e.seq <= s /\ s < CapacityRecords /\ s < e.seq + MaxAuthLookahead
  /\ e.off <= start /\ start + len <= Capacity
  /\ NoneFrozen /\ PreflightPasses(d) /\ e.tries[s] < VerifyAttemptLimit
  /\ Enter([at |-> "reserve", kind |-> "open", dir |-> d, seq |-> s, start |-> start,
            len |-> len,
            head |-> [hd[d] EXCEPT !.fails = e.fails, !.tries[s] = Most(@, e.tries[s])],
            line |-> [op |-> "attempt", seq |-> s],
            mark |-> [off |-> e.off, seq |-> e.seq, reserved |-> e.reserved + 1]])

RetirePastTheEnd(d, through, offset) ==
  LET e == EffectiveOf(d) IN
  /\ NobodyIn /\ PreflightPasses(d)
  /\ e.seq <= through /\ through <= CapacityRecords
  /\ e.off <= offset /\ offset <= Capacity
  /\ Enter([at |-> "head", kind |-> "retire", dir |-> d,
            head |-> [Advanced(hd[d], offset, through + 1)
                        EXCEPT !.tries = Pruned(hd[d].tries, through + 1)],
            line |-> [op |-> "retire", seq |-> through + 1, off |-> offset],
            mark |-> [off |-> offset, seq |-> through + 1, reserved |-> e.reserved]])

(* A freeze does not stop it; the offset may stay where it is.             *)
RetirePad(d, through, offset) ==
  LET e == EffectiveOf(d) IN
  /\ NobodyIn /\ PreflightPasses(d)
  /\ e.seq <= through /\ through < CapacityRecords
  /\ e.off <= offset /\ offset <= Capacity
  /\ Enter([at |-> "head", kind |-> "retire", dir |-> d,
            head |-> [Advanced(hd[d], offset, through + 1)
                        EXCEPT !.tries = Pruned(hd[d].tries, through + 1)],
            line |-> [op |-> "retire", seq |-> through + 1, off |-> offset],
            mark |-> [off |-> offset, seq |-> through + 1, reserved |-> e.reserved]])

ClearCall(d, rest) ==
  LET n == EffectiveOf(d).fails IN
  [at |-> "head", kind |-> "clear-freeze", dir |-> d, rest |-> rest,
   head |-> [hd[d] EXCEPT !.fails = n, !.cleared = n],
   line |-> [op |-> "clear-freeze", count |-> n]]

ClearFrozen(d) ==
  /\ NobodyIn /\ HalfFrozen(d)
  /\ Enter(ClearCall(d, {x \in Dirs : HalfFrozen(x)} \ {d}))
----------------------------------------------------------------------------
(* The durable writes. A write that is cut off, by a tab that closes or an *)
(* error that is thrown, ends the verb; nothing is emitted.                *)

GoesTo(at) == call' = [call EXCEPT !.at = at]
CutOff == call' = Quiet /\ faults < MaxFaults /\ faults' = faults + 1
NoFault == UNCHANGED faults

(* writeFileAtomic: by a move, or in place where there is none.            *)
HeadCut(d) == hd' = [hd EXCEPT ![d] = Torn] \/ UNCHANGED hd

(* appendFile puts the line where the file ends: after a line that lacks   *)
(* its newline, the two are one line that does not parse.                  *)
WithLine(d, l) == IF jn[d] = Torn \/ ~newline[d] THEN Torn ELSE Added(jn[d], l)
LineAdded(d, l) ==
  /\ jn' = [jn EXCEPT ![d] = WithLine(d, l)] /\ UNCHANGED newline

(* Nothing of it, a part of it, or all of it but the newline.              *)
LineCut(d, l) ==
  \/ UNCHANGED <<jn, newline>>
  \/ jn' = [jn EXCEPT ![d] = Torn] /\ UNCHANGED newline
  \/ jn' = [jn EXCEPT ![d] = WithLine(d, l)] /\ newline' = [newline EXCEPT ![d] = FALSE]

AttemptUnmarked ==
  /\ call.at = "reserve" /\ LineAdded(call.dir, call.line) /\ GoesTo("verify") /\ NoFault
  /\ UNCHANGED <<hd, wlog, history, kept, restored>>

ReserveTry ==
  /\ call.at = "reserve"
  /\ \/ LineAdded(call.dir, call.line) /\ GoesTo("markAttempt") /\ NoFault
     \/ LineCut(call.dir, call.line) /\ CutOff
  /\ UNCHANGED <<hd, wlog, history, kept, restored>>

(* advance appends one record; the maximum of those that parse counts, and *)
(* a torn one is a line of its own that does not.                          *)
Marked(d, m) == wlog' = [wlog EXCEPT ![d] = MarkMax(@, m)]

MarkTry ==
  /\ call.at = "markAttempt"
  /\ \/ Marked(call.dir, call.mark) /\ GoesTo("verify") /\ NoFault
     \/ (Marked(call.dir, call.mark) \/ UNCHANGED wlog) /\ CutOff
  /\ UNCHANGED <<pairDir, history, kept, restored>>

BeginVerify ==
  /\ call.at = "verify"
  /\ verified' = [verified EXCEPT ![call.dir][call.seq] = @ + 1]
  /\ begunIn' = [begunIn EXCEPT ![call.dir] = @ + 1]
  /\ UNCHANGED <<pairDir, wlog, recOut, padOut, bounds>>

TagFails ==
  /\ BeginVerify
  /\ call' = [call EXCEPT !.at = "failLine",
       !.head = [call.head EXCEPT !.fails = @ + 1, !.tries[call.seq] = @ + 1],
       !.line = [op |-> "auth-fail", seq |-> call.seq, count |-> call.head.fails + 1]]

(* Everything up to the record is retired, and what was skipped with it.   *)
TagPasses ==
  LET off == call.start + call.len  seq == call.seq + 1 IN
  /\ BeginVerify
  /\ call' = [call EXCEPT !.at = "head",
       !.head = [Advanced(hd[call.dir], off, seq)
                   EXCEPT !.tries = Pruned(hd[call.dir].tries, seq)],
       !.line = [op |-> "open", seq |-> seq, off |-> off],
       !.mark = [call.mark EXCEPT !.off = off, !.seq = seq]]

(* persistAuthFail: the line, then the header, then the refusal.           *)
FailLine ==
  /\ call.at = "failLine"
  /\ \/ LineAdded(call.dir, call.line) /\ GoesTo("failHead") /\ NoFault
     \/ LineCut(call.dir, call.line) /\ CutOff
  /\ UNCHANGED <<hd, wlog, history, kept, restored>>

FailHead ==
  /\ call.at = "failHead"
  /\ \/ hd' = [hd EXCEPT ![call.dir] = call.head] /\ call' = Quiet /\ NoFault
     \/ HeadCut(call.dir) /\ CutOff
  /\ UNCHANGED <<jn, newline, wlog, history, kept, restored>>

EmitEarly ==
  /\ call.at = "head"
  /\ \/ /\ hd' = [hd EXCEPT ![call.dir] = call.head] /\ NoFault
        /\ GoesTo(IF call.kind = "burn" THEN "emit" ELSE "line")
     \/ HeadCut(call.dir) /\ CutOff
  /\ UNCHANGED <<jn, newline, wlog, history, kept, restored>>

(* commitAdvance: the header, then the line.                               *)
CommitHeader ==
  /\ call.at = "head"
  /\ \/ hd' = [hd EXCEPT ![call.dir] = call.head] /\ GoesTo("line") /\ NoFault
     \/ HeadCut(call.dir) /\ CutOff
  /\ UNCHANGED <<jn, newline, wlog, history, kept, restored>>

AfterCommit ==
  CASE call.kind # "clear-freeze" -> GoesTo("mark")
    [] call.kind = "clear-freeze" /\ call.rest = {} -> call' = Quiet
    [] OTHER -> \E d \in call.rest : call' = ClearCall(d, call.rest \ {d})

CommitJournal ==
  /\ call.at = "line"
  /\ \/ LineAdded(call.dir, call.line) /\ AfterCommit /\ NoFault
     \/ LineCut(call.dir, call.line) /\ CutOff
  /\ UNCHANGED <<hd, wlog, history, kept, restored>>

MarkCommit ==
  /\ call.at = "mark"
  /\ \/ /\ Marked(call.dir, call.mark) /\ NoFault
        /\ IF call.kind = "retire" THEN call' = Quiet ELSE GoesTo("emit")
     \/ (Marked(call.dir, call.mark) \/ UNCHANGED wlog) /\ CutOff
  /\ UNCHANGED <<pairDir, history, kept, restored>>

(* S3 and O6. A fixed record whose frame is invalid, or a tab that closed, *)
(* releases nothing.                                                       *)
Emit ==
  /\ call.at = "emit" /\ call' = Quiet
  /\ \/ /\ recOut' = [recOut EXCEPT ![call.dir][call.seq] = @ + 1]
        /\ padOut' = [padOut EXCEPT ![call.dir] = [o \in Bytes |->
             IF call.start <= o /\ o < call.start + call.len THEN @[o] + 1 ELSE @[o]]]
     \/ UNCHANGED <<recOut, padOut>>
  /\ UNCHANGED <<pairDir, wlog, verified, begunIn, bounds>>
----------------------------------------------------------------------------
(* A copy of the profile without its witness directory, made and put back  *)
(* when no verb runs.                                                      *)
KeepCopy ==
  /\ MaxRestores > 0 /\ kept = Torn /\ NobodyIn
  /\ kept' = [hd |-> hd, jn |-> jn, newline |-> newline]
  /\ UNCHANGED <<pairDir, wlog, call, history, faults, restored>>

PutBack ==
  /\ call = Quiet /\ kept # Torn /\ restored < MaxRestores
  /\ hd' = kept.hd /\ jn' = kept.jn /\ newline' = kept.newline
  /\ restored' = restored + 1
  /\ UNCHANGED <<wlog, call, history, kept, faults>>
----------------------------------------------------------------------------
Verb ==
  \E d \in Dirs :
    \/ \E len \in Lengths : BurnPad(d, len)
    \/ \E s \in Recs, start \in 0 .. Capacity, len \in Lengths :
         OpenEnvelope(d, s, start, len)
    \/ \E through \in 0 .. CapacityRecords, offset \in 0 .. Capacity :
         RetirePad(d, through, offset)
    \/ ClearFrozen(d)

VerbStep ==
  \/ ReserveTry \/ MarkTry \/ TagFails \/ TagPasses \/ FailLine \/ FailHead
  \/ CommitHeader \/ CommitJournal \/ MarkCommit \/ Emit

StoreNext == Verb \/ VerbStep \/ KeepCopy \/ PutBack
StoreSpec == StoreInit /\ [][StoreNext]_storeVars
----------------------------------------------------------------------------
(* Every file and every call has the shape the code gives it; the counters *)
(* of a header stay within what validateHead accepts.                      *)
StoreTypeOK ==
  /\ \A d \in Dirs : hd[d] \in HeadFile \/ hd[d] = Torn
  /\ \A d \in Dirs : jn[d] \in JournalFile \/ jn[d] = Torn
  /\ newline \in [Dirs -> BOOLEAN] /\ wlog \in [Dirs -> WitnessMark]
  /\ call = Quiet \/ (call.at \in At /\ call.kind \in Kind /\ call.dir \in Dirs)
  /\ recOut \in [Dirs -> [Recs -> Nat]] /\ padOut \in [Dirs -> [Bytes -> Nat]]
  /\ verified \in [Dirs -> [Recs -> Nat]] /\ begunIn \in [Dirs -> Nat]
  /\ faults \in 0 .. MaxFaults /\ restored \in 0 .. MaxRestores

(* The witness is at or above everything that left the pad and every       *)
(* verification begun, though its own records may be torn (witness.ts: "it *)
(* never under-reports below a state whose output was released").          *)
ReleasedIsInWitness ==
  \A d \in Dirs :
    /\ \A s \in Recs : recOut[d][s] > 0 => wlog[d].seq > s
    /\ \A o \in Bytes : padOut[d][o] > 0 => wlog[d].off > o
    /\ begunIn[d] <= wlog[d].reserved

(* No record is verified more often than the limit, wherever a write was   *)
(* cut off, as long as nothing is put back.                                *)
TriesBounded ==
  restored = 0 => \A d \in Dirs, s \in Recs : verified[d][s] <= VerifyAttemptLimit

(* A pad nobody cut off and nobody put back can always be loaded: no verb  *)
(* writes what the loader refuses.                                         *)
LoadsUnlessCut ==
  faults = 0 /\ restored = 0 /\ call = Quiet => PairLoads

(* With the witness in a directory of its own, a pair directory that is    *)
(* torn or put back never makes a second output (OneTimePad).              *)
Otp == INSTANCE OneTimePad WITH
  Dirs <- Dirs, Records <- Recs, Offsets <- Bytes, recUse <- recOut, padUse <- padOut
BrowserPromise == Otp!Spec
=============================================================================
