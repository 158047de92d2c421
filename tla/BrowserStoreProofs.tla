-------------------------- MODULE BrowserStoreProofs --------------------------
(***************************************************************************)
(* Proofs about BrowserStore, for every size of the pad, every number of   *)
(* writes cut off and every number of times the directory is put back; and *)
(* about BrowserPair, for any containers of the pad, any counters and any  *)
(* number of verbs cut off; and about Copies, for any channel, any messages*)
(* and any number of profiles that forget. The three share nothing.        *)
(***************************************************************************)
EXTENDS BrowserStore, BrowserPair, Copies, SequenceTheorems, TLAPS

(* The lines of a journal, and the calls of the four verbs.                *)
Attempt == [op : {"attempt"}, seq : Recs]
AuthFail == [op : {"auth-fail"}, seq : Recs, count : Nat]
Position == [op : {"send", "open", "retire"}, seq : 0 .. CapacityRecords, off : Nat]
Unfreeze == [op : {"clear-freeze"}, count : Nat]

BurnCall == [at : {"head", "line", "mark", "emit"}, kind : {"burn"}, dir : Dirs,
             seq : Recs, start : Nat, len : Nat, head : HeadFile, line : Position,
             mark : WitnessMark]
OpenCall == [at : At, kind : {"open"}, dir : Dirs,
             seq : Recs, start : Nat, len : Nat, head : HeadFile,
             line : Attempt \cup AuthFail \cup Position, mark : WitnessMark]
RetireCall == [at : {"head", "line", "mark"}, kind : {"retire"}, dir : Dirs,
               head : HeadFile, line : Position, mark : WitnessMark]
UnfreezeCall == [at : {"head", "line"}, kind : {"clear-freeze"}, dir : Dirs,
                 rest : SUBSET Dirs, head : HeadFile, line : Unfreeze]

Running == call # Quiet
Emits == Running /\ call.kind \in {"burn", "open"}
BeforeTag == {"reserve", "markAttempt", "verify"}

(* StoreTypeOK with the record of the call in full.                        *)
StoreShape ==
  /\ hd \in [Dirs -> HeadFile \cup {Torn}] /\ jn \in [Dirs -> JournalFile \cup {Torn}]
  /\ newline \in [Dirs -> BOOLEAN] /\ wlog \in [Dirs -> WitnessMark]
  /\ call \in {Quiet} \cup BurnCall \cup OpenCall \cup RetireCall \cup UnfreezeCall
  /\ recOut \in [Dirs -> [Recs -> Nat]] /\ padOut \in [Dirs -> [Bytes -> Nat]]
  /\ verified \in [Dirs -> [Recs -> Nat]] /\ begunIn \in [Dirs -> Nat]
  /\ kept = Torn \/ kept \in [hd : [Dirs -> HeadFile \cup {Torn}],
                              jn : [Dirs -> JournalFile \cup {Torn}],
                              newline : [Dirs -> BOOLEAN]]
  /\ faults \in 0 .. MaxFaults /\ restored \in 0 .. MaxRestores

(* A verb runs over headers that loaded; what it has still to clear        *)
(* loaded too, and what it may still open fits.                            *)
RunsLoaded ==
  /\ Running => \A d \in Dirs : hd[d] \in HeadFile
  /\ Running /\ call.kind = "clear-freeze" =>
       \A x \in call.rest : x # call.dir /\ jn[x] \in JournalFile
  /\ call.at \in BeforeTag => call.start + call.len <= Capacity

ShapeInv == StoreShape /\ RunsLoaded

(* The witness is told before anything leaves and before a tag is looked   *)
(* at; a verb works above what it has been told.                           *)
WorksAbove ==
  Emits =>
    /\ \A s \in Recs : recOut[call.dir][s] > 0 => s < call.seq
    /\ \A o \in Bytes : padOut[call.dir][o] > 0 => o < call.start
MarkCovers ==
  /\ Emits /\ call.at \in {"head", "line", "mark"} =>
       call.mark.seq = call.seq + 1 /\ call.mark.off = call.start + call.len
  /\ call.at = "emit" =>
       wlog[call.dir].seq > call.seq /\ wlog[call.dir].off >= call.start + call.len
  /\ call.at \in {"reserve", "markAttempt"} => call.mark.reserved > begunIn[call.dir]
  /\ call.at = "verify" => wlog[call.dir].reserved > begunIn[call.dir]
WitnessInv == ReleasedIsInWitness /\ WorksAbove /\ MarkCovers

(* A verification has its reservation, in the journal or in a journal that *)
(* no verb will load.                                                      *)
TriesReserved ==
  restored = 0 =>
    /\ \A d \in Dirs, s \in Recs :
         /\ verified[d][s] <= VerifyAttemptLimit
         /\ jn[d] # Torn => verified[d][s] <= jn[d].tries[s]
    /\ call.at \in BeforeTag => verified[call.dir][call.seq] < VerifyAttemptLimit
    /\ call.at \in {"markAttempt", "verify"} /\ jn[call.dir] # Torn =>
         verified[call.dir][call.seq] < jn[call.dir].tries[call.seq]
LinesFit ==
  /\ call.at = "reserve" => call.line \in Attempt /\ call.line.seq = call.seq
  /\ call.at = "failLine" => call.line \in AuthFail

(* The header moves first: no line carries a position that its header has  *)
(* not reached, and as long as no write is cut off every line is whole.    *)
HeadersLead ==
  /\ Running => /\ call.head.seq >= hd[call.dir].seq
                /\ call.head.off >= hd[call.dir].off
  /\ call.at \in BeforeTag => call.seq >= hd[call.dir].seq /\ call.start >= hd[call.dir].off
  /\ call.at = "head" /\ call.line \in Position =>
       call.head.seq >= call.line.seq /\ call.head.off >= call.line.off
  /\ call.at = "line" /\ call.line \in Position =>
       hd[call.dir].seq >= call.line.seq /\ hd[call.dir].off >= call.line.off
WholeUnlessCut ==
  faults = 0 /\ restored = 0 => \A d \in Dirs : newline[d] /\ Loads(d)
-----------------------------------------------------------------------------
(* Lemmas about the operators the verbs are built from.                    *)

AnyLine == Attempt \cup AuthFail \cup Position \cup Unfreeze

LEMMA AddedType ==
  ASSUME NEW j \in JournalFile, NEW l \in AnyLine
  PROVE  Added(j, l) \in JournalFile
<1>1. /\ j.tries \in [Recs -> Nat] /\ j.off \in Nat /\ j.seq \in Nat
      /\ j.fails \in Nat /\ j.reserved \in Nat /\ CapacityRecords \in Nat
  BY StoreSizes DEF JournalFile
<1>2. CASE l \in Attempt
  <2> DEFINE tries == [j.tries EXCEPT ![l.seq] = @ + 1]
  <2>1. tries \in [Recs -> Nat]
    BY <1>1, <1>2 DEF Attempt
  <2>2. Added(j, l) = [j EXCEPT !.tries = tries, !.reserved = j.reserved + 1]
    BY <1>2 DEF Added, Attempt, JournalFile
  <2> HIDE DEF tries
  <2>3. j.reserved + 1 \in Nat
    BY <1>1
  <2>4. [j EXCEPT !.tries = tries, !.reserved = j.reserved + 1] \in JournalFile
    BY <2>1, <2>3 DEF JournalFile
  <2> QED
    BY <2>2, <2>4
<1>3. CASE l \in AuthFail
  BY <1>1, <1>3 DEF Added, AuthFail, Most, JournalFile
<1>4. CASE l \in Unfreeze
  BY <1>1, <1>4 DEF Added, Unfreeze, JournalFile
<1>5. CASE l \in Position
  <2>1. Most(j.off, l.off) \in Nat /\ Most(j.seq, l.seq) \in Nat
    BY <1>1, <1>5, StoreSizes DEF Most, Position
  <2>2. Added(j, l) = [j EXCEPT !.off = Most(@, l.off), !.seq = Most(@, l.seq)]
    BY <1>5 DEF Added, Position
  <2> QED
    BY <2>1, <2>2 DEF JournalFile
<1> QED
  BY <1>2, <1>3, <1>4, <1>5 DEF AnyLine

LEMMA LoadedTypes ==
  ASSUME StoreShape, NEW d \in Dirs, Loads(d)
  PROVE  hd[d] \in HeadFile /\ jn[d] \in JournalFile
BY DEF StoreShape, Loads

(* What a verb computes from a half that loaded.                           *)
LEMMA EffectiveFields ==
  ASSUME NEW d \in Dirs, hd[d] \in HeadFile, jn[d] \in JournalFile
  PROVE  /\ EffectiveOf(d).off = hd[d].off /\ EffectiveOf(d).seq = hd[d].seq
         /\ EffectiveOf(d).reserved = jn[d].reserved
         /\ EffectiveOf(d).off \in 0 .. Capacity /\ EffectiveOf(d).seq \in 0 .. CapacityRecords
         /\ EffectiveOf(d).reserved \in Nat /\ EffectiveOf(d).fails \in Nat
         /\ \A s \in Recs : /\ EffectiveOf(d).tries[s] \in Nat
                            /\ EffectiveOf(d).tries[s] >= jn[d].tries[s]
<1>1. \A s \in Recs : hd[d].tries[s] \in Nat /\ jn[d].tries[s] \in Nat
  BY DEF HeadFile, JournalFile
<1>2. hd[d].fails \in Nat /\ jn[d].fails \in Nat
  BY DEF HeadFile, JournalFile
<1> QED
  BY <1>1, <1>2 DEF EffectiveOf, Most, HeadFile, JournalFile

LEMMA AdvancedType ==
  ASSUME NEW h \in HeadFile, NEW off \in 0 .. Capacity, NEW seq \in 0 .. CapacityRecords
  PROVE  /\ Advanced(h, off, seq) \in HeadFile
         /\ Advanced(h, off, seq).off = off /\ Advanced(h, off, seq).seq = seq
BY DEF Advanced, HeadFile

LEMMA AdvancedTriesType ==
  ASSUME NEW h \in HeadFile, NEW off \in 0 .. Capacity, NEW seq \in 0 .. CapacityRecords,
         NEW tries \in [Recs -> Nat]
  PROVE  /\ [Advanced(h, off, seq) EXCEPT !.tries = tries] \in HeadFile
         /\ [Advanced(h, off, seq) EXCEPT !.tries = tries].off = off
         /\ [Advanced(h, off, seq) EXCEPT !.tries = tries].seq = seq
BY DEF Advanced, HeadFile

LEMMA PrunedType ==
  ASSUME NEW tries \in [Recs -> Nat], NEW seq
  PROVE  Pruned(tries, seq) \in [Recs -> Nat]
BY DEF Pruned

LEMMA RecsAndBytes == Recs \subseteq Nat /\ Bytes \subseteq Nat
BY StoreSizes DEF Recs, Bytes
-----------------------------------------------------------------------------
(* The call a verb makes when its checks have passed.                      *)

LEMMA EnterEffect ==
  ASSUME NEW c, Enter(c)
  PROVE  /\ call' = c /\ UNCHANGED <<hd, jn, newline, wlog>>
         /\ UNCHANGED <<recOut, padOut, verified, begunIn, kept, faults, restored>>
BY DEF Enter, pairDir, history, bounds

LEMMA BurnEffect ==
  ASSUME StoreShape, NEW d \in Dirs, NEW len \in Lengths, BurnPad(d, len)
  PROVE  /\ call' \in BurnCall /\ call'.at = "head" /\ call'.dir = d
         /\ call'.seq = hd[d].seq /\ call'.start = hd[d].off
         /\ call'.head.seq = call'.seq + 1 /\ call'.head.off = call'.start + call'.len
         /\ call'.line.seq = call'.seq + 1 /\ call'.line.off = call'.start + call'.len
         /\ call'.mark.seq = call'.seq + 1 /\ call'.mark.off = call'.start + call'.len
         /\ PreflightPasses(d) /\ \E c : Enter(c)
<1> DEFINE e == EffectiveOf(d)
           head == Advanced(hd[d], e.off + len, e.seq + 1)
           line == [op |-> "send", seq |-> e.seq + 1, off |-> e.off + len]
           mark == [off |-> e.off + len, seq |-> e.seq + 1, reserved |-> e.reserved]
<1>1. hd[d] \in HeadFile /\ jn[d] \in JournalFile
  BY LoadedTypes DEF BurnPad, NobodyIn, PairLoads
<1>2. /\ e.off = hd[d].off /\ e.seq = hd[d].seq /\ e.off \in Nat /\ e.seq \in Nat
      /\ e.reserved \in Nat /\ len \in Nat /\ CapacityRecords \in Nat /\ Capacity \in Nat
  BY <1>1, EffectiveFields, StoreSizes
<1>3. e.seq < CapacityRecords /\ e.off + len <= Capacity /\ PreflightPasses(d)
  BY DEF BurnPad
<1>4. Enter([at |-> "head", kind |-> "burn", dir |-> d, seq |-> e.seq, start |-> e.off,
             len |-> len, head |-> head, line |-> line, mark |-> mark])
  BY DEF BurnPad
<1> HIDE DEF e
<1>5. /\ e.off + len \in 0 .. Capacity /\ e.seq + 1 \in 0 .. CapacityRecords
      /\ e.seq \in Recs
  BY <1>2, <1>3 DEF Recs
<1>6. /\ head \in HeadFile /\ head.off = e.off + len /\ head.seq = e.seq + 1
  <2> DEFINE off == e.off + len
             seq == e.seq + 1
  <2>1. hd[d].tries \in [Recs -> Nat] /\ off \in 0 .. Capacity /\ seq \in 0 .. CapacityRecords
    BY <1>1, <1>5 DEF HeadFile
  <2>2. head = Advanced(hd[d], off, seq)
    OBVIOUS
  <2> HIDE DEF off, seq, head
  <2>3. head \in HeadFile /\ head.off = off /\ head.seq = seq
    BY <1>1, <2>1, <2>2, AdvancedType
  <2> QED
    BY <2>3 DEF off, seq
<1>7. /\ line \in Position /\ line.off = e.off + len /\ line.seq = e.seq + 1
      /\ mark \in WitnessMark /\ mark.off = e.off + len /\ mark.seq = e.seq + 1
  BY <1>2, <1>5 DEF Position, WitnessMark
<1> HIDE DEF head, line, mark
<1>8. call' = [at |-> "head", kind |-> "burn", dir |-> d, seq |-> e.seq, start |-> e.off,
               len |-> len, head |-> head, line |-> line, mark |-> mark]
  BY <1>4, EnterEffect
<1>9. call' \in BurnCall
  BY <1>2, <1>5, <1>6, <1>7, <1>8 DEF BurnCall
<1> QED
  BY <1>2, <1>3, <1>4, <1>6, <1>7, <1>8, <1>9

LEMMA OpenEffect ==
  ASSUME StoreShape, NEW d \in Dirs, NEW s \in Recs, NEW start \in 0 .. Capacity,
         NEW len \in Lengths, OpenEnvelope(d, s, start, len)
  PROVE  /\ call' \in OpenCall /\ call'.at = "reserve" /\ call'.dir = d
         /\ call'.seq = s /\ call'.start = start /\ call'.start + call'.len <= Capacity
         /\ s >= hd[d].seq /\ start >= hd[d].off
         /\ call'.head.seq = hd[d].seq /\ call'.head.off = hd[d].off
         /\ call'.line \in Attempt /\ call'.line.seq = s
         /\ call'.mark.reserved = EffectiveOf(d).reserved + 1
         /\ EffectiveOf(d).tries[s] < VerifyAttemptLimit
         /\ PreflightPasses(d) /\ \E c : Enter(c)
<1> DEFINE e == EffectiveOf(d)
           tries == [hd[d].tries EXCEPT ![s] = Most(@, e.tries[s])]
           head == [hd[d] EXCEPT !.fails = e.fails, !.tries = tries]
           line == [op |-> "attempt", seq |-> s]
           mark == [off |-> e.off, seq |-> e.seq, reserved |-> e.reserved + 1]
<1>1. hd[d] \in HeadFile /\ jn[d] \in JournalFile
  BY LoadedTypes DEF OpenEnvelope, NobodyIn, PairLoads
<1>2. /\ e.off = hd[d].off /\ e.seq = hd[d].seq /\ e.off \in Nat /\ e.seq \in Nat
      /\ e.reserved \in Nat /\ e.fails \in Nat /\ e.tries[s] \in Nat
      /\ len \in Nat /\ s \in Nat /\ start \in Nat
  BY <1>1, EffectiveFields, StoreSizes, RecsAndBytes
<1>3. /\ e.seq <= s /\ e.off <= start /\ start + len <= Capacity
      /\ e.tries[s] < VerifyAttemptLimit /\ PreflightPasses(d)
  BY DEF OpenEnvelope
<1>4. hd[d].tries \in [Recs -> Nat] /\ tries \in [Recs -> Nat]
  BY <1>1, <1>2 DEF HeadFile, Most
<1>5. Enter([at |-> "reserve", kind |-> "open", dir |-> d, seq |-> s, start |-> start,
             len |-> len, head |-> head, line |-> line, mark |-> mark])
  BY <1>1, <1>4 DEF OpenEnvelope, HeadFile
<1> HIDE DEF e, tries
<1>6. /\ head \in HeadFile /\ head.seq = hd[d].seq /\ head.off = hd[d].off
  BY <1>1, <1>2, <1>4 DEF HeadFile
<1>7. /\ line \in Attempt /\ line.seq = s
      /\ mark \in WitnessMark /\ mark.reserved = e.reserved + 1
  BY <1>2 DEF Attempt, WitnessMark
<1> HIDE DEF head, line, mark
<1>8. call' = [at |-> "reserve", kind |-> "open", dir |-> d, seq |-> s, start |-> start,
               len |-> len, head |-> head, line |-> line, mark |-> mark]
  BY <1>5, EnterEffect
<1>9. call' \in OpenCall
  BY <1>2, <1>6, <1>7, <1>8 DEF OpenCall, At
<1> QED
  BY <1>2, <1>3, <1>5, <1>6, <1>7, <1>8, <1>9 DEF e

LEMMA RetireEffect ==
  ASSUME StoreShape, NEW d \in Dirs, NEW through \in 0 .. CapacityRecords,
         NEW offset \in 0 .. Capacity, RetirePad(d, through, offset)
  PROVE  /\ call' \in RetireCall /\ call'.at = "head" /\ call'.dir = d
         /\ call'.head.seq = through + 1 /\ call'.head.off = offset
         /\ call'.line.seq = through + 1 /\ call'.line.off = offset
         /\ through + 1 >= hd[d].seq /\ offset >= hd[d].off
         /\ \E c : Enter(c)
<1> DEFINE e == EffectiveOf(d)
           head == [Advanced(hd[d], offset, through + 1)
                      EXCEPT !.tries = Pruned(hd[d].tries, through + 1)]
           line == [op |-> "retire", seq |-> through + 1, off |-> offset]
           mark == [off |-> offset, seq |-> through + 1, reserved |-> e.reserved]
<1>1. hd[d] \in HeadFile /\ jn[d] \in JournalFile
  BY LoadedTypes DEF RetirePad, NobodyIn, PairLoads
<1>2. /\ e.off = hd[d].off /\ e.seq = hd[d].seq /\ e.off \in Nat /\ e.seq \in Nat
      /\ e.reserved \in Nat /\ through \in Nat /\ offset \in Nat
      /\ CapacityRecords \in Nat /\ Capacity \in Nat
  BY <1>1, EffectiveFields, StoreSizes
<1>3. e.seq <= through /\ through < CapacityRecords /\ e.off <= offset
  BY DEF RetirePad
<1>4. Enter([at |-> "head", kind |-> "retire", dir |-> d, head |-> head,
             line |-> line, mark |-> mark])
  BY DEF RetirePad
<1> HIDE DEF e
<1>5. through + 1 \in 0 .. CapacityRecords
  BY <1>2, <1>3
<1>6. head \in HeadFile /\ head.seq = through + 1 /\ head.off = offset
  <2>1. Pruned(hd[d].tries, through + 1) \in [Recs -> Nat]
    BY <1>1, PrunedType DEF HeadFile
  <2> QED
    BY <1>1, <1>5, <2>1, AdvancedTriesType
<1>7. /\ line \in Position /\ line.seq = through + 1 /\ line.off = offset
      /\ mark \in WitnessMark
  BY <1>2, <1>5 DEF Position, WitnessMark
<1> HIDE DEF head, line, mark
<1>8. call' = [at |-> "head", kind |-> "retire", dir |-> d, head |-> head,
               line |-> line, mark |-> mark]
  BY <1>4, EnterEffect
<1>9. call' \in RetireCall
  BY <1>6, <1>7, <1>8 DEF RetireCall
<1>10. through + 1 >= hd[d].seq /\ offset >= hd[d].off
  BY <1>2, <1>3
<1> QED
  BY <1>4, <1>6, <1>7, <1>8, <1>9, <1>10

LEMMA ClearCallFields ==
  ASSUME NEW d \in Dirs, hd[d] \in HeadFile, jn[d] \in JournalFile,
         NEW rest \in SUBSET Dirs
  PROVE  /\ ClearCall(d, rest) \in UnfreezeCall
         /\ ClearCall(d, rest).at = "head" /\ ClearCall(d, rest).dir = d
         /\ ClearCall(d, rest).rest = rest
         /\ ClearCall(d, rest).head.seq = hd[d].seq /\ ClearCall(d, rest).head.off = hd[d].off
<1> DEFINE n == EffectiveOf(d).fails
           head == [hd[d] EXCEPT !.fails = n, !.cleared = n]
           line == [op |-> "clear-freeze", count |-> n]
<1>1. n \in Nat
  BY EffectiveFields
<1> HIDE DEF n
<1>2. head \in HeadFile /\ head.seq = hd[d].seq /\ head.off = hd[d].off /\ line \in Unfreeze
  BY <1>1 DEF HeadFile, Unfreeze
<1> HIDE DEF head, line
<1>3. ClearCall(d, rest) = [at |-> "head", kind |-> "clear-freeze", dir |-> d, rest |-> rest,
                            head |-> head, line |-> line]
  BY DEF ClearCall, n, head, line
<1> QED
  BY <1>2, <1>3 DEF UnfreezeCall

LEMMA ClearEffect ==
  ASSUME StoreShape, NEW d \in Dirs, ClearFrozen(d)
  PROVE  /\ call' \in UnfreezeCall /\ call'.at = "head" /\ call'.dir = d
         /\ call'.head.seq = hd[d].seq /\ call'.head.off = hd[d].off
         /\ d \notin call'.rest
         /\ \E c : Enter(c)
<1> DEFINE rest == {x \in Dirs : HalfFrozen(x)} \ {d}
<1>1. hd[d] \in HeadFile /\ jn[d] \in JournalFile
  BY LoadedTypes DEF ClearFrozen, NobodyIn, PairLoads
<1>2. Enter(ClearCall(d, rest)) /\ rest \in SUBSET Dirs /\ d \notin rest
  BY DEF ClearFrozen
<1> HIDE DEF rest
<1>3. call' = ClearCall(d, rest)
  BY <1>2, EnterEffect
<1> QED
  BY <1>1, <1>2, <1>3, ClearCallFields
-----------------------------------------------------------------------------
(* The call as it runs.                                                    *)

(* What the next thing to do says of the call.                             *)
LEMMA CallFields ==
  ASSUME StoreShape, Running
  PROVE  /\ call \in BurnCall \cup OpenCall \cup RetireCall \cup UnfreezeCall
         /\ call.at \in At /\ call.kind \in Kind /\ call.dir \in Dirs
         /\ call.head \in HeadFile /\ call.line \in AnyLine
         /\ call.kind = "burn" => call \in BurnCall
         /\ call.kind = "open" => call \in OpenCall
         /\ call.kind = "retire" => call \in RetireCall
         /\ call.kind = "clear-freeze" => call \in UnfreezeCall
         /\ call.at \in BeforeTag \cup {"failLine", "failHead"} => call \in OpenCall
         /\ call.at = "emit" => call \in BurnCall \cup OpenCall
         /\ call.at = "mark" => call \in BurnCall \cup OpenCall \cup RetireCall
<1>1. call \in BurnCall \cup OpenCall \cup RetireCall \cup UnfreezeCall
  BY DEF StoreShape, Running
<1>2. CASE call \in BurnCall
  BY <1>2 DEF BurnCall, At, Kind, BeforeTag, AnyLine
<1>3. CASE call \in OpenCall
  BY <1>3 DEF OpenCall, At, Kind, AnyLine
<1>4. CASE call \in RetireCall
  BY <1>4 DEF RetireCall, At, Kind, BeforeTag, AnyLine
<1>5. CASE call \in UnfreezeCall
  BY <1>5 DEF UnfreezeCall, At, Kind, BeforeTag, AnyLine
<1> QED
  BY <1>1, <1>2, <1>3, <1>4, <1>5

(* The fields of a call that makes an output.                              *)
LEMMA EmitFields ==
  ASSUME StoreShape, Emits
  PROVE  /\ call \in BurnCall \cup OpenCall
         /\ call.seq \in Recs /\ call.seq \in Nat /\ call.start \in Nat /\ call.len \in Nat
         /\ call.mark \in WitnessMark /\ call.mark.seq \in Nat /\ call.mark.off \in Nat
         /\ call.mark.reserved \in Nat
<1>1. call \in BurnCall \cup OpenCall
  BY CallFields DEF Emits
<1>2. /\ call.seq \in Recs /\ call.start \in Nat /\ call.len \in Nat
      /\ call.mark \in WitnessMark
  BY <1>1 DEF BurnCall, OpenCall
<1> QED
  BY <1>1, <1>2, RecsAndBytes DEF WitnessMark

LEMMA RunningAt ==
  ASSUME NEW at \in At, call.at = at
  PROVE  Running
BY DEF Running, Quiet, At

LEMMA GoesToEffect ==
  ASSUME StoreShape, Running, NEW at \in At, GoesTo(at)
  PROVE  /\ call'.at = at /\ call'.kind = call.kind /\ call'.dir = call.dir
         /\ call'.head = call.head /\ call'.line = call.line
         /\ Emits => /\ call'.seq = call.seq /\ call'.start = call.start
                     /\ call'.len = call.len /\ call'.mark = call.mark
         /\ call.kind = "clear-freeze" => call'.rest = call.rest
         /\ call \in BurnCall /\ at \in {"head", "line", "mark", "emit"} => call' \in BurnCall
         /\ call \in OpenCall => call' \in OpenCall
         /\ call \in RetireCall /\ at \in {"head", "line", "mark"} => call' \in RetireCall
         /\ call \in UnfreezeCall /\ at \in {"head", "line"} => call' \in UnfreezeCall
<1>1. CASE call \in BurnCall
  BY <1>1 DEF GoesTo, BurnCall, OpenCall, RetireCall, UnfreezeCall
<1>2. CASE call \in OpenCall
  BY <1>2 DEF GoesTo, BurnCall, OpenCall, RetireCall, UnfreezeCall
<1>3. CASE call \in RetireCall
  BY <1>3 DEF GoesTo, BurnCall, OpenCall, RetireCall, UnfreezeCall, Emits
<1>4. CASE call \in UnfreezeCall
  BY <1>4 DEF GoesTo, BurnCall, OpenCall, RetireCall, UnfreezeCall, Emits
<1> QED
  BY <1>1, <1>2, <1>3, <1>4, CallFields

LEMMA TagFailsEffect ==
  ASSUME StoreShape, TagFails
  PROVE  /\ call' \in OpenCall /\ call'.at = "failLine" /\ call'.kind = call.kind
         /\ call'.dir = call.dir /\ call'.seq = call.seq /\ call'.start = call.start
         /\ call'.len = call.len /\ call'.mark = call.mark
         /\ call'.head.seq = call.head.seq /\ call'.head.off = call.head.off
         /\ call'.line \in AuthFail
<1> DEFINE tries == [call.head.tries EXCEPT ![call.seq] = @ + 1]
           head == [call.head EXCEPT !.fails = call.head.fails + 1, !.tries = tries]
           line == [op |-> "auth-fail", seq |-> call.seq, count |-> call.head.fails + 1]
<1>1. call.at = "verify" /\ Running
  BY RunningAt DEF TagFails, BeginVerify, At
<1>2. call \in OpenCall /\ call.head \in HeadFile /\ call.seq \in Recs
  BY <1>1, CallFields DEF BeforeTag, OpenCall
<1>3. call.head.tries \in [Recs -> Nat] /\ call.head.fails + 1 \in Nat
  BY <1>2 DEF HeadFile
<1>4. tries \in [Recs -> Nat]
  BY <1>2, <1>3
<1>5. call' = [call EXCEPT !.at = "failLine", !.head = head, !.line = line]
  BY <1>2, <1>3 DEF TagFails, HeadFile
<1> HIDE DEF tries
<1>6. head \in HeadFile /\ head.seq = call.head.seq /\ head.off = call.head.off
  BY <1>2, <1>3, <1>4 DEF HeadFile
<1>7. line \in AuthFail
  BY <1>2, <1>3 DEF AuthFail
<1> HIDE DEF head, line
<1> QED
  BY <1>2, <1>5, <1>6, <1>7 DEF OpenCall, At

LEMMA TagPassesEffect ==
  ASSUME ShapeInv, TagPasses
  PROVE  /\ call' \in OpenCall /\ call'.at = "head" /\ call'.kind = call.kind
         /\ call'.dir = call.dir /\ call'.seq = call.seq /\ call'.start = call.start
         /\ call'.len = call.len
         /\ call'.head.seq = call.seq + 1 /\ call'.head.off = call.start + call.len
         /\ call'.line \in Position
         /\ call'.line.seq = call.seq + 1 /\ call'.line.off = call.start + call.len
         /\ call'.mark.seq = call.seq + 1 /\ call'.mark.off = call.start + call.len
<1> DEFINE off == call.start + call.len
           seq == call.seq + 1
           old == hd[call.dir]
           head == [Advanced(old, off, seq) EXCEPT !.tries = Pruned(old.tries, seq)]
           line == [op |-> "open", seq |-> seq, off |-> off]
           mark == [call.mark EXCEPT !.off = off, !.seq = seq]
<1> USE DEF ShapeInv
<1>1. call.at = "verify" /\ Running
  BY RunningAt DEF TagPasses, BeginVerify, At
<1>2. /\ call \in OpenCall /\ call.seq \in Recs /\ call.start \in Nat /\ call.len \in Nat
      /\ call.mark \in WitnessMark /\ call.dir \in Dirs
  BY <1>1, CallFields DEF BeforeTag, OpenCall
<1>3. old \in HeadFile /\ off <= Capacity /\ Capacity \in Nat /\ CapacityRecords \in Nat
  BY <1>1, <1>2, StoreSizes DEF RunsLoaded, BeforeTag
<1>4. off \in 0 .. Capacity /\ seq \in 0 .. CapacityRecords /\ off \in Nat /\ seq \in Nat
  BY <1>2, <1>3 DEF Recs
<1>5. call' = [call EXCEPT !.at = "head", !.head = head, !.line = line, !.mark = mark]
  BY DEF TagPasses
<1> HIDE DEF off, seq, old
<1>6. head \in HeadFile /\ head.off = off /\ head.seq = seq
  <2>1. Pruned(old.tries, seq) \in [Recs -> Nat]
    BY <1>3, PrunedType DEF HeadFile
  <2> QED
    BY <1>3, <1>4, <2>1, AdvancedTriesType
<1>7. line \in Position /\ line.off = off /\ line.seq = seq
  BY <1>4 DEF Position
<1>8. mark \in WitnessMark /\ mark.off = off /\ mark.seq = seq
  BY <1>2, <1>4 DEF WitnessMark
<1> HIDE DEF head, line, mark
<1>9. /\ call' \in OpenCall /\ call'.at = "head" /\ call'.kind = call.kind
      /\ call'.dir = call.dir /\ call'.seq = call.seq /\ call'.start = call.start
      /\ call'.len = call.len /\ call'.head = head /\ call'.line = line /\ call'.mark = mark
  BY <1>2, <1>5, <1>6, <1>7, <1>8 DEF OpenCall, At
<1> QED
  BY <1>6, <1>7, <1>8, <1>9 DEF off, seq
-----------------------------------------------------------------------------
(* What a step of a verb writes, and what the verb does next.              *)

HeadWrite ==
  \/ hd' = hd
  \/ call.at \in {"failHead", "head"} /\ hd' = [hd EXCEPT ![call.dir] = call.head]
  \/ call' = Quiet /\ faults' = faults + 1 /\ hd' = [hd EXCEPT ![call.dir] = Torn]
JournalWrite ==
  \/ UNCHANGED <<jn, newline>>
  \/ /\ call.at \in {"reserve", "failLine", "line"} /\ UNCHANGED newline
     /\ jn' = [jn EXCEPT ![call.dir] = WithLine(call.dir, call.line)]
  \/ /\ call' = Quiet /\ faults' = faults + 1
     /\ call.at \in {"reserve", "failLine", "line"}
     /\ \/ UNCHANGED newline /\ jn' = [jn EXCEPT ![call.dir] = Torn]
        \/ /\ newline' = [newline EXCEPT ![call.dir] = FALSE]
           /\ jn' = [jn EXCEPT ![call.dir] = WithLine(call.dir, call.line)]
WitnessWrite ==
  \/ wlog' = wlog
  \/ /\ call.at \in {"markAttempt", "mark"}
     /\ wlog' = [wlog EXCEPT ![call.dir] = MarkMax(@, call.mark)]
OneWrite ==
  /\ HeadWrite /\ JournalWrite /\ WitnessWrite
  /\ faults' = faults \/ (faults' = faults + 1 /\ faults < MaxFaults)
  /\ UNCHANGED <<kept, restored>>

LEMMA VerbWrites ==
  ASSUME StoreShape, VerbStep
  PROVE  Running /\ OneWrite
<1>1. Running
  BY RunningAt DEF VerbStep, ReserveTry, MarkTry, TagFails, TagPasses, BeginVerify,
     FailLine, FailHead, CommitHeader, CommitJournal, MarkCommit, Emit, At
<1>2. CASE ReserveTry \/ FailLine \/ CommitJournal
  <2>1. /\ call.at \in {"reserve", "failLine", "line"}
        /\ \/ LineAdded(call.dir, call.line) /\ NoFault
           \/ LineCut(call.dir, call.line) /\ CutOff
        /\ UNCHANGED <<hd, wlog, kept, restored>>
    BY <1>2 DEF ReserveTry, FailLine, CommitJournal
  <2>2. HeadWrite /\ WitnessWrite
    BY <2>1 DEF HeadWrite, WitnessWrite
  <2>3. JournalWrite
    BY <2>1 DEF JournalWrite, LineAdded, LineCut, CutOff
  <2>4. faults' = faults \/ (faults' = faults + 1 /\ faults < MaxFaults)
    BY <2>1 DEF NoFault, CutOff
  <2> QED
    BY <2>1, <2>2, <2>3, <2>4, <1>1 DEF OneWrite
<1>3. CASE FailHead \/ CommitHeader
  <2>1. /\ call.at \in {"failHead", "head"}
        /\ \/ hd' = [hd EXCEPT ![call.dir] = call.head] /\ NoFault
           \/ HeadCut(call.dir) /\ CutOff
        /\ UNCHANGED <<jn, newline, wlog, kept, restored>>
    BY <1>3 DEF FailHead, CommitHeader
  <2>2. HeadWrite
    BY <2>1 DEF HeadWrite, HeadCut, CutOff
  <2>3. JournalWrite /\ WitnessWrite
    BY <2>1 DEF JournalWrite, WitnessWrite
  <2>4. faults' = faults \/ (faults' = faults + 1 /\ faults < MaxFaults)
    BY <2>1 DEF NoFault, CutOff
  <2> QED
    BY <2>1, <2>2, <2>3, <2>4, <1>1 DEF OneWrite
<1>4. CASE MarkTry \/ MarkCommit
  <2>1. /\ call.at \in {"markAttempt", "mark"}
        /\ \/ Marked(call.dir, call.mark) /\ NoFault
           \/ (Marked(call.dir, call.mark) \/ UNCHANGED wlog) /\ CutOff
        /\ UNCHANGED <<hd, jn, newline, kept, restored>>
    BY <1>4 DEF MarkTry, MarkCommit, pairDir
  <2>2. HeadWrite /\ JournalWrite
    BY <2>1 DEF HeadWrite, JournalWrite
  <2>3. WitnessWrite
    BY <2>1 DEF WitnessWrite, Marked
  <2>4. faults' = faults \/ (faults' = faults + 1 /\ faults < MaxFaults)
    BY <2>1 DEF NoFault, CutOff
  <2> QED
    BY <2>1, <2>2, <2>3, <2>4, <1>1 DEF OneWrite
<1>5. CASE TagFails \/ TagPasses \/ Emit
  <2>1. UNCHANGED <<hd, jn, newline, wlog, kept, faults, restored>>
    BY <1>5 DEF TagFails, TagPasses, BeginVerify, Emit, pairDir, bounds
  <2> QED
    BY <2>1, <1>1 DEF OneWrite, HeadWrite, JournalWrite, WitnessWrite
<1> QED
  BY <1>2, <1>3, <1>4, <1>5 DEF VerbStep

LEMMA VerbHistory ==
  ASSUME VerbStep
  PROVE  /\ \/ UNCHANGED <<recOut, padOut>>
            \/ /\ call.at = "emit" /\ Emit
               /\ recOut' = [recOut EXCEPT ![call.dir][call.seq] = @ + 1]
               /\ padOut' = [padOut EXCEPT ![call.dir] = [o \in Bytes |->
                    IF call.start <= o /\ o < call.start + call.len
                      THEN @[o] + 1 ELSE @[o]]]
         /\ \/ UNCHANGED <<verified, begunIn>>
            \/ /\ call.at = "verify" /\ (TagFails \/ TagPasses)
               /\ verified' = [verified EXCEPT ![call.dir][call.seq] = @ + 1]
               /\ begunIn' = [begunIn EXCEPT ![call.dir] = @ + 1]
<1>1. CASE TagFails \/ TagPasses
  BY <1>1 DEF TagFails, TagPasses, BeginVerify
<1>2. CASE Emit
  BY <1>2 DEF Emit
<1>3. CASE ~(TagFails \/ TagPasses \/ Emit)
  BY <1>3 DEF VerbStep, ReserveTry, MarkTry, FailLine, FailHead, CommitHeader,
     CommitJournal, MarkCommit, history
<1> QED
  BY <1>1, <1>2, <1>3

(* The next thing a verb does, when no write was cut off.                  *)
LEMMA VerbGoesOn ==
  ASSUME VerbStep
  PROVE  \/ call' = Quiet
         \/ call.at = "reserve" /\ GoesTo("markAttempt")
              /\ LineAdded(call.dir, call.line) /\ NoFault
         \/ call.at = "markAttempt" /\ GoesTo("verify") /\ Marked(call.dir, call.mark)
         \/ call.at = "verify" /\ (TagFails \/ TagPasses)
         \/ call.at = "failLine" /\ GoesTo("failHead")
         \/ /\ call.at = "head" /\ GoesTo("line")
            /\ hd' = [hd EXCEPT ![call.dir] = call.head]
         \/ call.at = "line" /\ call.kind # "clear-freeze" /\ GoesTo("mark")
         \/ /\ call.at = "line" /\ call.kind = "clear-freeze" /\ hd' = hd
            /\ \E d \in call.rest : call' = ClearCall(d, call.rest \ {d})
         \/ /\ call.at = "mark" /\ call.kind # "retire" /\ GoesTo("emit")
            /\ Marked(call.dir, call.mark)
<1>1. CASE ReserveTry
  BY <1>1 DEF ReserveTry, CutOff
<1>2. CASE MarkTry
  BY <1>2 DEF MarkTry, CutOff
<1>3. CASE TagFails \/ TagPasses
  BY <1>3 DEF TagFails, TagPasses, BeginVerify
<1>4. CASE FailLine
  BY <1>4 DEF FailLine, CutOff
<1>5. CASE FailHead
  BY <1>5 DEF FailHead, CutOff
<1>6. CASE CommitHeader
  BY <1>6 DEF CommitHeader, CutOff
<1>7. CASE CommitJournal
  BY <1>7 DEF CommitJournal, CutOff, AfterCommit
<1>8. CASE MarkCommit
  BY <1>8 DEF MarkCommit, CutOff
<1>9. CASE Emit
  BY <1>9 DEF Emit
<1> QED
  BY <1>1, <1>2, <1>3, <1>4, <1>5, <1>6, <1>7, <1>8, <1>9 DEF VerbStep

LEMMA MarkMaxType ==
  ASSUME NEW v \in WitnessMark, NEW w \in WitnessMark
  PROVE  /\ MarkMax(v, w) \in WitnessMark
         /\ MarkMax(v, w).off >= v.off /\ MarkMax(v, w).off >= w.off
         /\ MarkMax(v, w).seq >= v.seq /\ MarkMax(v, w).seq >= w.seq
         /\ MarkMax(v, w).reserved >= v.reserved /\ MarkMax(v, w).reserved >= w.reserved
BY DEF MarkMax, Most, WitnessMark

(* The files and the histories keep their types whatever the call becomes. *)
FileShape ==
  /\ hd \in [Dirs -> HeadFile \cup {Torn}] /\ jn \in [Dirs -> JournalFile \cup {Torn}]
  /\ newline \in [Dirs -> BOOLEAN] /\ wlog \in [Dirs -> WitnessMark]
  /\ recOut \in [Dirs -> [Recs -> Nat]] /\ padOut \in [Dirs -> [Bytes -> Nat]]
  /\ verified \in [Dirs -> [Recs -> Nat]] /\ begunIn \in [Dirs -> Nat]
  /\ kept = Torn \/ kept \in [hd : [Dirs -> HeadFile \cup {Torn}],
                              jn : [Dirs -> JournalFile \cup {Torn}],
                              newline : [Dirs -> BOOLEAN]]
  /\ faults \in 0 .. MaxFaults /\ restored \in 0 .. MaxRestores
Calls == {Quiet} \cup BurnCall \cup OpenCall \cup RetireCall \cup UnfreezeCall

LEMMA ShapeParts == StoreShape <=> FileShape /\ call \in Calls
BY DEF StoreShape, FileShape, Calls

LEMMA BumpType ==
  ASSUME NEW S, NEW f \in [S -> Nat], NEW x \in S
  PROVE  [f EXCEPT ![x] = @ + 1] \in [S -> Nat]
OBVIOUS

LEMMA VerbFiles ==
  ASSUME StoreShape, VerbStep
  PROVE  FileShape'
<1> DEFINE d == call.dir
           l == call.line
<1>1. d \in Dirs /\ call.head \in HeadFile /\ l \in AnyLine
  BY VerbWrites, CallFields
<1>2. WithLine(d, l) \in JournalFile \cup {Torn}
  <2>1. CASE jn[d] = Torn \/ ~newline[d]
    BY <2>1 DEF WithLine
  <2>2. CASE ~(jn[d] = Torn \/ ~newline[d])
    <3>1. jn[d] \in JournalFile
      BY <1>1, <2>2 DEF StoreShape
    <3> QED
      BY <1>1, <2>2, <3>1, AddedType DEF WithLine
  <2> QED
    BY <2>1, <2>2
<1>3. hd' \in [Dirs -> HeadFile \cup {Torn}]
  <2>1. hd \in [Dirs -> HeadFile \cup {Torn}]
    BY DEF StoreShape
  <2>2. \/ hd' = hd \/ hd' = [hd EXCEPT ![d] = call.head] \/ hd' = [hd EXCEPT ![d] = Torn]
    BY VerbWrites DEF OneWrite, HeadWrite
  <2> QED
    BY <1>1, <2>1, <2>2
<1>4. jn' \in [Dirs -> JournalFile \cup {Torn}] /\ newline' \in [Dirs -> BOOLEAN]
  <2>1. jn \in [Dirs -> JournalFile \cup {Torn}] /\ newline \in [Dirs -> BOOLEAN]
    BY DEF StoreShape
  <2>2. /\ \/ jn' = jn \/ jn' = [jn EXCEPT ![d] = WithLine(d, l)]
           \/ jn' = [jn EXCEPT ![d] = Torn]
        /\ newline' = newline \/ newline' = [newline EXCEPT ![d] = FALSE]
    BY VerbWrites DEF OneWrite, JournalWrite
  <2>3. jn' \in [Dirs -> JournalFile \cup {Torn}]
    BY <1>1, <1>2, <2>1, <2>2
  <2>4. newline' \in [Dirs -> BOOLEAN]
    BY <1>1, <2>1, <2>2
  <2> QED
    BY <2>3, <2>4
<1>5. wlog' \in [Dirs -> WitnessMark]
  <2>1. wlog \in [Dirs -> WitnessMark]
    BY DEF StoreShape
  <2>2. CASE wlog' = wlog
    BY <2>1, <2>2
  <2>3. CASE /\ call.at \in {"markAttempt", "mark"}
             /\ wlog' = [wlog EXCEPT ![d] = MarkMax(@, call.mark)]
    <3>1. call \in BurnCall \cup OpenCall \cup RetireCall
      BY <2>3, VerbWrites, CallFields DEF BeforeTag
    <3>2. call.mark \in WitnessMark
      BY <3>1 DEF BurnCall, OpenCall, RetireCall
    <3>3. MarkMax(wlog[d], call.mark) \in WitnessMark
      BY <1>1, <2>1, <3>2, MarkMaxType
    <3> QED
      BY <2>1, <2>3, <3>3
  <2> QED
    BY <2>2, <2>3, VerbWrites DEF OneWrite, WitnessWrite
<1>6. recOut' \in [Dirs -> [Recs -> Nat]] /\ padOut' \in [Dirs -> [Bytes -> Nat]]
  <2>1. recOut \in [Dirs -> [Recs -> Nat]] /\ padOut \in [Dirs -> [Bytes -> Nat]]
    BY DEF StoreShape
  <2>2. CASE UNCHANGED <<recOut, padOut>>
    BY <2>1, <2>2
  <2>3. CASE /\ call.at = "emit"
             /\ recOut' = [recOut EXCEPT ![call.dir][call.seq] = @ + 1]
             /\ padOut' = [padOut EXCEPT ![call.dir] = [o \in Bytes |->
                  IF call.start <= o /\ o < call.start + call.len
                    THEN @[o] + 1 ELSE @[o]]]
    <3>1. call.seq \in Recs
      BY <2>3, VerbWrites, CallFields DEF BurnCall, OpenCall
    <3>2. [recOut[d] EXCEPT ![call.seq] = @ + 1] \in [Recs -> Nat]
      BY <1>1, <2>1, <3>1, BumpType
    <3>3. recOut' = [recOut EXCEPT ![d] = [recOut[d] EXCEPT ![call.seq] = @ + 1]]
      BY <2>3
    <3>4. recOut' \in [Dirs -> [Recs -> Nat]]
      BY <1>1, <2>1, <3>2, <3>3
    <3> DEFINE new == [o \in Bytes |->
                         IF call.start <= o /\ o < call.start + call.len
                           THEN padOut[d][o] + 1 ELSE padOut[d][o]]
    <3>5. new \in [Bytes -> Nat]
      BY <1>1, <2>1
    <3>6. padOut' = [padOut EXCEPT ![d] = new]
      BY <2>3
    <3> HIDE DEF new
    <3>7. padOut' \in [Dirs -> [Bytes -> Nat]]
      BY <1>1, <2>1, <3>5, <3>6
    <3> QED
      BY <3>4, <3>7
  <2> QED
    BY <2>2, <2>3, VerbHistory
<1>7. verified' \in [Dirs -> [Recs -> Nat]] /\ begunIn' \in [Dirs -> Nat]
  <2>1. verified \in [Dirs -> [Recs -> Nat]] /\ begunIn \in [Dirs -> Nat]
    BY DEF StoreShape
  <2>2. CASE UNCHANGED <<verified, begunIn>>
    BY <2>1, <2>2
  <2>3. CASE /\ call.at = "verify"
             /\ verified' = [verified EXCEPT ![call.dir][call.seq] = @ + 1]
             /\ begunIn' = [begunIn EXCEPT ![call.dir] = @ + 1]
    <3>1. call.seq \in Recs
      BY <2>3, VerbWrites, CallFields DEF BeforeTag, OpenCall
    <3>2. [verified[d] EXCEPT ![call.seq] = @ + 1] \in [Recs -> Nat]
      BY <1>1, <2>1, <3>1, BumpType
    <3>3. verified' = [verified EXCEPT ![d] = [verified[d] EXCEPT ![call.seq] = @ + 1]]
      BY <2>3
    <3>4. verified' \in [Dirs -> [Recs -> Nat]]
      BY <1>1, <2>1, <3>2, <3>3
    <3>5. begunIn' \in [Dirs -> Nat]
      BY <1>1, <2>1, <2>3
    <3> QED
      BY <3>4, <3>5
  <2> QED
    BY <2>2, <2>3, VerbHistory
<1>8. faults' \in 0 .. MaxFaults /\ UNCHANGED <<kept, restored>>
  BY VerbWrites, StoreSizes DEF OneWrite, StoreShape
<1> QED
  BY <1>3, <1>4, <1>5, <1>6, <1>7, <1>8 DEF StoreShape, FileShape

LEMMA VerbCall ==
  ASSUME ShapeInv, VerbStep
  PROVE  call' \in Calls /\ RunsLoaded'
<1> USE DEF ShapeInv
<1>1. Running /\ call.dir \in Dirs /\ call.head \in HeadFile
  BY VerbWrites, CallFields
<1>2. call' # Quiet => \A d \in Dirs : hd'[d] \in HeadFile
  <2>1. \A d \in Dirs : hd[d] \in HeadFile
    BY <1>1 DEF RunsLoaded
  <2>2. call' = Quiet \/ hd' = hd \/ hd' = [hd EXCEPT ![call.dir] = call.head]
    BY VerbWrites DEF OneWrite, HeadWrite
  <2>3. hd \in [Dirs -> HeadFile \cup {Torn}]
    BY DEF StoreShape
  <2> QED
    BY <1>1, <2>1, <2>2, <2>3
<1>3. CASE call' = Quiet
  BY <1>3 DEF Calls, RunsLoaded, Running, Quiet, BeforeTag
<1>4. CASE call.at = "reserve" /\ GoesTo("markAttempt")
  <2>1. call \in OpenCall /\ call.kind = "open" /\ Emits
    BY <1>1, <1>4, CallFields DEF BeforeTag, OpenCall, Emits
  <2>2. /\ call' \in OpenCall /\ call'.kind = "open"
        /\ call'.start = call.start /\ call'.len = call.len
    BY <1>1, <1>4, <2>1, GoesToEffect DEF At
  <2>3. call.start + call.len <= Capacity
    BY <1>4 DEF RunsLoaded, BeforeTag
  <2> QED
    BY <1>2, <2>2, <2>3 DEF RunsLoaded, Calls, Running
<1>5. CASE call.at = "markAttempt" /\ GoesTo("verify")
  <2>1. call \in OpenCall /\ call.kind = "open" /\ Emits
    BY <1>1, <1>5, CallFields DEF BeforeTag, OpenCall, Emits
  <2>2. /\ call' \in OpenCall /\ call'.kind = "open"
        /\ call'.start = call.start /\ call'.len = call.len
    BY <1>1, <1>5, <2>1, GoesToEffect DEF At
  <2>3. call.start + call.len <= Capacity
    BY <1>5 DEF RunsLoaded, BeforeTag
  <2> QED
    BY <1>2, <2>2, <2>3 DEF RunsLoaded, Calls, Running
<1>6. CASE call.at = "verify" /\ (TagFails \/ TagPasses)
  <2>1. call' \in OpenCall /\ call'.at \notin BeforeTag
    BY <1>6, TagFailsEffect, TagPassesEffect DEF BeforeTag
  <2>2. call'.kind = "open"
    BY <2>1 DEF OpenCall
  <2> QED
    BY <1>2, <2>1, <2>2 DEF RunsLoaded, Calls, Running
<1>7. CASE call.at = "failLine" /\ GoesTo("failHead")
  <2>1. call \in OpenCall
    BY <1>1, <1>7, CallFields
  <2>2. call' \in OpenCall /\ call'.at = "failHead"
    BY <1>1, <1>7, <2>1, GoesToEffect DEF At
  <2>3. call'.kind = "open" /\ call'.at \notin BeforeTag
    BY <2>2 DEF OpenCall, BeforeTag
  <2> QED
    BY <1>2, <2>2, <2>3 DEF RunsLoaded, Calls, Running
<1>8. CASE /\ call.at = "head" /\ GoesTo("line")
           /\ hd' = [hd EXCEPT ![call.dir] = call.head]
  <2>1. /\ call' \in Calls /\ call'.at = "line" /\ call'.kind = call.kind
        /\ call'.dir = call.dir
        /\ call.kind = "clear-freeze" => call'.rest = call.rest
    BY <1>1, <1>8, GoesToEffect, CallFields DEF At, Calls
  <2>2. jn' = jn
    BY <1>8, VerbWrites DEF OneWrite, JournalWrite
  <2>3. call'.kind = "clear-freeze" => \A x \in call'.rest : x # call'.dir /\ jn'[x] \in JournalFile
    BY <1>1, <2>1, <2>2 DEF RunsLoaded
  <2> QED
    BY <1>2, <2>1, <2>3 DEF RunsLoaded, BeforeTag, Running
<1>9. CASE call.at = "line" /\ call.kind # "clear-freeze" /\ GoesTo("mark")
  <2>1. call \in BurnCall \cup OpenCall \cup RetireCall
    BY <1>1, <1>9, CallFields DEF UnfreezeCall
  <2>2. call' \in Calls /\ call'.at = "mark" /\ call'.kind = call.kind
    BY <1>1, <1>9, <2>1, GoesToEffect DEF At, Calls
  <2> QED
    BY <1>2, <1>9, <2>2 DEF RunsLoaded, BeforeTag, Running
<1>10. CASE /\ call.at = "line" /\ call.kind = "clear-freeze" /\ hd' = hd
            /\ \E d \in call.rest : call' = ClearCall(d, call.rest \ {d})
  <2>1. call \in UnfreezeCall /\ call.rest \in SUBSET Dirs
    BY <1>1, <1>10, CallFields DEF UnfreezeCall
  <2>2. PICK d \in call.rest : call' = ClearCall(d, call.rest \ {d})
    BY <1>10
  <2> DEFINE rest == call.rest \ {d}
  <2>3. /\ d \in Dirs /\ rest \in SUBSET Dirs /\ hd[d] \in HeadFile /\ jn[d] \in JournalFile
    BY <1>1, <1>10, <2>1, <2>2 DEF RunsLoaded
  <2>4. /\ call' \in UnfreezeCall /\ call'.at = "head" /\ call'.dir = d /\ call'.rest = rest
    BY <2>2, <2>3, ClearCallFields
  <2>5. \A x \in rest : x \in Dirs /\ x # call.dir /\ x # d /\ jn[x] \in JournalFile
    BY <1>1, <1>10, <2>1 DEF RunsLoaded
  <2>6. jn \in [Dirs -> JournalFile \cup {Torn}]
    BY DEF StoreShape
  <2>7. jn' = jn \/ \E j : jn' = [jn EXCEPT ![call.dir] = j]
    BY VerbWrites DEF OneWrite, JournalWrite
  <2>8. \A x \in rest : jn'[x] \in JournalFile
    BY <2>5, <2>6, <2>7
  <2> QED
    BY <1>2, <2>4, <2>5, <2>8 DEF RunsLoaded, BeforeTag, Running, Calls
<1>11. CASE call.at = "mark" /\ call.kind # "retire" /\ GoesTo("emit")
  <2>1. call \in BurnCall \cup OpenCall
    BY <1>1, <1>11, CallFields DEF RetireCall
  <2>2. call' \in BurnCall \cup OpenCall /\ call'.at = "emit"
    BY <1>1, <1>11, <2>1, GoesToEffect DEF At
  <2>3. call'.kind # "clear-freeze"
    BY <2>2 DEF BurnCall, OpenCall
  <2> QED
    BY <1>2, <2>2, <2>3 DEF RunsLoaded, BeforeTag, Running, Calls
<1> QED
  BY <1>3, <1>4, <1>5, <1>6, <1>7, <1>8, <1>9, <1>10, <1>11, VerbGoesOn
-----------------------------------------------------------------------------
(* Every step keeps the shape.                                             *)

LEMMA EnterKeepsShape ==
  ASSUME ShapeInv, NEW c, Enter(c), PairLoads, c \in Calls,
         c.kind = "clear-freeze" => \A x \in c.rest : x \in Dirs /\ x # c.dir,
         c.at \in BeforeTag => c.start + c.len <= Capacity
  PROVE  ShapeInv'
<1>1. call' = c /\ UNCHANGED <<hd, jn, newline, wlog>>
      /\ UNCHANGED <<recOut, padOut, verified, begunIn, kept, faults, restored>>
  BY EnterEffect
<1>2. FileShape'
  BY <1>1, ShapeParts DEF ShapeInv, FileShape
<1>3. \A d \in Dirs : hd[d] \in HeadFile /\ jn[d] \in JournalFile
  BY LoadedTypes DEF ShapeInv, PairLoads
<1>4. RunsLoaded'
  BY <1>1, <1>3 DEF RunsLoaded
<1>5. call' \in Calls
  BY <1>1
<1> QED
  BY <1>2, <1>4, <1>5 DEF ShapeInv, StoreShape, FileShape, Calls

LEMMA VerbEnters ==
  ASSUME ShapeInv, Verb
  PROVE  ShapeInv' /\ NobodyIn /\ \E c : Enter(c)
<1> USE DEF ShapeInv
<1>1. ASSUME NEW d \in Dirs, NEW len \in Lengths, BurnPad(d, len)
      PROVE  ShapeInv' /\ NobodyIn /\ \E c : Enter(c)
  <2>1. /\ call' \in BurnCall /\ \E c : Enter(c)
    BY <1>1, BurnEffect
  <2>2. Enter(call')
    BY <2>1, EnterEffect
  <2>3. NobodyIn /\ PairLoads
    BY <1>1 DEF BurnPad, NobodyIn
  <2>4. call'.kind # "clear-freeze" /\ call'.at \notin BeforeTag /\ call' \in Calls
    BY <2>1 DEF BurnCall, BeforeTag, Calls
  <2> QED
    BY <2>1, <2>2, <2>3, <2>4, EnterKeepsShape
<1>2. ASSUME NEW d \in Dirs, NEW s \in Recs, NEW start \in 0 .. Capacity, NEW len \in Lengths,
             OpenEnvelope(d, s, start, len)
      PROVE  ShapeInv' /\ NobodyIn /\ \E c : Enter(c)
  <2>1. /\ call' \in OpenCall /\ call'.start + call'.len <= Capacity /\ \E c : Enter(c)
    BY <1>2, OpenEffect
  <2>2. Enter(call')
    BY <2>1, EnterEffect
  <2>3. NobodyIn /\ PairLoads
    BY <1>2 DEF OpenEnvelope, NobodyIn
  <2>4. call'.kind # "clear-freeze" /\ call' \in Calls
    BY <2>1 DEF OpenCall, Calls
  <2> QED
    BY <2>1, <2>2, <2>3, <2>4, EnterKeepsShape
<1>3. ASSUME NEW d \in Dirs, NEW through \in 0 .. CapacityRecords, NEW offset \in 0 .. Capacity,
             RetirePad(d, through, offset)
      PROVE  ShapeInv' /\ NobodyIn /\ \E c : Enter(c)
  <2>1. /\ call' \in RetireCall /\ \E c : Enter(c)
    BY <1>3, RetireEffect
  <2>2. Enter(call')
    BY <2>1, EnterEffect
  <2>3. NobodyIn /\ PairLoads
    BY <1>3 DEF RetirePad, NobodyIn
  <2>4. call'.kind # "clear-freeze" /\ call'.at \notin BeforeTag /\ call' \in Calls
    BY <2>1 DEF RetireCall, BeforeTag, Calls
  <2> QED
    BY <2>1, <2>2, <2>3, <2>4, EnterKeepsShape
<1>4. ASSUME NEW d \in Dirs, ClearFrozen(d)
      PROVE  ShapeInv' /\ NobodyIn /\ \E c : Enter(c)
  <2>1. /\ call' \in UnfreezeCall /\ call'.dir = d /\ d \notin call'.rest
        /\ call'.at = "head" /\ \E c : Enter(c)
    BY <1>4, ClearEffect
  <2>2. Enter(call')
    BY <2>1, EnterEffect
  <2>3. NobodyIn /\ PairLoads
    BY <1>4 DEF ClearFrozen, NobodyIn
  <2>4. /\ call' \in Calls /\ call'.at \notin BeforeTag
        /\ \A x \in call'.rest : x \in Dirs /\ x # call'.dir
    BY <2>1 DEF UnfreezeCall, Calls, BeforeTag
  <2> QED
    BY <2>1, <2>2, <2>3, <2>4, EnterKeepsShape
<1> QED
  BY <1>1, <1>2, <1>3, <1>4 DEF Verb

LEMMA ShapeStep ==
  ASSUME ShapeInv, [StoreNext]_storeVars
  PROVE  ShapeInv'
<1>1. CASE Verb
  BY <1>1, VerbEnters
<1>2. CASE VerbStep
  <2>1. FileShape' /\ call' \in Calls /\ RunsLoaded'
    BY <1>2, VerbFiles, VerbCall DEF ShapeInv
  <2> QED
    BY <2>1 DEF ShapeInv, StoreShape, FileShape, Calls
<1>3. CASE KeepCopy
  <2>1. /\ kept' = [hd |-> hd, jn |-> jn, newline |-> newline]
        /\ UNCHANGED <<hd, jn, newline, wlog, call, recOut, padOut, verified, begunIn,
                       faults, restored>>
    BY <1>3 DEF KeepCopy, pairDir, history
  <2>2. StoreShape'
    BY <2>1 DEF ShapeInv, StoreShape
  <2> QED
    BY <2>1, <2>2 DEF ShapeInv, RunsLoaded, Running
<1>4. CASE PutBack
  <2>1. /\ call = Quiet /\ kept # Torn /\ restored < MaxRestores
        /\ hd' = kept.hd /\ jn' = kept.jn /\ newline' = kept.newline
        /\ restored' = restored + 1
        /\ UNCHANGED <<wlog, call, recOut, padOut, verified, begunIn, kept, faults>>
    BY <1>4 DEF PutBack, history
  <2>2. /\ hd' \in [Dirs -> HeadFile \cup {Torn}] /\ jn' \in [Dirs -> JournalFile \cup {Torn}]
        /\ newline' \in [Dirs -> BOOLEAN]
    BY <2>1 DEF ShapeInv, StoreShape
  <2>3. restored' \in 0 .. MaxRestores
    BY <2>1, StoreSizes DEF ShapeInv, StoreShape
  <2>4. StoreShape'
    BY <2>1, <2>2, <2>3 DEF ShapeInv, StoreShape
  <2> QED
    BY <2>1, <2>4 DEF ShapeInv, RunsLoaded, Running, Quiet, BeforeTag
<1>5. CASE UNCHANGED storeVars
  BY <1>5 DEF storeVars, ShapeInv, StoreShape, RunsLoaded, Running
<1> QED
  BY <1>1, <1>2, <1>3, <1>4, <1>5 DEF StoreNext

LEMMA FirstFiles ==
  /\ NoTries \in [Recs -> Nat]
  /\ FirstHead \in HeadFile /\ FirstJournal \in JournalFile /\ FirstMark \in WitnessMark
<1>1. NoTries \in [Recs -> Nat]
  BY DEF NoTries
<1> QED
  BY <1>1, StoreSizes DEF FirstHead, FirstJournal, FirstMark, HeadFile, JournalFile, WitnessMark

LEMMA ShapeInit == StoreInit => ShapeInv
<1> SUFFICES ASSUME StoreInit
             PROVE  ShapeInv
  OBVIOUS
<1>1. StoreShape
  BY FirstFiles, StoreSizes DEF StoreInit, StoreShape
<1> QED
  BY <1>1 DEF StoreInit, ShapeInv, RunsLoaded, Running, Quiet, BeforeTag

(* The files, the calls and the histories of a pad's browser store always  *)
(* have the shape the code gives them.                                     *)
THEOREM ShapeIsKept == StoreSpec => []StoreTypeOK
<1>1. ShapeInv => StoreTypeOK
  <2> SUFFICES ASSUME ShapeInv
               PROVE  StoreTypeOK
    OBVIOUS
  <2>1. call = Quiet \/ (call.at \in At /\ call.kind \in Kind /\ call.dir \in Dirs)
    BY CallFields DEF ShapeInv, Running
  <2> QED
    BY <2>1 DEF ShapeInv, StoreShape, StoreTypeOK
<1> QED
  BY <1>1, ShapeInit, ShapeStep, PTL DEF StoreSpec
-----------------------------------------------------------------------------
(* What a step of a verb adds to the histories.                            *)

LEMMA VerbReleases ==
  ASSUME ShapeInv, VerbStep, NEW d \in Dirs
  PROVE  /\ \A s \in Recs :
              \/ recOut'[d][s] = recOut[d][s]
              \/ /\ call.at = "emit" /\ d = call.dir /\ s = call.seq
                 /\ recOut'[d][s] = recOut[d][s] + 1
         /\ \A o \in Bytes :
              \/ padOut'[d][o] = padOut[d][o]
              \/ /\ call.at = "emit" /\ d = call.dir
                 /\ call.start <= o /\ o < call.start + call.len
                 /\ padOut'[d][o] = padOut[d][o] + 1
<1>1. recOut \in [Dirs -> [Recs -> Nat]] /\ padOut \in [Dirs -> [Bytes -> Nat]]
  BY DEF ShapeInv, StoreShape
<1>2. CASE UNCHANGED <<recOut, padOut>>
  BY <1>2
<1>3. CASE /\ call.at = "emit"
           /\ recOut' = [recOut EXCEPT ![call.dir][call.seq] = @ + 1]
           /\ padOut' = [padOut EXCEPT ![call.dir] = [o \in Bytes |->
                IF call.start <= o /\ o < call.start + call.len
                  THEN @[o] + 1 ELSE @[o]]]
  <2>1. call.dir \in Dirs /\ call.seq \in Recs
    BY VerbWrites, CallFields, <1>3 DEF ShapeInv, BurnCall, OpenCall
  <2>2. \A s \in Recs : \/ recOut'[d][s] = recOut[d][s]
                        \/ /\ d = call.dir /\ s = call.seq
                           /\ recOut'[d][s] = recOut[d][s] + 1
    BY <1>1, <1>3, <2>1
  <2>3. \A o \in Bytes : \/ padOut'[d][o] = padOut[d][o]
                         \/ /\ d = call.dir /\ call.start <= o /\ o < call.start + call.len
                            /\ padOut'[d][o] = padOut[d][o] + 1
    BY <1>1, <1>3, <2>1
  <2> QED
    BY <1>3, <2>2, <2>3
<1> QED
  BY <1>2, <1>3, VerbHistory

LEMMA VerbBegins ==
  ASSUME ShapeInv, VerbStep, NEW d \in Dirs
  PROVE  /\ \/ begunIn'[d] = begunIn[d]
            \/ call.at = "verify" /\ d = call.dir /\ begunIn'[d] = begunIn[d] + 1
         /\ \A s \in Recs :
              \/ verified'[d][s] = verified[d][s]
              \/ /\ call.at = "verify" /\ d = call.dir /\ s = call.seq
                 /\ verified'[d][s] = verified[d][s] + 1
<1>1. verified \in [Dirs -> [Recs -> Nat]] /\ begunIn \in [Dirs -> Nat]
  BY DEF ShapeInv, StoreShape
<1>2. CASE UNCHANGED <<verified, begunIn>>
  BY <1>2
<1>3. CASE /\ call.at = "verify"
           /\ verified' = [verified EXCEPT ![call.dir][call.seq] = @ + 1]
           /\ begunIn' = [begunIn EXCEPT ![call.dir] = @ + 1]
  <2>1. call.dir \in Dirs /\ call.seq \in Recs
    BY VerbWrites, CallFields, <1>3 DEF ShapeInv, BeforeTag, OpenCall
  <2> QED
    BY <1>1, <1>3, <2>1
<1> QED
  BY <1>2, <1>3, VerbHistory

LEMMA MarkedCovers ==
  ASSUME StoreShape, NEW d \in Dirs, NEW m \in WitnessMark, Marked(d, m)
  PROVE  /\ wlog'[d].off >= m.off /\ wlog'[d].seq >= m.seq /\ wlog'[d].reserved >= m.reserved
<1>1. wlog \in [Dirs -> WitnessMark]
  BY DEF StoreShape
<1>2. wlog'[d] = MarkMax(wlog[d], m) /\ wlog[d] \in WitnessMark
  BY <1>1 DEF Marked
<1> QED
  BY <1>2, MarkMaxType

LEMMA WitnessGrows ==
  ASSUME ShapeInv, VerbStep, NEW d \in Dirs
  PROVE  /\ wlog'[d].off >= wlog[d].off /\ wlog'[d].seq >= wlog[d].seq
         /\ wlog'[d].reserved >= wlog[d].reserved
<1>1. wlog \in [Dirs -> WitnessMark] /\ wlog[d] \in WitnessMark
  BY DEF ShapeInv, StoreShape
<1>2. wlog[d].off \in Nat /\ wlog[d].seq \in Nat /\ wlog[d].reserved \in Nat
  BY <1>1 DEF WitnessMark
<1>3. CASE wlog' = wlog
  BY <1>2, <1>3
<1>4. CASE /\ call.at \in {"markAttempt", "mark"}
           /\ wlog' = [wlog EXCEPT ![call.dir] = MarkMax(@, call.mark)]
  <2>1. call \in BurnCall \cup OpenCall \cup RetireCall /\ call.dir \in Dirs
    BY <1>4, VerbWrites, CallFields DEF BeforeTag, ShapeInv
  <2>2. call.mark \in WitnessMark
    BY <2>1 DEF BurnCall, OpenCall, RetireCall
  <2>3. wlog'[d] = wlog[d] \/ wlog'[d] = MarkMax(wlog[d], call.mark)
    BY <1>1, <1>4, <2>1
  <2> QED
    BY <1>1, <1>2, <2>2, <2>3, MarkMaxType
<1> QED
  BY <1>3, <1>4, VerbWrites DEF OneWrite, WitnessWrite, ShapeInv
-----------------------------------------------------------------------------
(* The witness covers what left the pad.                                   *)

LEMMA ReleasedStep ==
  ASSUME ShapeInv, ShapeInv', WitnessInv, [StoreNext]_storeVars
  PROVE  ReleasedIsInWitness'
<1>1. CASE VerbStep
  <2> SUFFICES ASSUME NEW d \in Dirs
               PROVE  /\ \A s \in Recs : recOut'[d][s] > 0 => wlog'[d].seq > s
                      /\ \A o \in Bytes : padOut'[d][o] > 0 => wlog'[d].off > o
                      /\ begunIn'[d] <= wlog'[d].reserved
    BY DEF ReleasedIsInWitness
  <2>1. /\ wlog[d].off \in Nat /\ wlog[d].seq \in Nat /\ wlog[d].reserved \in Nat
        /\ wlog'[d].off \in Nat /\ wlog'[d].seq \in Nat /\ wlog'[d].reserved \in Nat
        /\ begunIn[d] \in Nat
    BY DEF ShapeInv, StoreShape, WitnessMark
  <2>2. /\ wlog'[d].off >= wlog[d].off /\ wlog'[d].seq >= wlog[d].seq
        /\ wlog'[d].reserved >= wlog[d].reserved
    BY <1>1, WitnessGrows
  <2>3. /\ \A s \in Recs : recOut[d][s] > 0 => wlog[d].seq > s
        /\ \A o \in Bytes : padOut[d][o] > 0 => wlog[d].off > o
        /\ begunIn[d] <= wlog[d].reserved
    BY DEF WitnessInv, ReleasedIsInWitness
  <2>4. ASSUME NEW s \in Recs, recOut'[d][s] > 0
        PROVE  wlog'[d].seq > s
    <3>1. wlog[d].seq > s
      <4>1. CASE recOut'[d][s] = recOut[d][s]
        BY <2>3, <2>4, <4>1
      <4>2. CASE call.at = "emit" /\ d = call.dir /\ s = call.seq
        BY <4>2 DEF WitnessInv, MarkCovers
      <4> QED
        BY <1>1, <4>1, <4>2, VerbReleases
    <3> QED
      BY <2>1, <2>2, <3>1, RecsAndBytes
  <2>5. ASSUME NEW o \in Bytes, padOut'[d][o] > 0
        PROVE  wlog'[d].off > o
    <3>1. wlog[d].off > o
      <4>1. CASE padOut'[d][o] = padOut[d][o]
        BY <2>3, <2>5, <4>1
      <4>2. CASE call.at = "emit" /\ d = call.dir /\ o < call.start + call.len
        <5>1. wlog[d].off >= call.start + call.len
          BY <4>2 DEF WitnessInv, MarkCovers
        <5>2. call.start \in Nat /\ call.len \in Nat
          BY <1>1, <4>2, VerbWrites, CallFields DEF ShapeInv, BurnCall, OpenCall
        <5> QED
          BY <2>1, <4>2, <5>1, <5>2, RecsAndBytes
      <4> QED
        BY <1>1, <4>1, <4>2, VerbReleases
    <3> QED
      BY <2>1, <2>2, <3>1, RecsAndBytes
  <2>6. begunIn'[d] <= wlog'[d].reserved
    <3>1. CASE begunIn'[d] = begunIn[d]
      BY <2>1, <2>2, <2>3, <3>1
    <3>2. CASE call.at = "verify" /\ d = call.dir /\ begunIn'[d] = begunIn[d] + 1
      <4>1. wlog[d].reserved > begunIn[d]
        BY <3>2 DEF WitnessInv, MarkCovers
      <4> QED
        BY <2>1, <2>2, <3>2, <4>1
    <3> QED
      BY <1>1, <3>1, <3>2, VerbBegins
  <2> QED
    BY <2>4, <2>5, <2>6
<1>2. CASE ~VerbStep
  <2>1. UNCHANGED <<wlog, recOut, padOut, begunIn>>
    <3>1. CASE Verb
      BY <3>1, VerbEnters, EnterEffect
    <3>2. CASE KeepCopy \/ PutBack \/ UNCHANGED storeVars
      BY <3>2 DEF KeepCopy, PutBack, storeVars, history
    <3> QED
      BY <1>2, <3>1, <3>2 DEF StoreNext
  <2> QED
    BY <2>1 DEF WitnessInv, ReleasedIsInWitness
<1> QED
  BY <1>1, <1>2

LEMMA PreflightAbove ==
  ASSUME ShapeInv, WitnessInv, NEW d \in Dirs, PreflightPasses(d),
         hd[d] \in HeadFile, jn[d] \in JournalFile
  PROVE  /\ \A s \in Recs : recOut[d][s] > 0 => s < hd[d].seq
         /\ \A o \in Bytes : padOut[d][o] > 0 => o < hd[d].off
         /\ begunIn[d] <= EffectiveOf(d).reserved
<1>1. /\ EffectiveOf(d).off = hd[d].off /\ EffectiveOf(d).seq = hd[d].seq
      /\ EffectiveOf(d).off \in Nat /\ EffectiveOf(d).seq \in Nat
      /\ EffectiveOf(d).reserved \in Nat
  BY EffectiveFields, StoreSizes
<1> DEFINE e == EffectiveOf(d)
           w == wlog[d]
<1>2. w.off \in Nat /\ w.seq \in Nat /\ w.reserved \in Nat /\ begunIn[d] \in Nat
  BY DEF ShapeInv, StoreShape, WitnessMark
<1>3. ~(e.off < w.off) /\ ~(e.seq < w.seq) /\ ~(e.reserved < w.reserved)
  BY DEF PreflightPasses, BelowWitness
<1>4. /\ \A s \in Recs : recOut[d][s] > 0 => w.seq > s
      /\ \A o \in Bytes : padOut[d][o] > 0 => w.off > o
      /\ begunIn[d] <= w.reserved
  BY DEF WitnessInv, ReleasedIsInWitness
<1> HIDE DEF e, w
<1>5. e.off >= w.off /\ e.seq >= w.seq /\ e.reserved >= w.reserved
  BY <1>1, <1>2, <1>3 DEF e
<1>6. \A s \in Recs : w.seq > s => s < e.seq
  BY <1>1, <1>2, <1>5, RecsAndBytes DEF e
<1>7. \A o \in Bytes : w.off > o => o < e.off
  BY <1>1, <1>2, <1>5, RecsAndBytes DEF e
<1> QED
  BY <1>1, <1>2, <1>4, <1>5, <1>6, <1>7 DEF e

LEMMA VerbWitness ==
  ASSUME ShapeInv, WitnessInv, Verb
  PROVE  (WorksAbove /\ MarkCovers)'
<1>1. UNCHANGED <<wlog, recOut, padOut, begunIn>>
  BY VerbEnters, EnterEffect
<1>2. \A d \in Dirs : hd[d] \in HeadFile /\ jn[d] \in JournalFile
  BY VerbEnters, LoadedTypes DEF NobodyIn, PairLoads, ShapeInv
<1>3. ASSUME NEW d \in Dirs, NEW len \in Lengths, BurnPad(d, len)
      PROVE  (WorksAbove /\ MarkCovers)'
  <2>1. /\ call'.at = "head" /\ call'.dir = d
        /\ call'.seq = hd[d].seq /\ call'.start = hd[d].off
        /\ call'.mark.seq = call'.seq + 1 /\ call'.mark.off = call'.start + call'.len
        /\ PreflightPasses(d)
    BY <1>3, BurnEffect DEF ShapeInv
  <2> QED
    BY <1>1, <1>2, <2>1, PreflightAbove DEF WorksAbove, MarkCovers, BeforeTag
<1>4. ASSUME NEW d \in Dirs, NEW s \in Recs, NEW start \in 0 .. Capacity, NEW len \in Lengths,
             OpenEnvelope(d, s, start, len)
      PROVE  (WorksAbove /\ MarkCovers)'
  <2>1. /\ call'.at = "reserve" /\ call'.dir = d /\ call'.seq = s /\ call'.start = start
        /\ s >= hd[d].seq /\ start >= hd[d].off
        /\ call'.mark.reserved = EffectiveOf(d).reserved + 1
        /\ PreflightPasses(d)
    BY <1>4, OpenEffect DEF ShapeInv
  <2>2. /\ hd[d].seq \in Nat /\ hd[d].off \in Nat /\ s \in Nat /\ start \in Nat
        /\ EffectiveOf(d).reserved \in Nat /\ begunIn[d] \in Nat
    BY <1>2, EffectiveFields, RecsAndBytes, StoreSizes DEF HeadFile, ShapeInv, StoreShape
  <2>3. /\ \A r \in Recs : recOut[d][r] > 0 => r < hd[d].seq
        /\ \A o \in Bytes : padOut[d][o] > 0 => o < hd[d].off
        /\ begunIn[d] <= EffectiveOf(d).reserved
    BY <1>2, <2>1, PreflightAbove
  <2>4. /\ \A r \in Recs : recOut[d][r] > 0 => r < s
        /\ \A o \in Bytes : padOut[d][o] > 0 => o < start
        /\ call'.mark.reserved > begunIn[d]
    BY <2>1, <2>2, <2>3, RecsAndBytes
  <2>5. WorksAbove'
    BY <1>1, <2>1, <2>4 DEF WorksAbove
  <2> QED
    BY <1>1, <2>1, <2>4, <2>5 DEF MarkCovers
<1>5. ASSUME call' \in RetireCall \cup UnfreezeCall
      PROVE  (WorksAbove /\ MarkCovers)'
  <2>1. call'.kind \notin {"burn", "open"} /\ call'.at \in {"head", "line", "mark"}
    BY <1>5 DEF RetireCall, UnfreezeCall
  <2> QED
    BY <2>1 DEF WorksAbove, MarkCovers, Emits
<1> QED
  BY <1>3, <1>4, <1>5, RetireEffect, ClearEffect DEF Verb, ShapeInv

LEMMA VerbStepWitness ==
  ASSUME ShapeInv, ShapeInv', WitnessInv, VerbStep
  PROVE  (WorksAbove /\ MarkCovers)'
<1>1. Running /\ call.dir \in Dirs
  BY VerbWrites, CallFields DEF ShapeInv
<1>2. CASE call' = Quiet
  BY <1>2 DEF WorksAbove, MarkCovers, Emits, Running, Quiet
<1>3. call' # Quiet => UNCHANGED <<recOut, padOut>>
  BY VerbHistory DEF Emit
<1>4. call.at # "verify" => begunIn' = begunIn
  BY VerbHistory
<1>5. ASSUME call' # Quiet, Emits, call'.dir = call.dir,
             call'.seq = call.seq, call'.start = call.start
      PROVE  WorksAbove'
  BY <1>3, <1>5 DEF WorksAbove, WitnessInv
<1>6. CASE call.at = "reserve" /\ GoesTo("markAttempt")
  <2>1. call \in OpenCall /\ Emits
    BY <1>1, <1>6, CallFields DEF BeforeTag, OpenCall, Emits, ShapeInv
  <2>2. /\ call'.dir = call.dir /\ call'.seq = call.seq /\ call'.start = call.start
        /\ call'.mark = call.mark /\ call'.at = "markAttempt"
    BY <1>1, <1>6, <2>1, GoesToEffect DEF At, ShapeInv
  <2>3. MarkCovers'
    BY <1>4, <1>6, <2>2 DEF MarkCovers, WitnessInv
  <2> QED
    BY <1>2, <1>5, <2>1, <2>2, <2>3
<1>7. CASE call.at = "markAttempt" /\ GoesTo("verify") /\ Marked(call.dir, call.mark)
  <2>1. call \in OpenCall /\ Emits
    BY <1>1, <1>7, CallFields DEF BeforeTag, OpenCall, Emits, ShapeInv
  <2>2. /\ call'.dir = call.dir /\ call'.seq = call.seq /\ call'.start = call.start
        /\ call'.at = "verify"
    BY <1>1, <1>7, <2>1, GoesToEffect DEF At, ShapeInv
  <2>3. call.mark \in WitnessMark /\ call.mark.reserved \in Nat
    BY <2>1, EmitFields DEF ShapeInv
  <2>4. wlog'[call.dir].reserved >= call.mark.reserved
    BY <1>1, <1>7, <2>3, MarkedCovers DEF ShapeInv
  <2>5. call.mark.reserved > begunIn[call.dir]
    BY <1>7 DEF MarkCovers, WitnessInv
  <2>6. wlog'[call.dir].reserved \in Nat /\ begunIn[call.dir] \in Nat
    BY <1>1 DEF ShapeInv, StoreShape, WitnessMark
  <2>7. wlog'[call.dir].reserved > begunIn[call.dir]
    BY <2>3, <2>4, <2>5, <2>6
  <2>8. MarkCovers'
    BY <1>4, <1>7, <2>2, <2>7 DEF MarkCovers
  <2> QED
    BY <1>2, <1>5, <2>1, <2>2, <2>8
<1>8. CASE call.at = "verify" /\ (TagFails \/ TagPasses)
  <2>1. call \in OpenCall /\ Emits
    BY <1>1, <1>8, CallFields DEF BeforeTag, OpenCall, Emits, ShapeInv
  <2>2. CASE TagFails
    <3>1. /\ call'.at = "failLine" /\ call'.dir = call.dir /\ call'.seq = call.seq
          /\ call'.start = call.start
      BY <2>2, TagFailsEffect DEF ShapeInv
    <3>2. MarkCovers'
      BY <3>1 DEF MarkCovers
    <3> QED
      BY <1>2, <1>5, <2>1, <3>1, <3>2
  <2>3. CASE TagPasses
    <3>1. /\ call'.at = "head" /\ call'.dir = call.dir /\ call'.seq = call.seq
          /\ call'.start = call.start /\ call'.len = call.len
          /\ call'.mark.seq = call.seq + 1 /\ call'.mark.off = call.start + call.len
      BY <2>3, TagPassesEffect
    <3>2. MarkCovers'
      BY <3>1 DEF MarkCovers
    <3> QED
      BY <1>2, <1>5, <2>1, <3>1, <3>2
  <2> QED
    BY <1>8, <2>2, <2>3
<1>9. CASE call.at = "failLine" /\ GoesTo("failHead")
  <2>1. call \in OpenCall /\ Emits
    BY <1>1, <1>9, CallFields DEF OpenCall, Emits, ShapeInv
  <2>2. /\ call'.dir = call.dir /\ call'.seq = call.seq /\ call'.start = call.start
        /\ call'.at = "failHead"
    BY <1>1, <1>9, <2>1, GoesToEffect DEF At, ShapeInv
  <2>3. MarkCovers'
    BY <2>2 DEF MarkCovers
  <2> QED
    BY <1>2, <1>5, <2>1, <2>2, <2>3
<1>10. ASSUME NEW at \in {"line", "mark"}, call.at \in {"head", "line"}, GoesTo(at)
       PROVE  (WorksAbove /\ MarkCovers)'
  <2>1. call'.at = at /\ call'.kind = call.kind
    BY <1>1, <1>10, GoesToEffect DEF At, ShapeInv
  <2>2. CASE Emits
    <3>1. /\ call'.dir = call.dir /\ call'.seq = call.seq /\ call'.start = call.start
          /\ call'.len = call.len /\ call'.mark = call.mark
      BY <1>1, <1>10, <2>2, GoesToEffect DEF At, ShapeInv
    <3>2. MarkCovers'
      BY <1>10, <2>1, <2>2, <3>1 DEF MarkCovers, WitnessInv
    <3> QED
      BY <1>2, <1>5, <2>2, <3>1, <3>2
  <2>3. CASE ~Emits
    <3>1. ~Emits'
      BY <1>1, <2>1, <2>3 DEF Emits
    <3> QED
      BY <1>10, <2>1, <3>1 DEF WorksAbove, MarkCovers
  <2> QED
    BY <2>2, <2>3
<1>11. CASE call.at = "line" /\ \E d \in call.rest : call' = ClearCall(d, call.rest \ {d})
  <2>1. call'.at = "head" /\ call'.kind = "clear-freeze"
    BY <1>11 DEF ClearCall
  <2> QED
    BY <2>1 DEF WorksAbove, MarkCovers, Emits
<1>12. CASE call.at = "mark" /\ call.kind # "retire" /\ GoesTo("emit")
            /\ Marked(call.dir, call.mark)
  <2>1. Emits
    BY <1>1, <1>12, CallFields DEF Emits, Kind, ShapeInv, RetireCall, BurnCall, OpenCall
  <2>2. /\ call'.dir = call.dir /\ call'.seq = call.seq /\ call'.start = call.start
        /\ call'.len = call.len /\ call'.at = "emit"
    BY <1>1, <1>12, <2>1, GoesToEffect DEF At, ShapeInv
  <2>3. /\ call.mark \in WitnessMark /\ call.mark.seq \in Nat /\ call.mark.off \in Nat
        /\ call.seq \in Nat /\ call.start \in Nat /\ call.len \in Nat
    BY <2>1, EmitFields DEF ShapeInv
  <2>4. wlog'[call.dir].seq >= call.mark.seq /\ wlog'[call.dir].off >= call.mark.off
    BY <1>1, <1>12, <2>3, MarkedCovers DEF ShapeInv
  <2>5. call.mark.seq = call.seq + 1 /\ call.mark.off = call.start + call.len
    BY <1>12, <2>1 DEF MarkCovers, WitnessInv
  <2>6. wlog'[call.dir].seq \in Nat /\ wlog'[call.dir].off \in Nat
    BY <1>1 DEF ShapeInv, StoreShape, WitnessMark
  <2>7. wlog'[call.dir].seq > call.seq /\ wlog'[call.dir].off >= call.start + call.len
    BY <2>3, <2>4, <2>5, <2>6
  <2>8. MarkCovers'
    BY <2>2, <2>7 DEF MarkCovers
  <2> QED
    BY <1>2, <1>5, <2>1, <2>2, <2>8
<1> QED
  BY <1>2, <1>6, <1>7, <1>8, <1>9, <1>10, <1>11, <1>12, VerbGoesOn

LEMMA WitnessStep ==
  ASSUME ShapeInv, ShapeInv', WitnessInv, [StoreNext]_storeVars
  PROVE  WitnessInv'
<1>1. ReleasedIsInWitness'
  BY ReleasedStep
<1>2. CASE Verb
  BY <1>1, <1>2, VerbWitness DEF WitnessInv
<1>3. CASE VerbStep
  BY <1>1, <1>3, VerbStepWitness DEF WitnessInv
<1>4. CASE PutBack
  <2>1. call' = Quiet
    BY <1>4 DEF PutBack
  <2> QED
    BY <1>1, <2>1 DEF WitnessInv, WorksAbove, MarkCovers, Emits, Running, Quiet
<1>5. CASE KeepCopy \/ UNCHANGED storeVars
  <2>1. UNCHANGED <<wlog, call, recOut, padOut, begunIn>>
    BY <1>5 DEF KeepCopy, storeVars, history
  <2> QED
    BY <1>1, <2>1 DEF WitnessInv, WorksAbove, MarkCovers, Emits, Running
<1> QED
  BY <1>2, <1>3, <1>4, <1>5 DEF StoreNext

LEMMA WitnessInit == StoreInit => WitnessInv
<1> SUFFICES ASSUME StoreInit
             PROVE  WitnessInv
  OBVIOUS
<1>1. /\ \A d \in Dirs, s \in Recs : recOut[d][s] = 0
      /\ \A d \in Dirs, o \in Bytes : padOut[d][o] = 0
      /\ \A d \in Dirs : begunIn[d] = 0 /\ wlog[d].reserved = 0
  BY DEF StoreInit, NoTries, FirstMark
<1>2. ReleasedIsInWitness
  BY <1>1 DEF ReleasedIsInWitness
<1>3. call = Quiet
  BY DEF StoreInit
<1> QED
  BY <1>2, <1>3 DEF WitnessInv, WorksAbove, MarkCovers, Emits, Running, Quiet

(* The witness of the Browser Edition is at or above every output that     *)
(* left the pad and every verification begun, wherever a write was cut off *)
(* and however often the pair directory was put back.                      *)
THEOREM WitnessCoversReleases == StoreSpec => []ReleasedIsInWitness
<1>1. WitnessInv => ReleasedIsInWitness
  BY DEF WitnessInv
<1> QED
  BY <1>1, ShapeInit, ShapeStep, WitnessInit, WitnessStep, PTL DEF StoreSpec
-----------------------------------------------------------------------------
(* The store implements OneTimePad.                                        *)

LEMMA EmitUsesOnce ==
  ASSUME ShapeInv, WitnessInv, VerbStep, call.at = "emit",
         recOut' = [recOut EXCEPT ![call.dir][call.seq] = @ + 1],
         padOut' = [padOut EXCEPT ![call.dir] = [o \in Bytes |->
           IF call.start <= o /\ o < call.start + call.len THEN @[o] + 1 ELSE @[o]]]
  PROVE  Otp!Next
<1> DEFINE window == {o \in Bytes : call.start <= o /\ o < call.start + call.len}
<1>1. /\ recOut \in [Dirs -> [Recs -> Nat]] /\ padOut \in [Dirs -> [Bytes -> Nat]]
  BY DEF ShapeInv, StoreShape
<1>2. /\ call.dir \in Dirs /\ call.seq \in Recs /\ call.seq \in Nat
      /\ call.start \in Nat /\ call.len \in Nat /\ Emits
  <2>1. Running /\ call \in BurnCall \cup OpenCall /\ call.dir \in Dirs
    BY VerbWrites, CallFields DEF ShapeInv
  <2>2. Emits
    BY <2>1 DEF Emits, BurnCall, OpenCall
  <2> QED
    BY <2>1, <2>2, EmitFields DEF ShapeInv
<1>3. /\ \A r \in Recs : recOut[call.dir][r] > 0 => r < call.seq
      /\ \A o \in Bytes : padOut[call.dir][o] > 0 => o < call.start
  BY <1>2 DEF WitnessInv, WorksAbove
<1>4. \A r \in Recs : r >= call.seq => recOut[call.dir][r] = 0
  <2> SUFFICES ASSUME NEW r \in Recs, r >= call.seq
               PROVE  recOut[call.dir][r] = 0
    OBVIOUS
  <2>1. recOut[call.dir][r] \in Nat /\ r \in Nat
    BY <1>1, <1>2, RecsAndBytes
  <2>2. ~(r < call.seq)
    BY <1>2, <2>1
  <2> QED
    BY <1>3, <2>1, <2>2
<1>5. \A w \in window, o \in Bytes : o >= w => padOut[call.dir][o] = 0
  <2> SUFFICES ASSUME NEW w \in window, NEW o \in Bytes, o >= w
               PROVE  padOut[call.dir][o] = 0
    OBVIOUS
  <2>1. padOut[call.dir][o] \in Nat /\ o \in Nat /\ w \in Nat
    BY <1>1, <1>2, RecsAndBytes
  <2>2. ~(o < call.start)
    BY <1>2, <2>1
  <2> QED
    BY <1>3, <2>1, <2>2
<1>6. padOut' = [padOut EXCEPT ![call.dir] =
                   [o \in Bytes |-> @[o] + (IF o \in window THEN 1 ELSE 0)]]
  <2> DEFINE one == [o \in Bytes |-> IF call.start <= o /\ o < call.start + call.len
                                       THEN padOut[call.dir][o] + 1 ELSE padOut[call.dir][o]]
             two == [o \in Bytes |->
                       padOut[call.dir][o] + (IF o \in window THEN 1 ELSE 0)]
  <2>1. padOut[call.dir] \in [Bytes -> Nat]
    BY <1>1, <1>2
  <2>2. ASSUME NEW o \in Bytes
        PROVE  one[o] = two[o]
    BY <2>1
  <2>3. one = two
    BY <2>2
  <2>4. padOut' = [padOut EXCEPT ![call.dir] = one]
    OBVIOUS
  <2>5. padOut' = [padOut EXCEPT ![call.dir] = two]
    BY <2>3, <2>4
  <2> QED
    BY <2>5
<1>7. Otp!UseRecord(call.dir, call.seq)
  BY <1>4 DEF Otp!UseRecord
<1>8. window \in SUBSET Bytes /\ Otp!UseWindow(call.dir, window)
  <2> HIDE DEF window
  <2>1. Otp!UseWindow(call.dir, window)
    BY <1>5, <1>6 DEF Otp!UseWindow
  <2>2. window \in SUBSET Bytes
    BY DEF window
  <2> QED
    BY <2>1, <2>2
<1> QED
  BY <1>2, <1>7, <1>8 DEF Otp!Next

LEMMA StoreStepIsOtpStep ==
  ASSUME ShapeInv, WitnessInv, [StoreNext]_storeVars
  PROVE  [Otp!Next]_<<recOut, padOut>>
<1>1. CASE VerbStep
  BY <1>1, VerbHistory, EmitUsesOnce
<1>2. CASE Verb
  BY <1>2, VerbEnters, EnterEffect
<1>3. CASE KeepCopy \/ PutBack \/ UNCHANGED storeVars
  BY <1>3 DEF KeepCopy, PutBack, storeVars, history
<1> QED
  BY <1>1, <1>2, <1>3 DEF StoreNext

(* With its witness in a directory of its own, a pad of the Browser        *)
(* Edition makes at most one output from an authentication record and from *)
(* a pad byte, in climbing order, though its directory may be torn by any  *)
(* cut and put back any number of times (OneTimePad).                      *)
THEOREM BrowserKeepsThePromise == StoreSpec => BrowserPromise
<1>1. StoreInit => Otp!Init
  BY DEF StoreInit, NoTries, Otp!Init
<1>2. ASSUME ShapeInv, WitnessInv, [StoreNext]_storeVars
      PROVE  [Otp!Next]_(Otp!otpVars)
  BY <1>2, StoreStepIsOtpStep DEF Otp!otpVars
<1> QED
  BY <1>1, <1>2, ShapeInit, ShapeStep, WitnessInit, WitnessStep, PTL
     DEF StoreSpec, BrowserPromise, Otp!Spec
-----------------------------------------------------------------------------
(* What a line adds to a journal.                                          *)

LEMMA AddedTries ==
  ASSUME NEW j \in JournalFile, NEW l \in AnyLine, NEW s \in Recs
  PROVE  /\ Added(j, l).tries[s] >= j.tries[s]
         /\ l \in Attempt /\ l.seq = s => Added(j, l).tries[s] = j.tries[s] + 1
<1>1. j.tries \in [Recs -> Nat] /\ j.tries[s] \in Nat
  BY DEF JournalFile
<1>2. CASE l \in Attempt
  <2> DEFINE tries == [j.tries EXCEPT ![l.seq] = @ + 1]
  <2>1. tries[s] = IF l.seq = s THEN j.tries[s] + 1 ELSE j.tries[s]
    BY <1>1
  <2>2. Added(j, l) = [j EXCEPT !.tries = tries, !.reserved = j.reserved + 1]
    BY <1>2 DEF Added, Attempt, JournalFile
  <2> HIDE DEF tries
  <2>3. Added(j, l).tries = tries
    BY <2>2 DEF JournalFile
  <2> QED
    BY <1>1, <2>1, <2>3
<1>3. CASE l \in AuthFail \cup Position \cup Unfreeze
  <2>1. l \notin Attempt
    BY <1>3 DEF Attempt, AuthFail, Position, Unfreeze
  <2>2. Added(j, l).tries = j.tries
    BY <1>3 DEF Added, AuthFail, Position, Unfreeze, JournalFile
  <2> QED
    BY <1>1, <2>1, <2>2
<1> QED
  BY <1>2, <1>3 DEF AnyLine

LEMMA AddedPosition ==
  ASSUME NEW j \in JournalFile, NEW l \in AnyLine, NEW seq \in Nat, NEW off \in Nat,
         seq >= j.seq, off >= j.off,
         l \in Position => seq >= l.seq /\ off >= l.off
  PROVE  seq >= Added(j, l).seq /\ off >= Added(j, l).off
<1>1. CASE l \in Position
  <2>1. Added(j, l) = [j EXCEPT !.off = Most(@, l.off), !.seq = Most(@, l.seq)]
    BY <1>1 DEF Added, Position
  <2>2. Added(j, l).seq = Most(j.seq, l.seq) /\ Added(j, l).off = Most(j.off, l.off)
    BY <2>1 DEF JournalFile
  <2> QED
    BY <1>1, <2>2 DEF Most
<1>2. CASE l \in Attempt
  BY <1>2 DEF Added, Attempt, JournalFile
<1>3. CASE l \in AuthFail \cup Unfreeze
  BY <1>3 DEF Added, AuthFail, Unfreeze, JournalFile
<1> QED
  BY <1>1, <1>2, <1>3 DEF AnyLine

(* A journal that is whole after a step of a verb was whole before it.     *)
LEMMA JournalGrows ==
  ASSUME ShapeInv, VerbStep, NEW d \in Dirs, jn'[d] # Torn
  PROVE  /\ jn[d] \in JournalFile
         /\ \/ jn'[d] = jn[d]
            \/ /\ d = call.dir /\ call.line \in AnyLine
               /\ call.at \in {"reserve", "failLine", "line"}
               /\ jn'[d] = Added(jn[d], call.line)
<1>1. jn \in [Dirs -> JournalFile \cup {Torn}] /\ jn[d] \in JournalFile \cup {Torn}
  BY DEF ShapeInv, StoreShape
<1>2. call.dir \in Dirs /\ call.line \in AnyLine
  BY VerbWrites, CallFields DEF ShapeInv
<1>3. CASE jn' = jn
  BY <1>1, <1>3
<1>4. CASE jn' = [jn EXCEPT ![call.dir] = Torn]
  BY <1>1, <1>2, <1>4
<1>5. CASE /\ call.at \in {"reserve", "failLine", "line"}
           /\ jn' = [jn EXCEPT ![call.dir] = WithLine(call.dir, call.line)]
  BY <1>1, <1>2, <1>5 DEF WithLine
<1> QED
  BY <1>3, <1>4, <1>5, VerbWrites DEF OneWrite, JournalWrite, ShapeInv
-----------------------------------------------------------------------------
(* A verification is reserved before it begins.                            *)

ReserveInv == TriesReserved /\ LinesFit

LEMMA ReserveVerb ==
  ASSUME ShapeInv, ReserveInv, Verb
  PROVE  ReserveInv'
<1>1. UNCHANGED <<jn, verified, restored>>
  BY VerbEnters, EnterEffect
<1>2. ASSUME NEW d \in Dirs, NEW s \in Recs, NEW start \in 0 .. Capacity, NEW len \in Lengths,
             OpenEnvelope(d, s, start, len)
      PROVE  ReserveInv'
  <2>1. /\ call'.at = "reserve" /\ call'.dir = d /\ call'.seq = s
        /\ call'.line \in Attempt /\ call'.line.seq = s
        /\ EffectiveOf(d).tries[s] < VerifyAttemptLimit
    BY <1>2, OpenEffect DEF ShapeInv
  <2>2. hd[d] \in HeadFile /\ jn[d] \in JournalFile
    BY <1>2, LoadedTypes DEF OpenEnvelope, NobodyIn, PairLoads, ShapeInv
  <2>3. /\ EffectiveOf(d).tries[s] \in Nat /\ EffectiveOf(d).tries[s] >= jn[d].tries[s]
        /\ jn[d].tries[s] \in Nat /\ verified[d][s] \in Nat
    BY <2>2, EffectiveFields DEF JournalFile, ShapeInv, StoreShape
  <2>4. restored = 0 => verified[d][s] <= jn[d].tries[s]
    BY <2>2, TornIsNoFile DEF ReserveInv, TriesReserved
  <2>5. restored = 0 => verified[d][s] < VerifyAttemptLimit
    BY <2>1, <2>3, <2>4, StoreSizes
  <2>6. TriesReserved'
    BY <1>1, <2>1, <2>5 DEF ReserveInv, TriesReserved, BeforeTag
  <2> QED
    BY <2>1, <2>6 DEF ReserveInv, LinesFit
<1>3. ASSUME call'.at = "head"
      PROVE  ReserveInv'
  BY <1>1, <1>3 DEF ReserveInv, TriesReserved, LinesFit, BeforeTag
<1> QED
  BY <1>2, <1>3, BurnEffect, RetireEffect, ClearEffect DEF Verb, ShapeInv

LEMMA ReserveVerbStep ==
  ASSUME ShapeInv, ShapeInv', ReserveInv, VerbStep
  PROVE  ReserveInv'
<1>1. Running /\ call.dir \in Dirs /\ restored' = restored
  BY VerbWrites, CallFields DEF ShapeInv, OneWrite
<1>2. ASSUME restored = 0, NEW d \in Dirs, NEW s \in Recs
      PROVE  /\ verified'[d][s] <= VerifyAttemptLimit
             /\ jn'[d] # Torn => verified'[d][s] <= jn'[d].tries[s]
  <2>1. /\ verified[d][s] \in Nat /\ verified[d][s] <= VerifyAttemptLimit
        /\ jn[d] # Torn => verified[d][s] <= jn[d].tries[s]
        /\ VerifyAttemptLimit \in Nat
    BY <1>2, StoreSizes DEF ShapeInv, StoreShape, ReserveInv, TriesReserved
  <2>2. jn'[d] # Torn => /\ jn[d] \in JournalFile /\ jn[d] # Torn /\ jn[d].tries[s] \in Nat
                         /\ jn'[d] \in JournalFile /\ jn'[d].tries[s] \in Nat
                         /\ jn'[d].tries[s] >= jn[d].tries[s]
    <3> SUFFICES ASSUME jn'[d] # Torn
                 PROVE  /\ jn[d] \in JournalFile /\ jn[d] # Torn /\ jn[d].tries[s] \in Nat
                        /\ jn'[d] \in JournalFile /\ jn'[d].tries[s] \in Nat
                        /\ jn'[d].tries[s] >= jn[d].tries[s]
      OBVIOUS
    <3>1. /\ jn[d] \in JournalFile
          /\ jn'[d] = jn[d] \/ (call.line \in AnyLine /\ jn'[d] = Added(jn[d], call.line))
      BY JournalGrows
    <3>2. jn[d] # Torn /\ jn[d].tries[s] \in Nat
      BY <3>1, TornIsNoFile DEF JournalFile
    <3>3. jn'[d] \in JournalFile
      BY DEF ShapeInv, StoreShape
    <3>4. jn'[d].tries[s] \in Nat
      BY <3>3 DEF JournalFile
    <3>5. jn'[d].tries[s] >= jn[d].tries[s]
      BY <3>1, <3>2, AddedTries
    <3> QED
      BY <3>1, <3>2, <3>3, <3>4, <3>5
  <2>3. CASE verified'[d][s] = verified[d][s]
    BY <2>1, <2>2, <2>3
  <2>4. CASE /\ call.at = "verify" /\ d = call.dir /\ s = call.seq
             /\ verified'[d][s] = verified[d][s] + 1
    <3>1. verified[d][s] < VerifyAttemptLimit
      BY <1>2, <2>4 DEF ReserveInv, TriesReserved, BeforeTag
    <3>2. jn[d] # Torn => verified[d][s] < jn[d].tries[s]
      BY <1>2, <2>4 DEF ReserveInv, TriesReserved
    <3> QED
      BY <2>1, <2>2, <2>4, <3>1, <3>2
  <2> QED
    BY <2>3, <2>4, VerbBegins
<1>3. \/ /\ call.at = "reserve" /\ GoesTo("markAttempt")
         /\ LineAdded(call.dir, call.line) /\ NoFault
      \/ call.at = "markAttempt" /\ GoesTo("verify")
      \/ call'.at \notin BeforeTag /\ (call'.at = "failLine" => call'.line \in AuthFail)
  <2>1. ASSUME NEW at \in {"failHead", "line", "mark", "emit"}, GoesTo(at)
        PROVE  call'.at \notin BeforeTag /\ call'.at # "failLine"
    <3>1. call'.at = at
      BY <1>1, <2>1, GoesToEffect DEF At, ShapeInv
    <3> QED
      BY <3>1 DEF BeforeTag
  <2>2. CASE TagFails
    <3>1. call'.at = "failLine" /\ call'.line \in AuthFail
      BY <2>2, TagFailsEffect DEF ShapeInv
    <3> QED
      BY <3>1 DEF BeforeTag
  <2>3. CASE TagPasses
    <3>1. call'.at = "head"
      BY <2>3, TagPassesEffect
    <3> QED
      BY <3>1 DEF BeforeTag
  <2>4. CASE \E d \in call.rest : call' = ClearCall(d, call.rest \ {d})
    BY <2>4 DEF ClearCall, BeforeTag
  <2>5. CASE call' = Quiet
    BY <2>5 DEF Quiet, BeforeTag
  <2> QED
    BY <2>1, <2>2, <2>3, <2>4, <2>5, VerbGoesOn
<1>4. CASE call'.at \notin BeforeTag /\ (call'.at = "failLine" => call'.line \in AuthFail)
  BY <1>1, <1>2, <1>4 DEF ReserveInv, TriesReserved, LinesFit, BeforeTag
<1>5. CASE /\ call.at = "reserve" /\ GoesTo("markAttempt")
           /\ LineAdded(call.dir, call.line) /\ NoFault
  <2>1. call \in OpenCall /\ Emits /\ call.seq \in Recs
    BY <1>1, <1>5, CallFields DEF BeforeTag, OpenCall, Emits, ShapeInv
  <2>2. call'.at = "markAttempt" /\ call'.dir = call.dir /\ call'.seq = call.seq
    BY <1>1, <1>5, <2>1, GoesToEffect DEF At, ShapeInv
  <2>3. verified' = verified
    BY <1>5, VerbHistory
  <2>4. restored = 0 => verified[call.dir][call.seq] < VerifyAttemptLimit
    BY <1>5 DEF ReserveInv, TriesReserved, BeforeTag
  <2>5. ASSUME restored = 0, jn'[call.dir] # Torn
        PROVE  verified[call.dir][call.seq] < jn'[call.dir].tries[call.seq]
    <3>1. call.line \in Attempt /\ call.line.seq = call.seq /\ call.line \in AnyLine
      BY <1>5 DEF ReserveInv, LinesFit, AnyLine
    <3>2. jn[call.dir] \in JournalFile
      BY <1>1, <2>5, JournalGrows
    <3>3. jn'[call.dir] = Added(jn[call.dir], call.line)
      BY <1>1, <1>5, <2>5 DEF LineAdded, WithLine, ShapeInv, StoreShape
    <3>4. jn'[call.dir].tries[call.seq] = jn[call.dir].tries[call.seq] + 1
      BY <2>1, <3>1, <3>2, <3>3, AddedTries
    <3>5. verified[call.dir][call.seq] <= jn[call.dir].tries[call.seq]
      BY <1>1, <2>1, <2>5, <3>2, TornIsNoFile DEF ReserveInv, TriesReserved
    <3>6. jn[call.dir].tries[call.seq] \in Nat /\ verified[call.dir][call.seq] \in Nat
      BY <1>1, <2>1, <3>2 DEF JournalFile, ShapeInv, StoreShape
    <3> QED
      BY <3>4, <3>5, <3>6
  <2>6. LinesFit'
    BY <2>2 DEF LinesFit
  <2> QED
    BY <1>1, <1>2, <2>2, <2>3, <2>4, <2>5, <2>6 DEF ReserveInv, TriesReserved
<1>6. CASE call.at = "markAttempt" /\ GoesTo("verify")
  <2>1. call \in OpenCall /\ Emits
    BY <1>1, <1>6, CallFields DEF BeforeTag, OpenCall, Emits, ShapeInv
  <2>2. call'.at = "verify" /\ call'.dir = call.dir /\ call'.seq = call.seq
    BY <1>1, <1>6, <2>1, GoesToEffect DEF At, ShapeInv
  <2>3. verified' = verified /\ jn' = jn
    BY <1>6, VerbHistory, VerbWrites DEF OneWrite, JournalWrite, ShapeInv
  <2>4. restored = 0 =>
          /\ verified[call.dir][call.seq] < VerifyAttemptLimit
          /\ jn[call.dir] # Torn => verified[call.dir][call.seq] < jn[call.dir].tries[call.seq]
    BY <1>6 DEF ReserveInv, TriesReserved, BeforeTag
  <2>5. LinesFit'
    BY <2>2 DEF LinesFit
  <2> QED
    BY <1>1, <1>2, <2>2, <2>3, <2>4, <2>5 DEF ReserveInv, TriesReserved
<1> QED
  BY <1>3, <1>4, <1>5, <1>6

LEMMA ReserveStep ==
  ASSUME ShapeInv, ShapeInv', ReserveInv, [StoreNext]_storeVars
  PROVE  ReserveInv'
<1>1. CASE PutBack
  <2>1. restored' # 0 /\ call' = Quiet
    BY <1>1 DEF PutBack, ShapeInv, StoreShape
  <2> QED
    BY <2>1 DEF ReserveInv, TriesReserved, LinesFit, Quiet
<1>2. CASE KeepCopy \/ UNCHANGED storeVars
  <2>1. UNCHANGED <<jn, call, verified, restored>>
    BY <1>2 DEF KeepCopy, storeVars, pairDir, history
  <2> QED
    BY <2>1 DEF ReserveInv, TriesReserved, LinesFit
<1> QED
  BY <1>1, <1>2, ReserveVerb, ReserveVerbStep DEF StoreNext

LEMMA ReserveInit == StoreInit => ReserveInv
<1> SUFFICES ASSUME StoreInit
             PROVE  ReserveInv
  OBVIOUS
<1>1. /\ \A d \in Dirs, s \in Recs : verified[d][s] = 0 /\ jn[d].tries[s] = 0
      /\ call = Quiet
  BY DEF StoreInit, NoTries, FirstJournal
<1> QED
  BY <1>1, StoreSizes DEF ReserveInv, TriesReserved, LinesFit, Quiet, BeforeTag

(* No record is verified more often than the limit, wherever a write is    *)
(* cut off: the reservation is in the journal before the tag is looked at, *)
(* or the journal is one that no verb will load again.                     *)
THEOREM BrowserTriesAreBounded == StoreSpec => []TriesBounded
<1>1. ReserveInv => TriesBounded
  BY DEF ReserveInv, TriesReserved, TriesBounded
<1> QED
  BY <1>1, ShapeInit, ShapeStep, ReserveInit, ReserveStep, PTL DEF StoreSpec
-----------------------------------------------------------------------------
(* The header leads the journal.                                           *)

LoadInv == HeadersLead /\ WholeUnlessCut

LEMMA PositionIsNoUnfreeze == \A l \in Unfreeze \cup Attempt \cup AuthFail : l \notin Position
BY DEF Unfreeze, Attempt, AuthFail, Position

LEMMA LoadVerb ==
  ASSUME ShapeInv, LoadInv, Verb
  PROVE  LoadInv'
<1>1. UNCHANGED <<hd, jn, newline, faults, restored>> /\ NobodyIn
  BY VerbEnters, EnterEffect
<1>2. \A d \in Dirs : hd[d] \in HeadFile /\ hd[d].seq \in Nat /\ hd[d].off \in Nat
  BY <1>1, LoadedTypes, StoreSizes DEF NobodyIn, PairLoads, ShapeInv, HeadFile
<1>3. WholeUnlessCut'
  BY <1>1 DEF LoadInv, WholeUnlessCut, Loads
<1>4. ASSUME NEW d \in Dirs, NEW len \in Lengths, BurnPad(d, len)
      PROVE  LoadInv'
  <2>1. /\ call' \in BurnCall /\ call'.at = "head" /\ call'.dir = d
        /\ call'.seq = hd[d].seq /\ call'.start = hd[d].off
        /\ call'.head.seq = call'.seq + 1 /\ call'.head.off = call'.start + call'.len
        /\ call'.line.seq = call'.seq + 1 /\ call'.line.off = call'.start + call'.len
    BY <1>4, BurnEffect DEF ShapeInv
  <2>2. call'.len \in Nat
    BY <2>1 DEF BurnCall
  <2>3. /\ call'.head.seq >= hd[d].seq /\ call'.head.off >= hd[d].off
        /\ call'.head.seq >= call'.line.seq /\ call'.head.off >= call'.line.off
    BY <1>2, <2>1, <2>2
  <2>4. HeadersLead'
    BY <1>1, <2>1, <2>3 DEF HeadersLead, BeforeTag
  <2> QED
    BY <1>3, <2>4 DEF LoadInv
<1>5. ASSUME NEW d \in Dirs, NEW s \in Recs, NEW start \in 0 .. Capacity, NEW len \in Lengths,
             OpenEnvelope(d, s, start, len)
      PROVE  LoadInv'
  <2>1. /\ call'.at = "reserve" /\ call'.dir = d /\ call'.seq = s /\ call'.start = start
        /\ s >= hd[d].seq /\ start >= hd[d].off
        /\ call'.head.seq = hd[d].seq /\ call'.head.off = hd[d].off
    BY <1>5, OpenEffect DEF ShapeInv
  <2>2. call'.head.seq >= hd[d].seq /\ call'.head.off >= hd[d].off
    BY <1>2, <2>1
  <2>3. HeadersLead'
    BY <1>1, <2>1, <2>2 DEF HeadersLead
  <2> QED
    BY <1>3, <2>3 DEF LoadInv
<1>6. ASSUME NEW d \in Dirs, NEW through \in 0 .. CapacityRecords, NEW offset \in 0 .. Capacity,
             RetirePad(d, through, offset)
      PROVE  LoadInv'
  <2>1. /\ call'.at = "head" /\ call'.dir = d
        /\ call'.head.seq = through + 1 /\ call'.head.off = offset
        /\ call'.line.seq = through + 1 /\ call'.line.off = offset
        /\ through + 1 >= hd[d].seq /\ offset >= hd[d].off
    BY <1>6, RetireEffect DEF ShapeInv
  <2>2. /\ call'.head.seq >= call'.line.seq /\ call'.head.off >= call'.line.off
    BY <2>1, StoreSizes
  <2>3. HeadersLead'
    BY <1>1, <2>1, <2>2 DEF HeadersLead, BeforeTag
  <2> QED
    BY <1>3, <2>3 DEF LoadInv
<1>7. ASSUME NEW d \in Dirs, ClearFrozen(d)
      PROVE  LoadInv'
  <2>1. /\ call' \in UnfreezeCall /\ call'.at = "head" /\ call'.dir = d
        /\ call'.head.seq = hd[d].seq /\ call'.head.off = hd[d].off
    BY <1>7, ClearEffect DEF ShapeInv
  <2>2. call'.line \notin Position
    BY <2>1, PositionIsNoUnfreeze DEF UnfreezeCall
  <2>3. call'.head.seq >= hd[d].seq /\ call'.head.off >= hd[d].off
    BY <1>2, <2>1
  <2>4. HeadersLead'
    BY <1>1, <2>1, <2>2, <2>3 DEF HeadersLead, BeforeTag
  <2> QED
    BY <1>3, <2>4 DEF LoadInv
<1> QED
  BY <1>4, <1>5, <1>6, <1>7 DEF Verb

LEMMA LeadVerbStep ==
  ASSUME ShapeInv, ShapeInv', HeadersLead, VerbStep
  PROVE  HeadersLead'
<1>1. /\ Running /\ call.dir \in Dirs /\ call.head \in HeadFile
      /\ call.head.seq \in Nat /\ call.head.off \in Nat
      /\ \A d \in Dirs : hd[d] \in HeadFile /\ hd[d].seq \in Nat /\ hd[d].off \in Nat
  BY VerbWrites, CallFields, StoreSizes DEF ShapeInv, RunsLoaded, HeadFile
<1>2. call.head.seq >= hd[call.dir].seq /\ call.head.off >= hd[call.dir].off
  BY <1>1 DEF HeadersLead
<1>3. CASE call' = Quiet
  BY <1>3 DEF HeadersLead, Running, Quiet, BeforeTag
<1>4. call' # Quiet => hd' = hd \/ hd' = [hd EXCEPT ![call.dir] = call.head]
  BY VerbWrites DEF OneWrite, HeadWrite, ShapeInv
<1>5. hd \in [Dirs -> HeadFile \cup {Torn}]
  BY DEF ShapeInv, StoreShape
<1>6. call' # Quiet => /\ call.head.seq >= hd'[call.dir].seq
                       /\ call.head.off >= hd'[call.dir].off
  BY <1>1, <1>2, <1>4, <1>5
<1>7. ASSUME NEW at \in {"markAttempt", "verify"},
             call.at \in {"reserve", "markAttempt"}, GoesTo(at)
      PROVE  HeadersLead'
  <2>1. call \in OpenCall /\ Emits
    BY <1>1, <1>7, CallFields DEF BeforeTag, OpenCall, Emits, ShapeInv
  <2>2. /\ call'.at = at /\ call'.dir = call.dir /\ call'.seq = call.seq
        /\ call'.start = call.start /\ call'.head = call.head
    BY <1>1, <1>7, <2>1, GoesToEffect DEF At, ShapeInv
  <2>3. hd' = hd \/ call' = Quiet
    BY <1>7, VerbWrites DEF OneWrite, HeadWrite, ShapeInv
  <2>4. call.seq >= hd[call.dir].seq /\ call.start >= hd[call.dir].off
    BY <1>7 DEF HeadersLead, BeforeTag
  <2> QED
    BY <1>2, <1>3, <2>2, <2>3, <2>4 DEF HeadersLead
<1>8. CASE call.at = "verify" /\ (TagFails \/ TagPasses)
  <2>1. hd' = hd \/ call' = Quiet
    BY <1>8, VerbWrites DEF OneWrite, HeadWrite, ShapeInv
  <2>2. CASE TagFails
    <3>1. /\ call'.at = "failLine" /\ call'.dir = call.dir
          /\ call'.head.seq = call.head.seq /\ call'.head.off = call.head.off
      BY <2>2, TagFailsEffect DEF ShapeInv
    <3> QED
      BY <1>2, <1>3, <2>1, <3>1 DEF HeadersLead, BeforeTag
  <2>3. CASE TagPasses
    <3>1. /\ call'.at = "head" /\ call'.dir = call.dir
          /\ call'.head.seq = call.seq + 1 /\ call'.head.off = call.start + call.len
          /\ call'.line.seq = call.seq + 1 /\ call'.line.off = call.start + call.len
      BY <2>3, TagPassesEffect
    <3>2. call.seq >= hd[call.dir].seq /\ call.start >= hd[call.dir].off
      BY <1>8 DEF HeadersLead, BeforeTag
    <3>3. call.seq \in Nat /\ call.start \in Nat /\ call.len \in Nat
      BY <1>1, <1>8, CallFields, RecsAndBytes DEF BeforeTag, OpenCall, ShapeInv
    <3>4. /\ call'.head.seq >= hd[call.dir].seq /\ call'.head.off >= hd[call.dir].off
          /\ call'.head.seq >= call'.line.seq /\ call'.head.off >= call'.line.off
      BY <1>1, <3>1, <3>2, <3>3
    <3> QED
      BY <1>3, <2>1, <3>1, <3>4 DEF HeadersLead, BeforeTag
  <2> QED
    BY <1>8, <2>2, <2>3
<1>9. ASSUME NEW at \in {"failHead", "mark", "emit"}, GoesTo(at)
      PROVE  HeadersLead'
  <2>1. call'.at = at /\ call'.dir = call.dir /\ call'.head = call.head
    BY <1>1, <1>9, GoesToEffect DEF At, ShapeInv
  <2> QED
    BY <1>3, <1>6, <1>9, <2>1 DEF HeadersLead, BeforeTag
<1>10. CASE /\ call.at = "head" /\ GoesTo("line")
            /\ hd' = [hd EXCEPT ![call.dir] = call.head]
  <2>1. /\ call'.at = "line" /\ call'.dir = call.dir /\ call'.head = call.head
        /\ call'.line = call.line
    BY <1>1, <1>10, GoesToEffect DEF At, ShapeInv
  <2>2. call.line \in Position => call.head.seq >= call.line.seq /\ call.head.off >= call.line.off
    BY <1>10 DEF HeadersLead
  <2>3. hd'[call.dir] = call.head
    BY <1>1, <1>5, <1>10
  <2> QED
    BY <1>3, <1>6, <2>1, <2>2, <2>3 DEF HeadersLead, BeforeTag
<1>11. CASE /\ call.at = "line" /\ call.kind = "clear-freeze" /\ hd' = hd
            /\ \E d \in call.rest : call' = ClearCall(d, call.rest \ {d})
  <2>1. call \in UnfreezeCall /\ call.rest \in SUBSET Dirs
    BY <1>1, <1>11, CallFields DEF UnfreezeCall, ShapeInv
  <2>2. PICK d \in call.rest : call' = ClearCall(d, call.rest \ {d})
    BY <1>11
  <2> DEFINE rest == call.rest \ {d}
  <2>3. /\ d \in Dirs /\ rest \in SUBSET Dirs /\ hd[d] \in HeadFile /\ jn[d] \in JournalFile
    BY <1>1, <1>11, <2>1, <2>2 DEF RunsLoaded, ShapeInv
  <2>4. /\ call' \in UnfreezeCall /\ call'.at = "head" /\ call'.dir = d
        /\ call'.head.seq = hd[d].seq /\ call'.head.off = hd[d].off
    BY <2>2, <2>3, ClearCallFields
  <2>5. call'.line \notin Position
    BY <2>4, PositionIsNoUnfreeze DEF UnfreezeCall
  <2>6. call'.head.seq >= hd[d].seq /\ call'.head.off >= hd[d].off
    BY <1>1, <2>3, <2>4
  <2> QED
    BY <1>11, <2>4, <2>5, <2>6 DEF HeadersLead, BeforeTag
<1> QED
  BY <1>3, <1>7, <1>8, <1>9, <1>10, <1>11, VerbGoesOn

LEMMA WholeVerbStep ==
  ASSUME ShapeInv, ShapeInv', LinesFit, LoadInv, VerbStep
  PROVE  WholeUnlessCut'
<1> SUFFICES ASSUME faults' = 0, restored' = 0, NEW d \in Dirs
             PROVE  newline'[d] /\ Loads(d)'
  BY DEF WholeUnlessCut
<1>1. faults' # faults + 1 /\ faults = 0 /\ restored = 0
  BY VerbWrites DEF OneWrite, ShapeInv, StoreShape
<1>2. newline[d] /\ Loads(d)
  BY <1>1 DEF LoadInv, WholeUnlessCut
<1>3. /\ call.dir \in Dirs /\ call.head \in HeadFile /\ call.line \in AnyLine /\ Running
      /\ hd[d] \in HeadFile /\ jn[d] \in JournalFile
  BY <1>2, VerbWrites, CallFields, LoadedTypes DEF ShapeInv
<1>4. newline' = newline
  BY <1>1, VerbWrites DEF OneWrite, JournalWrite, ShapeInv
<1>5. /\ hd \in [Dirs -> HeadFile \cup {Torn}] /\ jn \in [Dirs -> JournalFile \cup {Torn}]
      /\ jn[d].seq \in Nat /\ jn[d].off \in Nat /\ hd[d].seq \in Nat /\ hd[d].off \in Nat
      /\ call.head.seq \in Nat /\ call.head.off \in Nat
      /\ hd[d].seq >= jn[d].seq /\ hd[d].off >= jn[d].off
  BY <1>2, <1>3, StoreSizes DEF ShapeInv, StoreShape, JournalFile, HeadFile, Loads
<1>6. /\ hd'[d] \in HeadFile
      /\ \/ hd'[d] = hd[d]
         \/ call.at \in {"failHead", "head"} /\ d = call.dir /\ hd'[d] = call.head
  BY <1>1, <1>3, <1>5, VerbWrites DEF OneWrite, HeadWrite, ShapeInv
<1>7. \/ jn'[d] = jn[d]
      \/ /\ d = call.dir /\ call.at \in {"reserve", "failLine", "line"}
         /\ jn'[d] = Added(jn[d], call.line)
  <2>1. jn[d] # Torn /\ newline[d]
    BY <1>2 DEF Loads
  <2>2. \/ jn' = jn
        \/ /\ call.at \in {"reserve", "failLine", "line"}
           /\ jn' = [jn EXCEPT ![call.dir] = WithLine(call.dir, call.line)]
    BY <1>1, VerbWrites DEF OneWrite, JournalWrite, ShapeInv
  <2> QED
    BY <1>3, <1>5, <2>1, <2>2 DEF WithLine
<1>8. jn'[d] \in JournalFile
  BY <1>3, <1>7, AddedType
<1>9. hd'[d].seq >= jn'[d].seq /\ hd'[d].off >= jn'[d].off
  <2>1. CASE jn'[d] = jn[d]
    <3>1. d = call.dir => call.head.seq >= hd[d].seq /\ call.head.off >= hd[d].off
      BY <1>3 DEF LoadInv, HeadersLead
    <3> QED
      BY <1>5, <1>6, <2>1, <3>1
  <2>2. CASE /\ d = call.dir /\ call.at \in {"reserve", "failLine", "line"}
             /\ jn'[d] = Added(jn[d], call.line)
    <3>1. hd'[d] = hd[d]
      BY <1>6, <2>2
    <3>2. call.line \in Position => hd[d].seq >= call.line.seq /\ hd[d].off >= call.line.off
      <4>1. call.at \in {"reserve", "failLine"} => call.line \notin Position
        BY PositionIsNoUnfreeze DEF LinesFit
      <4> QED
        BY <2>2, <4>1 DEF LoadInv, HeadersLead
    <3> QED
      BY <1>3, <1>5, <2>2, <3>1, <3>2, AddedPosition
  <2> QED
    BY <1>7, <2>1, <2>2
<1>10. HeadFits(hd'[d])
  BY <1>6, StoreSizes DEF HeadFits, HeadFile
<1> QED
  BY <1>2, <1>4, <1>6, <1>8, <1>9, <1>10, TornIsNoFile DEF Loads

LEMMA LoadStep ==
  ASSUME ShapeInv, ShapeInv', ReserveInv, LoadInv, [StoreNext]_storeVars
  PROVE  LoadInv'
<1>1. CASE VerbStep
  BY <1>1, LeadVerbStep, WholeVerbStep DEF LoadInv, ReserveInv
<1>2. CASE PutBack
  <2>1. restored' # 0 /\ call' = Quiet
    BY <1>2 DEF PutBack, ShapeInv, StoreShape
  <2> QED
    BY <2>1 DEF LoadInv, HeadersLead, WholeUnlessCut, Running, Quiet, BeforeTag
<1>3. CASE KeepCopy \/ UNCHANGED storeVars
  <2>1. UNCHANGED <<hd, jn, newline, call, faults, restored>>
    BY <1>3 DEF KeepCopy, storeVars, pairDir
  <2> QED
    BY <2>1 DEF LoadInv, HeadersLead, WholeUnlessCut, Running, Loads
<1> QED
  BY <1>1, <1>2, <1>3, LoadVerb DEF StoreNext

LEMMA LoadInit == StoreInit => LoadInv
<1> SUFFICES ASSUME StoreInit
             PROVE  LoadInv
  OBVIOUS
<1>1. FirstHead \in HeadFile /\ FirstJournal \in JournalFile
  BY FirstFiles
<1> QED
  BY <1>1, TornIsNoFile, StoreSizes
     DEF StoreInit, LoadInv, HeadersLead, WholeUnlessCut, Running, Quiet, BeforeTag, Loads,
         HeadFits, FirstHead, FirstJournal

(* A pad on which no write was cut off, and which nobody put back, can     *)
(* always be loaded: no verb writes what the loader refuses.               *)
THEOREM BrowserLoadsUnlessCut == StoreSpec => []LoadsUnlessCut
<1>1. LoadInv => LoadsUnlessCut
  BY DEF LoadInv, WholeUnlessCut, LoadsUnlessCut, PairLoads
<1> QED
  BY <1>1, ShapeInit, ShapeStep, ReserveInit, ReserveStep, LoadInit, LoadStep, PTL
     DEF StoreSpec
-----------------------------------------------------------------------------
(***************************************************************************)
(* The files of one pad, for any containers of it, any counters and any    *)
(* number of verbs cut off: BrowserPair.                                   *)
(***************************************************************************)

Secret(root, h)   == PathOf(root, h, "secret.bin")
HeaderOf(root, h) == PathOf(root, h, "head.json")
Journal(root, h)  == PathOf(root, h, "journal.log")

(* The files that decide what a pad is. The journals, the secret bodies and*)
(* what is staged are beside them.                                         *)
Deciding ==
  {Meta, Marker, Tombstone} \cup {HeaderOf("pad", h) : h \in Halves} \cup WitnessLog

(* What is written to a file.                                              *)
Fits(f) ==
  IF f = Meta THEN Metas
  ELSE IF f = Marker THEN {"importing"}
  ELSE IF f = Tombstone THEN 0 .. MaxCuts
  ELSE IF \E root \in Roots, h \in Halves : f = Secret(root, h) THEN {"whole"}
  ELSE 0 .. TopCounter

WriteItems  == UNION {{Write(f, v) : v \in Fits(f)} : f \in Files \ WitnessLog}
AppendItems == {AppendTo(WitnessOf(h), v) : h \in Halves, v \in 0 .. TopCounter}
RemoveItems == {RemoveFiles(fset) : fset \in SUBSET Files}
ZeroItems   == {Zero(Secret("pad", h)) : h \in Halves}
ShowItems   == [do : {"show"}, half : Halves, val : 0 .. TopCounter]
Items == WriteItems \cup AppendItems \cup RemoveItems \cup ZeroItems \cup ShowItems
           \cup {Commit, Report}

(* Items that leave every deciding file alone.                             *)
BesideItems ==
  {s \in Items : \E f \in Files \ Deciding :
     s = RemoveFiles({f}) \/ \E v \in Fits(f) : s = Write(f, v)}
-----------------------------------------------------------------------------
(* Files and lists.                                                        *)

LEMMA PathsAreFiles ==
  /\ \A root \in Roots, h \in Halves :
       Secret(root, h) \in Files /\ HeaderOf(root, h) \in Files /\ Journal(root, h) \in Files
  /\ Deciding \subseteq Files /\ WitnessLog \subseteq Files
<1>1. ASSUME NEW root \in Roots, NEW h \in Halves, NEW i \in 1 .. 3
      PROVE  PathOf(root, h, Names[i]) \in Files
  BY DEF Files, StoreFiles
<1>2. Names[1] = "secret.bin" /\ Names[2] = "head.json" /\ Names[3] = "journal.log"
  BY DEF Names
<1>3. \A root \in Roots, h \in Halves :
        Secret(root, h) \in Files /\ HeaderOf(root, h) \in Files /\ Journal(root, h) \in Files
  BY <1>1, <1>2 DEF Secret, HeaderOf, Journal
<1>4. WitnessLog \subseteq Files /\ {Meta, Marker, Tombstone} \subseteq Files
  BY DEF Files, WitnessLog
<1> QED
  BY <1>3, <1>4 DEF Deciding, Roots

LEMMA PathsDiffer ==
  /\ Meta # Marker /\ Meta # Tombstone /\ Marker # Tombstone
  /\ \A h \in Halves : WitnessOf(h) \notin {Meta, Marker, Tombstone}
  /\ \A root \in Roots, h \in Halves :
       {Secret(root, h), HeaderOf(root, h), Journal(root, h)}
         \cap ({Meta, Marker, Tombstone} \cup WitnessLog) = {}
  /\ \A r1, r2 \in Roots, h1, h2 \in Halves :
       /\ Secret(r1, h1) # HeaderOf(r2, h2) /\ Journal(r1, h1) # HeaderOf(r2, h2)
       /\ Secret(r1, h1) # Journal(r2, h2)
       /\ HeaderOf(r1, h1) = HeaderOf(r2, h2) => r1 = r2 /\ h1 = h2
  /\ \A h1, h2 \in Halves : WitnessOf(h1) = WitnessOf(h2) => h1 = h2
<1>. USE DEF Meta, Marker, Tombstone, WitnessOf, PathOf, Secret, HeaderOf, Journal
<1>1. /\ Meta # Marker /\ Meta # Tombstone /\ Marker # Tombstone
  OBVIOUS
<1>2. \A h : WitnessOf(h) \notin {Meta, Marker, Tombstone}
  OBVIOUS
<1>3. \A root, h, x : PathOf(root, h, x) \notin {Meta, Marker, Tombstone}
                      /\ \A y : PathOf(root, h, x) # WitnessOf(y)
  OBVIOUS
<1>4. \A r1, h1, x1, r2, h2, x2 : PathOf(r1, h1, x1) = PathOf(r2, h2, x2) =>
        r1 = r2 /\ h1 = h2 /\ x1 = x2
  OBVIOUS
<1>5. \A h1, h2 : WitnessOf(h1) = WitnessOf(h2) => h1 = h2
  OBVIOUS
<1> QED
  BY <1>1, <1>2, <1>3, <1>4, <1>5 DEF WitnessLog

LEMMA Fitting ==
  /\ Fits(Meta) = Metas /\ Fits(Marker) = {"importing"} /\ Fits(Tombstone) = 0 .. MaxCuts
  /\ \A root \in Roots, h \in Halves :
       /\ Fits(Secret(root, h)) = {"whole"}
       /\ Fits(HeaderOf(root, h)) = 0 .. TopCounter /\ Fits(Journal(root, h)) = 0 .. TopCounter
  /\ \A h \in Halves : Fits(WitnessOf(h)) = 0 .. TopCounter
<1>1. \A f \in {Meta, Marker, Tombstone} \cup WitnessLog :
        ~\E root \in Roots, h \in Halves : f = Secret(root, h)
  BY PathsDiffer
<1>2. Fits(Meta) = Metas /\ Fits(Marker) = {"importing"} /\ Fits(Tombstone) = 0 .. MaxCuts
  BY PathsDiffer DEF Fits
<1>3. \A root \in Roots, h \in Halves : Fits(Secret(root, h)) = {"whole"}
  BY PathsDiffer DEF Fits
<1>4. ASSUME NEW root \in Roots, NEW h \in Halves
      PROVE  Fits(HeaderOf(root, h)) = 0 .. TopCounter /\ Fits(Journal(root, h)) = 0 .. TopCounter
  BY PathsDiffer DEF Fits
<1>5. ASSUME NEW h \in Halves PROVE Fits(WitnessOf(h)) = 0 .. TopCounter
  BY <1>1, PathsDiffer DEF Fits, WitnessLog
<1> QED
  BY <1>2, <1>3, <1>4, <1>5

LEMMA BesideAreFiles ==
  \A h \in Halves : Secret("pad", h) \in Files \ Deciding /\ Journal("pad", h) \in Files \ Deciding
BY PathsAreFiles, PathsDiffer DEF Deciding, Roots

(* C is m items of A followed by n of B.                                   *)
Spliced(C, m, A, n, B) ==
  /\ Len(C) = m + n
  /\ \A i \in 1 .. m : C[i] = A[i]
  /\ \A i \in m + 1 .. m + n : C[i] = B[i - m]

LEMMA Concatenated ==
  ASSUME NEW S, NEW A \in Seq(S), NEW B \in Seq(S), NEW C, C = A \o B
  PROVE  C \in Seq(S) /\ Spliced(C, Len(A), A, Len(B), B)
BY DEF Spliced

LEMMA Joined ==
  ASSUME NEW S, NEW A \in Seq(S), NEW B \in Seq(S), NEW C, C = A \o B,
         NEW m \in Nat, NEW n \in Nat, Len(A) = m, Len(B) = n
  PROVE  C \in Seq(S) /\ Spliced(C, m, A, n, B)
BY Concatenated

LEMMA WritesAreItems ==
  \A s : s \in WriteItems <=> \E f \in Files \ WitnessLog : \E v \in Fits(f) : s = Write(f, v)
BY DEF WriteItems

LEMMA BesideItemsAre ==
  ASSUME NEW f \in Files \ Deciding
  PROVE  RemoveFiles({f}) \in BesideItems /\ \A v \in Fits(f) : Write(f, v) \in BesideItems
<1>1. f \in Files \ WitnessLog /\ RemoveFiles({f}) \in RemoveItems
  BY DEF Deciding, RemoveItems
<1>2. RemoveFiles({f}) \in Items /\ \A v \in Fits(f) : Write(f, v) \in Items
  BY <1>1, WritesAreItems DEF Items
<1> QED
  BY <1>2 DEF BesideItems
LEMMA StagedAreBeside ==
  \A h \in Halves : {Secret("importing", h), HeaderOf("importing", h), Journal("importing", h)}
                      \subseteq Files \ Deciding
BY PathsAreFiles, PathsDiffer DEF Deciding, Roots

LEMMA Listed ==
  ASSUME NEW S
  PROVE  /\ \A a, b, c \in S : <<a, b, c>> \in Seq(S)
         /\ \A a, b, c, d, e, f \in S : <<a, b, c, d, e, f>> \in Seq(S)
OBVIOUS
-----------------------------------------------------------------------------
(* The lists of the verbs.                                                 *)

LEMMA RemovalList ==
  /\ RemoveStoreFiles("pad") \in Seq(Items) /\ Len(RemoveStoreFiles("pad")) = 6
  /\ RemoveStoreFiles("pad")[2] = RemoveFiles({HeaderOf("pad", "a-to-b")})
  /\ RemoveStoreFiles("pad")[5] = RemoveFiles({HeaderOf("pad", "b-to-a")})
  /\ \A i \in {1, 3, 4, 6} : RemoveStoreFiles("pad")[i] \in BesideItems
  /\ RemoveStoreFiles("importing") \in Seq(BesideItems)
  /\ Len(RemoveStoreFiles("importing")) = 6
<1>1. \A f \in Files : RemoveFiles({f}) \in Items
  BY DEF RemoveItems, Items
<1>2. "a-to-b" \in Halves /\ "b-to-a" \in Halves /\ "pad" \in Roots /\ "importing" \in Roots
  BY DEF Halves, Roots
<1>3. \A h \in Halves : /\ RemoveFiles({Secret("pad", h)}) \in BesideItems
                        /\ RemoveFiles({Journal("pad", h)}) \in BesideItems
                        /\ RemoveFiles({HeaderOf("pad", h)}) \in Items
  BY <1>1, <1>2, PathsAreFiles, BesideAreFiles, BesideItemsAre
<1>4. \A h \in Halves : /\ RemoveFiles({Secret("importing", h)}) \in BesideItems
                        /\ RemoveFiles({HeaderOf("importing", h)}) \in BesideItems
                        /\ RemoveFiles({Journal("importing", h)}) \in BesideItems
  BY <1>2, StagedAreBeside, BesideItemsAre
<1>5. BesideItems \subseteq Items
  BY DEF BesideItems
<1>6. \A root : RemoveStoreFiles(root) =
        << RemoveFiles({Secret(root, "a-to-b")}), RemoveFiles({HeaderOf(root, "a-to-b")}),
           RemoveFiles({Journal(root, "a-to-b")}), RemoveFiles({Secret(root, "b-to-a")}),
           RemoveFiles({HeaderOf(root, "b-to-a")}), RemoveFiles({Journal(root, "b-to-a")}) >>
  BY DEF RemoveStoreFiles, Secret, HeaderOf, Journal
<1>7. RemoveStoreFiles("importing") \in Seq(BesideItems)
  BY <1>2, <1>4, <1>6, Listed
<1>8. RemoveStoreFiles("pad") \in Seq(Items)
  BY <1>2, <1>3, <1>5, <1>6, Listed
<1>9. \A root : Len(RemoveStoreFiles(root)) = 6
  BY <1>6
<1>10. /\ RemoveStoreFiles("pad")[2] = RemoveFiles({HeaderOf("pad", "a-to-b")})
       /\ RemoveStoreFiles("pad")[5] = RemoveFiles({HeaderOf("pad", "b-to-a")})
  BY <1>6
<1>11. \A i \in {1, 3, 4, 6} : RemoveStoreFiles("pad")[i] \in BesideItems
  <2>1. /\ RemoveStoreFiles("pad")[1] = RemoveFiles({Secret("pad", "a-to-b")})
        /\ RemoveStoreFiles("pad")[3] = RemoveFiles({Journal("pad", "a-to-b")})
        /\ RemoveStoreFiles("pad")[4] = RemoveFiles({Secret("pad", "b-to-a")})
        /\ RemoveStoreFiles("pad")[6] = RemoveFiles({Journal("pad", "b-to-a")})
    BY <1>6
  <2> QED
    BY <1>2, <1>3, <2>1
<1> QED
  BY <1>7, <1>8, <1>9, <1>10, <1>11

LEMMA CopyList ==
  ASSUME NEW b \in [Halves -> 0 .. TopCounter]
  PROVE  /\ CopyBundle("pad", b) \in Seq(Items) /\ Len(CopyBundle("pad", b)) = 6
         /\ CopyBundle("pad", b)[2] = Write(HeaderOf("pad", "a-to-b"), b["a-to-b"])
         /\ CopyBundle("pad", b)[5] = Write(HeaderOf("pad", "b-to-a"), b["b-to-a"])
         /\ \A i \in {1, 3, 4, 6} : CopyBundle("pad", b)[i] \in BesideItems
         /\ CopyBundle("importing", b) \in Seq(BesideItems)
         /\ Len(CopyBundle("importing", b)) = 6
<1>1. "a-to-b" \in Halves /\ "b-to-a" \in Halves /\ "pad" \in Roots /\ "importing" \in Roots
  BY DEF Halves, Roots
<1>2. \A h \in Halves : /\ Write(Secret("pad", h), "whole") \in BesideItems
                        /\ Write(Journal("pad", h), b[h]) \in BesideItems
  BY <1>1, BesideAreFiles, BesideItemsAre, Fitting
<1>3. \A h \in Halves : Write(HeaderOf("pad", h), b[h]) \in Items
  <2> TAKE h \in Halves
  <2>1. HeaderOf("pad", h) \in Files \ WitnessLog
    BY <1>1, PathsAreFiles, PathsDiffer
  <2>2. b[h] \in Fits(HeaderOf("pad", h))
    BY <1>1, Fitting
  <2> QED
    BY <2>1, <2>2, WritesAreItems DEF Items
<1>4. \A h \in Halves : /\ Write(Secret("importing", h), "whole") \in BesideItems
                        /\ Write(HeaderOf("importing", h), b[h]) \in BesideItems
                        /\ Write(Journal("importing", h), b[h]) \in BesideItems
  BY <1>1, StagedAreBeside, BesideItemsAre, Fitting
<1>5. BesideItems \subseteq Items
  BY DEF BesideItems
<1>6. \A root, h, n : StoreWrites(root, h, n) =
        << Write(Secret(root, h), "whole"), Write(HeaderOf(root, h), n), Write(Journal(root, h), n) >>
  BY DEF StoreWrites, Secret, HeaderOf, Journal
<1> DEFINE A(root, h) == << Write(Secret(root, h), "whole"), Write(HeaderOf(root, h), b[h]),
                            Write(Journal(root, h), b[h]) >>
<1>7. \A root : CopyBundle(root, b) = A(root, "a-to-b") \o A(root, "b-to-a")
  BY <1>6 DEF CopyBundle
<1>8. \A h \in Halves : A("importing", h) \in Seq(BesideItems) /\ Len(A("importing", h)) = 3
  BY <1>4, Listed
<1>9. \A h \in Halves : A("pad", h) \in Seq(Items) /\ Len(A("pad", h)) = 3
  BY <1>2, <1>3, <1>5, Listed
<1>10. \A h \in Halves : /\ A("pad", h)[1] \in BesideItems /\ A("pad", h)[3] \in BesideItems
                         /\ A("pad", h)[2] = Write(HeaderOf("pad", h), b[h])
  BY <1>2
<1> HIDE DEF A
<1>11. CopyBundle("importing", b) \in Seq(BesideItems) /\ Len(CopyBundle("importing", b)) = 6
  <2> DEFINE C == CopyBundle("importing", b)
  <2>1. C \in Seq(BesideItems) /\ Spliced(C, 3, A("importing", "a-to-b"), 3, A("importing", "b-to-a"))
    BY <1>1, <1>7, <1>8, Joined
  <2> HIDE DEF C
  <2>2. C \in Seq(BesideItems) /\ Len(C) = 6
    BY <2>1 DEF Spliced
  <2> QED
    BY <2>2 DEF C
<1>12. CopyBundle("pad", b) \in Seq(Items)
       /\ Spliced(CopyBundle("pad", b), 3, A("pad", "a-to-b"), 3, A("pad", "b-to-a"))
  BY <1>1, <1>7, <1>9, Joined
<1>13. Len(CopyBundle("pad", b)) = 6
  BY <1>12 DEF Spliced
<1>14. /\ CopyBundle("pad", b)[1] = A("pad", "a-to-b")[1] /\ CopyBundle("pad", b)[2] = A("pad", "a-to-b")[2]
       /\ CopyBundle("pad", b)[3] = A("pad", "a-to-b")[3] /\ CopyBundle("pad", b)[4] = A("pad", "b-to-a")[1]
       /\ CopyBundle("pad", b)[5] = A("pad", "b-to-a")[2] /\ CopyBundle("pad", b)[6] = A("pad", "b-to-a")[3]
  BY <1>12 DEF Spliced
<1> QED
  BY <1>1, <1>10, <1>11, <1>12, <1>13, <1>14

(* How many records the bootstrap of a witness makes.                      *)
Records(kind) == IF kind = "browser-none" THEN 0 ELSE 2

LEMMA BootstrapList ==
  ASSUME NEW b \in [Halves -> 0 .. TopCounter], NEW kind \in Kinds
  PROVE  /\ Bootstrap(kind, b) \in Seq(Items) /\ Len(Bootstrap(kind, b)) = Records(kind)
         /\ kind # "browser-none" =>
              /\ Bootstrap(kind, b)[1] = AppendTo(WitnessOf("a-to-b"), b["a-to-b"])
              /\ Bootstrap(kind, b)[2] = AppendTo(WitnessOf("b-to-a"), b["b-to-a"])
<1>1. "a-to-b" \in Halves /\ "b-to-a" \in Halves
  BY DEF Halves
<1>2. /\ AppendTo(WitnessOf("a-to-b"), b["a-to-b"]) \in Items
      /\ AppendTo(WitnessOf("b-to-a"), b["b-to-a"]) \in Items
  BY <1>1 DEF AppendItems, Items
<1>3. CASE kind = "browser-none"
  <2>1. Bootstrap(kind, b) = <<>>
    BY <1>3 DEF Bootstrap
  <2>2. <<>> \in Seq(Items) /\ Len(<<>>) = 0
    OBVIOUS
  <2>3. Records(kind) = 0
    BY <1>3 DEF Records
  <2> QED
    BY <1>3, <2>1, <2>2, <2>3
<1>4. CASE kind # "browser-none"
  <2>1. Bootstrap(kind, b) = << AppendTo(WitnessOf("a-to-b"), b["a-to-b"]),
                                AppendTo(WitnessOf("b-to-a"), b["b-to-a"]) >>
    BY <1>4 DEF Bootstrap
  <2> QED
    BY <1>2, <1>4, <2>1 DEF Records
<1> QED
  BY <1>3, <1>4

LEMMA GenList ==
  ASSUME NEW kind \in Kinds
  PROVE  LET W == GenWrites(kind) IN
         /\ W \in Seq(Items) /\ Len(W) = 7 + Records(kind)
         /\ W[2] = Write(HeaderOf("pad", "a-to-b"), 0) /\ W[5] = Write(HeaderOf("pad", "b-to-a"), 0)
         /\ \A i \in {1, 3, 4, 6} : W[i] \in BesideItems
         /\ kind # "browser-none" => /\ W[7] = AppendTo(WitnessOf("a-to-b"), 0)
                                     /\ W[8] = AppendTo(WitnessOf("b-to-a"), 0)
         /\ W[7 + Records(kind)] = Write(Meta, MetaOf(kind, "generated-here"))
<1> DEFINE A == CopyBundle("pad", Fresh0)
           B == Bootstrap(kind, Fresh0)
           C == << Write(Meta, MetaOf(kind, "generated-here")) >>
           X == A \o B
           W == GenWrites(kind)
<1>1. Fresh0 \in [Halves -> 0 .. TopCounter] /\ Fresh0["a-to-b"] = 0 /\ Fresh0["b-to-a"] = 0
  BY PairSizes DEF Fresh0, Halves
<1>2. Write(Meta, MetaOf(kind, "generated-here")) \in Items
  <2>1. Meta \in Files \ WitnessLog
    BY PathsAreFiles, PathsDiffer DEF Deciding, WitnessLog
  <2>2. MetaOf(kind, "generated-here") \in Fits(Meta)
    BY Fitting DEF MetaOf, Metas
  <2> QED
    BY <2>1, <2>2, WritesAreItems DEF Items
<1>3. C \in Seq(Items) /\ Len(C) = 1 /\ C[1] = Write(Meta, MetaOf(kind, "generated-here"))
  BY <1>2
<1>4. W = X \o C
  BY <1>1 DEF GenWrites, CopyBundle
<1>5. /\ A \in Seq(Items) /\ Len(A) = 6
      /\ A[2] = Write(HeaderOf("pad", "a-to-b"), 0) /\ A[5] = Write(HeaderOf("pad", "b-to-a"), 0)
      /\ \A i \in {1, 3, 4, 6} : A[i] \in BesideItems
  BY <1>1, CopyList
<1>6. /\ B \in Seq(Items) /\ Len(B) = Records(kind)
      /\ kind # "browser-none" => /\ B[1] = AppendTo(WitnessOf("a-to-b"), 0)
                                  /\ B[2] = AppendTo(WitnessOf("b-to-a"), 0)
  BY <1>1, BootstrapList
<1> HIDE DEF A, B, C, W
<1>7. CASE kind = "browser-none"
  <2>1. Records(kind) = 0
    BY <1>7 DEF Records
  <2>2. X \in Seq(Items) /\ Spliced(X, 6, A, 0, B)
    <3>1. A \in Seq(Items) /\ Len(A) = 6 /\ B \in Seq(Items) /\ Len(B) = 0
      BY <1>5, <1>6, <2>1
    <3>2. 6 \in Nat /\ 0 \in Nat
      OBVIOUS
    <3> QED
      BY <3>1, <3>2, Joined
  <2> HIDE DEF X
  <2>3. Len(X) = 6 /\ \A i \in 1 .. 6 : X[i] = A[i]
    BY <2>2 DEF Spliced
  <2>4. W \in Seq(Items) /\ Spliced(W, 6, X, 1, C)
    <3>1. C \in Seq(Items) /\ Len(C) = 1 /\ X \in Seq(Items) /\ Len(X) = 6 /\ W = X \o C
      BY <1>3, <1>4, <2>2, <2>3
    <3>2. 6 \in Nat /\ 1 \in Nat
      OBVIOUS
    <3> QED
      BY <3>1, <3>2, Joined
  <2>5. Len(W) = 7 /\ W[7] = C[1] /\ \A i \in 1 .. 6 : W[i] = X[i]
    BY <2>4 DEF Spliced
  <2>6. \A i \in 1 .. 6 : W[i] = A[i]
    BY <2>3, <2>5
  <2>7. 7 + Records(kind) = 7
    BY <2>1
  <2>8. W[7 + Records(kind)] = Write(Meta, MetaOf(kind, "generated-here"))
    BY <1>3, <2>5, <2>7
  <2>9. /\ W[2] = Write(HeaderOf("pad", "a-to-b"), 0) /\ W[5] = Write(HeaderOf("pad", "b-to-a"), 0)
        /\ \A i \in {1, 3, 4, 6} : W[i] \in BesideItems
    BY <1>5, <2>6
  <2> QED
    BY <1>7, <2>4, <2>5, <2>7, <2>8, <2>9 DEF W
<1>8. CASE kind # "browser-none"
  <2>1. Records(kind) = 2
    BY <1>8 DEF Records
  <2>2. X \in Seq(Items) /\ Spliced(X, 6, A, 2, B)
    BY <1>5, <1>6, <2>1, Joined
  <2> HIDE DEF X
  <2>3. Len(X) = 8 /\ X[7] = B[1] /\ X[8] = B[2] /\ \A i \in 1 .. 6 : X[i] = A[i]
    BY <2>2 DEF Spliced
  <2>4. W \in Seq(Items) /\ Spliced(W, 8, X, 1, C)
    <3>1. C \in Seq(Items) /\ Len(C) = 1 /\ X \in Seq(Items) /\ Len(X) = 8 /\ W = X \o C
      BY <1>3, <1>4, <2>2, <2>3
    <3>2. 8 \in Nat /\ 1 \in Nat
      OBVIOUS
    <3> QED
      BY <3>1, <3>2, Joined
  <2>5. Len(W) = 9 /\ W[9] = C[1] /\ \A i \in 1 .. 8 : W[i] = X[i]
    BY <2>4 DEF Spliced
  <2>6. \A i \in 1 .. 6 : W[i] = A[i]
    BY <2>3, <2>5
  <2>7. 7 + Records(kind) = 9
    BY <2>1
  <2>8. W[7 + Records(kind)] = Write(Meta, MetaOf(kind, "generated-here"))
    BY <1>3, <2>5, <2>7
  <2>9. /\ W[2] = Write(HeaderOf("pad", "a-to-b"), 0) /\ W[5] = Write(HeaderOf("pad", "b-to-a"), 0)
        /\ \A i \in {1, 3, 4, 6} : W[i] \in BesideItems
    BY <1>5, <2>6
  <2>10. W[7] = B[1] /\ W[8] = B[2]
    BY <2>3, <2>5
  <2> QED
    BY <1>6, <1>8, <2>4, <2>5, <2>7, <2>8, <2>9, <2>10 DEF W
<1> QED
  BY <1>7, <1>8

LEMMA BesideLists ==
  ASSUME NEW A \in Seq(BesideItems)
  PROVE  A \in Seq(Items) /\ \A i \in 1 .. Len(A) : A[i] \in BesideItems
<1>1. BesideItems \subseteq Items
  BY DEF BesideItems
<1>2. A \in Seq(Items)
  BY <1>1
<1> QED
  BY <1>2

LEMMA DiscardList ==
  LET D == DiscardIncompleteImport IN
  /\ D \in Seq(Items) /\ Len(D) = 15
  /\ D[2] = RemoveFiles({HeaderOf("pad", "a-to-b")}) /\ D[5] = RemoveFiles({HeaderOf("pad", "b-to-a")})
  /\ D[7] = RemoveFiles({Meta}) /\ D[8] = RemoveFiles({Marker}) /\ D[9] = RemoveFiles(WitnessLog)
  /\ \A i \in {1, 3, 4, 6} \cup 10 .. 15 : D[i] \in BesideItems
<1> DEFINE A == RemoveStoreFiles("pad")
           B == << RemoveFiles({Meta}), RemoveFiles({Marker}), RemoveFiles(WitnessLog) >>
           C == RemoveStoreFiles("importing")
           X == A \o B
           D == DiscardIncompleteImport
<1>1. RemoveFiles({Meta}) \in Items /\ RemoveFiles({Marker}) \in Items /\ RemoveFiles(WitnessLog) \in Items
  BY PathsAreFiles DEF Deciding, RemoveItems, Items
<1>2. B \in Seq(Items) /\ Len(B) = 3
  BY <1>1, Listed
<1>3. B[1] = RemoveFiles({Meta}) /\ B[2] = RemoveFiles({Marker}) /\ B[3] = RemoveFiles(WitnessLog)
  OBVIOUS
<1>4. C \in Seq(Items) /\ Len(C) = 6 /\ \A i \in 1 .. 6 : C[i] \in BesideItems
  BY RemovalList, BesideLists
<1>5. D = X \o C
  BY DEF DiscardIncompleteImport
<1>6. 3 \in Nat /\ 6 \in Nat /\ 9 \in Nat
  OBVIOUS
<1>7. A \in Seq(Items) /\ Len(A) = 6
  BY RemovalList
<1>8. /\ A[2] = RemoveFiles({HeaderOf("pad", "a-to-b")}) /\ A[5] = RemoveFiles({HeaderOf("pad", "b-to-a")})
      /\ \A i \in {1, 3, 4, 6} : A[i] \in BesideItems
  BY RemovalList
<1> HIDE DEF A, B, C, D
<1>9. X \in Seq(Items) /\ Spliced(X, 6, A, 3, B)
  BY <1>2, <1>6, <1>7, Joined
<1> HIDE DEF X
<1>10. Len(X) = 9 /\ (\A i \in 1 .. 6 : X[i] = A[i]) /\ X[7] = B[1] /\ X[8] = B[2] /\ X[9] = B[3]
  BY <1>9 DEF Spliced
<1>11. D \in Seq(Items) /\ Spliced(D, 9, X, 6, C)
  BY <1>4, <1>5, <1>6, <1>9, <1>10, Joined
<1>12. Len(D) = 15 /\ \A i \in 1 .. 9 : D[i] = X[i]
  BY <1>11 DEF Spliced
<1>13. \A i \in 10 .. 15 : D[i] \in BesideItems
  <2>1. /\ D[10] = C[1] /\ D[11] = C[2] /\ D[12] = C[3] /\ D[13] = C[4] /\ D[14] = C[5] /\ D[15] = C[6]
    BY <1>11 DEF Spliced
  <2>2. \A i \in 10 .. 15 : i = 10 \/ i = 11 \/ i = 12 \/ i = 13 \/ i = 14 \/ i = 15
    OBVIOUS
  <2> QED
    BY <1>4, <2>1, <2>2
<1>14. \A i \in {1, 3, 4, 6} : D[i] \in BesideItems
  BY <1>8, <1>10, <1>12
<1>15. /\ D[2] = RemoveFiles({HeaderOf("pad", "a-to-b")}) /\ D[5] = RemoveFiles({HeaderOf("pad", "b-to-a")})
       /\ D[7] = RemoveFiles({Meta}) /\ D[8] = RemoveFiles({Marker}) /\ D[9] = RemoveFiles(WitnessLog)
  BY <1>3, <1>8, <1>10, <1>12
<1> QED
  BY <1>11, <1>12, <1>13, <1>14, <1>15 DEF D

(* What an import does once the bundle is found to be whole.               *)
Installs(b, kind) ==
  << Write(Marker, "importing") >> \o CopyBundle("pad", b) \o Bootstrap(kind, b)
    \o << Write(Meta, MetaOf(kind, "imported")), Commit >> \o RemoveStoreFiles("importing")

LEMMA InstallList ==
  ASSUME NEW b \in [Halves -> 0 .. TopCounter], NEW kind \in Kinds
  PROVE  LET W == Installs(b, kind) IN
         /\ W \in Seq(Items) /\ Len(W) = 15 + Records(kind)
         /\ W[1] = Write(Marker, "importing")
         /\ W[3] = Write(HeaderOf("pad", "a-to-b"), b["a-to-b"])
         /\ W[6] = Write(HeaderOf("pad", "b-to-a"), b["b-to-a"])
         /\ \A i \in {2, 4, 5, 7} : W[i] \in BesideItems
         /\ kind # "browser-none" => /\ W[8] = AppendTo(WitnessOf("a-to-b"), b["a-to-b"])
                                     /\ W[9] = AppendTo(WitnessOf("b-to-a"), b["b-to-a"])
         /\ W[8 + Records(kind)] = Write(Meta, MetaOf(kind, "imported"))
         /\ W[9 + Records(kind)] = Commit
         /\ \A i \in 10 + Records(kind) .. 15 + Records(kind) : W[i] \in BesideItems
<1> DEFINE M == << Write(Marker, "importing") >>
           A == CopyBundle("pad", b)
           B == Bootstrap(kind, b)
           C == << Write(Meta, MetaOf(kind, "imported")), Commit >>
           R == RemoveStoreFiles("importing")
           X == M \o A
           Y == X \o B
           Z == Y \o C
           W == Installs(b, kind)
<1>1. Write(Marker, "importing") \in Items
  <2>1. Marker \in Files \ WitnessLog /\ "importing" \in Fits(Marker)
    BY PathsAreFiles, PathsDiffer, Fitting DEF Deciding, WitnessLog
  <2> QED
    BY <2>1, WritesAreItems DEF Items
<1>2. Write(Meta, MetaOf(kind, "imported")) \in Items /\ Commit \in Items
  <2>1. Meta \in Files \ WitnessLog
    BY PathsAreFiles, PathsDiffer DEF Deciding, WitnessLog
  <2>2. MetaOf(kind, "imported") \in Fits(Meta)
    BY Fitting DEF MetaOf, Metas
  <2> QED
    BY <2>1, <2>2, WritesAreItems DEF Items
<1>3. M \in Seq(Items) /\ Len(M) = 1 /\ M[1] = Write(Marker, "importing")
  BY <1>1
<1>4. /\ C \in Seq(Items) /\ Len(C) = 2
      /\ C[1] = Write(Meta, MetaOf(kind, "imported")) /\ C[2] = Commit
  BY <1>2
<1>5. A \in Seq(Items) /\ Len(A) = 6
  BY CopyList
<1>6. /\ A[2] = Write(HeaderOf("pad", "a-to-b"), b["a-to-b"])
      /\ A[5] = Write(HeaderOf("pad", "b-to-a"), b["b-to-a"])
      /\ A[1] \in BesideItems /\ A[3] \in BesideItems /\ A[4] \in BesideItems /\ A[6] \in BesideItems
  BY CopyList
<1>7. /\ B \in Seq(Items) /\ Len(B) = Records(kind)
      /\ kind # "browser-none" => /\ B[1] = AppendTo(WitnessOf("a-to-b"), b["a-to-b"])
                                  /\ B[2] = AppendTo(WitnessOf("b-to-a"), b["b-to-a"])
  BY BootstrapList
<1>8. R \in Seq(Items) /\ Len(R) = 6 /\ \A i \in 1 .. 6 : R[i] \in BesideItems
  BY RemovalList, BesideLists
<1>9. W = Z \o R
  BY DEF Installs
<1>10. /\ 0 \in Nat /\ 1 \in Nat /\ 2 \in Nat /\ 6 \in Nat /\ 7 \in Nat
       /\ 9 \in Nat /\ 11 \in Nat
  OBVIOUS
<1> HIDE DEF M, A, B, C, R, W
<1>11. X \in Seq(Items) /\ Spliced(X, 1, M, 6, A)
  BY <1>3, <1>5, <1>10, Joined
<1> HIDE DEF X
<1>12. /\ Len(X) = 7 /\ X[1] = M[1] /\ X[2] = A[1] /\ X[3] = A[2] /\ X[4] = A[3]
       /\ X[5] = A[4] /\ X[6] = A[5] /\ X[7] = A[6]
  BY <1>11 DEF Spliced
<1>13. /\ X[1] = Write(Marker, "importing")
       /\ X[3] = Write(HeaderOf("pad", "a-to-b"), b["a-to-b"])
       /\ X[6] = Write(HeaderOf("pad", "b-to-a"), b["b-to-a"])
       /\ X[2] \in BesideItems /\ X[4] \in BesideItems /\ X[5] \in BesideItems /\ X[7] \in BesideItems
  BY <1>3, <1>6, <1>12
<1>14. CASE kind = "browser-none"
  <2>1. /\ Records(kind) = 0 /\ 15 + Records(kind) = 15 /\ 8 + Records(kind) = 8
        /\ 9 + Records(kind) = 9 /\ 10 + Records(kind) = 10
    BY <1>14 DEF Records
  <2>2. Len(B) = 0
    BY <1>7, <2>1
  <2>3. Y \in Seq(Items) /\ Spliced(Y, 7, X, 0, B)
    BY <1>7, <1>10, <1>11, <1>12, <2>2, Joined
  <2> HIDE DEF Y
  <2>4. Len(Y) = 7 /\ \A i \in 1 .. 7 : Y[i] = X[i]
    BY <2>3 DEF Spliced
  <2>5. Z \in Seq(Items) /\ Spliced(Z, 7, Y, 2, C)
    BY <1>4, <1>10, <2>3, <2>4, Joined
  <2> HIDE DEF Z
  <2>6. Len(Z) = 9 /\ (\A i \in 1 .. 7 : Z[i] = Y[i]) /\ Z[8] = C[1] /\ Z[9] = C[2]
    BY <2>5 DEF Spliced
  <2>7. W \in Seq(Items) /\ Spliced(W, 9, Z, 6, R)
    BY <1>8, <1>9, <1>10, <2>5, <2>6, Joined
  <2>8. /\ Len(W) = 15 /\ (\A i \in 1 .. 9 : W[i] = Z[i]) /\ W[10] = R[1] /\ W[11] = R[2]
        /\ W[12] = R[3] /\ W[13] = R[4] /\ W[14] = R[5] /\ W[15] = R[6]
    BY <2>7 DEF Spliced
  <2>9. \A i \in 10 .. 15 : W[i] \in BesideItems
    <3>1. \A i \in 10 .. 15 : i = 10 \/ i = 11 \/ i = 12 \/ i = 13 \/ i = 14 \/ i = 15
      OBVIOUS
    <3> QED
      BY <1>8, <2>8, <3>1
  <2>10. \A i \in 1 .. 7 : W[i] = X[i]
    BY <2>4, <2>6, <2>8
  <2>11. W[8] = Write(Meta, MetaOf(kind, "imported")) /\ W[9] = Commit
    BY <1>4, <2>6, <2>8
  <2>12. /\ W[1] = Write(Marker, "importing")
         /\ W[3] = Write(HeaderOf("pad", "a-to-b"), b["a-to-b"])
         /\ W[6] = Write(HeaderOf("pad", "b-to-a"), b["b-to-a"])
         /\ \A i \in {2, 4, 5, 7} : W[i] \in BesideItems
    BY <1>13, <2>10
  <2> QED
    BY <1>14, <2>1, <2>7, <2>8, <2>9, <2>11, <2>12 DEF W
<1>15. CASE kind # "browser-none"
  <2>1. /\ Records(kind) = 2 /\ 15 + Records(kind) = 17 /\ 8 + Records(kind) = 10
        /\ 9 + Records(kind) = 11 /\ 10 + Records(kind) = 12
    BY <1>15 DEF Records
  <2>2. Len(B) = 2
    BY <1>7, <2>1
  <2>3. Y \in Seq(Items) /\ Spliced(Y, 7, X, 2, B)
    BY <1>7, <1>10, <1>11, <1>12, <2>2, Joined
  <2> HIDE DEF Y
  <2>4. Len(Y) = 9 /\ (\A i \in 1 .. 7 : Y[i] = X[i]) /\ Y[8] = B[1] /\ Y[9] = B[2]
    BY <2>3 DEF Spliced
  <2>5. Z \in Seq(Items) /\ Spliced(Z, 9, Y, 2, C)
    BY <1>4, <1>10, <2>3, <2>4, Joined
  <2> HIDE DEF Z
  <2>6. Len(Z) = 11 /\ (\A i \in 1 .. 9 : Z[i] = Y[i]) /\ Z[10] = C[1] /\ Z[11] = C[2]
    BY <2>5 DEF Spliced
  <2>7. W \in Seq(Items) /\ Spliced(W, 11, Z, 6, R)
    BY <1>8, <1>9, <1>10, <2>5, <2>6, Joined
  <2>8. /\ Len(W) = 17 /\ (\A i \in 1 .. 11 : W[i] = Z[i]) /\ W[12] = R[1] /\ W[13] = R[2]
        /\ W[14] = R[3] /\ W[15] = R[4] /\ W[16] = R[5] /\ W[17] = R[6]
    BY <2>7 DEF Spliced
  <2>9. \A i \in 12 .. 17 : W[i] \in BesideItems
    <3>1. \A i \in 12 .. 17 : i = 12 \/ i = 13 \/ i = 14 \/ i = 15 \/ i = 16 \/ i = 17
      OBVIOUS
    <3> QED
      BY <1>8, <2>8, <3>1
  <2>10. (\A i \in 1 .. 7 : W[i] = X[i]) /\ W[8] = B[1] /\ W[9] = B[2]
    BY <2>4, <2>6, <2>8
  <2>11. W[10] = Write(Meta, MetaOf(kind, "imported")) /\ W[11] = Commit
    BY <1>4, <2>6, <2>8
  <2>12. /\ W[1] = Write(Marker, "importing")
         /\ W[3] = Write(HeaderOf("pad", "a-to-b"), b["a-to-b"])
         /\ W[6] = Write(HeaderOf("pad", "b-to-a"), b["b-to-a"])
         /\ \A i \in {2, 4, 5, 7} : W[i] \in BesideItems
    BY <1>13, <2>10
  <2> QED
    BY <1>7, <1>15, <2>1, <2>7, <2>8, <2>9, <2>10, <2>11, <2>12 DEF W
<1> QED
  BY <1>14, <1>15

LEMMA ImportList ==
  ASSUME NEW b \in [Halves -> 0 .. TopCounter], NEW kind \in Kinds
  PROVE  LET W == ImportWrites(b, kind) IN
         /\ W \in Seq(Items)
         /\ Len(W) = IF b \in Defective THEN 27 ELSE 36 + Records(kind)
         /\ W[2] = RemoveFiles({HeaderOf("pad", "a-to-b")}) /\ W[5] = RemoveFiles({HeaderOf("pad", "b-to-a")})
         /\ W[7] = RemoveFiles({Meta}) /\ W[8] = RemoveFiles({Marker}) /\ W[9] = RemoveFiles(WitnessLog)
         /\ \A i \in {1, 3, 4, 6} \cup 10 .. 21 : W[i] \in BesideItems
         /\ b \in Defective => \A i \in 22 .. 27 : W[i] \in BesideItems
         /\ b \notin Defective =>
              /\ W[22] = Write(Marker, "importing")
              /\ W[24] = Write(HeaderOf("pad", "a-to-b"), b["a-to-b"])
              /\ W[27] = Write(HeaderOf("pad", "b-to-a"), b["b-to-a"])
              /\ \A i \in {23, 25, 26, 28} : W[i] \in BesideItems
              /\ kind # "browser-none" => /\ W[29] = AppendTo(WitnessOf("a-to-b"), b["a-to-b"])
                                          /\ W[30] = AppendTo(WitnessOf("b-to-a"), b["b-to-a"])
              /\ W[29 + Records(kind)] = Write(Meta, MetaOf(kind, "imported"))
              /\ W[30 + Records(kind)] = Commit
              /\ \A i \in 31 + Records(kind) .. 36 + Records(kind) : W[i] \in BesideItems
<1> DEFINE D == DiscardIncompleteImport
           A == CopyBundle("importing", b)
           X == D \o A
           R == RemoveStoreFiles("importing")
           E == Installs(b, kind)
           W == ImportWrites(b, kind)
<1>1. D \in Seq(Items) /\ Len(D) = 15
  BY DiscardList
<1>2. /\ D[2] = RemoveFiles({HeaderOf("pad", "a-to-b")}) /\ D[5] = RemoveFiles({HeaderOf("pad", "b-to-a")})
      /\ D[7] = RemoveFiles({Meta}) /\ D[8] = RemoveFiles({Marker}) /\ D[9] = RemoveFiles(WitnessLog)
      /\ \A i \in {1, 3, 4, 6} \cup 10 .. 15 : D[i] \in BesideItems
  BY DiscardList
<1>3. A \in Seq(Items) /\ Len(A) = 6 /\ \A i \in 1 .. 6 : A[i] \in BesideItems
  BY CopyList, BesideLists
<1>4. R \in Seq(Items) /\ Len(R) = 6 /\ \A i \in 1 .. 6 : R[i] \in BesideItems
  BY RemovalList, BesideLists
<1>5. W = X \o (IF b \in Defective THEN R ELSE E)
  BY DEF ImportWrites, Installs
<1>6. E \in Seq(Items) /\ Len(E) = 15 + Records(kind)
  BY InstallList
<1>7. /\ E[1] = Write(Marker, "importing")
      /\ E[3] = Write(HeaderOf("pad", "a-to-b"), b["a-to-b"])
      /\ E[6] = Write(HeaderOf("pad", "b-to-a"), b["b-to-a"])
      /\ E[2] \in BesideItems /\ E[4] \in BesideItems /\ E[5] \in BesideItems /\ E[7] \in BesideItems
      /\ kind # "browser-none" => /\ E[8] = AppendTo(WitnessOf("a-to-b"), b["a-to-b"])
                                  /\ E[9] = AppendTo(WitnessOf("b-to-a"), b["b-to-a"])
      /\ E[8 + Records(kind)] = Write(Meta, MetaOf(kind, "imported"))
      /\ E[9 + Records(kind)] = Commit
      /\ \A i \in 10 + Records(kind) .. 15 + Records(kind) : E[i] \in BesideItems
  BY InstallList
<1>8. 6 \in Nat /\ 15 \in Nat /\ 17 \in Nat /\ 21 \in Nat
  OBVIOUS
<1> HIDE DEF D, A, R, E, W
<1>9. X \in Seq(Items) /\ Spliced(X, 15, D, 6, A)
  BY <1>1, <1>3, <1>8, Joined
<1> HIDE DEF X
<1>10. /\ Len(X) = 21 /\ (\A i \in 1 .. 15 : X[i] = D[i]) /\ X[16] = A[1] /\ X[17] = A[2]
       /\ X[18] = A[3] /\ X[19] = A[4] /\ X[20] = A[5] /\ X[21] = A[6]
  BY <1>9 DEF Spliced
<1>11. \A i \in 10 .. 21 : X[i] \in BesideItems
  <2>1. \A i \in 10 .. 21 : i \in 10 .. 15 \/ i = 16 \/ i = 17 \/ i = 18 \/ i = 19 \/ i = 20 \/ i = 21
    OBVIOUS
  <2>2. \A i \in 10 .. 15 : X[i] \in BesideItems
    BY <1>2, <1>10
  <2> QED
    BY <1>3, <1>10, <2>1, <2>2
<1>12. /\ X[2] = RemoveFiles({HeaderOf("pad", "a-to-b")}) /\ X[5] = RemoveFiles({HeaderOf("pad", "b-to-a")})
       /\ X[7] = RemoveFiles({Meta}) /\ X[8] = RemoveFiles({Marker}) /\ X[9] = RemoveFiles(WitnessLog)
       /\ \A i \in {1, 3, 4, 6} : X[i] \in BesideItems
  BY <1>2, <1>10
<1> DEFINE Begins == \A i \in 1 .. 21 : W[i] = X[i]
<1>13. ASSUME Begins
       PROVE  /\ W[2] = RemoveFiles({HeaderOf("pad", "a-to-b")}) /\ W[5] = RemoveFiles({HeaderOf("pad", "b-to-a")})
              /\ W[7] = RemoveFiles({Meta}) /\ W[8] = RemoveFiles({Marker}) /\ W[9] = RemoveFiles(WitnessLog)
              /\ \A i \in {1, 3, 4, 6} \cup 10 .. 21 : W[i] \in BesideItems
  BY <1>11, <1>12, <1>13
<1> HIDE DEF Begins
<1>14. CASE b \in Defective
  <2>1. W \in Seq(Items) /\ Spliced(W, 21, X, 6, R)
    BY <1>4, <1>5, <1>8, <1>9, <1>10, <1>14, Joined
  <2>2. /\ Len(W) = 27 /\ Begins /\ W[22] = R[1] /\ W[23] = R[2]
        /\ W[24] = R[3] /\ W[25] = R[4] /\ W[26] = R[5] /\ W[27] = R[6]
    BY <2>1 DEF Spliced, Begins
  <2>3. \A i \in 22 .. 27 : W[i] \in BesideItems
    <3>1. \A i \in 22 .. 27 : i = 22 \/ i = 23 \/ i = 24 \/ i = 25 \/ i = 26 \/ i = 27
      OBVIOUS
    <3> QED
      BY <1>4, <2>2, <3>1
  <2> QED
    BY <1>13, <1>14, <2>1, <2>2, <2>3 DEF W
<1>15. CASE b \notin Defective /\ kind = "browser-none"
  <2>1. /\ Records(kind) = 0 /\ 36 + Records(kind) = 36 /\ 29 + Records(kind) = 29
        /\ 30 + Records(kind) = 30 /\ 31 + Records(kind) = 31
        /\ 15 + Records(kind) = 15 /\ 8 + Records(kind) = 8
        /\ 9 + Records(kind) = 9 /\ 10 + Records(kind) = 10
    BY <1>15 DEF Records
  <2>2. W = X \o E /\ Len(E) = 15
    BY <1>5, <1>6, <1>15, <2>1
  <2>3. W \in Seq(Items) /\ Spliced(W, 21, X, 15, E)
    BY <1>6, <1>8, <1>9, <1>10, <2>2, Joined
  <2>4. /\ Len(W) = 36 /\ Begins
        /\ W[22] = E[1] /\ W[23] = E[2] /\ W[24] = E[3] /\ W[25] = E[4] /\ W[26] = E[5]
        /\ W[27] = E[6] /\ W[28] = E[7] /\ W[29] = E[8] /\ W[30] = E[9]
        /\ W[31] = E[10] /\ W[32] = E[11] /\ W[33] = E[12] /\ W[34] = E[13] /\ W[35] = E[14]
        /\ W[36] = E[15]
    BY <2>3 DEF Spliced, Begins
  <2>5. \A i \in 31 .. 36 : W[i] \in BesideItems
    <3>1. \A i \in 31 .. 36 : i = 31 \/ i = 32 \/ i = 33 \/ i = 34 \/ i = 35 \/ i = 36
      OBVIOUS
    <3> QED
      BY <1>7, <2>1, <2>4, <3>1
  <2>6. /\ W[22] = Write(Marker, "importing")
        /\ W[24] = Write(HeaderOf("pad", "a-to-b"), b["a-to-b"])
        /\ W[27] = Write(HeaderOf("pad", "b-to-a"), b["b-to-a"])
        /\ \A i \in {23, 25, 26, 28} : W[i] \in BesideItems
        /\ W[29 + Records(kind)] = Write(Meta, MetaOf(kind, "imported"))
        /\ W[30 + Records(kind)] = Commit
    BY <1>7, <2>1, <2>4
  <2> QED
    BY <1>13, <1>15, <2>1, <2>3, <2>4, <2>5, <2>6 DEF W
<1>16. CASE b \notin Defective /\ kind # "browser-none"
  <2>1. /\ Records(kind) = 2 /\ 36 + Records(kind) = 38 /\ 29 + Records(kind) = 31
        /\ 30 + Records(kind) = 32 /\ 31 + Records(kind) = 33
        /\ 15 + Records(kind) = 17 /\ 8 + Records(kind) = 10
        /\ 9 + Records(kind) = 11 /\ 10 + Records(kind) = 12
    BY <1>16 DEF Records
  <2>2. W = X \o E /\ Len(E) = 17
    BY <1>5, <1>6, <1>16, <2>1
  <2>3. W \in Seq(Items) /\ Spliced(W, 21, X, 17, E)
    BY <1>6, <1>8, <1>9, <1>10, <2>2, Joined
  <2>4. /\ Len(W) = 38 /\ Begins
        /\ W[22] = E[1] /\ W[23] = E[2] /\ W[24] = E[3] /\ W[25] = E[4] /\ W[26] = E[5]
        /\ W[27] = E[6] /\ W[28] = E[7] /\ W[29] = E[8] /\ W[30] = E[9]
        /\ W[31] = E[10] /\ W[32] = E[11] /\ W[33] = E[12] /\ W[34] = E[13] /\ W[35] = E[14]
        /\ W[36] = E[15] /\ W[37] = E[16] /\ W[38] = E[17]
    BY <2>3 DEF Spliced, Begins
  <2>5. \A i \in 33 .. 38 : W[i] \in BesideItems
    <3>1. \A i \in 33 .. 38 : i = 33 \/ i = 34 \/ i = 35 \/ i = 36 \/ i = 37 \/ i = 38
      OBVIOUS
    <3> QED
      BY <1>7, <2>1, <2>4, <3>1
  <2>6. /\ W[22] = Write(Marker, "importing")
        /\ W[24] = Write(HeaderOf("pad", "a-to-b"), b["a-to-b"])
        /\ W[27] = Write(HeaderOf("pad", "b-to-a"), b["b-to-a"])
        /\ \A i \in {23, 25, 26, 28} : W[i] \in BesideItems
        /\ W[29] = AppendTo(WitnessOf("a-to-b"), b["a-to-b"])
        /\ W[30] = AppendTo(WitnessOf("b-to-a"), b["b-to-a"])
        /\ W[29 + Records(kind)] = Write(Meta, MetaOf(kind, "imported"))
        /\ W[30 + Records(kind)] = Commit
    BY <1>7, <1>16, <2>1, <2>4
  <2> QED
    BY <1>13, <1>16, <2>1, <2>3, <2>4, <2>5, <2>6 DEF W
<1> QED
  BY <1>14, <1>15, <1>16

UseList(h, n, w) ==
  << Write(HeaderOf("pad", h), n), Write(Journal("pad", h), n) >>
    \o (IF w THEN << AppendTo(WitnessOf(h), n) >> ELSE <<>>)
    \o << [do |-> "show", half |-> h, val |-> n] >>

LEMMA UseListIs ==
  ASSUME NEW h \in Halves, NEW n \in 0 .. TopCounter, NEW w \in BOOLEAN
  PROVE  LET W == UseList(h, n, w) IN
         /\ W \in Seq(Items) /\ Len(W) = IF w THEN 4 ELSE 3
         /\ W[1] = Write(HeaderOf("pad", h), n) /\ W[2] \in BesideItems
         /\ w => W[3] = AppendTo(WitnessOf(h), n)
         /\ W[IF w THEN 4 ELSE 3] = [do |-> "show", half |-> h, val |-> n]
<1> DEFINE A == << Write(HeaderOf("pad", h), n), Write(Journal("pad", h), n) >>
           B == IF w THEN << AppendTo(WitnessOf(h), n) >> ELSE <<>>
           C == << [do |-> "show", half |-> h, val |-> n] >>
           X == A \o B
           W == UseList(h, n, w)
<1>1. Write(HeaderOf("pad", h), n) \in Items
  <2>1. HeaderOf("pad", h) \in Files \ WitnessLog /\ n \in Fits(HeaderOf("pad", h))
    BY PathsAreFiles, PathsDiffer, Fitting DEF Roots
  <2> QED
    BY <2>1, WritesAreItems DEF Items
<1>2. Write(Journal("pad", h), n) \in BesideItems
  BY BesideAreFiles, BesideItemsAre, Fitting DEF Roots
<1>3. BesideItems \subseteq Items
  BY DEF BesideItems
<1>4. AppendTo(WitnessOf(h), n) \in Items
  BY DEF Items, AppendItems
<1>5. [do |-> "show", half |-> h, val |-> n] \in Items
  BY DEF Items, ShowItems
<1>6. A \in Seq(Items) /\ Len(A) = 2 /\ A[1] = Write(HeaderOf("pad", h), n) /\ A[2] \in BesideItems
  BY <1>1, <1>2, <1>3
<1>7. C \in Seq(Items) /\ Len(C) = 1 /\ C[1] = [do |-> "show", half |-> h, val |-> n]
  BY <1>5
<1>8. W = X \o C
  BY DEF UseList
<1>9. 0 \in Nat /\ 1 \in Nat /\ 2 \in Nat /\ 3 \in Nat
  OBVIOUS
<1>10. CASE w
  <2>1. B \in Seq(Items) /\ Len(B) = 1 /\ B[1] = AppendTo(WitnessOf(h), n)
    BY <1>4, <1>10
  <2> HIDE DEF A, B, C, W
  <2>2. X \in Seq(Items) /\ Spliced(X, 2, A, 1, B)
    BY <1>6, <1>9, <2>1, Joined
  <2> HIDE DEF X
  <2>3. Len(X) = 3 /\ X[1] = A[1] /\ X[2] = A[2] /\ X[3] = B[1]
    BY <2>2 DEF Spliced
  <2>4. W \in Seq(Items) /\ Spliced(W, 3, X, 1, C)
    BY <1>7, <1>8, <1>9, <2>2, <2>3, Joined
  <2>5. Len(W) = 4 /\ W[1] = X[1] /\ W[2] = X[2] /\ W[3] = X[3] /\ W[4] = C[1]
    BY <2>4 DEF Spliced
  <2> QED
    BY <1>6, <1>7, <1>10, <2>1, <2>3, <2>4, <2>5 DEF W
<1>11. CASE ~w
  <2>1. B \in Seq(Items) /\ Len(B) = 0
    <3>1. B = <<>>
      BY <1>11
    <3>2. <<>> \in Seq(Items) /\ Len(<<>>) = 0
      OBVIOUS
    <3> QED
      BY <3>1, <3>2
  <2> HIDE DEF A, B, C, W
  <2>2. X \in Seq(Items) /\ Spliced(X, 2, A, 0, B)
    BY <1>6, <1>9, <2>1, Joined
  <2> HIDE DEF X
  <2>3. Len(X) = 2 /\ X[1] = A[1] /\ X[2] = A[2]
    BY <2>2 DEF Spliced
  <2>4. W \in Seq(Items) /\ Spliced(W, 2, X, 1, C)
    BY <1>7, <1>8, <1>9, <2>2, <2>3, Joined
  <2>5. Len(W) = 3 /\ W[1] = X[1] /\ W[2] = X[2] /\ W[3] = C[1]
    BY <2>4 DEF Spliced
  <2> QED
    BY <1>6, <1>7, <1>11, <2>1, <2>3, <2>4, <2>5 DEF W
<1> QED
  BY <1>10, <1>11

(* What destroy does under the tombstone.                                  *)
TearItems ==
  {Zero(Secret("pad", h)) : h \in Halves} \cup {RemoveFiles({f}) : f \in Under("pad")}
    \cup {Report}

LEMMA TearItemsAre ==
  /\ TearItems \subseteq Items
  /\ \A h \in Halves : TearDown(h) \in Seq(TearItems)
  /\ << Report >> \in Seq(TearItems)
<1>1. Under("pad") \subseteq Files
  BY DEF Under, Files
<1>2. TearItems \subseteq Items
  BY <1>1 DEF TearItems, Items, ZeroItems, RemoveItems
<1>3. ASSUME NEW h \in Halves
      PROVE  {Secret("pad", h), HeaderOf("pad", h), Journal("pad", h)} \subseteq Under("pad")
  <2>1. Names[1] = "secret.bin" /\ Names[2] = "head.json" /\ Names[3] = "journal.log"
    BY DEF Names
  <2>2. "pad" \in Roots
    BY DEF Roots
  <2>3. \A i \in 1 .. 3 : PathOf("pad", h, Names[i]) \in StoreFiles
    BY <1>3, <2>2 DEF StoreFiles
  <2>4. \A x : PathOf("pad", h, x)[1] = "pad"
    BY DEF PathOf
  <2> QED
    BY <2>1, <2>3, <2>4 DEF Under, Secret, HeaderOf, Journal
<1>4. ASSUME NEW h \in Halves PROVE TearDown(h) \in Seq(TearItems)
  <2> DEFINE F(f) == RemoveFiles({f})
  <2>1. \A f \in Under("pad") : F(f) \in TearItems
    BY DEF TearItems
  <2>2. Zero(Secret("pad", h)) \in TearItems
    BY DEF TearItems
  <2>3. /\ F(Secret("pad", h)) \in TearItems /\ F(HeaderOf("pad", h)) \in TearItems
        /\ F(Journal("pad", h)) \in TearItems
    BY <1>3, <2>1
  <2>4. TearDown(h) = << Zero(Secret("pad", h)), F(Secret("pad", h)), F(HeaderOf("pad", h)),
                         F(Journal("pad", h)) >>
    BY DEF TearDown, Secret, HeaderOf, Journal
  <2> HIDE DEF F
  <2> QED
    BY <2>2, <2>3, <2>4
<1>5. << Report >> \in Seq(TearItems)
  <2>1. Report \in TearItems
    BY DEF TearItems
  <2> QED
    BY <2>1
<1> QED
  BY <1>2, <1>4, <1>5

(* A list whose items after the first are destroy's.                       *)
Tears(C) == C # <<>> /\ \A i \in 2 .. Len(C) : C[i] \in TearItems

LEMMA TearsGoesOn ==
  ASSUME NEW A \in Seq(Items), Tears(A), NEW B \in Seq(TearItems), NEW C, C = A \o B
  PROVE  C \in Seq(Items) /\ Tears(C) /\ C[1] = A[1]
<1>1. B \in Seq(Items)
  BY TearItemsAre
<1>2. C \in Seq(Items) /\ Spliced(C, Len(A), A, Len(B), B)
  BY <1>1, Concatenated
<1>3. Len(A) \in Nat /\ Len(A) # 0 /\ Len(B) \in Nat
  BY DEF Tears
<1>4. Len(C) = Len(A) + Len(B) /\ C[1] = A[1]
  BY <1>2, <1>3 DEF Spliced
<1>5. ASSUME NEW i \in 2 .. Len(C) PROVE C[i] \in TearItems
  <2>1. CASE i \in 2 .. Len(A)
    <3>1. C[i] = A[i]
      BY <1>2, <1>3, <2>1 DEF Spliced
    <3> QED
      BY <2>1, <3>1 DEF Tears
  <2>2. CASE i \in Len(A) + 1 .. Len(A) + Len(B)
    <3>1. C[i] = B[i - Len(A)]
      BY <1>2, <1>3, <2>2 DEF Spliced
    <3>2. i - Len(A) \in 1 .. Len(B)
      BY <1>3, <2>2
    <3> QED
      BY <3>1, <3>2
  <2> QED
    BY <1>3, <1>4, <2>1, <2>2
<1>6. C # <<>>
  BY <1>3, <1>4
<1> QED
  BY <1>2, <1>4, <1>5, <1>6 DEF Tears
-----------------------------------------------------------------------------
(* What one item does.                                                     *)

(* Every file holds what was written to it, or a part of it, and what is   *)
(* still to be done are items of the verbs.                                *)
PairShape ==
  /\ fs = [f \in Files |-> fs[f]]
  /\ \A f \in Files :
       fs[f] \in Fits(f) \cup {None, Torn}
         \/ ((\E h \in Halves : f = Secret("pad", h)) /\ fs[f] = "zeros")
  /\ \A h \in Halves : fs[WitnessOf(h)] # Torn
  /\ todo \in Seq(Items)
  /\ born \in {"nowhere", "here", "elsewhere"}
  /\ shown \in [Halves -> 0 .. TopCounter]
  /\ committed \in BOOLEAN /\ cuts \in 0 .. MaxCuts

(* What a step leaves alone.                                               *)
Keeps(fset) == \A f \in fset : fs'[f] = fs[f]
Alters(f, v) == f \in Files /\ fs'[f] = v /\ Keeps(Files \ {f})
Tells == shown' = shown /\ (committed' <=> committed)
Lasts == born' = born /\ taken' = taken

LEMMA ItemKinds ==
  ASSUME NEW s \in Items
  PROVE  \/ \E f \in Files \ WitnessLog : \E v \in Fits(f) : s = Write(f, v)
         \/ \E h \in Halves, v \in 0 .. TopCounter : s = AppendTo(WitnessOf(h), v)
         \/ \E fset \in SUBSET Files : s = RemoveFiles(fset)
         \/ \E h \in Halves : s = Zero(Secret("pad", h))
         \/ \E h \in Halves, v \in 0 .. TopCounter : s = [do |-> "show", half |-> h, val |-> v]
         \/ s = Commit \/ s = Report
<1>1. s \in ShowItems =>
        \E h \in Halves, v \in 0 .. TopCounter : s = [do |-> "show", half |-> h, val |-> v]
  BY DEF ShowItems
<1> QED
  BY <1>1, WritesAreItems DEF Items, AppendItems, RemoveItems, ZeroItems

LEMMA WriteDoes ==
  ASSUME PairShape, Step, NEW f \in Files, NEW v, Head(todo) = Write(f, v)
  PROVE  Alters(f, v) /\ Tells /\ Lasts /\ fs' = [fs EXCEPT ![f] = v]
BY DEF PairShape, Step, Write, Becomes, Alters, Keeps, Tells, Lasts

LEMMA AppendDoes ==
  ASSUME PairShape, Step, NEW h \in Halves, NEW v \in 0 .. TopCounter,
         Head(todo) = AppendTo(WitnessOf(h), v)
  PROVE  /\ Alters(WitnessOf(h), Later(WitnessOf(h), v)) /\ Tells /\ Lasts
         /\ fs' = [fs EXCEPT ![WitnessOf(h)] = Later(WitnessOf(h), v)]
         /\ Later(WitnessOf(h), v) \in 0 .. TopCounter
         /\ fs[WitnessOf(h)] = None \/ fs[WitnessOf(h)] <= v => Later(WitnessOf(h), v) = v
<1>1. WitnessOf(h) \in Files
  BY PathsAreFiles DEF WitnessLog
<1>2. fs' = [fs EXCEPT ![WitnessOf(h)] = Later(WitnessOf(h), v)] /\ Tells /\ Lasts
  BY DEF PairShape, Step, AppendTo, Becomes, Tells, Lasts
<1>3. Alters(WitnessOf(h), Later(WitnessOf(h), v))
  BY <1>1, <1>2 DEF PairShape, Alters, Keeps
<1>4. \A root \in Roots, x \in Halves : WitnessOf(h) # Secret(root, x)
  BY PathsDiffer DEF WitnessLog
<1>5. fs[WitnessOf(h)] \in 0 .. TopCounter \cup {None}
  BY <1>1, <1>4, Fitting DEF PairShape, Roots
<1> QED
  BY <1>2, <1>3, <1>5, PairSizes DEF Later

LEMMA RemoveDoes ==
  ASSUME PairShape, Step, NEW fset \in SUBSET Files, Head(todo) = RemoveFiles(fset)
  PROVE  /\ \A f \in fset : fs'[f] = None
         /\ Keeps(Files \ fset) /\ Tells /\ Lasts
         /\ fs' = [f \in Files |-> IF f \in fset THEN None ELSE fs[f]]
BY DEF PairShape, Step, RemoveFiles, Keeps, Tells, Lasts

LEMMA ZeroDoes ==
  ASSUME PairShape, Step, NEW h \in Halves, Head(todo) = Zero(Secret("pad", h))
  PROVE  /\ (Alters(Secret("pad", h), "zeros") /\ fs' = [fs EXCEPT ![Secret("pad", h)] = "zeros"])
              \/ fs' = fs
         /\ Tells /\ Lasts
<1>1. Secret("pad", h) \in Files
  BY PathsAreFiles DEF Roots
<1>2. (fs' = [fs EXCEPT ![Secret("pad", h)] = "zeros"] \/ fs' = fs) /\ Tells /\ Lasts
  BY DEF PairShape, Step, Zero, Becomes, Tells, Lasts
<1> QED
  BY <1>1, <1>2 DEF PairShape, Alters, Keeps

LEMMA ShowDoes ==
  ASSUME PairShape, Step, NEW h \in Halves, NEW v \in 0 .. TopCounter,
         Head(todo) = [do |-> "show", half |-> h, val |-> v]
  PROVE  fs' = fs /\ shown' = [shown EXCEPT ![h] = v] /\ (committed' <=> committed) /\ Lasts
<1>1. Head(todo).do = "show" /\ Head(todo).half = h /\ Head(todo).val = v
  OBVIOUS
<1>2. fs' = fs /\ Lasts
  BY <1>1 DEF Step, Lasts
<1>3. shown' = [shown EXCEPT ![h] = v]
  BY <1>1 DEF Step
<1>4. committed' <=> committed
  BY <1>1 DEF Step
<1> QED
  BY <1>2, <1>3, <1>4

LEMMA CommitDoes ==
  ASSUME PairShape, Step, Head(todo) = Commit
  PROVE  /\ Alters(Marker, None) /\ shown' = shown /\ committed' /\ Lasts
         /\ fs' = [fs EXCEPT ![Marker] = None]
<1>1. Marker \in Files
  BY PathsAreFiles DEF Deciding
<1>2. Head(todo).do = "commit"
  BY DEF Commit
<1>3. fs' = [fs EXCEPT ![Marker] = None] /\ shown' = shown /\ Lasts
  BY <1>2 DEF Step, Becomes, Lasts
<1>4. committed'
  BY <1>2 DEF Step
<1> QED
  BY <1>1, <1>3, <1>4 DEF PairShape, Alters, Keeps

LEMMA ReportDoes ==
  ASSUME PairShape, Step, Head(todo) = Report
  PROVE  fs' = fs /\ Tells /\ Lasts
BY DEF PairShape, Step, Report, Tells, Lasts

LEMMA StepGoesOn ==
  ASSUME PairShape, Step
  PROVE  todo # <<>> /\ todo' = Tail(todo) /\ cuts' = cuts /\ Head(todo) \in Items /\ todo' \in Seq(Items)
BY DEF PairShape, Step

LEMMA ShapeSteps ==
  ASSUME PairShape, Step
  PROVE  PairShape'
<1>1. todo' \in Seq(Items) /\ Head(todo) \in Items /\ cuts' = cuts
  BY StepGoesOn
<1> DEFINE Kept(f, v) == v \in Fits(f) \cup {None, Torn}
                           \/ ((\E h \in Halves : f = Secret("pad", h)) /\ v = "zeros")
<1>2. (\A f \in Files : Kept(f, fs[f])) /\ (\A h \in Halves : WitnessOf(h) \in Files /\ fs[WitnessOf(h)] # Torn)
  BY PathsAreFiles DEF PairShape, WitnessLog
<1>3. \A h, x \in Halves : WitnessOf(h) # Secret("pad", x)
  BY PathsDiffer DEF WitnessLog, Roots
<1> DEFINE Fine == /\ fs' = [f \in Files |-> fs'[f]]
                   /\ \A f \in Files : Kept(f, fs'[f])
                   /\ \A h \in Halves : fs'[WitnessOf(h)] # Torn
                   /\ born' = born /\ shown' \in [Halves -> 0 .. TopCounter] /\ committed' \in BOOLEAN
<1>4. SUFFICES Fine
  BY <1>1 DEF PairShape
<1>5. shown \in [Halves -> 0 .. TopCounter] /\ committed \in BOOLEAN /\ fs = [f \in Files |-> fs[f]]
  BY DEF PairShape
<1>6. committed' \in BOOLEAN
  BY DEF Step
<1> HIDE DEF Kept
<1>7. ASSUME NEW f \in Files \ WitnessLog, NEW v \in Fits(f), Head(todo) = Write(f, v)
      PROVE  Fine
  <2>1. Alters(f, v) /\ Tells /\ Lasts /\ fs' = [fs EXCEPT ![f] = v]
    BY <1>7, WriteDoes
  <2>2. Kept(f, v)
    BY DEF Kept
  <2>3. \A h \in Halves : WitnessOf(h) # f
    BY DEF WitnessLog
  <2> QED
    BY <1>2, <1>5, <1>6, <2>1, <2>2, <2>3 DEF Alters, Keeps, Tells, Lasts
<1>8. ASSUME NEW h \in Halves, NEW v \in 0 .. TopCounter, Head(todo) = AppendTo(WitnessOf(h), v)
      PROVE  Fine
  <2>1. /\ Alters(WitnessOf(h), Later(WitnessOf(h), v)) /\ Tells /\ Lasts
        /\ fs' = [fs EXCEPT ![WitnessOf(h)] = Later(WitnessOf(h), v)]
        /\ Later(WitnessOf(h), v) \in 0 .. TopCounter
    BY <1>8, AppendDoes
  <2>2. Kept(WitnessOf(h), Later(WitnessOf(h), v)) /\ Later(WitnessOf(h), v) # Torn
    BY <2>1, Fitting, FilesAreNotNone DEF Kept
  <2> QED
    BY <1>2, <1>5, <1>6, <2>1, <2>2 DEF Alters, Keeps, Tells, Lasts
<1>9. ASSUME NEW fset \in SUBSET Files, Head(todo) = RemoveFiles(fset)
      PROVE  Fine
  <2>1. /\ Tells /\ Lasts
        /\ fs' = [f \in Files |-> IF f \in fset THEN None ELSE fs[f]]
    BY <1>9, RemoveDoes
  <2>2. \A f \in Files : Kept(f, None)
    BY DEF Kept
  <2> QED
    BY <1>2, <1>5, <1>6, <2>1, <2>2, FilesAreNotNone DEF Tells, Lasts
<1>10. ASSUME NEW h \in Halves, Head(todo) = Zero(Secret("pad", h))
       PROVE  Fine
  <2>1. /\ (Alters(Secret("pad", h), "zeros") /\ fs' = [fs EXCEPT ![Secret("pad", h)] = "zeros"])
             \/ fs' = fs
        /\ Tells /\ Lasts
    BY <1>10, ZeroDoes
  <2>2. Kept(Secret("pad", h), "zeros")
    BY DEF Kept
  <2> QED
    BY <1>2, <1>3, <1>5, <1>6, <2>1, <2>2 DEF Alters, Keeps, Tells, Lasts
<1>11. ASSUME NEW h \in Halves, NEW v \in 0 .. TopCounter,
              Head(todo) = [do |-> "show", half |-> h, val |-> v]
       PROVE  Fine
  <2>1. fs' = fs /\ shown' = [shown EXCEPT ![h] = v] /\ (committed' <=> committed) /\ Lasts
    BY <1>11, ShowDoes
  <2> QED
    BY <1>2, <1>5, <1>6, <2>1 DEF Lasts
<1>12. ASSUME Head(todo) = Commit
       PROVE  Fine
  <2>1. Alters(Marker, None) /\ shown' = shown /\ Lasts /\ fs' = [fs EXCEPT ![Marker] = None]
    BY <1>12, CommitDoes
  <2>2. Kept(Marker, None)
    BY DEF Kept
  <2> QED
    BY <1>2, <1>5, <1>6, <2>1, <2>2, FilesAreNotNone DEF Alters, Keeps, Lasts
<1>13. ASSUME Head(todo) = Report
       PROVE  Fine
  BY <1>2, <1>5, <1>6, <1>13, ReportDoes DEF Tells, Lasts
<1> QED
  BY <1>1, <1>7, <1>8, <1>9, <1>10, <1>11, <1>12, <1>13, ItemKinds

LEMMA CutDoes ==
  ASSUME PairShape, Cut
  PROVE  /\ PairShape' /\ todo # <<>> /\ todo' = <<>> /\ Tells /\ Lasts /\ Head(todo) \in Items
         /\ fs' = fs \/ \E f \in Files \ WitnessLog :
              (\E v \in Fits(f) : Head(todo) = Write(f, v)) /\ Alters(f, Torn)
<1>1. Head(todo) \in Items /\ todo # <<>> /\ todo' = <<>> /\ cuts' \in 0 .. MaxCuts /\ Tells /\ Lasts
  BY PairSizes DEF PairShape, Cut, Tells, Lasts
<1>2. <<>> \in Seq(Items)
  OBVIOUS
<1> DEFINE Rest == /\ todo' \in Seq(Items) /\ born' \in {"nowhere", "here", "elsewhere"}
                   /\ shown' \in [Halves -> 0 .. TopCounter]
                   /\ committed' \in BOOLEAN /\ cuts' \in 0 .. MaxCuts
<1>5. Rest
  BY <1>1, <1>2 DEF PairShape, Cut
<1>3. CASE fs' = fs
  <2>1. PairShape'
    BY <1>3, <1>5 DEF PairShape
  <2> QED
    BY <1>1, <1>3, <2>1
<1>4. CASE Head(todo).do = "write" /\ Becomes(Head(todo).file, Torn)
  <2>1. PICK f \in Files \ WitnessLog : \E v \in Fits(f) : Head(todo) = Write(f, v)
    BY <1>1, <1>4, ItemKinds DEF Write, AppendTo, RemoveFiles, Zero, Commit, Report
  <2>2. fs' = [fs EXCEPT ![f] = Torn] /\ f \in Files
    <3>1. PICK v \in Fits(f) : Head(todo) = Write(f, v)
      BY <2>1
    <3>2. Head(todo).file = f
      BY <3>1 DEF Write
    <3> QED
      BY <1>4, <3>2 DEF Becomes
  <2>3. Alters(f, Torn)
    BY <2>2 DEF PairShape, Alters, Keeps
  <2>4. \A h \in Halves : WitnessOf(h) \in Files /\ WitnessOf(h) # f
    BY PathsAreFiles DEF WitnessLog
  <2>5. PairShape'
    <3>1. fs' = [g \in Files |-> fs'[g]]
      BY <2>2 DEF PairShape
    <3>2. \A g \in Files : fs'[g] = Torn \/ fs'[g] = fs[g]
      BY <2>2 DEF PairShape
    <3>3. \A h \in Halves : fs'[WitnessOf(h)] # Torn
      BY <2>2, <2>4 DEF PairShape
    <3> HIDE DEF Rest
    <3>4. \A g \in Files :
            fs'[g] \in Fits(g) \cup {None, Torn}
              \/ ((\E h \in Halves : g = Secret("pad", h)) /\ fs'[g] = "zeros")
      BY <3>2 DEF PairShape
    <3> QED
      BY <1>5, <3>1, <3>3, <3>4 DEF PairShape, Rest
  <2> QED
    BY <1>1, <2>1, <2>3, <2>5
<1> QED
  BY <1>3, <1>4 DEF Cut
-----------------------------------------------------------------------------
(* What the files say, whatever was cut off.                               *)

Numbered(h) == Counter("pad", h) \notin {None, Torn}
Provided == fs[Meta] \notin {None, Torn}

(* Secret bodies are zeroed under the tombstone only.                      *)
ZeroedIsDestroyed == ~IsDestroyed => \A h \in Halves : fs[Secret("pad", h)] # "zeros"

(* Before gen or an import nothing is there.                               *)
Unborn ==
  born = "nowhere" =>
    /\ \A f \in Files : fs[f] = None
    /\ todo = <<>> /\ taken = {} /\ ~committed
    /\ \A h \in Halves : shown[h] = 0

(* What an import did not commit is no pad.                                *)
GhostsStepAside == born = "elsewhere" /\ ~committed => ~CommittedPairExists

(* A pad that was exported, committed or used stays in the way of the next *)
(* import until it is destroyed.                                           *)
StandsForGood ==
  ~IsDestroyed /\ (taken # {} \/ committed \/ \E h \in Halves : shown[h] # 0) =>
     fs[Marker] = None /\ \A h \in Halves : Counter("pad", h) # None

(* A header that can be read is not behind what was put out.               *)
AheadOfShown ==
  ~IsDestroyed => \A h \in Halves : Numbered(h) => Counter("pad", h) >= shown[h]

(* Provenance.                                                             *)
OriginIsTrue ==
  /\ born = "here" =>
       ~committed /\ fs[Marker] = None /\ (Provided => fs[Meta].origin = "generated-here")
  /\ committed =>
       born = "elsewhere" /\ fs[Marker] = None /\ Provided /\ fs[Meta].origin = "imported"

(* The witness of a pad that is whole has its records, none of them ahead. *)
WitnessIsBehind ==
  ~IsDestroyed /\ (born = "here" \/ committed) /\ Provided /\ Witnessed =>
    \A h \in Halves : /\ fs[WitnessOf(h)] # None
                      /\ Numbered(h) => Counter("pad", h) >= fs[WitnessOf(h)]

Claims ==
  /\ ZeroedIsDestroyed /\ Unborn /\ GhostsStepAside /\ StandsForGood
  /\ AheadOfShown /\ OriginIsTrue /\ WitnessIsBehind
-----------------------------------------------------------------------------
(* Where each verb is.                                                     *)

(* The list from its item i on is what is left to do.                      *)
From(W, i) ==
  /\ i \in 1 .. Len(W) + 1
  /\ Len(todo) = Len(W) + 1 - i
  /\ \A j \in 1 .. Len(todo) : todo[j] = W[i - 1 + j]

Nothing == fs[Tombstone] = None /\ ~committed /\ taken = {} /\ \A h \in Halves : shown[h] = 0

(* The rest of a verb leaves every deciding file alone.                    *)
Settled == \A j \in 1 .. Len(todo) : todo[j] \in BesideItems

GenAt(kind, i) ==
  /\ From(GenWrites(kind), i) /\ i <= 7 + Records(kind) /\ Nothing /\ born = "here"
  /\ fs[Meta] = None
  /\ kind # "browser-none" =>
       /\ fs[WitnessOf("a-to-b")] = IF i <= 7 THEN None ELSE 0
       /\ fs[WitnessOf("b-to-a")] = IF i <= 8 THEN None ELSE 0

ImportAt(b, kind, i) ==
  /\ From(ImportWrites(b, kind), i) /\ Nothing /\ born = "elsewhere"
  /\ i <= IF b \in Defective THEN 27 ELSE 30 + Records(kind)
  /\ 2 < i /\ i <= 24 => Counter("pad", "a-to-b") = None
  /\ 5 < i /\ i <= 27 => Counter("pad", "b-to-a") = None
  /\ b \notin Defective =>
       /\ 22 < i => fs[Marker] # None
       /\ 24 < i => Counter("pad", "a-to-b") = b["a-to-b"]
       /\ 27 < i => Counter("pad", "b-to-a") = b["b-to-a"]
       /\ kind # "browser-none" =>
            /\ 9 < i => fs[WitnessOf("a-to-b")] = IF i <= 29 THEN None ELSE b["a-to-b"]
            /\ 9 < i => fs[WitnessOf("b-to-a")] = IF i <= 30 THEN None ELSE b["b-to-a"]
       /\ i = 30 + Records(kind) => fs[Meta] = MetaOf(kind, "imported")

UseAt(h, n, w, i) ==
  /\ From(UseList(h, n, w), i)
  /\ fs[Tombstone] = None /\ fs[Marker] = None /\ \A x \in Halves : Counter("pad", x) # None
  /\ born # "nowhere" /\ ~(born = "elsewhere" /\ ~committed)
  /\ IF i = 1 THEN Numbered(h) /\ Counter("pad", h) < n ELSE Counter("pad", h) = n

Marking ==
  /\ todo # <<>> /\ fs[Tombstone] \in {None, Torn} /\ born # "nowhere"
  /\ \E c \in 0 .. MaxCuts : Head(todo) = Write(Tombstone, c)
  /\ \A j \in 2 .. Len(todo) : todo[j] \in TearItems
Tearing == IsDestroyed /\ \A j \in 1 .. Len(todo) : todo[j] \in TearItems

VerbInv ==
  \/ Settled \/ Marking \/ Tearing
  \/ \E kind \in Kinds, i \in Nat : GenAt(kind, i)
  \/ \E kind \in Kinds, b \in Bundles, i \in Nat : ImportAt(b, kind, i)
  \/ \E h \in Halves, n \in 0 .. TopCounter, w \in BOOLEAN, i \in Nat : UseAt(h, n, w, i)

PairInv == PairShape /\ Claims /\ VerbInv

LEMMA ShapeSays ==
  /\ PairShape => \A h \in Halves :
       /\ Counter("pad", h) \in 0 .. TopCounter \cup {None, Torn}
       /\ fs[WitnessOf(h)] \in 0 .. TopCounter \cup {None}
       /\ fs[Meta] \in Metas \cup {None, Torn} /\ fs[Marker] \in {"importing", None, Torn}
       /\ fs[Secret("pad", h)] \in {"whole", "zeros", None, Torn}
       /\ shown[h] \in 0 .. TopCounter
  /\ PairShape' => \A h \in Halves :
       /\ Counter("pad", h)' \in 0 .. TopCounter \cup {None, Torn}
       /\ fs'[WitnessOf(h)] \in 0 .. TopCounter \cup {None}
       /\ fs'[Meta] \in Metas \cup {None, Torn} /\ fs'[Marker] \in {"importing", None, Torn}
       /\ fs'[Secret("pad", h)] \in {"whole", "zeros", None, Torn}
       /\ shown'[h] \in 0 .. TopCounter
<1>1. \A h \in Halves :
        /\ HeaderOf("pad", h) \in Files /\ WitnessOf(h) \in Files /\ Secret("pad", h) \in Files
        /\ Fits(HeaderOf("pad", h)) = 0 .. TopCounter /\ Fits(WitnessOf(h)) = 0 .. TopCounter
        /\ Fits(Secret("pad", h)) = {"whole"}
        /\ \A x \in Halves : Secret("pad", x) # HeaderOf("pad", h) /\ Secret("pad", x) # WitnessOf(h)
                             /\ Secret("pad", x) # Meta /\ Secret("pad", x) # Marker
  BY PathsAreFiles, PathsDiffer, Fitting DEF WitnessLog, Roots
<1>2. Meta \in Files /\ Marker \in Files /\ Fits(Meta) = Metas /\ Fits(Marker) = {"importing"}
  BY PathsAreFiles, Fitting DEF Deciding
<1>3. \A h \in Halves : HeaderOf("pad", h) = PathOf("pad", h, "head.json")
  BY DEF HeaderOf
<1>4. ASSUME PairShape, NEW h \in Halves
      PROVE  /\ Counter("pad", h) \in 0 .. TopCounter \cup {None, Torn}
             /\ fs[WitnessOf(h)] \in 0 .. TopCounter \cup {None}
             /\ fs[Meta] \in Metas \cup {None, Torn} /\ fs[Marker] \in {"importing", None, Torn}
             /\ fs[Secret("pad", h)] \in {"whole", "zeros", None, Torn}
             /\ shown[h] \in 0 .. TopCounter
  <2>1. \A f \in Files : fs[f] \in Fits(f) \cup {None, Torn}
                         \/ ((\E x \in Halves : f = Secret("pad", x)) /\ fs[f] = "zeros")
    BY <1>4 DEF PairShape
  <2>2. Counter("pad", h) \in 0 .. TopCounter \cup {None, Torn}
    BY <1>1, <1>3, <2>1 DEF Counter
  <2>3. fs[WitnessOf(h)] \in 0 .. TopCounter \cup {None}
    <3>1. fs[WitnessOf(h)] # Torn
      BY <1>4 DEF PairShape
    <3> QED
      BY <1>1, <2>1, <3>1
  <2>4. fs[Meta] \in Metas \cup {None, Torn} /\ fs[Marker] \in {"importing", None, Torn}
    BY <1>1, <1>2, <2>1
  <2>5. fs[Secret("pad", h)] \in {"whole", "zeros", None, Torn}
    BY <1>1, <2>1
  <2>6. shown[h] \in 0 .. TopCounter
    BY <1>4 DEF PairShape
  <2> QED
    BY <2>2, <2>3, <2>4, <2>5, <2>6
<1>5. ASSUME PairShape', NEW h \in Halves
      PROVE  /\ Counter("pad", h)' \in 0 .. TopCounter \cup {None, Torn}
             /\ fs'[WitnessOf(h)] \in 0 .. TopCounter \cup {None}
             /\ fs'[Meta] \in Metas \cup {None, Torn} /\ fs'[Marker] \in {"importing", None, Torn}
             /\ fs'[Secret("pad", h)] \in {"whole", "zeros", None, Torn}
             /\ shown'[h] \in 0 .. TopCounter
  <2>1. \A f \in Files : fs'[f] \in Fits(f) \cup {None, Torn}
                         \/ ((\E x \in Halves : f = Secret("pad", x)) /\ fs'[f] = "zeros")
    BY <1>5 DEF PairShape
  <2>2. Counter("pad", h)' \in 0 .. TopCounter \cup {None, Torn}
    BY <1>1, <1>3, <2>1 DEF Counter
  <2>3. fs'[WitnessOf(h)] \in 0 .. TopCounter \cup {None}
    <3>1. fs'[WitnessOf(h)] # Torn
      BY <1>5 DEF PairShape
    <3> QED
      BY <1>1, <2>1, <3>1
  <2>4. fs'[Meta] \in Metas \cup {None, Torn} /\ fs'[Marker] \in {"importing", None, Torn}
    BY <1>1, <1>2, <2>1
  <2>5. fs'[Secret("pad", h)] \in {"whole", "zeros", None, Torn}
    BY <1>1, <2>1
  <2>6. shown'[h] \in 0 .. TopCounter
    BY <1>5 DEF PairShape
  <2> QED
    BY <2>2, <2>3, <2>4, <2>5, <2>6
<1> QED
  BY <1>4, <1>5

(* No secret body becomes zeros.                                           *)
NoZeroing == \A h \in Halves : fs'[Secret("pad", h)] = "zeros" => fs[Secret("pad", h)] = "zeros"

LEMMA DecidingAre ==
  /\ Meta \in Deciding /\ Marker \in Deciding /\ Tombstone \in Deciding
  /\ \A h \in Halves : WitnessOf(h) \in Deciding /\ PathOf("pad", h, "head.json") \in Deciding
  /\ Deciding \subseteq Files
BY PathsAreFiles DEF Deciding, WitnessLog, HeaderOf

(* What a step leaves alone of the files a pad is judged by.               *)
BodiesStay == \A h \in Halves : fs'[Secret("pad", h)] = fs[Secret("pad", h)]
WitnessesStay == \A h \in Halves : fs'[WitnessOf(h)] = fs[WitnessOf(h)]
CountersStay == \A h \in Halves : Counter("pad", h)' = Counter("pad", h)
MarksStay == fs'[Meta] = fs[Meta] /\ fs'[Marker] = fs[Marker] /\ fs'[Tombstone] = fs[Tombstone]

LEMMA KeepsViews ==
  ASSUME Keeps(Deciding)
  PROVE  CountersStay /\ WitnessesStay /\ MarksStay
BY DecidingAre DEF Keeps, CountersStay, WitnessesStay, MarksStay, Counter

LEMMA ViewsKeepClaims ==
  ASSUME Claims, todo # <<>>, CountersStay, MarksStay, Tells, Lasts, NoZeroing, WitnessIsBehind'
  PROVE  Claims'
<1>1. /\ fs'[Meta] = fs[Meta] /\ fs'[Marker] = fs[Marker] /\ fs'[Tombstone] = fs[Tombstone]
      /\ \A h \in Halves : Counter("pad", h)' = Counter("pad", h)
  BY DEF CountersStay, MarksStay
<1>2. born # "nowhere" /\ born' = born /\ taken' = taken /\ shown' = shown /\ (committed' <=> committed)
  BY DEF Claims, Unborn, Tells, Lasts
<1>3. ZeroedIsDestroyed' /\ Unborn'
  BY <1>1, <1>2 DEF Claims, ZeroedIsDestroyed, Unborn, IsDestroyed, NoZeroing
<1>4. GhostsStepAside'
  BY <1>1, <1>2 DEF Claims, GhostsStepAside, CommittedPairExists
<1>5. StandsForGood'
  BY <1>1, <1>2 DEF Claims, StandsForGood, IsDestroyed
<1>6. AheadOfShown'
  BY <1>1, <1>2 DEF Claims, AheadOfShown, IsDestroyed, Numbered
<1>7. OriginIsTrue'
  BY <1>1, <1>2 DEF Claims, OriginIsTrue, Provided
<1> QED
  BY <1>3, <1>4, <1>5, <1>6, <1>7 DEF Claims

LEMMA BesideKeepsClaims ==
  ASSUME Claims, todo # <<>>, Keeps(Deciding), Tells, Lasts, NoZeroing
  PROVE  Claims'
<1>1. CountersStay /\ WitnessesStay /\ MarksStay
  BY KeepsViews
<1>2. WitnessIsBehind'
  BY <1>1 DEF Claims, WitnessIsBehind, IsDestroyed, Numbered, Provided, Witnessed,
              CountersStay, WitnessesStay, MarksStay, Tells, Lasts
<1> QED
  BY <1>1, <1>2, ViewsKeepClaims

LEMMA BesideDoes ==
  ASSUME PairShape, Step, Head(todo) \in BesideItems
  PROVE  Keeps(Deciding) /\ Tells /\ Lasts /\ NoZeroing /\ todo # <<>>
<1>1. PICK f \in Files \ Deciding :
        Head(todo) = RemoveFiles({f}) \/ \E v \in Fits(f) : Head(todo) = Write(f, v)
  BY DEF BesideItems
<1>2. \A h \in Halves : Secret("pad", h) \in Files /\ Fits(Secret("pad", h)) = {"whole"}
  BY PathsAreFiles, Fitting DEF Roots
<1>3. CASE Head(todo) = RemoveFiles({f})
  <2>1. fs'[f] = None /\ Keeps(Files \ {f}) /\ Tells /\ Lasts
    BY <1>3, RemoveDoes
  <2> QED
    BY <1>2, <2>1, DecidingAre, FilesAreNotNone, StepGoesOn DEF Keeps, NoZeroing
<1>4. ASSUME NEW v \in Fits(f), Head(todo) = Write(f, v)
      PROVE  Keeps(Deciding) /\ Tells /\ Lasts /\ NoZeroing
  <2>1. Alters(f, v) /\ Tells /\ Lasts
    BY <1>4, WriteDoes
  <2> QED
    BY <1>2, <1>4, <2>1, DecidingAre DEF Alters, Keeps, NoZeroing
<1> QED
  BY <1>1, <1>3, <1>4, StepGoesOn

LEMMA NothingHere ==
  ASSUME PairShape', Nothing', born' = "here", fs'[Marker] = None, fs'[Meta] \in {None, Torn},
         \A h \in Halves : fs'[Secret("pad", h)] # "zeros"
  PROVE  Claims'
<1>1. ~IsDestroyed' /\ ~committed' /\ taken' = {} /\ ~Provided' /\ \A h \in Halves : shown'[h] = 0
  BY DEF Nothing, IsDestroyed, Provided
<1>2. AheadOfShown'
  BY <1>1, ShapeSays, PairSizes DEF AheadOfShown, Numbered
<1>3. ZeroedIsDestroyed' /\ Unborn' /\ GhostsStepAside' /\ StandsForGood' /\ OriginIsTrue' /\ WitnessIsBehind'
  BY <1>1 DEF ZeroedIsDestroyed, Unborn, GhostsStepAside, StandsForGood, OriginIsTrue, WitnessIsBehind
<1> QED
  BY <1>2, <1>3 DEF Claims

LEMMA NothingElsewhere ==
  ASSUME PairShape', Nothing', born' = "elsewhere", ~CommittedPairExists',
         \A h \in Halves : fs'[Secret("pad", h)] # "zeros"
  PROVE  Claims'
<1>1. ~IsDestroyed' /\ ~committed' /\ taken' = {} /\ \A h \in Halves : shown'[h] = 0
  BY DEF Nothing, IsDestroyed
<1>2. AheadOfShown'
  BY <1>1, ShapeSays, PairSizes DEF AheadOfShown, Numbered
<1>3. ZeroedIsDestroyed' /\ Unborn' /\ GhostsStepAside' /\ StandsForGood' /\ OriginIsTrue' /\ WitnessIsBehind'
  BY <1>1 DEF ZeroedIsDestroyed, Unborn, GhostsStepAside, StandsForGood, OriginIsTrue, WitnessIsBehind
<1> QED
  BY <1>2, <1>3 DEF Claims
-----------------------------------------------------------------------------
(* Going through a list.                                                   *)

LEMMA FromStarts ==
  ASSUME NEW W \in Seq(Items), todo' = W
  PROVE  From(W, 1)'
BY DEF From

LEMMA FromHead ==
  ASSUME NEW W \in Seq(Items), NEW i, From(W, i), todo \in Seq(Items), todo # <<>>
  PROVE  i \in 1 .. Len(W) /\ Head(todo) = W[i]
<1>1. Len(todo) \in Nat /\ Len(todo) > 0 /\ Len(W) \in Nat /\ i \in 1 .. Len(W) + 1
  BY EmptySeq DEF From
<1>2. i \in 1 .. Len(W)
  BY <1>1 DEF From
<1>3. Head(todo) = todo[1] /\ 1 \in 1 .. Len(todo)
  BY <1>1
<1>4. todo[1] = W[i - 1 + 1] /\ i - 1 + 1 = i
  BY <1>1, <1>3 DEF From
<1> QED
  BY <1>2, <1>3, <1>4

LEMMA FromGoesOn ==
  ASSUME NEW W \in Seq(Items), NEW i, From(W, i), todo \in Seq(Items), todo # <<>>, todo' = Tail(todo)
  PROVE  i \in 1 .. Len(W) /\ Head(todo) = W[i] /\ From(W, i + 1)'
<1>1. Len(todo) \in Nat /\ Len(todo) > 0 /\ Len(W) \in Nat /\ i \in 1 .. Len(W) + 1
  BY EmptySeq DEF From
<1>2. Len(todo) = Len(W) + 1 - i
  BY DEF From
<1>3. i \in 1 .. Len(W)
  BY <1>1, <1>2
<1>4. Head(todo) = W[i]
  BY FromHead
<1>5. From(W, i + 1)'
  <2>1. Len(todo') = Len(todo) - 1 /\ \A j \in 1 .. Len(todo) - 1 : todo'[j] = todo[j + 1]
    BY <1>1
  <2>2. Len(todo') = Len(W) + 1 - (i + 1) /\ i + 1 \in 1 .. Len(W) + 1
    BY <1>1, <1>2, <1>3, <2>1
  <2>3. ASSUME NEW j \in 1 .. Len(todo') PROVE todo'[j] = W[(i + 1) - 1 + j]
    <3>1. j \in 1 .. Len(todo) - 1 /\ j + 1 \in 1 .. Len(todo)
      BY <1>1, <2>1
    <3>2. todo'[j] = W[i - 1 + (j + 1)]
      BY <2>1, <3>1 DEF From
    <3>3. i - 1 + (j + 1) = (i + 1) - 1 + j
      BY <1>1, <3>1
    <3> QED
      BY <3>2, <3>3
  <2> QED
    BY <2>2, <2>3 DEF From
<1> QED
  BY <1>3, <1>4, <1>5

LEMMA SettledRest ==
  ASSUME NEW W \in Seq(Items), NEW i \in Nat, From(W, i)', \A j \in i .. Len(W) : W[j] \in BesideItems
  PROVE  Settled'
<1>1. i \in 1 .. Len(W) + 1 /\ Len(W) \in Nat /\ Len(todo') = Len(W) + 1 - i
  BY DEF From
<1>2. ASSUME NEW j \in 1 .. Len(todo') PROVE todo'[j] \in BesideItems
  <2>1. i - 1 + j \in i .. Len(W)
    BY <1>1
  <2>2. todo'[j] = W[i - 1 + j]
    BY DEF From
  <2> QED
    BY <2>1, <2>2
<1> QED
  BY <1>2 DEF Settled

LEMMA SettledGoesOn ==
  ASSUME Settled, todo \in Seq(Items), todo # <<>>, todo' = Tail(todo)
  PROVE  Head(todo) \in BesideItems /\ Settled'
<1>1. Len(todo) \in Nat /\ Len(todo) > 0
  BY EmptySeq
<1>2. Head(todo) = todo[1] /\ 1 \in 1 .. Len(todo)
  BY <1>1
<1>3. Len(todo') = Len(todo) - 1 /\ \A j \in 1 .. Len(todo) - 1 : todo'[j] = todo[j + 1]
  BY <1>1
<1>4. ASSUME NEW j \in 1 .. Len(todo') PROVE todo'[j] \in BesideItems
  <2>1. j \in 1 .. Len(todo) - 1 /\ j + 1 \in 1 .. Len(todo)
    BY <1>1, <1>3
  <2> QED
    BY <1>3, <2>1 DEF Settled
<1> QED
  BY <1>2, <1>4 DEF Settled

LEMMA AltersHeader ==
  ASSUME NEW h \in Halves, NEW v, Alters(HeaderOf("pad", h), v)
  PROVE  /\ Counter("pad", h)' = v
         /\ \A x \in Halves : x # h => Counter("pad", x)' = Counter("pad", x)
         /\ BodiesStay /\ WitnessesStay /\ MarksStay
<1>1. \A x \in Halves : /\ Secret("pad", x) \in Files \ {HeaderOf("pad", h)}
                        /\ WitnessOf(x) \in Files \ {HeaderOf("pad", h)}
                        /\ x # h => HeaderOf("pad", x) \in Files \ {HeaderOf("pad", h)}
  BY PathsAreFiles, PathsDiffer DEF WitnessLog, Roots
<1>2. {Meta, Marker, Tombstone} \subseteq Files \ {HeaderOf("pad", h)}
  BY PathsAreFiles, PathsDiffer DEF Deciding, Roots
<1>3. \A x : HeaderOf("pad", x) = PathOf("pad", x, "head.json")
  BY DEF HeaderOf
<1> QED
  BY <1>1, <1>2, <1>3 DEF Alters, Keeps, Counter, BodiesStay, WitnessesStay, MarksStay

LEMMA AltersOther ==
  ASSUME NEW f \in {Meta, Marker, Tombstone}, NEW v, Alters(f, v)
  PROVE  /\ fs'[f] = v /\ \A g \in {Meta, Marker, Tombstone} : g # f => fs'[g] = fs[g]
         /\ BodiesStay /\ WitnessesStay /\ CountersStay
<1>1. \A x \in Halves : /\ Secret("pad", x) \in Files \ {f} /\ WitnessOf(x) \in Files \ {f}
                        /\ HeaderOf("pad", x) \in Files \ {f}
  BY PathsAreFiles, PathsDiffer DEF WitnessLog, Roots
<1>2. {Meta, Marker, Tombstone} \subseteq Files
  BY PathsAreFiles DEF Deciding
<1>3. \A x : HeaderOf("pad", x) = PathOf("pad", x, "head.json")
  BY DEF HeaderOf
<1> QED
  BY <1>1, <1>2, <1>3 DEF Alters, Keeps, Counter, BodiesStay, WitnessesStay, CountersStay

LEMMA AltersWitness ==
  ASSUME NEW h \in Halves, NEW v, Alters(WitnessOf(h), v)
  PROVE  /\ fs'[WitnessOf(h)] = v
         /\ \A x \in Halves : x # h => fs'[WitnessOf(x)] = fs[WitnessOf(x)]
         /\ BodiesStay /\ CountersStay /\ MarksStay
<1>1. \A x \in Halves : /\ Secret("pad", x) \in Files \ {WitnessOf(h)}
                        /\ x # h => WitnessOf(x) \in Files \ {WitnessOf(h)}
                        /\ HeaderOf("pad", x) \in Files \ {WitnessOf(h)}
  BY PathsAreFiles, PathsDiffer DEF WitnessLog, Roots
<1>2. {Meta, Marker, Tombstone} \subseteq Files \ {WitnessOf(h)}
  BY PathsAreFiles, PathsDiffer DEF Deciding
<1>3. \A x : HeaderOf("pad", x) = PathOf("pad", x, "head.json")
  BY DEF HeaderOf
<1> QED
  BY <1>1, <1>2, <1>3 DEF Alters, Keeps, Counter, BodiesStay, CountersStay, MarksStay

-----------------------------------------------------------------------------
(* gen.                                                                    *)

LEMMA NoZerosYet ==
  ASSUME Claims, Nothing
  PROVE  \A h \in Halves : fs[Secret("pad", h)] # "zeros"
BY DEF Claims, ZeroedIsDestroyed, Nothing, IsDestroyed

LEMMA NothingLasts ==
  ASSUME Nothing, Tells, Lasts, fs'[Tombstone] = fs[Tombstone]
  PROVE  Nothing'
BY DEF Nothing, Tells, Lasts

LEMMA GenStarts ==
  ASSUME PairInv, NEW kind \in Kinds, Gen(kind)
  PROVE  PairInv'
<1>1. /\ born = "nowhere" /\ born' = "here" /\ todo' = GenWrites(kind) /\ fs' = fs /\ shown' = shown
      /\ taken' = taken /\ (committed' <=> committed) /\ committed' = committed /\ cuts' = cuts
  BY DEF Gen, Takes
<1>2. /\ \A f \in Files : fs[f] = None
      /\ taken = {} /\ ~committed /\ \A h \in Halves : shown[h] = 0
  BY <1>1 DEF PairInv, Claims, Unborn
<1>3. GenWrites(kind) \in Seq(Items)
  BY GenList
<1>4. PairShape'
  BY <1>1, <1>3 DEF PairInv, PairShape
<1>5. /\ fs'[Tombstone] = None /\ fs'[Marker] = None /\ fs'[Meta] = None
      /\ \A h \in Halves : fs'[WitnessOf(h)] = None /\ fs'[Secret("pad", h)] = None
  BY <1>1, <1>2, PathsAreFiles DEF Deciding, WitnessLog, Roots
<1>6. Nothing'
  BY <1>1, <1>2, <1>5 DEF Nothing
<1>7. Claims'
  BY <1>1, <1>4, <1>5, <1>6, NothingHere, FilesAreNotNone
<1>8. From(GenWrites(kind), 1)'
  BY <1>1, <1>3, FromStarts
<1>9. GenAt(kind, 1)'
  BY <1>1, <1>5, <1>6, <1>8 DEF GenAt, Records, Halves
<1> QED
  BY <1>4, <1>7, <1>9 DEF PairInv, VerbInv

LEMMA GenSteps ==
  ASSUME PairInv, Step, NEW kind \in Kinds, NEW i \in Nat, GenAt(kind, i)
  PROVE  PairInv'
<1> DEFINE W == GenWrites(kind)
<1>1. PairShape /\ Claims /\ PairShape' /\ todo \in Seq(Items)
  BY ShapeSteps DEF PairInv, PairShape
<1>2. todo # <<>> /\ todo' = Tail(todo)
  BY <1>1, StepGoesOn
<1>3. W \in Seq(Items) /\ Len(W) = 7 + Records(kind)
  BY GenList
<1>4. /\ W[2] = Write(HeaderOf("pad", "a-to-b"), 0) /\ W[5] = Write(HeaderOf("pad", "b-to-a"), 0)
      /\ \A j \in {1, 3, 4, 6} : W[j] \in BesideItems
      /\ kind # "browser-none" => /\ W[7] = AppendTo(WitnessOf("a-to-b"), 0)
                                  /\ W[8] = AppendTo(WitnessOf("b-to-a"), 0)
      /\ W[7 + Records(kind)] = Write(Meta, MetaOf(kind, "generated-here"))
  BY GenList
<1>5. From(W, i) /\ Nothing /\ born = "here" /\ fs[Meta] = None
  BY DEF GenAt
<1>6. kind # "browser-none" =>
        /\ fs[WitnessOf("a-to-b")] = IF i <= 7 THEN None ELSE 0
        /\ fs[WitnessOf("b-to-a")] = IF i <= 8 THEN None ELSE 0
  BY DEF GenAt
<1> HIDE DEF W
<1>7. i \in 1 .. Len(W) /\ Head(todo) = W[i] /\ From(W, i + 1)'
  BY <1>1, <1>2, <1>3, <1>5, FromGoesOn
<1>8. "a-to-b" \in Halves /\ "b-to-a" \in Halves /\ Halves = {"a-to-b", "b-to-a"} /\ 0 \in 0 .. TopCounter
  BY PairSizes DEF Halves
<1>9. fs[Marker] = None /\ \A h \in Halves : fs[Secret("pad", h)] # "zeros"
  BY <1>1, <1>5, NoZerosYet DEF Claims, OriginIsTrue
<1>10. Records(kind) = IF kind = "browser-none" THEN 0 ELSE 2
  BY DEF Records
<1> DEFINE Good == /\ Tells /\ Lasts /\ fs'[Tombstone] = fs[Tombstone] /\ fs'[Marker] = None
                   /\ \A h \in Halves : fs'[Secret("pad", h)] # "zeros"
<1>11. ASSUME Good, fs'[Meta] = None PROVE Nothing' /\ born' = "here" /\ Claims'
  BY <1>1, <1>5, <1>11, NothingHere, NothingLasts DEF Lasts
<1>12. ASSUME Good, fs'[Meta] = None, i < 7 + Records(kind),
              kind # "browser-none" =>
                /\ fs'[WitnessOf("a-to-b")] = IF i + 1 <= 7 THEN None ELSE 0
                /\ fs'[WitnessOf("b-to-a")] = IF i + 1 <= 8 THEN None ELSE 0
       PROVE  PairInv'
  <2>1. i + 1 \in Nat /\ i + 1 <= 7 + Records(kind)
    BY <1>10, <1>12
  <2>2. GenAt(kind, i + 1)'
    BY <1>7, <1>11, <1>12, <2>1 DEF GenAt, W
  <2> QED
    BY <1>1, <1>11, <1>12, <2>1, <2>2 DEF PairInv, VerbInv
<1>13. CASE i \in {1, 3, 4, 6}
  <2>1. Keeps(Deciding) /\ Tells /\ Lasts /\ NoZeroing
    BY <1>1, <1>4, <1>7, <1>13, BesideDoes
  <2>2. Good /\ fs'[Meta] = None /\ WitnessesStay
    BY <1>5, <1>9, <2>1, KeepsViews DEF NoZeroing, MarksStay
  <2> HIDE DEF Good
  <2> QED
    BY <1>6, <1>8, <1>10, <1>12, <1>13, <2>2 DEF WitnessesStay
<1>14. CASE i \in {2, 5}
  <2>1. PICK h \in Halves : W[i] = Write(HeaderOf("pad", h), 0)
    BY <1>4, <1>8, <1>14
  <2>2. HeaderOf("pad", h) \in Files
    BY PathsAreFiles DEF Roots
  <2>3. Alters(HeaderOf("pad", h), 0) /\ Tells /\ Lasts
    BY <1>1, <1>7, <2>1, <2>2, WriteDoes
  <2>4. Good /\ fs'[Meta] = None /\ WitnessesStay
    BY <1>5, <1>9, <2>3, AltersHeader DEF BodiesStay, MarksStay
  <2> HIDE DEF Good
  <2> QED
    BY <1>6, <1>8, <1>10, <1>12, <1>14, <2>4 DEF WitnessesStay
<1>15. CASE kind # "browser-none" /\ i \in {7, 8}
  <2> DEFINE h == IF i = 7 THEN "a-to-b" ELSE "b-to-a"
  <2>1. h \in Halves /\ W[i] = AppendTo(WitnessOf(h), 0) /\ fs[WitnessOf(h)] = None
    BY <1>4, <1>6, <1>8, <1>15
  <2>2. Alters(WitnessOf(h), 0) /\ Tells /\ Lasts
    BY <1>1, <1>7, <1>8, <2>1, AppendDoes
  <2>3. /\ fs'[WitnessOf(h)] = 0 /\ \A x \in Halves : x # h => fs'[WitnessOf(x)] = fs[WitnessOf(x)]
        /\ Good /\ fs'[Meta] = None
    BY <1>5, <1>9, <2>1, <2>2, AltersWitness DEF BodiesStay, MarksStay
  <2>4. /\ fs'[WitnessOf("a-to-b")] = IF i + 1 <= 7 THEN None ELSE 0
        /\ fs'[WitnessOf("b-to-a")] = IF i + 1 <= 8 THEN None ELSE 0
    BY <1>6, <1>8, <1>15, <2>3
  <2> HIDE DEF Good
  <2> QED
    BY <1>10, <1>12, <1>15, <2>3, <2>4
<1>16. CASE i = 7 + Records(kind)
  <2>1. Alters(Meta, MetaOf(kind, "generated-here")) /\ Tells /\ Lasts
    BY <1>1, <1>4, <1>7, <1>16, DecidingAre, WriteDoes
  <2>2. /\ fs'[Meta] = MetaOf(kind, "generated-here") /\ BodiesStay /\ WitnessesStay
        /\ fs'[Marker] = None /\ fs'[Tombstone] = fs[Tombstone]
    BY <1>9, <2>1, AltersOther, PathsDiffer
  <2>3. Nothing' /\ born' = "here"
    BY <1>5, <2>1, <2>2, NothingLasts DEF Lasts
  <2>4. ~IsDestroyed' /\ ~committed' /\ taken' = {} /\ \A h \in Halves : shown'[h] = 0
    BY <2>3 DEF Nothing, IsDestroyed
  <2>5. ZeroedIsDestroyed' /\ Unborn' /\ GhostsStepAside' /\ StandsForGood'
    BY <1>9, <2>2, <2>3, <2>4 DEF ZeroedIsDestroyed, Unborn, GhostsStepAside, StandsForGood, BodiesStay
  <2>6. AheadOfShown'
    BY <1>1, <2>4, ShapeSays, PairSizes DEF AheadOfShown, Numbered
  <2>7. OriginIsTrue'
    BY <2>2, <2>3, <2>4 DEF OriginIsTrue, MetaOf
  <2>8. WitnessIsBehind'
    <3>1. CASE kind = "browser-none"
      BY <2>2, <3>1 DEF WitnessIsBehind, Witnessed, MetaOf
    <3>2. CASE kind # "browser-none"
      <4>1. \A h \in Halves : fs'[WitnessOf(h)] = 0
        BY <1>6, <1>8, <1>10, <1>16, <2>2, <3>2 DEF WitnessesStay
      <4>2. 0 # None
        BY <1>8, FilesAreNotNone
      <4>3. \A h \in Halves : Numbered(h)' => Counter("pad", h)' >= 0
        BY <1>1, ShapeSays, PairSizes DEF Numbered
      <4> QED
        BY <4>1, <4>2, <4>3 DEF WitnessIsBehind
    <3> QED
      BY <3>1, <3>2
  <2>9. Claims'
    BY <2>5, <2>6, <2>7, <2>8 DEF Claims
  <2>10. Settled'
    <3>1. \A j \in i + 1 .. Len(W) : W[j] \in BesideItems
      BY <1>3, <1>10, <1>16
    <3>2. i + 1 \in Nat
      OBVIOUS
    <3> QED
      BY <1>3, <1>7, <3>1, <3>2, SettledRest
  <2> QED
    BY <1>1, <2>9, <2>10 DEF PairInv, VerbInv
<1> QED
  BY <1>3, <1>7, <1>10, <1>13, <1>14, <1>15, <1>16

(* What is cut off while nothing else has come of the pad.                 *)
LEMMA GenCuts ==
  ASSUME PairInv, NEW kind \in Kinds, NEW i \in Nat, GenAt(kind, i), PairShape', Tells, Lasts,
         NEW f \in Deciding \ WitnessLog, Alters(f, Torn), f # Tombstone, f # Marker
  PROVE  Claims'
<1>1. Nothing /\ born = "here" /\ fs[Meta] = None /\ Claims
  BY DEF GenAt, PairInv
<1>2. fs[Marker] = None /\ \A h \in Halves : fs[Secret("pad", h)] # "zeros"
  BY <1>1, NoZerosYet DEF Claims, OriginIsTrue
<1>3. /\ BodiesStay /\ fs'[Marker] = None /\ fs'[Tombstone] = fs[Tombstone] /\ fs'[Meta] \in {None, Torn}
  <2>1. CASE f = Meta
    BY <1>2, <2>1, AltersOther, PathsDiffer
  <2>2. ASSUME NEW h \in Halves, f = HeaderOf("pad", h)
        PROVE  BodiesStay /\ fs'[Marker] = None /\ fs'[Tombstone] = fs[Tombstone] /\ fs'[Meta] \in {None, Torn}
    BY <1>1, <1>2, <2>2, AltersHeader DEF MarksStay
  <2> QED
    BY <2>1, <2>2 DEF Deciding
<1>4. Nothing' /\ born' = "here"
  BY <1>1, <1>3, NothingLasts DEF Lasts
<1> QED
  BY <1>2, <1>3, <1>4, NothingHere DEF BodiesStay
-----------------------------------------------------------------------------
(* import.                                                                 *)

LEMMA Alone ==
  ASSUME Claims, ~IsDestroyed, ~CommittedPairExists
  PROVE  Nothing
<1>1. "a-to-b" \in Halves
  BY DEF Halves
<1>2. ~(taken # {} \/ committed \/ \E h \in Halves : shown[h] # 0)
  BY <1>1 DEF Claims, StandsForGood, CommittedPairExists
<1> QED
  BY <1>2 DEF Nothing, IsDestroyed

LEMMA ImportStarts ==
  ASSUME PairInv, NEW kind \in Kinds, NEW b \in Bundles \cup taken, Import(b, kind)
  PROVE  PairInv'
<1>1. /\ ~IsDestroyed /\ ~CommittedPairExists /\ todo = <<>> /\ todo' = ImportWrites(b, kind)
      /\ fs' = fs /\ shown' = shown /\ taken' = taken /\ committed' = committed /\ cuts' = cuts
      /\ IF born = "here" THEN b \in taken ELSE born' = "elsewhere"
  BY DEF Import, Takes
<1>2. Nothing /\ Claims
  BY <1>1, Alone DEF PairInv
<1>3. b \in Bundles /\ b \in [Halves -> 0 .. TopCounter] /\ born' = "elsewhere"
  BY <1>1, <1>2, PairSizes DEF Nothing
<1>4. ImportWrites(b, kind) \in Seq(Items)
  BY <1>3, ImportList
<1>5. PairShape'
  BY <1>1, <1>3, <1>4 DEF PairInv, PairShape
<1>6. Nothing' /\ ~CommittedPairExists'
  BY <1>1, <1>2 DEF Nothing, CommittedPairExists, Counter
<1>7. \A h \in Halves : fs'[Secret("pad", h)] # "zeros"
  BY <1>1, <1>2, NoZerosYet
<1>8. Claims'
  BY <1>3, <1>5, <1>6, <1>7, NothingElsewhere
<1>9. From(ImportWrites(b, kind), 1)'
  BY <1>1, <1>4, FromStarts
<1>10. ImportAt(b, kind, 1)'
  BY <1>3, <1>6, <1>9 DEF ImportAt, Records
<1> QED
  BY <1>3, <1>5, <1>8, <1>10 DEF PairInv, VerbInv

LEMMA RemovedOne ==
  ASSUME PairShape, Step, NEW f \in Files, Head(todo) = RemoveFiles({f})
  PROVE  Alters(f, None) /\ Tells /\ Lasts
<1>1. {f} \in SUBSET Files
  OBVIOUS
<1>2. (\A g \in {f} : fs'[g] = None) /\ Keeps(Files \ {f}) /\ Tells /\ Lasts
  BY <1>1, RemoveDoes
<1> QED
  BY <1>2 DEF Alters

LEMMA BesideOnly ==
  ASSUME NEW s \in BesideItems, NEW f, s = RemoveFiles({f}) \/ \E v : s = Write(f, v)
  PROVE  f \notin Deciding
<1>1. PICK g \in Files \ Deciding : s = RemoveFiles({g}) \/ \E v \in Fits(g) : s = Write(g, v)
  BY DEF BesideItems
<1>2. \A v, x : Write(g, v) # RemoveFiles(x) /\ Write(f, v) # RemoveFiles(x)
  BY DEF Write, RemoveFiles
<1>3. CASE s = RemoveFiles({f})
  <2>1. RemoveFiles({f}) = RemoveFiles({g})
    BY <1>1, <1>2, <1>3
  <2>2. {f} = {g}
    BY <2>1 DEF RemoveFiles
  <2> QED
    BY <2>2
<1>4. ASSUME NEW v, s = Write(f, v) PROVE f \notin Deciding
  <2>1. PICK w \in Fits(g) : Write(f, v) = Write(g, w)
    BY <1>1, <1>2, <1>4
  <2>2. f = g
    BY <2>1 DEF Write
  <2> QED
    BY <2>2
<1> QED
  BY <1>3, <1>4

LEMMA ImportSteps ==
  ASSUME PairInv, Step, NEW kind \in Kinds, NEW b \in Bundles, NEW i \in Nat, ImportAt(b, kind, i)
  PROVE  PairInv'
<1> DEFINE W == ImportWrites(b, kind)
           Last == IF b \in Defective THEN 27 ELSE 30 + Records(kind)
           Ca == Counter("pad", "a-to-b")
           Cb == Counter("pad", "b-to-a")
           Wa == fs[WitnessOf("a-to-b")]
           Wb == fs[WitnessOf("b-to-a")]
<1>1. PairShape /\ Claims /\ PairShape' /\ todo \in Seq(Items)
  BY ShapeSteps DEF PairInv, PairShape
<1>2. todo # <<>> /\ todo' = Tail(todo)
  BY <1>1, StepGoesOn
<1>3. b \in [Halves -> 0 .. TopCounter]
  BY PairSizes
<1>4. W \in Seq(Items) /\ Len(W) = IF b \in Defective THEN 27 ELSE 36 + Records(kind)
  BY <1>3, ImportList
<1>5. /\ W[2] = RemoveFiles({HeaderOf("pad", "a-to-b")}) /\ W[5] = RemoveFiles({HeaderOf("pad", "b-to-a")})
      /\ W[7] = RemoveFiles({Meta}) /\ W[8] = RemoveFiles({Marker}) /\ W[9] = RemoveFiles(WitnessLog)
      /\ \A j \in {1, 3, 4, 6} \cup 10 .. 21 : W[j] \in BesideItems
      /\ b \in Defective => \A j \in 22 .. 27 : W[j] \in BesideItems
  BY <1>3, ImportList
<1>6. b \notin Defective =>
        /\ W[22] = Write(Marker, "importing")
        /\ W[24] = Write(HeaderOf("pad", "a-to-b"), b["a-to-b"])
        /\ W[27] = Write(HeaderOf("pad", "b-to-a"), b["b-to-a"])
        /\ \A j \in {23, 25, 26, 28} : W[j] \in BesideItems
        /\ kind # "browser-none" => /\ W[29] = AppendTo(WitnessOf("a-to-b"), b["a-to-b"])
                                    /\ W[30] = AppendTo(WitnessOf("b-to-a"), b["b-to-a"])
        /\ W[29 + Records(kind)] = Write(Meta, MetaOf(kind, "imported"))
        /\ W[30 + Records(kind)] = Commit
        /\ \A j \in 31 + Records(kind) .. 36 + Records(kind) : W[j] \in BesideItems
  BY <1>3, ImportList
<1>7. /\ From(W, i) /\ Nothing /\ born = "elsewhere" /\ i <= Last
      /\ 2 < i /\ i <= 24 => Ca = None
      /\ 5 < i /\ i <= 27 => Cb = None
      /\ b \notin Defective =>
           /\ 22 < i => fs[Marker] # None
           /\ 24 < i => Ca = b["a-to-b"]
           /\ 27 < i => Cb = b["b-to-a"]
           /\ kind # "browser-none" =>
                /\ 9 < i => Wa = IF i <= 29 THEN None ELSE b["a-to-b"]
                /\ 9 < i => Wb = IF i <= 30 THEN None ELSE b["b-to-a"]
           /\ i = 30 + Records(kind) => fs[Meta] = MetaOf(kind, "imported")
  BY DEF ImportAt
<1> HIDE DEF W
<1>8. i \in 1 .. Len(W) /\ Head(todo) = W[i] /\ From(W, i + 1)'
  BY <1>1, <1>2, <1>4, <1>7, FromGoesOn
<1>9. /\ "a-to-b" \in Halves /\ "b-to-a" \in Halves /\ Halves = {"a-to-b", "b-to-a"}
      /\ "a-to-b" # "b-to-a"
  BY DEF Halves
<1>10. ~CommittedPairExists /\ \A h \in Halves : fs[Secret("pad", h)] # "zeros"
  BY <1>1, <1>7, NoZerosYet DEF Claims, GhostsStepAside, Nothing
<1>11. Records(kind) = IF kind = "browser-none" THEN 0 ELSE 2
  BY DEF Records
<1> DEFINE Good == /\ Tells /\ Lasts /\ fs'[Tombstone] = fs[Tombstone]
                   /\ \A h \in Halves : fs'[Secret("pad", h)] # "zeros"
                   /\ ~CommittedPairExists'
           Onward ==
             /\ 2 < i + 1 /\ i + 1 <= 24 => Ca' = None
             /\ 5 < i + 1 /\ i + 1 <= 27 => Cb' = None
             /\ b \notin Defective =>
                  /\ 22 < i + 1 => fs'[Marker] # None
                  /\ 24 < i + 1 => Ca' = b["a-to-b"]
                  /\ 27 < i + 1 => Cb' = b["b-to-a"]
                  /\ kind # "browser-none" =>
                       /\ 9 < i + 1 => Wa' = IF i + 1 <= 29 THEN None ELSE b["a-to-b"]
                       /\ 9 < i + 1 => Wb' = IF i + 1 <= 30 THEN None ELSE b["b-to-a"]
                  /\ i + 1 = 30 + Records(kind) => fs'[Meta] = MetaOf(kind, "imported")
<1>12. ASSUME Good PROVE Nothing' /\ born' = "elsewhere" /\ Claims'
  BY <1>1, <1>7, <1>12, NothingElsewhere, NothingLasts DEF Lasts
<1>13. ASSUME Good, i < Last, Onward PROVE PairInv'
  <2>1. i + 1 \in Nat /\ i + 1 <= Last
    BY <1>11, <1>13
  <2>2. ImportAt(b, kind, i + 1)'
    BY <1>8, <1>12, <1>13, <2>1 DEF ImportAt, W
  <2> QED
    BY <1>1, <1>12, <1>13, <2>1, <2>2 DEF PairInv, VerbInv
<1>14. ASSUME CountersStay, fs'[Marker] = fs[Marker] PROVE ~CommittedPairExists'
  BY <1>10, <1>14 DEF CommittedPairExists, CountersStay
<1>15. CASE W[i] \in BesideItems
  <2>1. Keeps(Deciding) /\ Tells /\ Lasts /\ NoZeroing
    BY <1>1, <1>8, <1>15, BesideDoes
  <2>2. CountersStay /\ WitnessesStay /\ fs'[Meta] = fs[Meta] /\ fs'[Marker] = fs[Marker]
    BY <2>1, KeepsViews DEF MarksStay
  <2>3. Good
    BY <1>10, <1>14, <2>1, <2>2, KeepsViews DEF NoZeroing, MarksStay
  <2>4. Ca' = Ca /\ Cb' = Cb /\ Wa' = Wa /\ Wb' = Wb
    BY <1>9, <2>2 DEF CountersStay, WitnessesStay
  <2>5. CASE b \in Defective /\ i = 27
    <3>1. i + 1 \in Nat /\ \A j \in i + 1 .. Len(W) : W[j] \in BesideItems
      BY <1>4, <2>5
    <3>2. Settled'
      BY <1>4, <1>8, <3>1, SettledRest
    <3> QED
      BY <1>1, <1>12, <2>3, <3>2 DEF PairInv, VerbInv
  <2>6. CASE i \in {1, 3, 4, 6} \cup 10 .. 21 \/ (b \in Defective /\ i \in 22 .. 26)
    <3> HIDE DEF Good, Ca, Cb, Wa, Wb
    <3>1. Onward /\ i < Last
      BY <1>7, <1>11, <2>2, <2>4, <2>6
    <3> QED
      BY <1>13, <2>3, <3>1
  <2>7. CASE b \notin Defective /\ i \in {23, 25, 26, 28}
    <3> HIDE DEF Good, Ca, Cb, Wa, Wb
    <3>1. Onward /\ i < Last
      BY <1>7, <1>11, <2>2, <2>4, <2>7
    <3> QED
      BY <1>13, <2>3, <3>1
  <2>8. ASSUME NEW f \in Deciding, W[i] = RemoveFiles({f}) \/ \E v : W[i] = Write(f, v) PROVE FALSE
    BY <1>15, <2>8, BesideOnly
  <2>9. RemoveFiles(WitnessLog) \notin BesideItems /\ Commit \notin BesideItems
        /\ \A f, v : AppendTo(f, v) \notin BesideItems
    <3>1. WitnessOf("a-to-b") # WitnessOf("b-to-a")
      BY <1>9, PathsDiffer
    <3>2. \A f : WitnessLog # {f}
      BY <1>9, <3>1 DEF WitnessLog
    <3> QED
      BY <3>2 DEF BesideItems, RemoveFiles, Write, Commit, AppendTo
  <2>10. i \notin {2, 5, 7, 8, 9} /\ (b \notin Defective => i \notin {22, 24, 27})
    <3>1. /\ HeaderOf("pad", "a-to-b") \in Deciding /\ HeaderOf("pad", "b-to-a") \in Deciding
          /\ Meta \in Deciding /\ Marker \in Deciding
      BY <1>9, DecidingAre DEF Deciding
    <3>2. i # 2 /\ i # 5
      BY <1>5, <2>8, <3>1
    <3>3. i # 7 /\ i # 8
      BY <1>5, <2>8, <3>1
    <3>4. i # 9
      BY <1>5, <1>15, <2>9
    <3>5. b \notin Defective => i # 22
      BY <1>6, <2>8, <3>1
    <3>6. b \notin Defective => i # 24 /\ i # 27
      BY <1>6, <2>8, <3>1
    <3> QED
      BY <3>2, <3>3, <3>4, <3>5, <3>6
  <2>11. b \notin Defective => /\ kind # "browser-none" => i \notin {29, 30}
                               /\ i # 29 + Records(kind) /\ i # 30 + Records(kind)
    BY <1>6, <1>15, <2>8, <2>9, DecidingAre, ZenonT(40)
  <2>12. b \notin Defective => i \in 1 .. 28
    <3>1. b \notin Defective => i \in 1 .. 30 + Records(kind)
      <4>1. i >= 1
        <5>1. Len(W) \in Nat
          BY <1>4
        <5> QED
          BY <1>8, <5>1
      <4>2. b \notin Defective => i <= 30 + Records(kind)
        <5>1. i <= Last
          BY <1>7
        <5> QED
          BY <5>1
      <4> QED
        BY <1>11, <4>1, <4>2
    <3>2. Records(kind) = (IF kind = "browser-none" THEN 0 ELSE 2)
      BY <1>11
    <3>3. CASE kind = "browser-none"
      BY <2>11, <3>1, <3>2, <3>3
    <3>4. CASE kind # "browser-none"
      BY <2>11, <3>1, <3>2, <3>4
    <3> QED
      BY <3>3, <3>4
  <2> QED
    <3>1. CASE b \in Defective
      <4>1. i >= 1 /\ i <= 27
        BY <1>4, <1>7, <1>8, <3>1
      <4> QED
        BY <2>5, <2>6, <2>10, <3>1, <4>1
    <3>2. CASE b \notin Defective
      BY <2>6, <2>7, <2>10, <2>12, <3>2
    <3> QED
      BY <3>1, <3>2
<1>16. CASE i \in {2, 5}
  <2> DEFINE h == IF i = 2 THEN "a-to-b" ELSE "b-to-a"
  <2>1. h \in Halves /\ W[i] = RemoveFiles({HeaderOf("pad", h)}) /\ HeaderOf("pad", h) \in Files
    BY <1>5, <1>9, <1>16, PathsAreFiles DEF Roots
  <2>2. Alters(HeaderOf("pad", h), None) /\ Tells /\ Lasts
    BY <1>1, <1>8, <2>1, RemovedOne
  <2>3. /\ Counter("pad", h)' = None /\ \A x \in Halves : x # h => Counter("pad", x)' = Counter("pad", x)
        /\ BodiesStay /\ fs'[Marker] = fs[Marker] /\ fs'[Tombstone] = fs[Tombstone]
    BY <2>1, <2>2, AltersHeader DEF MarksStay
  <2>4. Good
    BY <1>10, <2>2, <2>3 DEF CommittedPairExists, BodiesStay
  <2>5. (i = 2 => Ca' = None) /\ (i = 5 => Ca' = Ca /\ Cb' = None)
    BY <1>9, <1>16, <2>3
  <2> HIDE DEF Good, Ca, Cb, Wa, Wb
  <2>6. Onward /\ i < Last
    BY <1>7, <1>11, <1>16, <2>5
  <2> QED
    BY <1>13, <2>4, <2>6
<1>17. CASE i \in {7, 8}
  <2> DEFINE f == IF i = 7 THEN Meta ELSE Marker
  <2>1. f \in {Meta, Marker, Tombstone} /\ f \in Files /\ W[i] = RemoveFiles({f})
    BY <1>5, <1>17, DecidingAre
  <2>2. Alters(f, None) /\ Tells /\ Lasts
    BY <1>1, <1>8, <2>1, RemovedOne
  <2>3. fs'[Tombstone] = fs[Tombstone] /\ BodiesStay /\ CountersStay /\ (i = 7 => fs'[Marker] = fs[Marker])
    BY <1>17, <2>1, <2>2, AltersOther, PathsDiffer
  <2>4. Ca' = Ca /\ Cb' = Cb /\ Ca = None /\ Cb = None
    BY <1>7, <1>9, <1>17, <2>3 DEF CountersStay
  <2>5. ~CommittedPairExists'
    BY <1>9, <2>4 DEF CommittedPairExists
  <2>6. Good
    BY <1>10, <2>2, <2>3, <2>5 DEF BodiesStay
  <2> HIDE DEF Good, Ca, Cb, Wa, Wb
  <2>7. Onward /\ i < Last
    BY <1>11, <1>17, <2>4
  <2> QED
    BY <1>13, <2>6, <2>7
<1>18. CASE i = 9
  <2>1. WitnessLog \in SUBSET Files
    BY PathsAreFiles
  <2>2. (\A f \in WitnessLog : fs'[f] = None) /\ Keeps(Files \ WitnessLog) /\ Tells /\ Lasts
    BY <1>1, <1>5, <1>8, <1>18, <2>1, RemoveDoes
  <2>3. /\ {Meta, Marker, Tombstone} \subseteq Files \ WitnessLog
        /\ \A h \in Halves : Secret("pad", h) \in Files \ WitnessLog /\ HeaderOf("pad", h) \in Files \ WitnessLog
    BY PathsAreFiles, PathsDiffer DEF Deciding, Roots, WitnessLog
  <2>4. CountersStay /\ BodiesStay /\ fs'[Marker] = fs[Marker] /\ fs'[Tombstone] = fs[Tombstone]
    BY <2>2, <2>3 DEF Keeps, CountersStay, Counter, BodiesStay, HeaderOf
  <2>5. Good
    BY <1>10, <1>14, <2>2, <2>4 DEF BodiesStay
  <2>6. Ca' = Ca /\ Cb' = Cb /\ Wa' = None /\ Wb' = None
    BY <1>9, <2>2, <2>4 DEF CountersStay, WitnessLog
  <2> HIDE DEF Good, Ca, Cb, Wa, Wb
  <2>7. Onward /\ i < Last
    BY <1>7, <1>11, <1>18, <2>6
  <2> QED
    BY <1>13, <2>5, <2>7
<1>19. CASE b \notin Defective /\ i = 22
  <2>1. Alters(Marker, "importing") /\ Tells /\ Lasts
    BY <1>1, <1>6, <1>8, <1>19, DecidingAre, WriteDoes
  <2>2. fs'[Marker] = "importing" /\ fs'[Tombstone] = fs[Tombstone] /\ BodiesStay /\ WitnessesStay /\ CountersStay
    BY <2>1, AltersOther, PathsDiffer
  <2>3. fs'[Marker] # None
    BY <2>2, FilesAreNotNone
  <2>4. Good
    BY <1>10, <2>1, <2>2, <2>3 DEF BodiesStay, CommittedPairExists
  <2>5. Ca' = Ca /\ Cb' = Cb /\ Wa' = Wa /\ Wb' = Wb
    BY <1>9, <2>2 DEF CountersStay, WitnessesStay
  <2> HIDE DEF Good, Ca, Cb, Wa, Wb
  <2>6. Onward /\ i < Last
    BY <1>7, <1>11, <1>19, <2>3, <2>5
  <2> QED
    BY <1>13, <2>4, <2>6
<1>20. CASE b \notin Defective /\ i \in {24, 27}
  <2> DEFINE h == IF i = 24 THEN "a-to-b" ELSE "b-to-a"
  <2>1. h \in Halves /\ W[i] = Write(HeaderOf("pad", h), b[h]) /\ HeaderOf("pad", h) \in Files
    BY <1>6, <1>9, <1>20, PathsAreFiles DEF Roots
  <2>2. Alters(HeaderOf("pad", h), b[h]) /\ Tells /\ Lasts
    BY <1>1, <1>8, <2>1, WriteDoes
  <2>3. /\ Counter("pad", h)' = b[h] /\ \A x \in Halves : x # h => Counter("pad", x)' = Counter("pad", x)
        /\ BodiesStay /\ WitnessesStay /\ fs'[Marker] = fs[Marker] /\ fs'[Tombstone] = fs[Tombstone]
    BY <2>1, <2>2, AltersHeader DEF MarksStay
  <2>4. fs'[Marker] # None
    BY <1>7, <1>20, <2>3
  <2>5. Good
    BY <1>10, <2>2, <2>3, <2>4 DEF CommittedPairExists, BodiesStay
  <2>6. /\ i = 24 => Ca' = b["a-to-b"] /\ Cb' = Cb
        /\ i = 27 => Ca' = Ca /\ Cb' = b["b-to-a"]
        /\ Wa' = Wa /\ Wb' = Wb
    BY <1>9, <1>20, <2>3 DEF WitnessesStay
  <2> HIDE DEF Good, Ca, Cb, Wa, Wb
  <2>7. Onward /\ i < Last
    BY <1>7, <1>11, <1>20, <2>4, <2>6
  <2> QED
    BY <1>13, <2>5, <2>7
<1>21. CASE b \notin Defective /\ kind # "browser-none" /\ i \in {29, 30}
  <2> DEFINE h == IF i = 29 THEN "a-to-b" ELSE "b-to-a"
  <2>1. h \in Halves /\ W[i] = AppendTo(WitnessOf(h), b[h]) /\ fs[WitnessOf(h)] = None /\ b[h] \in 0 .. TopCounter
    BY <1>3, <1>6, <1>7, <1>9, <1>21
  <2>2. Alters(WitnessOf(h), b[h]) /\ Tells /\ Lasts
    BY <1>1, <1>8, <2>1, AppendDoes
  <2>3. /\ fs'[WitnessOf(h)] = b[h] /\ \A x \in Halves : x # h => fs'[WitnessOf(x)] = fs[WitnessOf(x)]
        /\ BodiesStay /\ CountersStay /\ fs'[Marker] = fs[Marker] /\ fs'[Tombstone] = fs[Tombstone]
    BY <2>1, <2>2, AltersWitness DEF MarksStay
  <2>4. Good
    BY <1>10, <1>14, <2>2, <2>3 DEF BodiesStay
  <2>5. /\ i = 29 => Wa' = b["a-to-b"] /\ Wb' = Wb
        /\ i = 30 => Wa' = Wa /\ Wb' = b["b-to-a"]
        /\ Ca' = Ca /\ Cb' = Cb
    BY <1>9, <1>21, <2>3 DEF CountersStay
  <2> HIDE DEF Good, Ca, Cb, Wa, Wb
  <2>6. Onward /\ i < Last
    BY <1>7, <1>11, <1>21, <2>3, <2>5
  <2> QED
    BY <1>13, <2>4, <2>6
<1>22. CASE b \notin Defective /\ i = 29 + Records(kind)
  <2>1. Alters(Meta, MetaOf(kind, "imported")) /\ Tells /\ Lasts
    BY <1>1, <1>6, <1>8, <1>22, DecidingAre, WriteDoes
  <2>2. /\ fs'[Meta] = MetaOf(kind, "imported") /\ fs'[Marker] = fs[Marker]
        /\ fs'[Tombstone] = fs[Tombstone] /\ BodiesStay /\ WitnessesStay /\ CountersStay
    BY <2>1, AltersOther, PathsDiffer
  <2>3. Good
    BY <1>10, <1>14, <2>1, <2>2 DEF BodiesStay
  <2>4. Ca' = Ca /\ Cb' = Cb /\ Wa' = Wa /\ Wb' = Wb
    BY <1>9, <2>2 DEF CountersStay, WitnessesStay
  <2> HIDE DEF Good, Ca, Cb, Wa, Wb
  <2>5. Onward /\ i < Last
    BY <1>7, <1>11, <1>22, <2>2, <2>4
  <2> QED
    BY <1>13, <2>3, <2>5
<1>23. CASE b \notin Defective /\ i = 30 + Records(kind)
  <2>1. Alters(Marker, None) /\ shown' = shown /\ committed' /\ Lasts
    BY <1>1, <1>6, <1>8, <1>23, CommitDoes
  <2>2. /\ fs'[Marker] = None /\ fs'[Meta] = fs[Meta] /\ fs'[Tombstone] = fs[Tombstone]
        /\ BodiesStay /\ WitnessesStay /\ CountersStay
    BY <2>1, AltersOther, PathsDiffer
  <2>3. /\ Ca = b["a-to-b"] /\ Cb = b["b-to-a"] /\ fs[Meta] = MetaOf(kind, "imported")
        /\ kind # "browser-none" => Wa = b["a-to-b"] /\ Wb = b["b-to-a"]
    BY <1>7, <1>11, <1>23
  <2>4. \A h \in Halves : Counter("pad", h)' = b[h] /\ b[h] \in 0 .. TopCounter
    BY <1>3, <1>9, <2>2, <2>3 DEF CountersStay
  <2>5. /\ fs'[Tombstone] = None /\ born' = "elsewhere" /\ \A h \in Halves : shown'[h] = 0
        /\ \A h \in Halves : fs'[Secret("pad", h)] # "zeros"
    BY <1>7, <1>10, <2>1, <2>2 DEF Nothing, Lasts, BodiesStay
  <2>6. ZeroedIsDestroyed' /\ Unborn' /\ GhostsStepAside'
    BY <2>1, <2>5 DEF ZeroedIsDestroyed, Unborn, GhostsStepAside
  <2>7. StandsForGood'
    BY <2>2, <2>4, FilesAreNotNone DEF StandsForGood
  <2>8. AheadOfShown'
    BY <2>4, <2>5, PairSizes DEF AheadOfShown
  <2>9. OriginIsTrue'
    <3>1. MetaOf(kind, "imported") \in Metas /\ MetaOf(kind, "imported").origin = "imported"
      BY DEF MetaOf, Metas
    <3> QED
      BY <2>2, <2>3, <2>5, <3>1, FilesAreNotNone DEF OriginIsTrue, Provided
  <2>10. WitnessIsBehind'
    <3>1. CASE kind = "browser-none"
      BY <2>2, <2>3, <3>1 DEF WitnessIsBehind, Witnessed, MetaOf
    <3>2. CASE kind # "browser-none"
      <4>1. \A h \in Halves : fs'[WitnessOf(h)] = b[h]
        BY <1>9, <2>2, <2>3, <3>2 DEF WitnessesStay
      <4>2. \A h \in Halves : b[h] # None /\ b[h] >= b[h]
        BY <2>4, FilesAreNotNone
      <4> QED
        BY <2>4, <4>1, <4>2 DEF WitnessIsBehind
    <3> QED
      BY <3>1, <3>2
  <2>11. Claims'
    BY <2>6, <2>7, <2>8, <2>9, <2>10 DEF Claims
  <2>12. Settled'
    <3>1. i + 1 \in Nat /\ i + 1 = 31 + Records(kind) /\ Len(W) = 36 + Records(kind)
      BY <1>4, <1>11, <1>23
    <3>2. \A j \in i + 1 .. Len(W) : W[j] \in BesideItems
      BY <1>6, <1>23, <3>1
    <3> QED
      BY <1>4, <1>8, <3>1, <3>2, SettledRest
  <2> QED
    BY <1>1, <2>11, <2>12 DEF PairInv, VerbInv
<1>24. b \in Defective /\ i \in 22 .. 27 => W[i] \in BesideItems
  BY <1>5
<1>25. i \in {1, 3, 4, 6} \cup 10 .. 21 => W[i] \in BesideItems
  BY <1>5
<1>26. b \notin Defective /\ i \in {23, 25, 26, 28} => W[i] \in BesideItems
  BY <1>6
<1> HIDE DEF Ca, Cb, Wa, Wb
<1>27. i \in 1 .. 27 \/ (b \notin Defective /\ i \in 28 .. 30 + Records(kind))
  <2>1. i >= 1 /\ i <= Last
    BY <1>4, <1>7, <1>8
  <2>2. CASE b \in Defective
    BY <2>1, <2>2
  <2>3. CASE b \notin Defective
    BY <1>11, <2>1, <2>3
  <2> QED
    BY <2>2, <2>3
<1> QED
  BY <1>11, <1>15, <1>16, <1>17, <1>18, <1>19, <1>20, <1>21, <1>22, <1>23, <1>24, <1>25, <1>26, <1>27

LEMMA ItemsDiffer ==
  /\ \A f, v, g, w : Write(f, v) = Write(g, w) => f = g /\ v = w
  /\ \A f, v, x : Write(f, v) # RemoveFiles(x) /\ Write(f, v) # Zero(x)
  /\ \A f, v, g, w : Write(f, v) # AppendTo(g, w)
  /\ \A f, v, h, n : Write(f, v) # [do |-> "show", half |-> h, val |-> n]
  /\ \A f, v : Write(f, v) # Commit /\ Write(f, v) # Report
<1>1. ASSUME NEW f, NEW v, NEW g, NEW w, Write(f, v) = Write(g, w) PROVE f = g /\ v = w
  BY <1>1 DEF Write
<1>2. \A f, v : Write(f, v).do = "write"
  BY DEF Write
<1>3. \A f, w, x : /\ RemoveFiles(x).do = "remove" /\ Zero(x).do = "zero" /\ AppendTo(f, w).do = "append"
                   /\ [do |-> "show", half |-> f, val |-> w].do = "show"
                   /\ Commit.do = "commit" /\ Report.do = "report"
  BY DEF RemoveFiles, Zero, AppendTo, Commit, Report
<1> QED
  BY <1>1, <1>2, <1>3

LEMMA GenWritten ==
  ASSUME PairShape, todo # <<>>, NEW kind \in Kinds, NEW i \in Nat, GenAt(kind, i),
         NEW f \in Deciding, NEW v, Head(todo) = Write(f, v)
  PROVE  f # Tombstone /\ f # Marker
<1> DEFINE W == GenWrites(kind)
<1>1. W \in Seq(Items) /\ Len(W) = 7 + Records(kind)
  BY GenList
<1>2. /\ W[2] = Write(HeaderOf("pad", "a-to-b"), 0) /\ W[5] = Write(HeaderOf("pad", "b-to-a"), 0)
      /\ \A j \in {1, 3, 4, 6} : W[j] \in BesideItems
      /\ kind # "browser-none" => /\ W[7] = AppendTo(WitnessOf("a-to-b"), 0)
                                  /\ W[8] = AppendTo(WitnessOf("b-to-a"), 0)
      /\ W[7 + Records(kind)] = Write(Meta, MetaOf(kind, "generated-here"))
  BY GenList
<1>3. From(W, i) /\ todo \in Seq(Items)
  BY DEF GenAt, PairShape
<1> HIDE DEF W
<1>4. i \in 1 .. Len(W) /\ W[i] = Write(f, v)
  BY <1>1, <1>3, FromHead
<1>5. W[i] \notin BesideItems
  BY <1>4, BesideOnly
<1>6. i \in {2, 5} \/ i = 7 + Records(kind)
  BY <1>1, <1>2, <1>4, <1>5, ItemsDiffer DEF Records
<1>7. f \in {HeaderOf("pad", "a-to-b"), HeaderOf("pad", "b-to-a"), Meta}
  BY <1>2, <1>4, <1>6, ItemsDiffer
<1> QED
  BY <1>7, PathsDiffer DEF Halves, Roots

LEMMA ImportWritten ==
  ASSUME PairShape, todo # <<>>, NEW kind \in Kinds, NEW b \in Bundles, NEW i \in Nat,
         ImportAt(b, kind, i), NEW f \in Deciding, NEW v, Head(todo) = Write(f, v)
  PROVE  f # Tombstone /\ (f \notin {Meta, Marker} => fs[Marker] # None)
<1> DEFINE W == ImportWrites(b, kind)
<1>1. b \in [Halves -> 0 .. TopCounter]
  BY PairSizes
<1>2. W \in Seq(Items) /\ Len(W) = IF b \in Defective THEN 27 ELSE 36 + Records(kind)
  BY <1>1, ImportList
<1>3. /\ W[2] = RemoveFiles({HeaderOf("pad", "a-to-b")}) /\ W[5] = RemoveFiles({HeaderOf("pad", "b-to-a")})
      /\ W[7] = RemoveFiles({Meta}) /\ W[8] = RemoveFiles({Marker}) /\ W[9] = RemoveFiles(WitnessLog)
      /\ \A j \in {1, 3, 4, 6} \cup 10 .. 21 : W[j] \in BesideItems
      /\ b \in Defective => \A j \in 22 .. 27 : W[j] \in BesideItems
  BY <1>1, ImportList
<1>4. b \notin Defective =>
        /\ W[22] = Write(Marker, "importing")
        /\ W[24] = Write(HeaderOf("pad", "a-to-b"), b["a-to-b"])
        /\ W[27] = Write(HeaderOf("pad", "b-to-a"), b["b-to-a"])
        /\ \A j \in {23, 25, 26, 28} : W[j] \in BesideItems
        /\ kind # "browser-none" => /\ W[29] = AppendTo(WitnessOf("a-to-b"), b["a-to-b"])
                                    /\ W[30] = AppendTo(WitnessOf("b-to-a"), b["b-to-a"])
        /\ W[29 + Records(kind)] = Write(Meta, MetaOf(kind, "imported"))
        /\ W[30 + Records(kind)] = Commit
  BY <1>1, ImportList
<1>5. /\ From(W, i) /\ todo \in Seq(Items)
      /\ i <= IF b \in Defective THEN 27 ELSE 30 + Records(kind)
      /\ b \notin Defective /\ 22 < i => fs[Marker] # None
  BY DEF ImportAt, PairShape
<1> HIDE DEF W
<1>6. i \in 1 .. Len(W) /\ W[i] = Write(f, v)
  BY <1>2, <1>5, FromHead
<1>7. W[i] \notin BesideItems
  BY <1>6, BesideOnly
<1>8. i \notin 1 .. 21
  <2>1. i \in 1 .. 21 => i \in {1, 3, 4, 6} \cup 10 .. 21 \/ i \in {2, 5, 7, 8, 9}
    OBVIOUS
  <2>2. \A x : Write(f, v) # RemoveFiles(x)
    BY ItemsDiffer
  <2>3. i \notin {2, 5, 7, 8, 9}
    BY <1>3, <1>6, <2>2
  <2> QED
    BY <1>3, <1>7, <2>1, <2>3
<1>9. b \notin Defective /\ i >= 22 /\ i <= 30 + Records(kind)
  <2>1. i >= 22
    BY <1>2, <1>6, <1>8
  <2>2. b \in Defective => i \in 22 .. 27
    BY <1>5, <2>1
  <2> QED
    BY <1>3, <1>5, <1>7, <2>1, <2>2
<1>10. i = 22 \/ i = 24 \/ i = 27 \/ i = 29 + Records(kind)
  <2>1. CASE kind = "browser-none"
    <3>1. Records(kind) = 0
      BY <2>1 DEF Records
    <3> QED
      BY <1>4, <1>6, <1>7, <1>9, <3>1, ItemsDiffer
  <2>2. CASE kind # "browser-none"
    <3>1. Records(kind) = 2
      BY <2>2 DEF Records
    <3>2. i \in 22 .. 32
      BY <1>9, <3>1
    <3>3. i \notin {23, 25, 26, 28, 29, 30, 32}
      BY <1>4, <1>6, <1>7, <1>9, <2>2, <3>1, ItemsDiffer
    <3> QED
      BY <3>1, <3>2, <3>3
  <2> QED
    BY <2>1, <2>2
<1>11. CASE i = 22
  BY <1>4, <1>6, <1>9, <1>11, ItemsDiffer, PathsDiffer
<1>12. CASE i \in {24, 27}
  <2>1. f \in {HeaderOf("pad", "a-to-b"), HeaderOf("pad", "b-to-a")}
    BY <1>4, <1>6, <1>9, <1>12, ItemsDiffer
  <2> QED
    BY <1>5, <1>9, <1>12, <2>1, PathsDiffer DEF Halves, Roots
<1>13. CASE i = 29 + Records(kind)
  BY <1>4, <1>6, <1>9, <1>13, ItemsDiffer, PathsDiffer
<1> QED
  BY <1>10, <1>11, <1>12, <1>13

LEMMA ImportCuts ==
  ASSUME PairInv, NEW kind \in Kinds, NEW b \in Bundles, NEW i \in Nat, ImportAt(b, kind, i),
         PairShape', Tells, Lasts, NEW f \in Deciding \ WitnessLog, Alters(f, Torn),
         f # Tombstone, f \notin {Meta, Marker} => fs[Marker] # None
  PROVE  Claims'
<1>1. Nothing /\ born = "elsewhere" /\ Claims
  BY DEF ImportAt, PairInv
<1>2. ~CommittedPairExists /\ \A h \in Halves : fs[Secret("pad", h)] # "zeros"
  BY <1>1, NoZerosYet DEF Claims, GhostsStepAside, Nothing
<1>3. BodiesStay /\ fs'[Tombstone] = fs[Tombstone] /\ ~CommittedPairExists'
  <2>1. CASE f = Meta
    <3>1. BodiesStay /\ CountersStay /\ fs'[Tombstone] = fs[Tombstone] /\ fs'[Marker] = fs[Marker]
      BY <2>1, AltersOther, PathsDiffer
    <3> QED
      BY <1>2, <3>1 DEF CommittedPairExists, CountersStay
  <2>2. CASE f = Marker
    <3>1. BodiesStay /\ fs'[Tombstone] = fs[Tombstone] /\ fs'[Marker] = Torn
      BY <2>2, AltersOther, PathsDiffer
    <3> QED
      BY <3>1, FilesAreNotNone DEF CommittedPairExists
  <2>3. ASSUME NEW h \in Halves, f = HeaderOf("pad", h)
        PROVE  BodiesStay /\ fs'[Tombstone] = fs[Tombstone] /\ ~CommittedPairExists'
    <3>1. BodiesStay /\ MarksStay
      BY <2>3, AltersHeader
    <3>2. fs[Marker] # None
      BY <2>3, PathsDiffer DEF Roots
    <3> QED
      BY <3>1, <3>2 DEF CommittedPairExists, MarksStay
  <2> QED
    BY <2>1, <2>2, <2>3 DEF Deciding
<1>4. Nothing' /\ born' = "elsewhere"
  BY <1>1, <1>3, NothingLasts DEF Lasts
<1> QED
  BY <1>2, <1>3, <1>4, NothingElsewhere DEF BodiesStay
-----------------------------------------------------------------------------
(* burn and open.                                                          *)

LEMMA UseStarts ==
  ASSUME PairInv, NEW h \in Halves, Use(h)
  PROVE  PairInv'
<1>1. /\ Active /\ Counter("pad", h) < TopCounter /\ todo' = UseWrites(h, Counter("pad", h) + 1)
      /\ fs' = fs /\ born' = born /\ shown' = shown /\ taken' = taken /\ committed' = committed
      /\ cuts' = cuts /\ todo = <<>>
  BY DEF Use, Takes
<1>2. PairShape /\ Claims
  BY DEF PairInv
<1>3. /\ fs[Tombstone] = None /\ fs[Marker] = None
      /\ \A x \in Halves : Counter("pad", x) \notin {None, Torn}
  BY <1>1 DEF Active, IsDestroyed, StoreLoads
<1>4. PICK n \in 0 .. TopCounter : n = Counter("pad", h) + 1 /\ Counter("pad", h) < n
  <2>1. Counter("pad", h) \in 0 .. TopCounter
    BY <1>2, <1>3, ShapeSays
  <2> QED
    BY <1>1, <2>1, PairSizes
<1>5. PICK w \in BOOLEAN : UseWrites(h, n) = UseList(h, n, w)
  <2>1. \A x, name : PathOf("pad", x, name) = PathOf("pad", x, name)
    OBVIOUS
  <2>2. CASE Witnessed
    <3>1. UseWrites(h, n) = UseList(h, n, TRUE)
      BY <2>2 DEF UseWrites, UseList, HeaderOf, Journal
    <3> QED
      BY <3>1
  <2>3. CASE ~Witnessed
    <3>1. UseWrites(h, n) = UseList(h, n, FALSE)
      BY <2>3 DEF UseWrites, UseList, HeaderOf, Journal
    <3> QED
      BY <3>1
  <2> QED
    BY <2>2, <2>3
<1>6. UseList(h, n, w) \in Seq(Items)
  BY <1>4, UseListIs
<1>7. born # "nowhere" /\ ~(born = "elsewhere" /\ ~committed)
  <2>1. h \in Halves /\ HeaderOf("pad", h) \in Files /\ Counter("pad", h) = fs[HeaderOf("pad", h)]
    BY PathsAreFiles DEF HeaderOf, Counter, Roots
  <2>2. born # "nowhere"
    BY <1>2, <1>3, <2>1 DEF Claims, Unborn
  <2>3. CommittedPairExists
    BY <1>3 DEF CommittedPairExists
  <2> QED
    BY <1>2, <2>2, <2>3 DEF Claims, GhostsStepAside
<1>8. PairShape'
  BY <1>1, <1>2, <1>4, <1>5, <1>6 DEF PairShape
<1>9. Claims'
  <2>1. ZeroedIsDestroyed' /\ Unborn' /\ GhostsStepAside' /\ StandsForGood'
    BY <1>1, <1>2, <1>7 DEF Claims, ZeroedIsDestroyed, Unborn, GhostsStepAside, StandsForGood,
                            IsDestroyed, CommittedPairExists, Counter
  <2>2. AheadOfShown' /\ OriginIsTrue' /\ WitnessIsBehind'
    BY <1>1, <1>2 DEF Claims, AheadOfShown, OriginIsTrue, WitnessIsBehind, IsDestroyed, Numbered,
                      Provided, Witnessed, Counter
  <2> QED
    BY <2>1, <2>2 DEF Claims
<1>10. From(UseList(h, n, w), 1)'
  BY <1>1, <1>4, <1>5, <1>6, FromStarts
<1>11. UseAt(h, n, w, 1)'
  BY <1>1, <1>3, <1>4, <1>7, <1>10 DEF UseAt, Numbered, Counter
<1> QED
  BY <1>4, <1>8, <1>9, <1>11 DEF PairInv, VerbInv

LEMMA UseSteps ==
  ASSUME PairInv, Step, NEW h \in Halves, NEW n \in 0 .. TopCounter, NEW w \in BOOLEAN, NEW i \in Nat,
         UseAt(h, n, w, i)
  PROVE  PairInv'
<1> DEFINE W == UseList(h, n, w)
           Last == IF w THEN 4 ELSE 3
<1>1. PairShape /\ Claims /\ PairShape' /\ todo \in Seq(Items)
  BY ShapeSteps DEF PairInv, PairShape
<1>2. todo # <<>> /\ todo' = Tail(todo)
  BY <1>1, StepGoesOn
<1>3. /\ W \in Seq(Items) /\ Len(W) = Last
      /\ W[1] = Write(HeaderOf("pad", h), n) /\ W[2] \in BesideItems
      /\ w => W[3] = AppendTo(WitnessOf(h), n)
      /\ W[Last] = [do |-> "show", half |-> h, val |-> n]
  BY UseListIs
<1>4. /\ From(W, i) /\ fs[Tombstone] = None /\ fs[Marker] = None
      /\ \A x \in Halves : Counter("pad", x) # None
      /\ born # "nowhere" /\ ~(born = "elsewhere" /\ ~committed)
      /\ IF i = 1 THEN Numbered(h) /\ Counter("pad", h) < n ELSE Counter("pad", h) = n
  BY DEF UseAt
<1> HIDE DEF W
<1>5. i \in 1 .. Len(W) /\ Head(todo) = W[i] /\ From(W, i + 1)'
  BY <1>1, <1>2, <1>3, <1>4, FromGoesOn
<1>6. born = "here" \/ committed
  BY <1>1, <1>4 DEF PairShape
<1>7. \A x \in Halves : fs[Secret("pad", x)] # "zeros"
  BY <1>1, <1>4 DEF Claims, ZeroedIsDestroyed, IsDestroyed
<1>8. ASSUME Claims', i < Last, fs'[Tombstone] = None, fs'[Marker] = None,
             \A x \in Halves : Counter("pad", x)' # None, Counter("pad", h)' = n, Lasts, committed' <=> committed
      PROVE  PairInv'
  <2>1. i + 1 \in Nat /\ i + 1 # 1
    BY <1>5
  <2>2. UseAt(h, n, w, i + 1)'
    BY <1>4, <1>5, <1>8, <2>1 DEF UseAt, W, Lasts
  <2> QED
    BY <1>1, <1>8, <2>1, <2>2 DEF PairInv, VerbInv
<1>9. CASE i = 1
  <2>1. Alters(HeaderOf("pad", h), n) /\ Tells /\ Lasts
    BY <1>1, <1>3, <1>5, <1>9, WriteDoes, PathsAreFiles DEF Roots
  <2>2. /\ Counter("pad", h)' = n /\ \A x \in Halves : x # h => Counter("pad", x)' = Counter("pad", x)
        /\ BodiesStay /\ WitnessesStay /\ MarksStay
    BY <2>1, AltersHeader
  <2>3. n # None
    BY FilesAreNotNone
  <2>4. Numbered(h) /\ Counter("pad", h) < n /\ Counter("pad", h) \in 0 .. TopCounter
    BY <1>1, <1>4, <1>9, ShapeSays DEF Numbered
  <2>5. ZeroedIsDestroyed' /\ Unborn' /\ GhostsStepAside' /\ StandsForGood'
    BY <1>4, <1>7, <2>1, <2>2, <2>3 DEF ZeroedIsDestroyed, Unborn, GhostsStepAside, StandsForGood,
                                        BodiesStay, MarksStay, Tells, Lasts
  <2>6. OriginIsTrue'
    BY <1>1, <2>1, <2>2 DEF Claims, OriginIsTrue, Provided, MarksStay, Tells, Lasts
  <2>7. AheadOfShown'
    <3>1. \A x \in Halves : shown'[x] = shown[x] /\ shown[x] \in 0 .. TopCounter
      BY <1>1, <2>1, ShapeSays DEF Tells
    <3>2. \A x \in Halves : Numbered(x) => Counter("pad", x) >= shown[x]
      BY <1>1, <1>4 DEF Claims, AheadOfShown, IsDestroyed
    <3>3. n >= shown[h]
      BY <2>4, <3>1, <3>2, PairSizes
    <3> QED
      BY <2>2, <3>1, <3>2, <3>3 DEF AheadOfShown, Numbered
  <2>8. WitnessIsBehind'
    <3>1. SUFFICES ASSUME Provided, Witnessed PROVE WitnessIsBehind'
      BY <2>2 DEF WitnessIsBehind, Provided, Witnessed, MarksStay
    <3>2. \A x \in Halves : fs[WitnessOf(x)] # None /\ (Numbered(x) => Counter("pad", x) >= fs[WitnessOf(x)])
      BY <1>1, <1>4, <1>6, <3>1 DEF Claims, WitnessIsBehind, IsDestroyed
    <3>3. fs[WitnessOf(h)] \in 0 .. TopCounter
      BY <1>1, <3>2, ShapeSays
    <3>4. n >= fs[WitnessOf(h)]
      BY <2>4, <3>2, <3>3, PairSizes
    <3> QED
      BY <2>2, <3>2, <3>4 DEF WitnessIsBehind, WitnessesStay, Numbered
  <2>9. Claims'
    BY <2>5, <2>6, <2>7, <2>8 DEF Claims
  <2> QED
    BY <1>4, <1>8, <1>9, <2>1, <2>2, <2>3, <2>9 DEF MarksStay, Tells
<1>10. CASE i = 2
  <2>1. Keeps(Deciding) /\ Tells /\ Lasts /\ NoZeroing
    BY <1>1, <1>3, <1>5, <1>10, BesideDoes
  <2>2. Claims' /\ CountersStay /\ MarksStay
    BY <1>1, <1>2, <2>1, BesideKeepsClaims, KeepsViews
  <2> QED
    BY <1>4, <1>8, <1>10, <2>1, <2>2 DEF CountersStay, MarksStay, Tells
<1>11. CASE w /\ i = 3
  <2>1. /\ Alters(WitnessOf(h), Later(WitnessOf(h), n)) /\ Tells /\ Lasts
        /\ Later(WitnessOf(h), n) \in 0 .. TopCounter
        /\ fs[WitnessOf(h)] = None \/ fs[WitnessOf(h)] <= n => Later(WitnessOf(h), n) = n
    BY <1>1, <1>3, <1>5, <1>11, AppendDoes
  <2>2. /\ fs'[WitnessOf(h)] = Later(WitnessOf(h), n)
        /\ \A x \in Halves : x # h => fs'[WitnessOf(x)] = fs[WitnessOf(x)]
        /\ BodiesStay /\ CountersStay /\ MarksStay
    BY <2>1, AltersWitness
  <2>3. Counter("pad", h) = n /\ Numbered(h)
    BY <1>4, <1>11, FilesAreNotNone DEF Numbered
  <2>4. WitnessIsBehind'
    <3>1. SUFFICES ASSUME Provided, Witnessed PROVE WitnessIsBehind'
      BY <2>2 DEF WitnessIsBehind, Provided, Witnessed, MarksStay
    <3>2. \A x \in Halves : fs[WitnessOf(x)] # None /\ (Numbered(x) => Counter("pad", x) >= fs[WitnessOf(x)])
      BY <1>1, <1>4, <1>6, <3>1 DEF Claims, WitnessIsBehind, IsDestroyed
    <3>3. fs[WitnessOf(h)] \in 0 .. TopCounter /\ n >= fs[WitnessOf(h)]
      BY <1>1, <2>3, <3>2, ShapeSays
    <3>4. fs'[WitnessOf(h)] = n /\ n # None /\ n >= n
      BY <2>1, <2>2, <3>3, FilesAreNotNone
    <3> QED
      BY <2>2, <2>3, <3>2, <3>4 DEF WitnessIsBehind, CountersStay, Numbered
  <2>5. NoZeroing
    BY <2>2 DEF BodiesStay, NoZeroing
  <2>6. Claims'
    BY <1>1, <1>2, <2>1, <2>2, <2>4, <2>5, ViewsKeepClaims
  <2> QED
    BY <1>4, <1>8, <1>11, <2>1, <2>2, <2>6 DEF CountersStay, MarksStay, Tells
<1>12. CASE i = Last
  <2>1. fs' = fs /\ shown' = [shown EXCEPT ![h] = n] /\ (committed' <=> committed) /\ Lasts
    BY <1>1, <1>3, <1>5, <1>12, ShowDoes
  <2>2. Counter("pad", h) = n
    BY <1>4, <1>12
  <2>3. ZeroedIsDestroyed' /\ Unborn' /\ GhostsStepAside' /\ StandsForGood'
    BY <1>4, <1>7, <2>1 DEF ZeroedIsDestroyed, Unborn, GhostsStepAside, StandsForGood, Counter, Lasts
  <2>4. OriginIsTrue' /\ WitnessIsBehind'
    BY <1>1, <2>1 DEF Claims, OriginIsTrue, WitnessIsBehind, IsDestroyed, Provided, Witnessed,
                      Numbered, Counter, Lasts
  <2>5. AheadOfShown'
    <3>1. \A x \in Halves : Numbered(x) => Counter("pad", x) >= shown[x]
      BY <1>1, <1>4 DEF Claims, AheadOfShown, IsDestroyed
    <3>2. \A x \in Halves : shown'[x] = IF x = h THEN n ELSE shown[x]
      BY <1>1, <2>1 DEF PairShape
    <3>3. \A x \in Halves : Counter("pad", x)' = Counter("pad", x) /\ (Numbered(x)' <=> Numbered(x))
      BY <2>1 DEF Counter, Numbered
    <3>4. n >= n
      OBVIOUS
    <3> QED
      BY <2>2, <3>1, <3>2, <3>3, <3>4 DEF AheadOfShown
  <2>6. Claims'
    BY <2>3, <2>4, <2>5 DEF Claims
  <2>7. Settled'
    <3>1. i + 1 \in Nat /\ \A j \in i + 1 .. Len(W) : W[j] \in BesideItems
      BY <1>3, <1>12
    <3> QED
      BY <1>3, <1>5, <3>1, SettledRest
  <2> QED
    BY <1>1, <2>6, <2>7 DEF PairInv, VerbInv
<1>13. i \in 1 .. Last
  BY <1>3, <1>5
<1> QED
  BY <1>9, <1>10, <1>11, <1>12, <1>13

LEMMA UseWritten ==
  ASSUME PairShape, todo # <<>>, NEW h \in Halves, NEW n \in 0 .. TopCounter, NEW w \in BOOLEAN,
         NEW i \in Nat, UseAt(h, n, w, i), NEW f \in Deciding, NEW v, Head(todo) = Write(f, v)
  PROVE  f = HeaderOf("pad", h)
<1> DEFINE W == UseList(h, n, w)
           Last == IF w THEN 4 ELSE 3
<1>1. /\ W \in Seq(Items) /\ Len(W) = Last
      /\ W[1] = Write(HeaderOf("pad", h), n) /\ W[2] \in BesideItems
      /\ w => W[3] = AppendTo(WitnessOf(h), n)
      /\ W[Last] = [do |-> "show", half |-> h, val |-> n]
  BY UseListIs
<1>2. From(W, i) /\ todo \in Seq(Items)
  BY DEF UseAt, PairShape
<1> HIDE DEF W
<1>3. i \in 1 .. Last /\ W[i] = Write(f, v)
  BY <1>1, <1>2, FromHead
<1>4. W[i] \notin BesideItems
  BY <1>3, BesideOnly
<1>5. i = 1
  <2>1. i \notin {2, Last} /\ (w => i # 3)
    BY <1>1, <1>3, <1>4, ItemsDiffer
  <2> QED
    BY <1>3, <2>1
<1> QED
  BY <1>1, <1>3, <1>5, ItemsDiffer

LEMMA UseCuts ==
  ASSUME PairInv, NEW h \in Halves, NEW n \in 0 .. TopCounter, NEW w \in BOOLEAN, NEW i \in Nat,
         UseAt(h, n, w, i), PairShape', Tells, Lasts, Alters(HeaderOf("pad", h), Torn)
  PROVE  Claims'
<1>1. /\ PairShape /\ Claims /\ fs[Tombstone] = None /\ fs[Marker] = None
      /\ \A x \in Halves : Counter("pad", x) # None
      /\ born # "nowhere" /\ ~(born = "elsewhere" /\ ~committed)
  BY DEF UseAt, PairInv
<1>2. /\ Counter("pad", h)' = Torn /\ \A x \in Halves : x # h => Counter("pad", x)' = Counter("pad", x)
      /\ BodiesStay /\ WitnessesStay /\ MarksStay
  BY AltersHeader
<1>3. \A x \in Halves : Numbered(x)' => x # h /\ Numbered(x) /\ Counter("pad", x)' = Counter("pad", x)
  BY <1>2 DEF Numbered
<1>4. \A x \in Halves : fs[Secret("pad", x)] # "zeros"
  BY <1>1 DEF Claims, ZeroedIsDestroyed, IsDestroyed
<1>5. ZeroedIsDestroyed' /\ Unborn' /\ GhostsStepAside' /\ StandsForGood'
  BY <1>1, <1>2, <1>4, FilesAreNotNone DEF ZeroedIsDestroyed, Unborn, GhostsStepAside, StandsForGood,
                                           BodiesStay, MarksStay, Tells, Lasts
<1>6. OriginIsTrue'
  BY <1>1, <1>2 DEF Claims, OriginIsTrue, Provided, MarksStay, Tells, Lasts
<1>7. AheadOfShown'
  BY <1>1, <1>2, <1>3 DEF Claims, AheadOfShown, IsDestroyed, MarksStay, Tells
<1>8. WitnessIsBehind'
  BY <1>1, <1>2, <1>3 DEF Claims, WitnessIsBehind, IsDestroyed, Provided, Witnessed, MarksStay, WitnessesStay,
                          Tells, Lasts
<1> QED
  BY <1>5, <1>6, <1>7, <1>8 DEF Claims
-----------------------------------------------------------------------------
(* destroy.                                                                *)

LEMMA UnderThePad ==
  ASSUME NEW f \in Under("pad")
  PROVE  f \in Files /\ \E h \in Halves : f \in {Secret("pad", h), HeaderOf("pad", h), Journal("pad", h)}
<1>1. f \in StoreFiles /\ f[1] = "pad"
  BY DEF Under
<1>2. PICK root \in Roots, h \in Halves, i \in 1 .. 3 : f = PathOf(root, h, Names[i])
  BY <1>1 DEF StoreFiles
<1>3. root = "pad"
  BY <1>1, <1>2 DEF PathOf
<1>4. Names[1] = "secret.bin" /\ Names[2] = "head.json" /\ Names[3] = "journal.log"
  BY DEF Names
<1>5. f \in {Secret("pad", h), HeaderOf("pad", h), Journal("pad", h)}
  BY <1>2, <1>3, <1>4 DEF Secret, HeaderOf, Journal
<1> QED
  BY <1>1, <1>5 DEF Files

LEMMA DestroyList ==
  ASSUME cuts \in 0 .. MaxCuts
  PROVE  /\ DestroyWrites \in Seq(Items)
         /\ fs[Tombstone] \notin {None, Torn} => DestroyWrites \in Seq(TearItems)
         /\ fs[Tombstone] \in {None, Torn} =>
              Tears(DestroyWrites) /\ DestroyWrites[1] = Write(Tombstone, cuts)
<1> DEFINE M == IF fs[Tombstone] \in {None, Torn} THEN << Write(Tombstone, cuts) >> ELSE <<>>
           A == TearDown("a-to-b")
           B == TearDown("b-to-a")
           R == << Report >>
           X == M \o A
           Y == X \o B
<1>1. DestroyWrites = Y \o R
  BY DEF DestroyWrites
<1>2. A \in Seq(TearItems) /\ B \in Seq(TearItems) /\ R \in Seq(TearItems) /\ TearItems \subseteq Items
  BY TearItemsAre DEF Halves
<1>3. Write(Tombstone, cuts) \in Items
  <2>1. Tombstone \in Files \ WitnessLog /\ cuts \in Fits(Tombstone)
    BY PathsAreFiles, PathsDiffer, Fitting DEF Deciding, WitnessLog
  <2> QED
    BY <2>1, WritesAreItems DEF Items
<1>4. CASE fs[Tombstone] \in {None, Torn}
  <2>1. M = << Write(Tombstone, cuts) >>
    BY <1>4
  <2>2. M \in Seq(Items) /\ Len(M) = 1 /\ M[1] = Write(Tombstone, cuts) /\ M # <<>>
    BY <1>3, <2>1
  <2> HIDE DEF M, A, B, R
  <2>3. Tears(M)
    BY <2>2 DEF Tears
  <2>7. X = M \o A /\ Y = X \o B
    OBVIOUS
  <2> HIDE DEF X, Y
  <2>4. X \in Seq(Items) /\ Tears(X) /\ X[1] = M[1]
    BY <1>2, <2>2, <2>3, <2>7, TearsGoesOn
  <2>5. Y \in Seq(Items) /\ Tears(Y) /\ Y[1] = X[1]
    BY <1>2, <2>4, <2>7, TearsGoesOn
  <2>6. DestroyWrites \in Seq(Items) /\ Tears(DestroyWrites) /\ DestroyWrites[1] = Y[1]
    BY <1>1, <1>2, <2>5, TearsGoesOn
  <2> QED
    BY <1>4, <2>2, <2>4, <2>5, <2>6
<1>5. CASE fs[Tombstone] \notin {None, Torn}
  <2>1. M = <<>>
    BY <1>5
  <2>2. <<>> \in Seq(TearItems)
    OBVIOUS
  <2>3. M \in Seq(TearItems)
    BY <2>1, <2>2
  <2> HIDE DEF M, A, B, R
  <2>4. X \in Seq(TearItems)
    BY <1>2, <2>3, Concatenated
  <2> HIDE DEF X
  <2>5. Y \in Seq(TearItems)
    BY <1>2, <2>4, Concatenated
  <2> HIDE DEF Y
  <2>6. DestroyWrites \in Seq(TearItems)
    BY <1>1, <1>2, <2>5, Concatenated
  <2>7. DestroyWrites \in Seq(Items)
    BY <1>2, <2>6
  <2> QED
    BY <1>5, <2>6, <2>7
<1> QED
  BY <1>4, <1>5

LEMMA DestroyedClaims ==
  ASSUME IsDestroyed', born' # "nowhere", GhostsStepAside', OriginIsTrue'
  PROVE  Claims'
BY DEF Claims, ZeroedIsDestroyed, Unborn, StandsForGood, AheadOfShown, WitnessIsBehind

LEMMA DestroyStarts ==
  ASSUME PairInv, Destroy
  PROVE  PairInv'
<1>1. PairShape /\ Claims
  BY DEF PairInv
<1>2. /\ fs' = fs /\ born' = born /\ shown' = shown /\ taken' = taken /\ committed' = committed
      /\ cuts' = cuts /\ todo = <<>>
  BY DEF Destroy, Takes
<1>3. born # "nowhere"
  <2>1. \A f \in Under("pad") : f \in Files
    BY UnderThePad
  <2>2. HasFiles \/ IsDestroyed \/ fs[Marker] # None
    BY DEF Destroy
  <2> QED
    BY <1>1, <2>1, <2>2, DecidingAre DEF Claims, Unborn, HasFiles, IsDestroyed
<1>4. Claims'
  <2>1. ZeroedIsDestroyed' /\ Unborn' /\ GhostsStepAside' /\ StandsForGood'
    BY <1>1, <1>2, <1>3 DEF Claims, ZeroedIsDestroyed, Unborn, GhostsStepAside, StandsForGood,
                            IsDestroyed, CommittedPairExists, Counter
  <2>2. AheadOfShown' /\ OriginIsTrue' /\ WitnessIsBehind'
    BY <1>1, <1>2 DEF Claims, AheadOfShown, OriginIsTrue, WitnessIsBehind, IsDestroyed, Numbered,
                      Provided, Witnessed, Counter
  <2> QED
    BY <2>1, <2>2 DEF Claims
<1>5. CASE IsDestroyed /\ ~HasFiles
  <2>1. todo' = <<>>
    BY <1>2, <1>5 DEF Destroy
  <2>2. PairShape'
    BY <1>1, <1>2, <2>1 DEF PairShape
  <2>3. Settled'
    BY <2>1 DEF Settled
  <2> QED
    BY <1>4, <2>2, <2>3 DEF PairInv, VerbInv
<1>6. CASE ~(IsDestroyed /\ ~HasFiles)
  <2>1. todo' = DestroyWrites
    BY <1>6 DEF Destroy, Takes
  <2>2. cuts \in 0 .. MaxCuts
    BY <1>1 DEF PairShape
  <2>3. /\ todo' \in Seq(Items)
        /\ fs[Tombstone] \notin {None, Torn} => todo' \in Seq(TearItems)
        /\ fs[Tombstone] \in {None, Torn} =>
             Tears(todo') /\ todo'[1] = Write(Tombstone, cuts)
    BY <2>1, <2>2, DestroyList
  <2>4. PairShape'
    BY <1>1, <1>2, <2>3 DEF PairShape
  <2>5. CASE fs[Tombstone] \notin {None, Torn}
    <3>1. Tearing'
      BY <1>2, <2>3, <2>5 DEF Tearing, IsDestroyed
    <3> QED
      BY <1>4, <2>4, <3>1 DEF PairInv, VerbInv
  <2>6. CASE fs[Tombstone] \in {None, Torn}
    <3>1. Head(todo') = Write(Tombstone, cuts) /\ todo' # <<>>
      BY <2>3, <2>6 DEF Tears
    <3>2. Marking'
      BY <1>2, <1>3, <2>2, <2>3, <2>6, <3>1 DEF Marking, Tears
    <3> QED
      BY <1>4, <2>4, <3>2 DEF PairInv, VerbInv
  <2> QED
    BY <2>5, <2>6
<1> QED
  BY <1>5, <1>6

LEMMA TailOf ==
  ASSUME NEW T, todo \in Seq(Items), todo # <<>>, todo' = Tail(todo),
         \A j \in 2 .. Len(todo) : todo[j] \in T
  PROVE  \A j \in 1 .. Len(todo') : todo'[j] \in T
<1>1. Len(todo) \in Nat /\ Len(todo) > 0
  BY EmptySeq
<1>2. Len(todo') = Len(todo) - 1 /\ \A j \in 1 .. Len(todo) - 1 : todo'[j] = todo[j + 1]
  BY <1>1
<1>3. ASSUME NEW j \in 1 .. Len(todo') PROVE todo'[j] \in T
  <2>1. j \in 1 .. Len(todo) - 1 /\ j + 1 \in 2 .. Len(todo)
    BY <1>1, <1>2
  <2> QED
    BY <1>2, <2>1
<1> QED
  BY <1>3

LEMMA MarkingSteps ==
  ASSUME PairInv, Step, Marking
  PROVE  PairInv' /\ fs'[Tombstone] \notin {None, Torn} /\ shown' = shown
<1>1. PairShape /\ Claims /\ PairShape' /\ todo \in Seq(Items)
  BY ShapeSteps DEF PairInv, PairShape
<1>2. todo # <<>> /\ todo' = Tail(todo)
  BY <1>1, StepGoesOn
<1>3. PICK c \in 0 .. MaxCuts : Head(todo) = Write(Tombstone, c)
  BY DEF Marking
<1>4. Alters(Tombstone, c) /\ Tells /\ Lasts
  BY <1>1, <1>3, WriteDoes, DecidingAre
<1>5. fs'[Tombstone] = c /\ fs'[Marker] = fs[Marker] /\ fs'[Meta] = fs[Meta] /\ CountersStay
  BY <1>4, AltersOther, PathsDiffer
<1>6. fs'[Tombstone] \notin {None, Torn} /\ IsDestroyed'
  BY <1>5, FilesAreNotNone DEF IsDestroyed
<1>7. born' # "nowhere" /\ born' = born /\ (committed' <=> committed)
  BY <1>4 DEF Marking, Lasts, Tells
<1>8. GhostsStepAside' /\ OriginIsTrue'
  BY <1>1, <1>5, <1>7 DEF Claims, GhostsStepAside, OriginIsTrue, CommittedPairExists, CountersStay, Provided
<1>9. Claims'
  BY <1>6, <1>7, <1>8, DestroyedClaims
<1>10. Tearing'
  <2>1. \A j \in 2 .. Len(todo) : todo[j] \in TearItems
    BY DEF Marking
  <2> QED
    BY <1>1, <1>2, <1>6, <2>1, TailOf DEF Tearing
<1> QED
  BY <1>1, <1>4, <1>6, <1>9, <1>10 DEF PairInv, VerbInv, Tells

LEMMA TearingSteps ==
  ASSUME PairInv, Step, Tearing
  PROVE  PairInv' /\ fs'[Tombstone] = fs[Tombstone] /\ shown' = shown
<1>1. PairShape /\ Claims /\ PairShape' /\ todo \in Seq(Items)
  BY ShapeSteps DEF PairInv, PairShape
<1>2. todo # <<>> /\ todo' = Tail(todo)
  BY <1>1, StepGoesOn
<1>3. Head(todo) \in TearItems /\ \A j \in 2 .. Len(todo) : todo[j] \in TearItems
  <2>1. Len(todo) \in Nat /\ Len(todo) > 0
    BY <1>1, <1>2, EmptySeq
  <2>2. Head(todo) = todo[1] /\ 1 \in 1 .. Len(todo)
    BY <1>1, <2>1
  <2> QED
    BY <2>1, <2>2 DEF Tearing
<1> DEFINE Good == /\ Tells /\ Lasts /\ MarksStay
                   /\ \A h \in Halves : Counter("pad", h)' \in {Counter("pad", h), None}
<1>4. Good
  <2>1. ASSUME NEW h \in Halves, Head(todo) = Zero(Secret("pad", h)) PROVE Good
    <3>1. (Alters(Secret("pad", h), "zeros") \/ fs' = fs) /\ Tells /\ Lasts
      BY <1>1, <2>1, ZeroDoes
    <3>2. \A x \in Halves : HeaderOf("pad", x) \in Files \ {Secret("pad", h)}
      BY PathsAreFiles, PathsDiffer DEF Roots
    <3>3. {Meta, Marker, Tombstone} \subseteq Files \ {Secret("pad", h)}
      BY PathsAreFiles, PathsDiffer DEF Deciding, Roots
    <3> QED
      BY <3>1, <3>2, <3>3 DEF Alters, Keeps, Counter, HeaderOf, MarksStay
  <2>2. ASSUME NEW f \in Under("pad"), Head(todo) = RemoveFiles({f}) PROVE Good
    <3>1. Alters(f, None) /\ Tells /\ Lasts
      BY <1>1, <2>2, UnderThePad, RemovedOne
    <3>2. {Meta, Marker, Tombstone} \subseteq Files \ {f}
      BY PathsAreFiles, PathsDiffer, UnderThePad DEF Deciding, Roots
    <3>3. \A x \in Halves : HeaderOf("pad", x) \in Files
      BY PathsAreFiles DEF Roots
    <3> QED
      BY <3>1, <3>2, <3>3 DEF Alters, Keeps, Counter, HeaderOf, MarksStay
  <2>3. ASSUME Head(todo) = Report PROVE Good
    <3>1. fs' = fs /\ Tells /\ Lasts
      BY <1>1, <2>3, ReportDoes
    <3> QED
      BY <3>1 DEF MarksStay, Counter
  <2> QED
    BY <1>3, <2>1, <2>2, <2>3 DEF TearItems
<1>5. IsDestroyed' /\ fs'[Tombstone] = fs[Tombstone] /\ shown' = shown
  BY <1>4 DEF Tearing, IsDestroyed, MarksStay, Tells
<1>6. born' # "nowhere"
  BY <1>1, <1>2, <1>4 DEF Claims, Unborn, Lasts
<1>7. GhostsStepAside' /\ OriginIsTrue'
  BY <1>1, <1>4 DEF Claims, GhostsStepAside, OriginIsTrue, CommittedPairExists, Provided, MarksStay,
                    Lasts, Tells
<1>8. Claims'
  BY <1>5, <1>6, <1>7, DestroyedClaims
<1>9. Tearing'
  BY <1>1, <1>2, <1>3, <1>5, TailOf DEF Tearing
<1> QED
  BY <1>1, <1>5, <1>8, <1>9 DEF PairInv, VerbInv
-----------------------------------------------------------------------------
(* Everything else.                                                        *)

LEMMA ExportKeeps ==
  ASSUME PairInv, Export
  PROVE  PairInv'
<1>1. /\ PairShape /\ Claims /\ todo = <<>> /\ todo' = todo /\ fs' = fs /\ born' = born
      /\ shown' = shown /\ committed' = committed /\ cuts' = cuts /\ Active
  BY DEF Export, PairInv
<1>2. fs[Marker] = None /\ \A h \in Halves : Counter("pad", h) # None
  BY <1>1 DEF Active, StoreLoads
<1>3. born # "nowhere"
  <2>1. "a-to-b" \in Halves /\ HeaderOf("pad", "a-to-b") \in Files
    BY PathsAreFiles DEF Halves, Roots
  <2> QED
    BY <1>1, <1>2, <2>1 DEF Claims, Unborn, Counter, HeaderOf
<1>4. PairShape' /\ Settled'
  BY <1>1, SMTT(30) DEF PairShape, Settled
<1>5. ZeroedIsDestroyed' /\ Unborn' /\ GhostsStepAside' /\ StandsForGood'
  BY <1>1, <1>2, <1>3 DEF Claims, ZeroedIsDestroyed, Unborn, GhostsStepAside, StandsForGood,
                          IsDestroyed, CommittedPairExists, Counter
<1>6. AheadOfShown' /\ OriginIsTrue' /\ WitnessIsBehind'
  BY <1>1 DEF Claims, AheadOfShown, OriginIsTrue, WitnessIsBehind, IsDestroyed, Numbered,
              Provided, Witnessed, Counter
<1> QED
  BY <1>4, <1>5, <1>6 DEF PairInv, VerbInv, Claims

LEMMA SettledSteps ==
  ASSUME PairInv, Step, Settled
  PROVE  PairInv' /\ fs'[Tombstone] = fs[Tombstone] /\ shown' = shown
<1>1. PairShape /\ Claims /\ PairShape' /\ todo \in Seq(Items)
  BY ShapeSteps DEF PairInv, PairShape
<1>2. todo # <<>> /\ todo' = Tail(todo)
  BY <1>1, StepGoesOn
<1>3. Head(todo) \in BesideItems /\ Settled'
  BY <1>1, <1>2, SettledGoesOn
<1>4. Keeps(Deciding) /\ Tells /\ Lasts /\ NoZeroing
  BY <1>1, <1>3, BesideDoes
<1>5. Claims' /\ MarksStay
  BY <1>1, <1>2, <1>4, BesideKeepsClaims, KeepsViews
<1> QED
  BY <1>1, <1>3, <1>4, <1>5 DEF PairInv, VerbInv, MarksStay, Tells

LEMMA StepKeeps ==
  ASSUME PairInv, Step
  PROVE  PairInv'
<1>1. VerbInv
  BY DEF PairInv
<1> QED
  BY <1>1, SettledSteps, MarkingSteps, TearingSteps, GenSteps, ImportSteps, UseSteps DEF VerbInv

(* What a write that is cut off may leave of a deciding file.              *)
LEMMA TornLeaves ==
  ASSUME PairInv, todo # <<>>, NEW f \in Deciding \ WitnessLog, NEW v, Head(todo) = Write(f, v)
  PROVE  /\ f = Tombstone => Marking
         /\ PairShape' /\ Tells /\ Lasts /\ Alters(f, Torn) => Claims'
<1>1. PairShape /\ VerbInv /\ todo \in Seq(Items) /\ Claims
  BY DEF PairInv, PairShape
<1>2. Head(todo) = todo[1] /\ 1 \in 1 .. Len(todo)
  BY <1>1, EmptySeq
<1>3. ~Settled
  <2>1. Head(todo) \notin BesideItems
    BY BesideOnly
  <2> QED
    BY <1>2, <2>1 DEF Settled
<1>4. ~Tearing
  <2>1. Write(f, v) \notin TearItems
    <3>1. \A x : Write(f, v) # RemoveFiles(x) /\ Write(f, v) # Zero(x) /\ Write(f, v) # Report
      BY ItemsDiffer
    <3> QED
      BY <3>1 DEF TearItems
  <2> QED
    BY <1>2, <2>1 DEF Tearing
<1>5. CASE Marking
  <2>1. f = Tombstone
    BY <1>5, ItemsDiffer DEF Marking
  <2>2. ASSUME PairShape', Tells, Lasts, Alters(f, Torn) PROVE Claims'
    <3>1. fs'[Tombstone] = Torn /\ fs'[Marker] = fs[Marker] /\ fs'[Meta] = fs[Meta] /\ CountersStay
      BY <2>1, <2>2, AltersOther, PathsDiffer
    <3>2. IsDestroyed' /\ born' # "nowhere"
      BY <1>5, <2>2, <3>1, FilesAreNotNone DEF IsDestroyed, Lasts, Marking
    <3>3. GhostsStepAside' /\ OriginIsTrue'
      BY <1>1, <2>2, <3>1 DEF Claims, GhostsStepAside, OriginIsTrue, CommittedPairExists, CountersStay,
                              Provided, Tells, Lasts
    <3> QED
      BY <3>2, <3>3, DestroyedClaims
  <2> QED
    BY <1>5, <2>2
<1>6. ASSUME NEW kind \in Kinds, NEW i \in Nat, GenAt(kind, i)
      PROVE  f # Tombstone /\ (PairShape' /\ Tells /\ Lasts /\ Alters(f, Torn) => Claims')
  <2>1. f # Tombstone /\ f # Marker
    BY <1>1, <1>6, GenWritten
  <2> QED
    BY <1>6, <2>1, GenCuts
<1>7. ASSUME NEW kind \in Kinds, NEW b \in Bundles, NEW i \in Nat, ImportAt(b, kind, i)
      PROVE  f # Tombstone /\ (PairShape' /\ Tells /\ Lasts /\ Alters(f, Torn) => Claims')
  <2>1. f # Tombstone /\ (f \notin {Meta, Marker} => fs[Marker] # None)
    BY <1>1, <1>7, ImportWritten
  <2> QED
    BY <1>7, <2>1, ImportCuts
<1>8. ASSUME NEW h \in Halves, NEW n \in 0 .. TopCounter, NEW w \in BOOLEAN, NEW i \in Nat, UseAt(h, n, w, i)
      PROVE  f # Tombstone /\ (PairShape' /\ Tells /\ Lasts /\ Alters(f, Torn) => Claims')
  <2>1. f = HeaderOf("pad", h)
    BY <1>1, <1>8, UseWritten
  <2>2. f # Tombstone
    BY <2>1, PathsDiffer DEF Roots
  <2> QED
    BY <1>8, <2>1, <2>2, UseCuts
<1> QED
  BY <1>1, <1>3, <1>4, <1>5, <1>6, <1>7, <1>8 DEF VerbInv

LEMMA CutKeeps ==
  ASSUME PairInv, Cut
  PROVE  /\ PairInv' /\ shown' = shown
         /\ fs[Tombstone] # None => /\ fs'[Tombstone] # None
                                    /\ fs[Tombstone] # Torn => fs'[Tombstone] = fs[Tombstone]
<1>1. PairShape /\ Claims
  BY DEF PairInv
<1>2. /\ PairShape' /\ todo # <<>> /\ todo' = <<>> /\ Tells /\ Lasts
      /\ fs' = fs \/ \E f \in Files \ WitnessLog :
           (\E v \in Fits(f) : Head(todo) = Write(f, v)) /\ Alters(f, Torn)
  BY <1>1, CutDoes
<1>3. Settled'
  BY <1>2 DEF Settled
<1>4. SUFFICES Claims' /\ (fs[Tombstone] # None =>
                             /\ fs'[Tombstone] # None
                             /\ fs[Tombstone] # Torn => fs'[Tombstone] = fs[Tombstone])
  BY <1>2, <1>3 DEF PairInv, VerbInv, Tells
<1>5. CASE fs' = fs
  <2>1. Keeps(Deciding) /\ NoZeroing
    BY <1>5 DEF Keeps, NoZeroing
  <2> QED
    BY <1>1, <1>2, <1>5, <2>1, BesideKeepsClaims
<1>6. ASSUME NEW f \in Files \ WitnessLog, NEW v \in Fits(f), Head(todo) = Write(f, v), Alters(f, Torn)
      PROVE  Claims' /\ (fs[Tombstone] # None =>
                           /\ fs'[Tombstone] # None
                           /\ fs[Tombstone] # Torn => fs'[Tombstone] = fs[Tombstone])
  <2>1. CASE f \notin Deciding
    <3>1. Keeps(Deciding)
      BY <1>6, <2>1, DecidingAre DEF Alters, Keeps
    <3>2. NoZeroing
      BY <1>6, PathsAreFiles, FilesAreNotNone DEF Alters, Keeps, NoZeroing, Roots
    <3> QED
      BY <1>1, <1>2, <3>1, <3>2, BesideKeepsClaims, DecidingAre DEF Keeps
  <2>2. CASE f \in Deciding
    <3>1. /\ f = Tombstone => Marking
          /\ Claims'
      BY <1>2, <1>6, <2>2, TornLeaves
    <3>2. CASE f = Tombstone
      <4>1. fs[Tombstone] \in {None, Torn} /\ fs'[Tombstone] = Torn
        BY <1>6, <3>1, <3>2 DEF Marking, Alters
      <4> QED
        BY <3>1, <4>1, FilesAreNotNone
    <3>3. CASE f # Tombstone
      BY <1>6, <3>1, <3>3, DecidingAre DEF Alters, Keeps
    <3> QED
      BY <3>2, <3>3
  <2> QED
    BY <2>1, <2>2
<1> QED
  BY <1>2, <1>5, <1>6

LEMMA PairStarts ==
  ASSUME PairInit
  PROVE  PairInv
<1>1. /\ \A f \in Files : fs[f] = None
      /\ todo = <<>> /\ born = "nowhere" /\ shown = [h \in Halves |-> 0] /\ taken = {}
      /\ committed = FALSE /\ cuts = 0 /\ fs = [f \in Files |-> fs[f]]
  BY DEF PairInit
<1>2. <<>> \in Seq(Items)
  OBVIOUS
<1>3. PairShape
  <2>1. \A h \in Halves : fs[WitnessOf(h)] # Torn
    BY <1>1, PathsAreFiles, FilesAreNotNone DEF WitnessLog
  <2>2. shown \in [Halves -> 0 .. TopCounter] /\ cuts \in 0 .. MaxCuts
    BY <1>1, PairSizes
  <2> QED
    BY <1>1, <1>2, <2>1, <2>2 DEF PairShape
<1>4. Settled
  BY <1>1 DEF Settled
<1>5. /\ fs[Tombstone] = None /\ fs[Meta] = None /\ \A h \in Halves : shown[h] = 0
      /\ \A h \in Halves : Counter("pad", h) = None /\ fs[Secret("pad", h)] = None
  BY <1>1, PathsAreFiles, DecidingAre DEF Counter, HeaderOf, Roots
<1>6. Claims
  BY <1>1, <1>5, FilesAreNotNone DEF Claims, ZeroedIsDestroyed, Unborn, GhostsStepAside, StandsForGood,
     AheadOfShown, OriginIsTrue, WitnessIsBehind, Numbered
<1> QED
  BY <1>3, <1>4, <1>6 DEF PairInv, VerbInv

LEMMA StutterKeeps ==
  ASSUME PairInv, UNCHANGED pairVars
  PROVE  PairInv'
<1>1. /\ fs' = fs /\ todo' = todo /\ born' = born /\ shown' = shown /\ taken' = taken
      /\ committed' = committed /\ reported' = reported /\ cuts' = cuts
  BY DEF pairVars
<1>2. PairShape'
  BY <1>1 DEF PairInv, PairShape
<1>3. Claims'
  BY <1>1 DEF PairInv, Claims, ZeroedIsDestroyed, Unborn, GhostsStepAside, StandsForGood,
     AheadOfShown, OriginIsTrue, WitnessIsBehind, Numbered, Provided, Witnessed, IsDestroyed,
     CommittedPairExists, Counter
<1>4. VerbInv'
  <2>1. Settled => Settled'
    BY <1>1 DEF Settled
  <2>2. Marking => Marking'
    BY <1>1 DEF Marking
  <2>3. Tearing => Tearing'
    BY <1>1 DEF Tearing, IsDestroyed
  <2>4. \A W, i : From(W, i) => (From(W, i))'
    BY <1>1 DEF From
  <2>5. Nothing => Nothing'
    BY <1>1 DEF Nothing
  <2>6. ASSUME NEW kind \in Kinds, NEW i \in Nat, GenAt(kind, i) PROVE GenAt(kind, i)'
    BY <1>1, <2>4, <2>5, <2>6 DEF GenAt
  <2>7. ASSUME NEW kind \in Kinds, NEW b \in Bundles, NEW i \in Nat, ImportAt(b, kind, i)
        PROVE  ImportAt(b, kind, i)'
    BY <1>1, <2>4, <2>5, <2>7 DEF ImportAt, Counter
  <2>8. ASSUME NEW h \in Halves, NEW n \in 0 .. TopCounter, NEW w \in BOOLEAN, NEW i \in Nat,
               UseAt(h, n, w, i)
        PROVE  UseAt(h, n, w, i)'
    BY <1>1, <2>4, <2>8 DEF UseAt, Counter, Numbered
  <2>9. VerbInv
    BY DEF PairInv
  <2> QED
    BY <2>1, <2>2, <2>3, <2>6, <2>7, <2>8, <2>9 DEF VerbInv
<1> QED
  BY <1>2, <1>3, <1>4 DEF PairInv

LEMMA PairKeeps ==
  ASSUME PairInv, [PairNext]_pairVars
  PROVE  PairInv'
BY GenStarts, ImportStarts, UseStarts, ExportKeeps, DestroyStarts, StepKeeps, CutKeeps, StutterKeeps
   DEF PairNext
-----------------------------------------------------------------------------
(* What follows from the invariant.                                        *)

LEMMA ActivePads ==
  ASSUME PairInv, Active
  PROVE  /\ born = "here" \/ committed
         /\ fs[Meta] # Torn /\ \A h \in Halves : Numbered(h)
<1>1. Claims
  BY DEF PairInv
<1>2. fs[Marker] = None /\ fs[Meta] # Torn /\ \A h \in Halves : Numbered(h)
  BY DEF Active, StoreLoads, Numbered
<1>3. "a-to-b" \in Halves /\ Counter("pad", "a-to-b") # None
  BY <1>2 DEF Halves, Numbered
<1>4. born # "nowhere"
  BY <1>1, <1>3, DecidingAre DEF Claims, Unborn, Counter
<1>5. ~(born = "elsewhere" /\ ~committed)
  BY <1>1, <1>2, <1>3 DEF Claims, GhostsStepAside, CommittedPairExists
<1>6. born \in {"nowhere", "here", "elsewhere"}
  BY DEF PairInv, PairShape
<1> QED
  BY <1>2, <1>4, <1>5, <1>6

LEMMA InvActiveIsWhole ==
  ASSUME PairInv
  PROVE  ActiveIsWhole
<1> SUFFICES ASSUME Active
             PROVE  /\ \A h \in Halves : fs[PathOf("pad", h, "secret.bin")] = "whole"
                    /\ Origin = "imported" <=> born = "elsewhere"
                    /\ \A h \in Halves : Counter("pad", h) >= shown[h]
  BY DEF ActiveIsWhole
<1>1. PairShape /\ Claims /\ ~IsDestroyed
  BY DEF PairInv, Active
<1>2. (born = "here" \/ committed) /\ fs[Meta] # Torn /\ \A h \in Halves : Numbered(h)
  BY ActivePads
<1>3. ASSUME NEW h \in Halves
      PROVE  fs[PathOf("pad", h, "secret.bin")] = "whole"
  <2>1. fs[Secret("pad", h)] \in {"whole", "zeros", None, Torn}
    BY <1>1, ShapeSays
  <2>2. fs[Secret("pad", h)] # "zeros"
    BY <1>1 DEF Claims, ZeroedIsDestroyed
  <2>3. fs[Secret("pad", h)] \notin {None, Torn}
    BY DEF Active, StoreLoads, Secret
  <2> QED
    BY <2>1, <2>2, <2>3 DEF Secret
<1>4. Origin = "imported" <=> born = "elsewhere"
  <2>1. CASE committed
    BY <1>1, <2>1 DEF Claims, OriginIsTrue, Provided, Origin
  <2>2. CASE born = "here"
    BY <1>1, <1>2, <2>2 DEF Claims, OriginIsTrue, Provided, Origin
  <2> QED
    BY <1>2, <2>1, <2>2
<1>5. \A h \in Halves : Counter("pad", h) >= shown[h]
  BY <1>1, <1>2 DEF Claims, AheadOfShown
<1> QED
  BY <1>3, <1>4, <1>5

LEMMA InvImportRecovers ==
  ASSUME PairInv
  PROVE  ImportRecovers
<1>1. Claims
  BY DEF PairInv
<1>2. born = "elsewhere" /\ ~committed => ~CommittedPairExists
  BY <1>1 DEF Claims, GhostsStepAside
<1>3. ASSUME Active, NEW h \in Halves
      PROVE  WitnessAgrees(h)
  <2>1. (born = "here" \/ committed) /\ fs[Meta] # Torn /\ Numbered(h) /\ ~IsDestroyed
    BY <1>3, ActivePads DEF Active
  <2>2. Witnessed => Provided
    BY <2>1 DEF Witnessed, Provided
  <2> QED
    BY <1>1, <2>1, <2>2 DEF Claims, WitnessIsBehind, WitnessAgrees
<1> QED
  BY <1>2, <1>3 DEF ImportRecovers

(* A verb that writes the tombstone begins where none can be read, and no  *)
(* verb that can put a counter out runs under one.                         *)
TombstoneStands ==
  fs[Tombstone] # None =>
    /\ fs'[Tombstone] # None
    /\ fs[Tombstone] # Torn => fs'[Tombstone] = fs[Tombstone]
    /\ shown' = shown

LEMMA TombstoneStays ==
  ASSUME PairInv, [PairNext]_pairVars
  PROVE  TombstoneStands
<1>1. CASE fs' = fs /\ shown' = shown
  BY <1>1 DEF TombstoneStands
<1>2. CASE Step
  <2>1. CASE Settled
    BY <1>2, <2>1, SettledSteps DEF TombstoneStands
  <2>2. CASE Marking
    BY <1>2, <2>2, MarkingSteps DEF TombstoneStands, Marking
  <2>3. CASE Tearing
    BY <1>2, <2>3, TearingSteps DEF TombstoneStands
  <2>4. ASSUME NEW kind \in Kinds, NEW i \in Nat, GenAt(kind, i)
        PROVE  TombstoneStands
    BY <2>4 DEF GenAt, Nothing, TombstoneStands
  <2>5. ASSUME NEW kind \in Kinds, NEW b \in Bundles, NEW i \in Nat, ImportAt(b, kind, i)
        PROVE  TombstoneStands
    BY <2>5 DEF ImportAt, Nothing, TombstoneStands
  <2>6. ASSUME NEW h \in Halves, NEW n \in 0 .. TopCounter, NEW w \in BOOLEAN, NEW i \in Nat,
               UseAt(h, n, w, i)
        PROVE  TombstoneStands
    BY <2>6 DEF UseAt, TombstoneStands
  <2> QED
    BY <2>1, <2>2, <2>3, <2>4, <2>5, <2>6 DEF PairInv, VerbInv
<1>3. CASE Cut
  BY <1>3, CutKeeps DEF TombstoneStands
<1>4. Step \/ Cut \/ (fs' = fs /\ shown' = shown)
  BY DEF PairNext, pairVars, Gen, Import, Use, Export, Destroy
<1> QED
  BY <1>1, <1>2, <1>3, <1>4
-----------------------------------------------------------------------------
(* The theorems.                                                           *)

(* Whatever verb was cut off at whatever file, the files of a pad are what *)
(* the verbs of src/browser/engine/verbs.ts may leave, and the verb that is*)
(* running has done what stands before it in its list.                     *)
THEOREM PairInvariant == PairSpec => []PairInv
<1>1. PairInit => PairInv
  BY PairStarts
<1>2. PairInv /\ [PairNext]_pairVars => PairInv'
  BY PairKeeps
<1> QED
  BY <1>1, <1>2, PTL DEF PairSpec

(* A pad that loadPair and readPairMeta of verbs.ts let a verb work on has *)
(* both its secret bodies, is called imported when it was and only then,   *)
(* and stands at or past every counter that an output was released at,     *)
(* however gen, imports, uses and destroy were cut off before.             *)
THEOREM ActivePadsAreWhole == PairSpec => []ActiveIsWhole
<1>1. PairInv => ActiveIsWhole
  BY InvActiveIsWhole
<1> QED
  BY <1>1, PairInvariant, PTL

(* What a cut-off importPair of verbs.ts left behind never makes it refuse *)
(* the next import, and never leaves a witness record that makes a pad that*)
(* was committed later look rolled back.                                   *)
THEOREM ImportsRecover == PairSpec => []ImportRecovers
<1>1. PairInv => ImportRecovers
  BY InvImportRecovers
<1> QED
  BY <1>1, PairInvariant, PTL

(* No verb of verbs.ts, finished or cut off, removes a tombstone or writes *)
(* again one that can be read, and none releases an output under one.      *)
THEOREM DestroyIsForGood == PairSpec => DestroyedForGood
<1>1. PairInv /\ [PairNext]_pairVars
        => [fs[Tombstone] # None =>
              /\ fs'[Tombstone] # None
              /\ fs[Tombstone] # Torn => fs'[Tombstone] = fs[Tombstone]
              /\ shown' = shown]_pairVars
  BY TombstoneStays DEF TombstoneStands
<1> QED
  BY <1>1, PairInvariant, PTL DEF PairSpec, DestroyedForGood

(* Every file of a pad holds what a verb of verbs.ts wrote to it, a part   *)
(* of that, or nothing; zeros stand in a secret body alone.                *)
THEOREM PairTypesAreKept == PairSpec => []PairTypeOK
<1>1. ASSUME PairInv
      PROVE  PairTypeOK
  <2>1. PairShape /\ born \in {"nowhere", "here", "elsewhere"}
    BY <1>1 DEF PairInv, PairShape
  <2>2. ASSUME NEW h \in Halves, NEW root \in Roots
        PROVE  /\ fs[Secret(root, h)] \in {None, Torn, "whole", "zeros"}
               /\ fs[HeaderOf(root, h)] \in 0 .. TopCounter \cup {None, Torn}
               /\ fs[Journal(root, h)] \in 0 .. TopCounter \cup {None, Torn}
    <3>1. /\ Secret(root, h) \in Files /\ HeaderOf(root, h) \in Files /\ Journal(root, h) \in Files
          /\ Fits(Secret(root, h)) = {"whole"}
          /\ Fits(HeaderOf(root, h)) = 0 .. TopCounter /\ Fits(Journal(root, h)) = 0 .. TopCounter
      BY PathsAreFiles, Fitting
    <3>2. \A x \in Halves : Secret("pad", x) # HeaderOf(root, h) /\ Secret("pad", x) # Journal(root, h)
      BY PathsDiffer DEF Roots
    <3> QED
      BY <2>1, <3>1, <3>2 DEF PairShape
  <2>3. \A h \in Halves : fs[WitnessOf(h)] \in 0 .. TopCounter \cup {None}
    BY <2>1, ShapeSays
  <2>4. fs[Meta] \in Metas \cup {None, Torn}
    <3>1. "a-to-b" \in Halves
      BY DEF Halves
    <3> QED
      BY <2>1, <3>1, ShapeSays
  <2> QED
    BY <2>1, <2>2, <2>3, <2>4 DEF PairTypeOK, Counter, Secret, HeaderOf, Journal
<1> QED
  BY <1>1, PairInvariant, PTL
-----------------------------------------------------------------------------
(***************************************************************************)
(* The copies of one pad in two installations: Copies. Whatever the channel*)
(* does and whatever a browser profile forgets, each half is sent by one   *)
(* installation only, and so the copies together keep the promise of       *)
(* OneTimePad, and what is opened is what the other one sent, once and in  *)
(* order.                                                                  *)
(***************************************************************************)


(* The installation that may send a half, and the one that may open it.    *)
Owner(h) == IF h = "A->B" THEN Maker ELSE Recipient
Reader(h) == IF h = "A->B" THEN Recipient ELSE Maker

(* The maker's copy is never an imported one and the recipient's never one *)
(* made there, whatever localStorage still knows; and no file is there     *)
(* before the maker's copy, no copy of the recipient before a file.        *)
RolesInv ==
  /\ stored[Maker] \in {"A", NoRole} /\ stored[Recipient] \in {"B", NoRole}
  /\ Held(Maker) => holding[Maker].origin # "imported"
  /\ Held(Recipient) => holding[Recipient].origin # "generated-here"
  /\ holding[Maker] = Absent => files = {}
  /\ files = {} => holding[Recipient] = Absent

(* What was sent lies below the counters of its owner's copy.              *)
SentInv ==
  \A h \in PairHalves :
    /\ \A s \in AuthRecords :
         \/ recSent[h][s] = 0
         \/ holding[Owner(h)] = Gone
         \/ Held(Owner(h)) /\ s < holding[Owner(h)].at[h].seq
    /\ \A o \in PadOffsets :
         \/ padSent[h][o] = 0
         \/ holding[Owner(h)] = Gone
         \/ Held(Owner(h)) /\ o < holding[Owner(h)].at[h].off

(* What was opened came from the owner, lies below the counters of its     *)
(* reader's copy, and climbs.                                              *)
ReadInv ==
  /\ \A e \in wire : e.from = Owner(e.half)
  /\ \A h \in PairHalves : \A i \in 1 .. Len(released[h]) :
       /\ released[h][i].from = Owner(h)
       /\ \/ holding[Reader(h)] = Gone
          \/ /\ Held(Reader(h))
             /\ released[h][i].seq < holding[Reader(h)].at[h].seq
             /\ released[h][i].start + released[h][i].len <= holding[Reader(h)].at[h].off
  /\ \A h \in PairHalves : \A i, j \in 1 .. Len(released[h]) :
       i < j => /\ released[h][i].seq < released[h][j].seq
                /\ released[h][i].start + released[h][i].len <= released[h][j].start

CopiesInv == CopiesTypeOK /\ RolesInv /\ SentInv /\ ReadInv
-----------------------------------------------------------------------------
(* A copy that is held is a record with counters.                          *)
LEMMA HeldType ==
  ASSUME CopiesTypeOK, NEW d \in Installations, Held(d)
  PROVE  holding[d] \in [origin : Origins, at : HalfCounters]
BY DEF CopiesTypeOK, Held

(* The two installations' roles: each sends its own half and opens the     *)
(* other.                                                                  *)
LEMMA RoleOwns ==
  ASSUME CopiesTypeOK, RolesInv, NEW d \in Installations, Held(d),
         ResolveRole(d) # NoRole
  PROVE  /\ SendDirection(ResolveRole(d)) \in PairHalves
         /\ Owner(SendDirection(ResolveRole(d))) = d
         /\ ReceiveDirection(ResolveRole(d)) \in PairHalves
         /\ Reader(ReceiveDirection(ResolveRole(d))) = d
<1>1. holding[d].origin \in Origins
  BY HeldType
<1>2. CASE d = Maker
  <2>1. ResolveRole(d) = "A"
    BY <1>1, <1>2 DEF RolesInv, ResolveRole, RoleFromOrigin, Origins, NoRole
  <2> QED
    BY <2>1, <1>2 DEF SendDirection, ReceiveDirection, Owner, Reader, PairHalves
<1>3. CASE d = Recipient
  <2>1. ResolveRole(d) = "B"
    BY <1>1, <1>3 DEF RolesInv, ResolveRole, RoleFromOrigin, Origins, NoRole
  <2> QED
    BY <2>1, <1>3 DEF SendDirection, ReceiveDirection, Owner, Reader, PairHalves
<1> QED
  BY <1>2, <1>3 DEF Installations

-----------------------------------------------------------------------------
(* A copy never falls behind: it stays, is destroyed, was not there, or    *)
(* its counters climb.                                                     *)
Climbs(d) ==
  \/ holding'[d] = holding[d]
  \/ holding'[d] = Gone
  \/ holding[d] = Absent
  \/ /\ Held(d) /\ Held(d)'
     /\ \A h \in PairHalves : /\ holding[d].at[h].seq <= holding'[d].at[h].seq
                              /\ holding[d].at[h].off <= holding'[d].at[h].off

(* A verb moves the counters of one half of one copy, and keeps where the  *)
(* copy came from.                                                         *)
LEMMA MoveFacts ==
  ASSUME CopiesTypeOK, NEW d \in Installations, Held(d), NEW h \in PairHalves,
         NEW seq \in 0 .. PadRecords, NEW off \in 0 .. PadBytes,
         MovedTo(d, h, seq, off)
  PROVE  /\ holding' \in [Installations ->
                            {Absent, Gone} \cup [origin : Origins, at : HalfCounters]]
         /\ Held(d)' /\ holding'[d].origin = holding[d].origin
         /\ holding'[d].at[h] = [seq |-> seq, off |-> off]
         /\ \A g \in PairHalves \ {h} : holding'[d].at[g] = holding[d].at[g]
         /\ \A x \in Installations \ {d} : holding'[x] = holding[x]
<1> DEFINE moved == [holding[d] EXCEPT !.at[h] = [seq |-> seq, off |-> off]]
<1>1. holding[d] \in [origin : Origins, at : HalfCounters]
  BY HeldType
<1>2. /\ moved \in [origin : Origins, at : HalfCounters]
      /\ moved.origin = holding[d].origin
      /\ moved.at[h] = [seq |-> seq, off |-> off]
      /\ \A g \in PairHalves \ {h} : moved.at[g] = holding[d].at[g]
  BY <1>1 DEF HalfCounters
<1>3. holding' = [holding EXCEPT ![d] = moved]
  BY DEF MovedTo
<1>4. holding'[d] = moved /\ \A x \in Installations \ {d} : holding'[x] = holding[x]
  BY <1>3 DEF CopiesTypeOK
<1>5. moved \notin {Absent, Gone}
  BY <1>2 DEF Absent, Gone, Origins
<1>6. holding' \in [Installations ->
                      {Absent, Gone} \cup [origin : Origins, at : HalfCounters]]
  <2> HIDE DEF moved
  <2> QED
    BY <1>2, <1>3 DEF CopiesTypeOK
<1> QED
  BY <1>2, <1>4, <1>5, <1>6 DEF Held

(* A verb that moves the counters up lets no copy fall behind.             *)
LEMMA MoveClimbs ==
  ASSUME CopiesTypeOK, NEW d \in Installations, Held(d), NEW h \in PairHalves,
         NEW seq \in 0 .. PadRecords, NEW off \in 0 .. PadBytes,
         MovedTo(d, h, seq, off),
         holding[d].at[h].seq <= seq, holding[d].at[h].off <= off
  PROVE  \A x \in Installations : Climbs(x)
<1>1. holding[d].at \in HalfCounters
  BY HeldType
<1>2. /\ Held(d)'
      /\ holding'[d].at[h] = [seq |-> seq, off |-> off]
      /\ \A g \in PairHalves \ {h} : holding'[d].at[g] = holding[d].at[g]
      /\ \A x \in Installations \ {d} : holding'[x] = holding[x]
  BY MoveFacts
<1>3. ASSUME NEW g \in PairHalves
      PROVE  /\ holding[d].at[g].seq <= holding'[d].at[g].seq
             /\ holding[d].at[g].off <= holding'[d].at[g].off
  <2>1. CASE g = h
    BY <1>2, <2>1
  <2>2. CASE g # h
    <3>1. holding'[d].at[g] = holding[d].at[g]
      BY <1>2, <2>2
    <3>2. holding[d].at[g].seq \in Int /\ holding[d].at[g].off \in Int
      BY <1>1, CopiesNumbers DEF HalfCounters
    <3> QED
      BY <3>1, <3>2
  <2> QED
    BY <2>1, <2>2
<1>4. Climbs(d)
  BY <1>2, <1>3 DEF Climbs
<1>5. \A x \in Installations \ {d} : Climbs(x)
  BY <1>2 DEF Climbs
<1> QED
  BY <1>4, <1>5

(* What lies below a half's counters, or goes with a destroyed copy, still *)
(* does when the copy climbs.                                              *)
LEMMA StillBelow ==
  ASSUME CopiesTypeOK, CopiesTypeOK', NEW d \in Installations, Climbs(d),
         NEW h \in PairHalves, NEW m \in Int, NEW n \in Int,
         \/ holding[d] = Gone
         \/ Held(d) /\ m < holding[d].at[h].seq /\ n <= holding[d].at[h].off
  PROVE  \/ holding'[d] = Gone
         \/ Held(d)' /\ m < holding'[d].at[h].seq /\ n <= holding'[d].at[h].off
<1>1. CASE holding'[d] = holding[d]
  BY <1>1 DEF Held
<1>2. CASE holding'[d] = Gone
  BY <1>2
<1>3. CASE holding[d] = Absent
  BY <1>3 DEF Held, Absent, Gone
<1>4. CASE /\ Held(d) /\ Held(d)'
           /\ \A g \in PairHalves : /\ holding[d].at[g].seq <= holding'[d].at[g].seq
                                    /\ holding[d].at[g].off <= holding'[d].at[g].off
  <2>1. holding[d].at[h].seq \in Int /\ holding[d].at[h].off \in Int
    BY <1>4, HeldType, CopiesNumbers DEF HalfCounters
  <2>2. holding'[d] \in [origin : Origins, at : HalfCounters]
    BY <1>4 DEF CopiesTypeOK, Held
  <2>3. holding'[d].at[h].seq \in Int /\ holding'[d].at[h].off \in Int
    BY <2>2, CopiesNumbers DEF HalfCounters
  <2>4. holding[d] # Gone
    BY <1>4 DEF Held
  <2> QED
    BY <1>4, <2>1, <2>3, <2>4
<1> QED
  BY <1>1, <1>2, <1>3, <1>4 DEF Climbs

(* The counters of a held copy are numbers.                                *)
LEMMA CounterType ==
  ASSUME CopiesTypeOK, NEW d \in Installations, Held(d), NEW h \in PairHalves
  PROVE  /\ holding[d].at[h].seq \in 0 .. PadRecords
         /\ holding[d].at[h].off \in 0 .. PadBytes
BY HeldType DEF HalfCounters

(* The fields of an envelope are numbers.                                  *)
LEMMA EnvelopeNumbers ==
  ASSUME NEW e \in Envelopes
  PROVE  /\ e.seq \in Int /\ e.start \in Int /\ e.len \in Int
         /\ e.seq >= 0 /\ e.start >= 0 /\ e.len >= 1
         /\ e.half \in PairHalves /\ e.from \in Installations
<1>1. e.seq \in AuthRecords /\ e.start \in PadOffsets /\ e.len \in MessageSizes
  BY DEF Envelopes
<1>2. e.len \in Nat \ {0}
  BY <1>1, CopiesNumbers
<1> QED
  BY <1>1, <1>2, CopiesNumbers DEF Envelopes, AuthRecords, PadOffsets

(* SentInv outlasts a step when what it sends lies below the new counters. *)
LEMMA SentKept ==
  ASSUME CopiesTypeOK, CopiesTypeOK', SentInv, \A d \in Installations : Climbs(d),
         \A h \in PairHalves, s \in AuthRecords :
           \/ recSent'[h][s] = recSent[h][s]
           \/ Held(Owner(h))' /\ s < holding'[Owner(h)].at[h].seq,
         \A h \in PairHalves, o \in PadOffsets :
           \/ padSent'[h][o] = padSent[h][o]
           \/ Held(Owner(h))' /\ o < holding'[Owner(h)].at[h].off
  PROVE  SentInv'
<1>1. ASSUME NEW h \in PairHalves
      PROVE  Owner(h) \in Installations /\ Climbs(Owner(h))
  BY DEF Owner, Installations
<1>2. ASSUME NEW h \in PairHalves, NEW s \in AuthRecords, recSent'[h][s] # 0
      PROVE  \/ holding'[Owner(h)] = Gone
             \/ Held(Owner(h))' /\ s < holding'[Owner(h)].at[h].seq
  <2>1. CASE recSent'[h][s] = recSent[h][s]
    <3>1. \/ holding[Owner(h)] = Gone
          \/ Held(Owner(h)) /\ s < holding[Owner(h)].at[h].seq
      BY <1>2, <2>1 DEF SentInv
    <3>2. Held(Owner(h)) => 0 <= holding[Owner(h)].at[h].off
      BY <1>1, CounterType, CopiesNumbers
    <3>3. s \in Int
      BY CopiesNumbers DEF AuthRecords
    <3> HIDE DEF Owner
    <3> QED
      BY <1>1, <3>1, <3>2, <3>3, StillBelow
  <2>2. CASE Held(Owner(h))' /\ s < holding'[Owner(h)].at[h].seq
    BY <2>2
  <2> QED
    BY <2>1, <2>2
<1>3. ASSUME NEW h \in PairHalves, NEW o \in PadOffsets, padSent'[h][o] # 0
      PROVE  \/ holding'[Owner(h)] = Gone
             \/ Held(Owner(h))' /\ o < holding'[Owner(h)].at[h].off
  <2>1. CASE padSent'[h][o] = padSent[h][o]
    <3>1. o \in Int
      BY CopiesNumbers DEF PadOffsets
    <3>2. Held(Owner(h)) => /\ -1 < holding[Owner(h)].at[h].seq
                            /\ holding[Owner(h)].at[h].off \in Int
      BY <1>1, CounterType, CopiesNumbers
    <3>3. \/ holding[Owner(h)] = Gone
          \/ /\ Held(Owner(h)) /\ -1 < holding[Owner(h)].at[h].seq
             /\ o + 1 <= holding[Owner(h)].at[h].off
      BY <1>3, <2>1, <3>1, <3>2 DEF SentInv
    <3>4. \/ holding'[Owner(h)] = Gone
          \/ /\ Held(Owner(h))' /\ -1 < holding'[Owner(h)].at[h].seq
             /\ o + 1 <= holding'[Owner(h)].at[h].off
      BY <1>1, <3>1, <3>3, StillBelow
    <3>5. CASE Held(Owner(h))' /\ o + 1 <= holding'[Owner(h)].at[h].off
      <4>1. holding'[Owner(h)] \in [origin : Origins, at : HalfCounters]
        BY <1>1, <3>5 DEF CopiesTypeOK, Held, Owner
      <4>2. holding'[Owner(h)].at[h].off \in Int
        BY <4>1, CopiesNumbers DEF HalfCounters
      <4> QED
        BY <3>1, <3>5, <4>2
    <3> QED
      BY <3>4, <3>5
  <2>2. CASE Held(Owner(h))' /\ o < holding'[Owner(h)].at[h].off
    BY <2>2
  <2> QED
    BY <2>1, <2>2
<1> QED
  BY <1>2, <1>3 DEF SentInv, Owner, Held

(* What was opened stays below the counters of the copy that opened it.    *)
LEMMA ReadStays ==
  ASSUME CopiesTypeOK, CopiesTypeOK', ReadInv, \A d \in Installations : Climbs(d),
         NEW h \in PairHalves, NEW i \in 1 .. Len(released[h])
  PROVE  /\ released[h][i].from = Owner(h)
         /\ \/ holding'[Reader(h)] = Gone
            \/ /\ Held(Reader(h))'
               /\ released[h][i].seq < holding'[Reader(h)].at[h].seq
               /\ released[h][i].start + released[h][i].len
                    <= holding'[Reader(h)].at[h].off
<1>1. Reader(h) \in Installations
  BY DEF Reader, Installations
<1>2. released[h][i] \in Envelopes
  BY DEF CopiesTypeOK
<1>3. /\ released[h][i].seq \in Int
      /\ released[h][i].start + released[h][i].len \in Int
  BY <1>2, EnvelopeNumbers
<1>4. /\ released[h][i].from = Owner(h)
      /\ \/ holding[Reader(h)] = Gone
         \/ /\ Held(Reader(h))
            /\ released[h][i].seq < holding[Reader(h)].at[h].seq
            /\ released[h][i].start + released[h][i].len
                 <= holding[Reader(h)].at[h].off
  BY DEF ReadInv
<1> QED
  BY <1>1, <1>3, <1>4, StillBelow

(* ReadInv outlasts a step that opens nothing, when what it sends is the   *)
(* owner's.                                                                *)
LEMMA ReadKept ==
  ASSUME CopiesTypeOK, CopiesTypeOK', ReadInv, \A d \in Installations : Climbs(d),
         UNCHANGED released, \A e \in wire' : e \in wire \/ e.from = Owner(e.half)
  PROVE  ReadInv'
<1>1. \A e \in wire' : e.from = Owner(e.half)
  BY DEF ReadInv
<1>2. ASSUME NEW h \in PairHalves, NEW i \in 1 .. Len(released[h])
      PROVE  /\ released[h][i].from = Owner(h)
             /\ \/ holding'[Reader(h)] = Gone
                \/ /\ Held(Reader(h))'
                   /\ released[h][i].seq < holding'[Reader(h)].at[h].seq
                   /\ released[h][i].start + released[h][i].len
                        <= holding'[Reader(h)].at[h].off
  BY ReadStays
<1> QED
  BY <1>1, <1>2 DEF ReadInv, Owner, Reader, Held

-----------------------------------------------------------------------------
(* The actions, one lemma each: the types, the roles, and no copy behind.  *)

(* What every step preserves besides what was sent and read.               *)
Tidy == CopiesTypeOK' /\ RolesInv' /\ \A d \in Installations : Climbs(d)

LEMMA InitKeeps ==
  CopiesInit => CopiesInv
<1> SUFFICES ASSUME CopiesInit PROVE CopiesInv
  OBVIOUS
<1>1. CopiesTypeOK
  BY CopiesNumbers DEF CopiesInit, CopiesTypeOK, Installations, PairHalves
<1>2. RolesInv
  BY DEF CopiesInit, RolesInv, Held, Absent, Gone, Installations
<1>3. SentInv
  BY DEF CopiesInit, SentInv
<1>4. ReadInv
  BY DEF CopiesInit, ReadInv
<1> QED
  BY <1>1, <1>2, <1>3, <1>4 DEF CopiesInv

LEMMA GenerateTidy ==
  ASSUME CopiesTypeOK, RolesInv, Generate
  PROVE  Tidy
<1> DEFINE zero == [h \in PairHalves |-> [seq |-> 0, off |-> 0]]
<1>1. zero \in HalfCounters
  BY CopiesNumbers DEF HalfCounters
<1> HIDE DEF zero
<1>2. PICK origin \in {"generated-here", "unknown"} :
        /\ holding' = [holding EXCEPT ![Maker] = [origin |-> origin, at |-> zero]]
        /\ \E r \in {"A", NoRole} : stored' = [stored EXCEPT ![Maker] = r]
  BY DEF Generate, Acquired, zero
<1>3. [origin |-> origin, at |-> zero] \in [origin : Origins, at : HalfCounters]
  BY <1>1 DEF Origins
<1>4. CopiesTypeOK'
  BY <1>2, <1>3 DEF CopiesTypeOK, Generate
<1>5. /\ holding'[Maker] = [origin |-> origin, at |-> zero]
      /\ holding'[Recipient] = holding[Recipient]
      /\ stored'[Maker] \in {"A", NoRole} /\ stored'[Recipient] = stored[Recipient]
  BY <1>2, TwoInstallations DEF CopiesTypeOK, Installations
<1>6. files' = files /\ holding[Maker] = Absent
  BY DEF Generate
<1>7. RolesInv'
  BY <1>5, <1>6 DEF RolesInv, Held, Absent, Gone
<1>8. \A d \in Installations : Climbs(d)
  BY <1>5, <1>6 DEF Climbs, Installations
<1> QED
  BY <1>4, <1>7, <1>8 DEF Tidy

LEMMA SaveTidy ==
  ASSUME CopiesTypeOK, RolesInv, NEW d \in Installations, SavePadFile(d)
  PROVE  Tidy
<1>1. holding[d].at \in HalfCounters
  BY HeldType DEF SavePadFile
<1>2. CopiesTypeOK'
  BY <1>1 DEF SavePadFile, CopiesTypeOK
<1>3. holding[Maker] # Absent
  <2>1. CASE d = Maker
    BY <2>1 DEF SavePadFile, Held
  <2>2. CASE d = Recipient
    BY <2>2 DEF SavePadFile, Held, RolesInv
  <2> QED
    BY <2>1, <2>2 DEF Installations
<1>4. RolesInv'
  BY <1>3 DEF SavePadFile, RolesInv, Held
<1>5. \A x \in Installations : Climbs(x)
  BY DEF SavePadFile, Climbs
<1> QED
  BY <1>2, <1>4, <1>5 DEF Tidy

LEMMA AddTidy ==
  ASSUME CopiesTypeOK, RolesInv, NEW d \in Installations, AddPadFile(d)
  PROVE  Tidy
<1>1. PICK at \in files, origin \in {"imported", "unknown"} :
        /\ holding' = [holding EXCEPT ![d] = [origin |-> origin, at |-> at]]
        /\ \E r \in {"B", NoRole} : stored' = [stored EXCEPT ![d] = r]
  BY DEF AddPadFile, Acquired
<1>2. at \in HalfCounters
  BY DEF CopiesTypeOK
<1>3. [origin |-> origin, at |-> at] \in [origin : Origins, at : HalfCounters]
  BY <1>2 DEF Origins
<1>4. CopiesTypeOK'
  BY <1>1, <1>3 DEF CopiesTypeOK, AddPadFile
<1>5. d = Recipient
  BY <1>1 DEF AddPadFile, RolesInv, Installations
<1>6. /\ holding'[Recipient] = [origin |-> origin, at |-> at]
      /\ holding'[Maker] = holding[Maker]
      /\ stored'[Recipient] \in {"B", NoRole} /\ stored'[Maker] = stored[Maker]
  BY <1>1, <1>5, TwoInstallations DEF CopiesTypeOK, Installations
<1>7. files' = files /\ holding[Recipient] = Absent
  BY <1>5 DEF AddPadFile
<1>8. RolesInv'
  BY <1>1, <1>6, <1>7 DEF RolesInv, Held, Absent, Gone
<1>9. \A x \in Installations : Climbs(x)
  BY <1>6, <1>7 DEF Climbs, Installations
<1> QED
  BY <1>4, <1>8, <1>9 DEF Tidy

LEMMA ForgetTidy ==
  ASSUME CopiesTypeOK, RolesInv, NEW d \in Installations, ForgetRole(d)
  PROVE  Tidy
<1>1. /\ stored' = [stored EXCEPT ![d] = NoRole]
      /\ UNCHANGED <<holding, files, wire, recSent, padSent, released, retires>>
  BY DEF ForgetRole
<1>2. CopiesTypeOK'
  BY <1>1 DEF CopiesTypeOK
<1>3. stored'[Maker] \in {"A", NoRole} /\ stored'[Recipient] \in {"B", NoRole}
  BY <1>1, <1>2 DEF CopiesTypeOK, RolesInv, Installations
<1>4. RolesInv'
  BY <1>1, <1>3 DEF RolesInv, Held
<1>5. \A x \in Installations : Climbs(x)
  BY <1>1 DEF Climbs
<1> QED
  BY <1>2, <1>4, <1>5 DEF Tidy

LEMMA DestroyTidy ==
  ASSUME CopiesTypeOK, RolesInv, NEW d \in Installations, DestroyCopy(d)
  PROVE  Tidy
<1>1. /\ Held(d) /\ holding' = [holding EXCEPT ![d] = Gone]
      /\ UNCHANGED <<stored, files, wire, recSent, padSent, released, retires>>
  BY DEF DestroyCopy
<1>2. CopiesTypeOK'
  BY <1>1 DEF CopiesTypeOK
<1>3. holding'[d] = Gone /\ \A x \in Installations \ {d} : holding'[x] = holding[x]
  BY <1>1 DEF CopiesTypeOK
<1>4. RolesInv'
  BY <1>1, <1>3 DEF RolesInv, Held, Absent, Gone, Installations
<1>5. \A x \in Installations : Climbs(x)
  BY <1>3 DEF Climbs
<1> QED
  BY <1>2, <1>4, <1>5 DEF Tidy

(* A verb that moves a half, with the roles and the files left alone.      *)
LEMMA MoveTidy ==
  ASSUME CopiesTypeOK, RolesInv, NEW d \in Installations, Held(d),
         NEW h \in PairHalves, NEW seq \in 0 .. PadRecords, NEW off \in 0 .. PadBytes,
         MovedTo(d, h, seq, off),
         holding[d].at[h].seq <= seq, holding[d].at[h].off <= off,
         UNCHANGED <<stored, files>>
  PROVE  /\ holding' \in [Installations ->
                             {Absent, Gone} \cup [origin : Origins, at : HalfCounters]]
         /\ RolesInv' /\ \A x \in Installations : Climbs(x)
<1>1. /\ holding' \in [Installations ->
                          {Absent, Gone} \cup [origin : Origins, at : HalfCounters]]
      /\ Held(d)' /\ holding'[d].origin = holding[d].origin
      /\ \A x \in Installations \ {d} : holding'[x] = holding[x]
  BY MoveFacts
<1>2. RolesInv'
  BY <1>1 DEF RolesInv, Held, Installations
<1> QED
  BY <1>1, <1>2, MoveClimbs

(* Retire moves any half of any copy up.                                   *)
LEMMA RetireTidy ==
  ASSUME CopiesTypeOK, RolesInv, NEW d \in Installations, NEW h \in PairHalves,
         NEW through \in AuthRecords, NEW off \in 0 .. PadBytes,
         Retire(d, h, through, off)
  PROVE  Tidy
<1>1. /\ Held(d) /\ MovedTo(d, h, through + 1, off)
      /\ holding[d].at[h].seq <= through /\ holding[d].at[h].off <= off
      /\ retires < MaxRetires /\ retires' = retires + 1
      /\ UNCHANGED <<stored, files, wire, recSent, padSent, released>>
  BY DEF Retire
<1>2. through + 1 \in 0 .. PadRecords /\ holding[d].at[h].seq <= through + 1
  BY <1>1, CounterType, CopiesNumbers DEF AuthRecords
<1>3. /\ holding' \in [Installations ->
                          {Absent, Gone} \cup [origin : Origins, at : HalfCounters]]
      /\ RolesInv' /\ \A x \in Installations : Climbs(x)
  BY <1>1, <1>2, MoveTidy
<1>4. retires' \in 0 .. MaxRetires
  BY <1>1, CopiesNumbers DEF CopiesTypeOK
<1>5. CopiesTypeOK'
  BY <1>1, <1>3, <1>4 DEF CopiesTypeOK
<1> QED
  BY <1>3, <1>5 DEF Tidy

(* What a message sent is: one envelope of the half that is d's own, from  *)
(* the record and the bytes at its counters.                               *)
LEMMA SendFacts ==
  ASSUME CopiesTypeOK, RolesInv, NEW d \in Installations, NEW len \in MessageSizes,
         Send(d, len)
  PROVE  \E h \in PairHalves, seq \in AuthRecords, off \in PadOffsets :
           /\ Owner(h) = d /\ Held(d) /\ len \in Nat \ {0} /\ off + len \in 0 .. PadBytes
           /\ seq + 1 \in 0 .. PadRecords
           /\ holding[d].at[h].seq = seq /\ holding[d].at[h].off = off
           /\ MovedTo(d, h, seq + 1, off + len)
           /\ wire' = wire \cup
                {[half |-> h, seq |-> seq, start |-> off, len |-> len, from |-> d]}
           /\ recSent' = [recSent EXCEPT ![h][seq] = @ + 1]
           /\ padSent' = [padSent EXCEPT ![h] = [o \in PadOffsets |->
                IF off <= o /\ o < off + len THEN @[o] + 1 ELSE @[o]]]
           /\ UNCHANGED <<stored, files, released, retires>>
<1> DEFINE h == SendDirection(ResolveRole(d))
           seq == holding[d].at[h].seq
           off == holding[d].at[h].off
<1>1. h \in PairHalves /\ Owner(h) = d /\ Held(d)
  BY RoleOwns DEF Send
<1>2. len \in Nat \ {0}
  BY CopiesNumbers
<1>3. seq < PadRecords /\ off + len <= PadBytes
  BY DEF Send
<1>4. seq \in 0 .. PadRecords /\ off \in 0 .. PadBytes
  BY <1>1, CounterType
<1>5. /\ seq \in AuthRecords /\ off \in PadOffsets
      /\ seq + 1 \in 0 .. PadRecords /\ off + len \in 0 .. PadBytes
  BY <1>2, <1>3, <1>4, CopiesNumbers DEF AuthRecords, PadOffsets
<1>6. /\ MovedTo(d, h, seq + 1, off + len)
      /\ wire' = wire \cup
           {[half |-> h, seq |-> seq, start |-> off, len |-> len, from |-> d]}
      /\ recSent' = [recSent EXCEPT ![h][seq] = @ + 1]
      /\ padSent' = [padSent EXCEPT ![h] = [o \in PadOffsets |->
           IF off <= o /\ o < off + len THEN @[o] + 1 ELSE @[o]]]
      /\ UNCHANGED <<stored, files, released, retires>>
  BY DEF Send
<1> HIDE DEF h
<1> QED
  BY <1>1, <1>2, <1>5, <1>6

(* Send keeps the invariant and is one step of the one-time pad.           *)
LEMMA SendKeeps ==
  ASSUME CopiesInv, NEW d \in Installations, NEW len \in MessageSizes, Send(d, len)
  PROVE  CopiesInv' /\ Pad!Next
<1> USE DEF CopiesInv
<1>1. PICK h \in PairHalves, seq \in AuthRecords, off \in PadOffsets :
           /\ Owner(h) = d /\ Held(d) /\ len \in Nat \ {0} /\ off + len \in 0 .. PadBytes
           /\ seq + 1 \in 0 .. PadRecords
           /\ holding[d].at[h].seq = seq /\ holding[d].at[h].off = off
           /\ MovedTo(d, h, seq + 1, off + len)
           /\ wire' = wire \cup
                {[half |-> h, seq |-> seq, start |-> off, len |-> len, from |-> d]}
           /\ recSent' = [recSent EXCEPT ![h][seq] = @ + 1]
           /\ padSent' = [padSent EXCEPT ![h] = [o \in PadOffsets |->
                IF off <= o /\ o < off + len THEN @[o] + 1 ELSE @[o]]]
           /\ UNCHANGED <<stored, files, released, retires>>
  BY SendFacts
<1>2. seq \in Int /\ off \in Int
  BY CopiesNumbers DEF AuthRecords, PadOffsets
<1>3. /\ holding' \in [Installations ->
                          {Absent, Gone} \cup [origin : Origins, at : HalfCounters]]
      /\ RolesInv' /\ \A x \in Installations : Climbs(x)
  BY <1>1, <1>2, MoveTidy
<1>4. CopiesTypeOK'
  <2>1. wire' \subseteq Envelopes
    BY <1>1 DEF CopiesTypeOK, Envelopes
  <2>2. recSent' \in [PairHalves -> [AuthRecords -> Nat]]
    BY <1>1 DEF CopiesTypeOK
  <2>3. padSent' \in [PairHalves -> [PadOffsets -> Nat]]
    BY <1>1 DEF CopiesTypeOK
  <2> QED
    BY <1>1, <1>3, <2>1, <2>2, <2>3 DEF CopiesTypeOK
<1>5. /\ Held(d)' /\ holding'[d].at[h].seq = seq + 1
      /\ holding'[d].at[h].off = off + len
  <2>1. Held(d)' /\ holding'[d].at[h] = [seq |-> seq + 1, off |-> off + len]
    BY <1>1, MoveFacts
  <2> QED
    BY <2>1
<1>6. SentInv'
  <2>1. ASSUME NEW g \in PairHalves, NEW s \in AuthRecords
        PROVE  \/ recSent'[g][s] = recSent[g][s]
               \/ Held(Owner(g))' /\ s < holding'[Owner(g)].at[g].seq
    <3>1. recSent'[g][s] = recSent[g][s] \/ (g = h /\ s = seq)
      BY <1>1 DEF CopiesTypeOK
    <3> QED
      BY <1>1, <1>2, <1>5, <3>1
  <2>2. ASSUME NEW g \in PairHalves, NEW o \in PadOffsets
        PROVE  \/ padSent'[g][o] = padSent[g][o]
               \/ Held(Owner(g))' /\ o < holding'[Owner(g)].at[g].off
    <3>1. padSent'[g][o] = padSent[g][o] \/ (g = h /\ o < off + len)
      BY <1>1 DEF CopiesTypeOK
    <3> QED
      BY <1>1, <1>5, <3>1
  <2> QED
    BY <1>3, <1>4, <2>1, <2>2, SentKept
<1>7. ReadInv'
  BY <1>1, <1>3, <1>4, ReadKept
<1>8. Pad!Next
  <2> DEFINE window == {o \in PadOffsets : off <= o /\ o < off + len}
  <2>1. holding[d] # Gone
    BY <1>1 DEF Held
  <2>2. Pad!UseRecord(h, seq)
    <3>1. \A r \in AuthRecords : r >= seq => recSent[h][r] = 0
      BY <1>1, <1>2, <2>1, CopiesNumbers DEF SentInv, AuthRecords
    <3> QED
      BY <1>1, <3>1 DEF Pad!UseRecord
  <2>3. Pad!UseWindow(h, window)
    <3>1. \A w \in window, o \in PadOffsets : o >= w => padSent[h][o] = 0
      BY <1>1, <1>2, <2>1, CopiesNumbers DEF SentInv, PadOffsets
    <3>2. padSent' = [padSent EXCEPT ![h] =
                        [o \in PadOffsets |-> @[o] + (IF o \in window THEN 1 ELSE 0)]]
      <4>1. padSent[h] \in [PadOffsets -> Nat]
        BY DEF CopiesTypeOK
      <4>2. [o \in PadOffsets |-> padSent[h][o] + (IF o \in window THEN 1 ELSE 0)]
              = [o \in PadOffsets |->
                   IF off <= o /\ o < off + len THEN padSent[h][o] + 1 ELSE padSent[h][o]]
        BY <4>1
      <4> HIDE DEF window
      <4> QED
        BY <1>1, <4>2
    <3> QED
      BY <3>1, <3>2 DEF Pad!UseWindow
  <2>4. window \in SUBSET PadOffsets
    OBVIOUS
  <2> QED
    BY <2>2, <2>3, <2>4 DEF Pad!Next
<1> QED
  BY <1>3, <1>4, <1>6, <1>7, <1>8

(* What an envelope opened is: the other one's, above everything opened    *)
(* before it.                                                              *)
LEMMA OpenFacts ==
  ASSUME CopiesTypeOK, RolesInv, NEW d \in Installations, NEW e \in wire, OpenOn(d, e)
  PROVE  /\ e \in Envelopes /\ e.half \in PairHalves /\ Reader(e.half) = d /\ Held(d)
         /\ e.seq + 1 \in 0 .. PadRecords /\ e.start + e.len \in 0 .. PadBytes
         /\ holding[d].at[e.half].seq <= e.seq /\ holding[d].at[e.half].off <= e.start
         /\ MovedTo(d, e.half, e.seq + 1, e.start + e.len)
         /\ released' = [released EXCEPT ![e.half] = Append(@, e)]
         /\ UNCHANGED <<stored, files, wire, recSent, padSent, retires>>
<1>1. e \in Envelopes
  BY DEF CopiesTypeOK
<1>2. /\ e.seq \in Int /\ e.start \in Int /\ e.len \in Int
      /\ e.seq >= 0 /\ e.start >= 0 /\ e.len >= 1
  BY <1>1, EnvelopeNumbers
<1>3. /\ Held(d) /\ ResolveRole(d) # NoRole /\ e.half = ReceiveDirection(ResolveRole(d))
      /\ Openable(holding[d].at[e.half], e)
      /\ MovedTo(d, e.half, e.seq + 1, e.start + e.len)
      /\ released' = [released EXCEPT ![e.half] = Append(@, e)]
      /\ UNCHANGED <<stored, files, wire, recSent, padSent, retires>>
  BY DEF OpenOn
<1>4. e.half \in PairHalves /\ Reader(e.half) = d
  BY <1>3, RoleOwns
<1>5. /\ e.seq < PadRecords /\ e.start + e.len <= PadBytes
      /\ holding[d].at[e.half].seq <= e.seq /\ holding[d].at[e.half].off <= e.start
  BY <1>3 DEF Openable
<1>6. e.seq + 1 \in 0 .. PadRecords /\ e.start + e.len \in 0 .. PadBytes
  BY <1>2, <1>5, CopiesNumbers
<1> QED
  BY <1>1, <1>3, <1>4, <1>5, <1>6

(* Open keeps the invariant.                                               *)
LEMMA OpenCopyKeeps ==
  ASSUME CopiesInv, NEW d \in Installations, NEW e \in wire, OpenOn(d, e)
  PROVE  CopiesInv'
<1> USE DEF CopiesInv
<1> DEFINE h == e.half
<1>1. /\ e \in Envelopes /\ h \in PairHalves /\ Reader(h) = d /\ Held(d)
      /\ e.seq + 1 \in 0 .. PadRecords /\ e.start + e.len \in 0 .. PadBytes
      /\ holding[d].at[h].seq <= e.seq /\ holding[d].at[h].off <= e.start
      /\ MovedTo(d, h, e.seq + 1, e.start + e.len)
      /\ released' = [released EXCEPT ![h] = Append(@, e)]
      /\ UNCHANGED <<stored, files, wire, recSent, padSent, retires>>
  BY OpenFacts
<1>2. /\ e.seq \in Int /\ e.start \in Int /\ e.len \in Int /\ e.len >= 1
  BY <1>1, EnvelopeNumbers
<1>3. /\ holding[d].at[h].seq \in 0 .. PadRecords
      /\ holding[d].at[h].off \in 0 .. PadBytes
  BY <1>1, CounterType
<1> HIDE DEF h
<1>4. /\ holding[d].at[h].seq <= e.seq + 1 /\ holding[d].at[h].off <= e.start + e.len
  <2> DEFINE s == holding[d].at[h].seq
             o == holding[d].at[h].off
             q == e.seq
             b == e.start
             l == e.len
  <2>1. s \in 0 .. PadRecords /\ o \in 0 .. PadBytes /\ s <= q /\ o <= b
    BY <1>1, <1>3, Zenon
  <2>2. q \in Int /\ b \in Int /\ l \in Int /\ l >= 1
    BY <1>2, Zenon
  <2>3. PadRecords \in Nat /\ PadBytes \in Nat
    BY CopiesNumbers, Zenon
  <2> HIDE DEF s, o, q, b, l
  <2>4. s <= q + 1 /\ o <= b + l
    BY <2>1, <2>2, <2>3
  <2> QED BY <2>4, Zenon DEF s, o, q, b, l
<1>5. /\ holding' \in [Installations ->
                          {Absent, Gone} \cup [origin : Origins, at : HalfCounters]]
      /\ RolesInv' /\ \A x \in Installations : Climbs(x)
  BY <1>1, <1>4, MoveTidy
<1>6. released' \in [PairHalves -> Seq(Envelopes)]
  BY <1>1 DEF CopiesTypeOK
<1>7. CopiesTypeOK'
  BY <1>1, <1>5, <1>6 DEF CopiesTypeOK
<1>8. SentInv'
  BY <1>1, <1>5, <1>7, SentKept
<1>9. /\ Held(d)' /\ holding'[d].at[h].seq = e.seq + 1
      /\ holding'[d].at[h].off = e.start + e.len
  <2>1. Held(d)' /\ holding'[d].at[h] = [seq |-> e.seq + 1, off |-> e.start + e.len]
    BY <1>1, MoveFacts
  <2> QED
    BY <2>1
<1>10. \A x \in wire' : x.from = Owner(x.half)
  BY <1>1 DEF ReadInv
<1>11. ASSUME NEW g \in PairHalves, NEW i \in 1 .. Len(released[g])
       PROVE  /\ released[g][i].from = Owner(g)
              /\ \/ holding'[Reader(g)] = Gone
                 \/ /\ Held(Reader(g))'
                    /\ released[g][i].seq < holding'[Reader(g)].at[g].seq
                    /\ released[g][i].start + released[g][i].len
                         <= holding'[Reader(g)].at[g].off
  BY <1>5, <1>7, <1>11, ReadStays
<1>12. ASSUME NEW i \in 1 .. Len(released[h])
       PROVE  /\ released[h][i].seq < e.seq
              /\ released[h][i].start + released[h][i].len <= e.start
  <2>1. released[h][i] \in Envelopes
    BY <1>1, <1>12 DEF CopiesTypeOK
  <2>2. /\ released[h][i].seq \in Int /\ released[h][i].start \in Int
        /\ released[h][i].len \in Int
    BY <2>1, EnvelopeNumbers
  <2>3. holding[d] # Gone
    BY <1>1 DEF Held
  <2>4. /\ released[h][i].seq < holding[d].at[h].seq
        /\ released[h][i].start + released[h][i].len <= holding[d].at[h].off
    BY <1>1, <1>12, <2>3 DEF ReadInv
  <2>5. holding[d].at[h].seq \in Int /\ holding[d].at[h].off \in Int
    BY <1>3, CopiesNumbers
  <2>6. holding[d].at[h].seq <= e.seq /\ holding[d].at[h].off <= e.start
    BY <1>1
  <2>7. \A x, y, z \in Int : x < y /\ y <= z => x < z
    OBVIOUS
  <2>8. \A x, y, z \in Int : x <= y /\ y <= z => x <= z
    OBVIOUS
  <2>9. released[h][i].seq < e.seq
    BY <1>2, <2>2, <2>4, <2>5, <2>6, <2>7
  <2>10. released[h][i].start + released[h][i].len \in Int
    BY <2>2
  <2>11. e.start \in Int
    BY <1>2
  <2>12. released[h][i].start + released[h][i].len <= e.start
    BY <2>4, <2>5, <2>6, <2>8, <2>10, <2>11
  <2> QED
    BY <2>9, <2>12
<1>13. /\ Len(released'[h]) = Len(released[h]) + 1
       /\ \A i \in 1 .. Len(released[h]) : released'[h][i] = released[h][i]
       /\ released'[h][Len(released[h]) + 1] = e
       /\ \A g \in PairHalves \ {h} : released'[g] = released[g]
       /\ Len(released[h]) \in Nat
  BY <1>1 DEF CopiesTypeOK
<1>14. e.from = Owner(h)
  BY DEF ReadInv, h
<1>15. ASSUME NEW g \in PairHalves, NEW i \in 1 .. Len(released'[g])
       PROVE  /\ released'[g][i].from = Owner(g)
              /\ \/ holding'[Reader(g)] = Gone
                 \/ /\ Held(Reader(g))'
                    /\ released'[g][i].seq < holding'[Reader(g)].at[g].seq
                    /\ released'[g][i].start + released'[g][i].len
                         <= holding'[Reader(g)].at[g].off
  <2>1. CASE g # h
    BY <1>11, <1>13, <1>15, <2>1
  <2>2. CASE g = h /\ i # Len(released[h]) + 1
    <3>1. i \in 1 .. Len(released[h]) /\ released'[g][i] = released[g][i]
      BY <1>13, <1>15, <2>2
    <3> QED
      BY <1>11, <2>2, <3>1
  <2>3. CASE g = h /\ i = Len(released[h]) + 1
    <3>1. released'[g][i] = e
      BY <1>13, <2>3
    <3> QED
      BY <1>1, <1>2, <1>9, <1>14, <2>3, <3>1
  <2> QED
    BY <2>1, <2>2, <2>3
<1>16. ASSUME NEW g \in PairHalves, NEW i \in 1 .. Len(released'[g]),
              NEW j \in 1 .. Len(released'[g]), i < j
       PROVE  /\ released'[g][i].seq < released'[g][j].seq
              /\ released'[g][i].start + released'[g][i].len <= released'[g][j].start
  <2>1. CASE g # h
    BY <1>13, <1>16, <2>1 DEF ReadInv
  <2>2. CASE g = h /\ j # Len(released[h]) + 1
    <3>1. /\ i \in 1 .. Len(released[h]) /\ j \in 1 .. Len(released[h])
          /\ released'[g][i] = released[g][i] /\ released'[g][j] = released[g][j]
      BY <1>13, <1>16, <2>2
    <3> QED
      BY <1>16, <2>2, <3>1 DEF ReadInv
  <2>3. CASE g = h /\ j = Len(released[h]) + 1
    <3>1. /\ i \in 1 .. Len(released[h])
          /\ released'[g][i] = released[h][i] /\ released'[g][j] = e
      BY <1>13, <1>16, <2>3
    <3> QED
      BY <1>12, <3>1
  <2> QED
    BY <2>1, <2>2, <2>3
<1>17. ReadInv'
  BY <1>10, <1>15, <1>16 DEF ReadInv, Owner, Reader, Held
<1> QED
  BY <1>5, <1>7, <1>8, <1>17

-----------------------------------------------------------------------------
(* Every step keeps the invariant and is a step of the one-time pad or     *)
(* leaves it alone.                                                        *)
LEMMA CopiesStep ==
  CopiesInv /\ [CopiesNext]_copiesVars
    => CopiesInv' /\ (Pad!Next \/ UNCHANGED <<recSent, padSent>>)
<1> SUFFICES ASSUME CopiesInv, [CopiesNext]_copiesVars
             PROVE  CopiesInv' /\ (Pad!Next \/ UNCHANGED <<recSent, padSent>>)
  OBVIOUS
<1>1. CopiesTypeOK /\ RolesInv /\ SentInv /\ ReadInv
  BY DEF CopiesInv
<1>2. ASSUME Tidy, UNCHANGED <<wire, recSent, padSent, released>>
      PROVE  CopiesInv' /\ UNCHANGED <<recSent, padSent>>
  <2>1. CopiesTypeOK' /\ RolesInv' /\ \A d \in Installations : Climbs(d)
    BY <1>2 DEF Tidy
  <2>2. SentInv'
    BY <1>1, <1>2, <2>1, SentKept
  <2>3. ReadInv'
    BY <1>1, <1>2, <2>1, ReadKept
  <2> QED
    BY <1>2, <2>1, <2>2, <2>3 DEF CopiesInv
<1>3. CASE Generate
  <2>1. UNCHANGED <<wire, recSent, padSent, released>>
    BY <1>3 DEF Generate
  <2> QED
    BY <1>1, <1>2, <1>3, <2>1, GenerateTidy
<1>4. ASSUME NEW d \in Installations, SavePadFile(d)
      PROVE  CopiesInv' /\ UNCHANGED <<recSent, padSent>>
  <2>1. UNCHANGED <<wire, recSent, padSent, released>>
    BY <1>4 DEF SavePadFile
  <2> QED
    BY <1>1, <1>2, <1>4, <2>1, SaveTidy
<1>5. ASSUME NEW d \in Installations, AddPadFile(d)
      PROVE  CopiesInv' /\ UNCHANGED <<recSent, padSent>>
  <2>1. UNCHANGED <<wire, recSent, padSent, released>>
    BY <1>5 DEF AddPadFile
  <2> QED
    BY <1>1, <1>2, <1>5, <2>1, AddTidy
<1>6. ASSUME NEW d \in Installations, ForgetRole(d)
      PROVE  CopiesInv' /\ UNCHANGED <<recSent, padSent>>
  <2>1. UNCHANGED <<wire, recSent, padSent, released>>
    BY <1>6 DEF ForgetRole
  <2> QED
    BY <1>1, <1>2, <1>6, <2>1, ForgetTidy
<1>7. ASSUME NEW d \in Installations, DestroyCopy(d)
      PROVE  CopiesInv' /\ UNCHANGED <<recSent, padSent>>
  <2>1. UNCHANGED <<wire, recSent, padSent, released>>
    BY <1>7 DEF DestroyCopy
  <2> QED
    BY <1>1, <1>2, <1>7, <2>1, DestroyTidy
<1>8. ASSUME NEW d \in Installations, NEW len \in MessageSizes, Send(d, len)
      PROVE  CopiesInv' /\ Pad!Next
  BY <1>8, SendKeeps
<1>9. ASSUME NEW d \in Installations, NEW e \in wire, OpenOn(d, e)
      PROVE  CopiesInv' /\ UNCHANGED <<recSent, padSent>>
  BY <1>9, OpenCopyKeeps DEF OpenOn
<1>10. ASSUME NEW d \in Installations, NEW h \in PairHalves,
              NEW through \in AuthRecords, NEW off \in 0 .. PadBytes,
              Retire(d, h, through, off)
       PROVE  CopiesInv' /\ UNCHANGED <<recSent, padSent>>
  <2>1. UNCHANGED <<wire, recSent, padSent, released>>
    BY <1>10 DEF Retire
  <2> QED
    BY <1>1, <1>2, <1>10, <2>1, RetireTidy
<1>11. CASE UNCHANGED copiesVars
  BY <1>1, <1>11 DEF copiesVars, CopiesInv, CopiesTypeOK, RolesInv, SentInv, ReadInv, Held
<1> QED
  BY <1>3, <1>4, <1>5, <1>6, <1>7, <1>8, <1>9, <1>10, <1>11 DEF CopiesNext

(* The whole invariant (Copies): roles, what was sent, what was read.      *)
THEOREM CopiesInvariant ==
  CopiesSpec => []CopiesInv
BY InitKeeps, CopiesStep, PTL DEF CopiesSpec

(* Every variable of Copies keeps its type: the counters of a copy never   *)
(* pass the size of the pad.                                               *)
THEOREM CopiesTypeCorrect ==
  CopiesSpec => []CopiesTypeOK
<1>1. CopiesInv => CopiesTypeOK
  BY DEF CopiesInv
<1> QED
  BY <1>1, CopiesInvariant, PTL

(* Whatever is lost, repeated, late or forgotten: everything opened was    *)
(* sent by the other installation, once, and in the order it was sent.     *)
THEOREM ReadsAreAsWritten ==
  CopiesSpec => []ReadAsWritten
<1>1. CopiesInv => ReadAsWritten
  <2> SUFFICES ASSUME CopiesInv PROVE ReadAsWritten
    OBVIOUS
  <2>1. ASSUME NEW h \in PairHalves
        PROVE  DOMAIN released[h] = 1 .. Len(released[h])
    BY DEF CopiesInv, CopiesTypeOK
  <2> QED
    BY <2>1 DEF ReadAsWritten, CopiesInv, ReadInv, Owner
<1> QED
  BY <1>1, CopiesInvariant, PTL

(* The copies on both installations together keep the promise of           *)
(* OneTimePad: no record and no byte of a half makes two envelopes.        *)
THEOREM CopiesAreOnePad ==
  CopiesSpec => CopiesPromise
<1>1. CopiesInit => Pad!Init
  BY DEF CopiesInit, Pad!Init
<1>2. CopiesInv /\ [CopiesNext]_copiesVars => [Pad!Next]_(Pad!otpVars)
  BY CopiesStep DEF Pad!otpVars
<1> QED
  BY <1>1, <1>2, CopiesInvariant, PTL DEF CopiesSpec, CopiesPromise, Pad!Spec
=============================================================================
