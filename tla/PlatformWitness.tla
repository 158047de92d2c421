--------------------------- MODULE PlatformWitness --------------------------
(***************************************************************************)
(* The platform-monotonic witness: a state file that is always durable one *)
(* ahead before the TPM's counter moves, the authority the installation    *)
(* has pinned, and the verbs and assurance transitions that go through it  *)
(* (src/cli/v2/platform-witness.ts, tpm.ts, trust-store.ts and the two     *)
(* touchpoints in truepad2.ts).                                            *)
(*                                                                         *)
(* Every pair here is bound to the authority Home and has one process at a *)
(* time, which its pad lock gives. One position stands for its three       *)
(* counters, as in SharedWitness.                                          *)
(***************************************************************************)
EXTENDS AssuranceLadder, FileStates, FiniteSets

CONSTANTS
  TpmPairs,        \* the pairs bound to Home
  StatePaths,      \* places a state file may be at
  FirstPath,       \* where Home's was made
  Home, Stranger,  \* authority ids: that one, and one init makes later
  MaxStore,        \* bound on a pair's position
  Levels,          \* Levels[p]: the levels pair p is asked to move to
  Budget,          \* bounds on crashes, restored stores, files put back, copies kept, pins, inits,
                   \* and on any of them together
  CopiesAreSettled \* files are copied, and the pin moved, only when all is settled

Heights == [TpmPairs -> Nat]
StateFile == [auth : {Home, Stranger}, anchor : Nat, pos : Heights, level : Heights]
TrustPin == [auth : {Home, Stranger}, path : StatePaths]

ASSUME PlatformSizes ==
  /\ Home # Stranger /\ FirstPath \in StatePaths
  /\ None \notin TpmPairs /\ None \notin StateFile /\ None \notin TrustPin
  /\ MaxStore \in Nat /\ Levels \in [TpmPairs -> SUBSET (0 .. Withdrawn)]
  /\ Budget \in [{"crash", "restore", "putBack", "pin", "init", "copy", "any"} -> Nat]

VARIABLES
  counter,   \* the TPM's NV counter
  stateAt,   \* stateAt[f]: the state file at f
  stateLock, \* stateLock[f]: who made its lock file
  pinned,    \* the trust store: an authority and its path, or None
  verb,      \* verb[p]: what runs for pair p, or Idle
  pstore,    \* pstore[p]: the effective position of its store
  outAt,     \* outAt[p]: the highest position an output was made at
  outAgain,  \* pairs that made one at or below such a position
  granted,   \* granted[p]: the highest level a transition reported
  backups,   \* contents of state files that were kept
  left       \* what is left of each bound

platformVars == <<counter, stateAt, stateLock, pinned, verb, pstore, outAt, outAgain,
                  granted, backups, left>>

Idle == [at |-> "idle"]
NoPositions == [p \in TpmPairs |-> 0]
FirstState(id, n) ==
  [auth |-> id, anchor |-> n, pos |-> NoPositions, level |-> NoPositions]

(* Home as init and `authority pin` left it.                               *)
PlatformInit ==
  /\ counter = 1
  /\ stateAt = [f \in StatePaths |-> IF f = FirstPath THEN FirstState(Home, 1) ELSE None]
  /\ stateLock = [f \in StatePaths |-> None]
  /\ pinned = [auth |-> Home, path |-> FirstPath]
  /\ verb = [p \in TpmPairs |-> Idle]
  /\ pstore = NoPositions /\ outAt = NoPositions /\ outAgain = {} /\ granted = NoPositions
  /\ backups = {} /\ left = Budget
----------------------------------------------------------------------------
(* classifyAnchor.                                                         *)
Normal(s)   == s.anchor = counter
Prepared(s) == s.anchor = counter + 1
Consistent(s) == Normal(s) \/ Prepared(s)

(* readState and the identity of what was read.                            *)
Readable(f) == stateAt[f] # None /\ stateAt[f].auth = Home

(* The two probes, which change nothing: a prepared file is as good as one *)
(* that is settled. A level is a number when there is one.                 *)
PlatformHealth(p, f) ==
  IF stateAt[f] = None THEN "unreachable"
  ELSE IF ~(Readable(f) /\ Consistent(stateAt[f])) THEN "inconsistent"
  ELSE IF pstore[p] < stateAt[f].pos[p] THEN "regressed" ELSE "healthy"
PlatformAssurance(p, f) ==
  IF stateAt[f] = None THEN "unavailable"
  ELSE IF ~(Readable(f) /\ Consistent(stateAt[f])) THEN "inconsistent"
  ELSE stateAt[f].level[p]

(* resolvePlatformAuthority: the pair's claim against the pin.             *)
Trusted == pinned # None /\ pinned.auth = Home

HigherOf(a, b) == IF a >= b THEN a ELSE b
NotBelow(g, h) == \A p \in TpmPairs : g[p] >= h[p]

Goes(p, at) == verb' = [verb EXCEPT ![p].at = at]
Frees(f) == stateLock' = [stateLock EXCEPT ![f] = None]
Spend(b) ==
  /\ left[b] > 0 /\ left["any"] > 0
  /\ left' = [left EXCEPT ![b] = @ - 1, !["any"] = @ - 1]
tpmFiles == <<counter, stateAt>>
outputs == <<outAt, outAgain, granted>>
outside == <<pinned, backups, left>>

(* The lock is released however the step ends; a refusal before the commit *)
(* is free, one after it loses the record.                                 *)
Quits(p) == verb' = [verb EXCEPT ![p] = Idle] /\ Frees(verb[p].path)
----------------------------------------------------------------------------
(* Into the lock of the pinned file; if it is taken the verb refuses.      *)
EntersAs(p, v) ==
  /\ Trusted /\ stateLock[pinned.path] = None
  /\ stateLock' = [stateLock EXCEPT ![pinned.path] = p]
  /\ verb' = [verb EXCEPT ![p] = v]
  /\ UNCHANGED <<tpmFiles, pstore, outputs, outside>>

(* platformPreflight of a verb that will use the pair.                     *)
BeginPreflight(p) ==
  /\ verb[p] = Idle /\ pstore[p] < MaxStore
  /\ EntersAs(p, [at |-> "locked", goal |-> "check", path |-> pinned.path])

(* platformRecordAssurance.                                                *)
BeginTransition(p, level) ==
  /\ verb[p] = Idle
  /\ EntersAs(p, [at |-> "locked", goal |-> "raise", path |-> pinned.path, to |-> level])

(* platformAdvance, which resolves the pin a second time.                  *)
BeginAdvance(p) ==
  /\ verb[p].at = "committed"
  /\ EntersAs(p, [at |-> "locked", goal |-> "advance", path |-> pinned.path,
                  snap |-> verb[p].snap])

AdvanceRefused(p) ==
  /\ verb[p].at = "committed"
  /\ ~(Trusted /\ stateLock[pinned.path] = None)
  /\ verb' = [verb EXCEPT ![p] = Idle]
  /\ UNCHANGED <<tpmFiles, stateLock, pstore, outputs, outside>>

Refused(p) ==
  /\ verb[p].at = "locked"
  /\ ~(Readable(verb[p].path) /\ Consistent(stateAt[verb[p].path]))
  /\ Quits(p)
  /\ UNCHANGED <<tpmFiles, pstore, outputs, outside>>

(* reconcile: a prepared commit is completed by one increment.             *)
Settle(p) ==
  LET s == stateAt[verb[p].path] IN
  /\ verb[p].at = "locked" /\ Readable(verb[p].path) /\ Consistent(s)
  /\ IF Normal(s) THEN Goes(p, "settled") /\ UNCHANGED counter
                  ELSE Goes(p, "completed") /\ counter' = counter + 1
  /\ UNCHANGED <<stateAt, stateLock, pstore, outputs, outside>>

(* The counter is read again and must be the anchor.                       *)
Completed(p) ==
  /\ verb[p].at = "completed"
  /\ IF Normal(stateAt[verb[p].path]) THEN Goes(p, "settled") /\ UNCHANGED stateLock
                                      ELSE Quits(p)
  /\ UNCHANGED <<tpmFiles, pstore, outputs, outside>>

PassAnyStore(p) ==
  LET s == stateAt[verb[p].path] IN
  /\ verb[p].at = "settled" /\ verb[p].goal = "check" /\ Frees(verb[p].path)
  /\ verb' = [verb EXCEPT ![p] = [at |-> "ready", snap |-> s.pos]]
  /\ UNCHANGED <<tpmFiles, pstore, outputs, outside>>

(* The end of the preflight: the store against its entry, the map kept.    *)
PassPreflight(p) ==
  LET s == stateAt[verb[p].path] IN
  /\ verb[p].at = "settled" /\ verb[p].goal = "check" /\ Frees(verb[p].path)
  /\ verb' = [verb EXCEPT ![p] =
       IF pstore[p] >= s.pos[p] THEN [at |-> "ready", snap |-> s.pos] ELSE Idle]
  /\ UNCHANGED <<tpmFiles, pstore, outputs, outside>>

(* The durable commit of the pair, outside the lock.                       *)
CommitStore(p) ==
  /\ verb[p].at = "ready" /\ Goes(p, "committed")
  /\ pstore' = [pstore EXCEPT ![p] = @ + 1]
  /\ UNCHANGED <<tpmFiles, stateLock, outputs, outside>>

(* What the file will say: the maximum of the position, or the next level. *)
Merged(p, s) ==
  IF verb[p].goal = "advance" THEN [s EXCEPT !.pos[p] = HigherOf(@, pstore[p])]
                              ELSE [s EXCEPT !.level[p] = verb[p].to]

WillRecord(p, s) ==
  IF verb[p].goal = "advance" THEN NotBelow(s.pos, verb[p].snap)
                              ELSE AssuranceAdvanceOk(s.level[p], verb[p].to)

IncrementFirst(p) ==
  LET s == stateAt[verb[p].path] IN
  /\ verb[p].at = "settled" /\ verb[p].goal # "check" /\ WillRecord(p, s)
  /\ counter' = counter + 1 /\ Goes(p, "incremented")
  /\ UNCHANGED <<stateAt, stateLock, pstore, outputs, outside>>

(* PREPARE: the file is durable one ahead of the counter.                  *)
Prepare(p) ==
  LET s == stateAt[verb[p].path] IN
  /\ verb[p].at = "settled" /\ verb[p].goal # "check" /\ WillRecord(p, s)
  /\ stateAt' = [stateAt EXCEPT ![verb[p].path] = [Merged(p, s) EXCEPT !.anchor = @ + 1]]
  /\ Goes(p, "prepared")
  /\ UNCHANGED <<counter, stateLock, pstore, outputs, outside>>

(* The level is there already, or is not one to move to from here; or what *)
(* the preflight saw has gone.                                             *)
NotRecorded(p) ==
  LET s == stateAt[verb[p].path] IN
  /\ verb[p].at = "settled" /\ verb[p].goal # "check" /\ ~WillRecord(p, s)
  /\ Quits(p)
  /\ granted' = IF verb[p].goal = "raise" /\ s.level[p] = verb[p].to
                THEN [granted EXCEPT ![p] = HigherOf(@, verb[p].to)] ELSE granted
  /\ UNCHANGED <<tpmFiles, pstore, outAt, outAgain, outside>>

(* COMMIT: the hardware moves.                                             *)
Increment(p) ==
  /\ verb[p].at = "prepared" /\ counter' = counter + 1 /\ Goes(p, "incremented")
  /\ UNCHANGED <<stateAt, stateLock, pstore, outputs, outside>>

(* Read back: an output or an acknowledgement only at the prepared anchor. *)
ReadBack(p) ==
  /\ verb[p].at = "incremented" /\ Frees(verb[p].path)
  /\ IF ~Normal(stateAt[verb[p].path])
       THEN verb' = [verb EXCEPT ![p] = Idle] /\ UNCHANGED granted
       ELSE IF verb[p].goal = "advance"
         THEN verb' = [verb EXCEPT ![p] = [at |-> "advanced"]] /\ UNCHANGED granted
         ELSE /\ verb' = [verb EXCEPT ![p] = Idle]
              /\ granted' = [granted EXCEPT ![p] = HigherOf(@, verb[p].to)]
  /\ UNCHANGED <<tpmFiles, pstore, outAt, outAgain, outside>>

EmitOutput(p) ==
  /\ verb[p].at = "advanced" /\ verb' = [verb EXCEPT ![p] = Idle]
  /\ outAgain' = IF pstore[p] > outAt[p] THEN outAgain ELSE outAgain \cup {p}
  /\ outAt' = [outAt EXCEPT ![p] = HigherOf(@, pstore[p])]
  /\ UNCHANGED <<tpmFiles, stateLock, pstore, granted, outside>>

(* tpm2_nvincrement fails or is killed: it may have moved the counter.     *)
TpmFails(p) ==
  /\ \/ verb[p].at = "prepared"
     \/ verb[p].at = "locked" /\ Readable(verb[p].path) /\ Prepared(stateAt[verb[p].path])
  /\ Spend("crash") /\ Quits(p)
  /\ counter' \in {counter, counter + 1}
  /\ UNCHANGED <<stateAt, pstore, outputs, pinned, backups>>

PlatformStep(p) ==
  \/ BeginPreflight(p) \/ \E level \in Levels[p] : BeginTransition(p, level)
  \/ BeginAdvance(p) \/ AdvanceRefused(p)
  \/ Refused(p) \/ Settle(p) \/ Completed(p) \/ PassPreflight(p) \/ CommitStore(p)
  \/ Prepare(p) \/ NotRecorded(p) \/ Increment(p) \/ ReadBack(p) \/ EmitOutput(p)
  \/ TpmFails(p)
----------------------------------------------------------------------------
(* initLocked on a path that has no file, with the index Home uses: one    *)
(* increment to confirm, a new authority at what is read after it.         *)
InitAuthority(f) ==
  /\ stateAt[f] = None /\ stateLock[f] = None /\ Spend("init")
  /\ counter' = counter + 1
  /\ stateAt' = [stateAt EXCEPT ![f] = FirstState(Stranger, counter + 1)]
  /\ UNCHANGED <<stateLock, verb, pstore, outputs, pinned, backups>>

AllSettled ==
  /\ \A f \in StatePaths : stateLock[f] = None
  /\ pinned # None /\ stateAt[pinned.path] # None => ~Prepared(stateAt[pinned.path])

(* inspectAuthorityForPin, then writeTrustPin.                             *)
PinAuthority(f) ==
  /\ stateAt[f] # None /\ Consistent(stateAt[f]) /\ Spend("pin")
  /\ CopiesAreSettled => AllSettled
  /\ pinned' = [auth |-> stateAt[f].auth, path |-> f]
  /\ UNCHANGED <<tpmFiles, stateLock, verb, pstore, outputs, backups>>

Unpin ==
  /\ pinned # None /\ Spend("pin") /\ pinned' = None
  /\ CopiesAreSettled => AllSettled
  /\ UNCHANGED <<tpmFiles, stateLock, verb, pstore, outputs, backups>>

(* The process dies; its lock file stays until the operator removes it.    *)
ProcessDies(p) ==
  /\ verb[p] # Idle /\ Spend("crash") /\ verb' = [verb EXCEPT ![p] = Idle]
  /\ UNCHANGED <<tpmFiles, stateLock, pstore, outputs, pinned, backups>>

InsideLock(p, f) ==
  verb[p].at \in {"locked", "completed", "settled", "prepared", "incremented"}
    /\ verb[p].path = f

RemoveStateLock(f) ==
  /\ stateLock[f] # None /\ ~InsideLock(stateLock[f], f) /\ Frees(f)
  /\ UNCHANGED <<tpmFiles, verb, pstore, outputs, outside>>

RestorePair(p) ==
  /\ verb[p] = Idle /\ Spend("restore")
  /\ \E k \in 0 .. MaxStore : k < pstore[p] /\ pstore' = [pstore EXCEPT ![p] = k]
  /\ UNCHANGED <<tpmFiles, stateLock, verb, outputs, pinned, backups>>

BackUpState(f) ==
  /\ left["putBack"] > 0 /\ Cardinality(backups) < Budget["copy"]
  /\ stateAt[f] # None /\ stateAt[f] \notin backups
  /\ CopiesAreSettled => AllSettled
  /\ backups' = backups \cup {stateAt[f]}
  /\ UNCHANGED <<tpmFiles, stateLock, verb, pstore, outputs, pinned, left>>

PutStateBack(f) ==
  /\ Spend("putBack") /\ \A p \in TpmPairs : ~InsideLock(p, f)
  /\ \E s \in backups : s # stateAt[f] /\ stateAt' = [stateAt EXCEPT ![f] = s]
  /\ UNCHANGED <<counter, stateLock, verb, pstore, outputs, pinned, backups>>

PlatformNext ==
  \/ \E p \in TpmPairs : PlatformStep(p) \/ ProcessDies(p) \/ RestorePair(p)
  \/ \E f \in StatePaths :
       \/ InitAuthority(f) \/ PinAuthority(f) \/ RemoveStateLock(f)
       \/ BackUpState(f) \/ PutStateBack(f)
  \/ Unpin
PlatformSpec == PlatformInit /\ [][PlatformNext]_platformVars
----------------------------------------------------------------------------
(* The pair, its state file or both may come back from a backup: no pair   *)
(* makes two outputs at one position (the problem the class is there for). *)
PlatformUsedOnce == outAgain = {}

(* platform-witness.ts:28: "Restore F to an older copy and F.anchor < T:   *)
(* the file is behind the hardware and the rollback is visible." So no     *)
(* file makes a store that is behind an output it made look healthy, nor a *)
(* pair stand below a level it was granted: a withdrawn one least of all.  *)
AttestedKnowsAll ==
  \A p \in TpmPairs, f \in StatePaths :
    /\ PlatformHealth(p, f) = "healthy" => pstore[p] >= outAt[p]
    /\ Readable(f) /\ Consistent(stateAt[f]) => PlatformAssurance(p, f) >= granted[p]

(* A crash, or an increment that failed, at whatever point is never taken  *)
(* for a rollback: unless a file was put back, or init run again on the    *)
(* index, what is pinned can go on.                                        *)
CrashIsNoRollback ==
  left["putBack"] = Budget["putBack"] /\ left["init"] = Budget["init"] =>
    \A f \in StatePaths : Readable(f) => Consistent(stateAt[f])
=============================================================================
