# TruePad: TLA+ models, checks and proofs

TruePad keeps one-time-pad material in files and lets two people send
authenticated records with it. Its rule is "loss is acceptable, reuse is not":
whatever crashes, is restored, or arrives twice, no pad byte and no one-time
authentication record may ever make two outputs. The whole of that rule is a
matter of the ORDER in which a handful of small files are written and read, by
several processes, with crashes between any two writes. That order is what
these modules model.

Sources are named relative to the repository root (`src/cli/v2/store2.ts`).

## 1. Inventory

| Component | State it keeps | Operations | Hard behaviour | What makes it correct |
|---|---|---|---|---|
| v2 store (`src/cli/v2/store2.ts`) | per direction: `head.json` (atomic rewrite), `journal.log` (append), `secret.bin` (never rewritten) | load and reconcile, reserve an attempt, record a failure, commit an advance | crash between two writes, torn lines, stale files | counters never under-report what was used or tried |
| v2 verbs (`src/cli/v2/truepad2.ts`) | the pair lock, both halves | gen, burn, open, retire, clear-freeze, status, destroy | one verb is a run of durable writes; every refusal must be free | commit before output; no verification without a durable attempt |
| pair lock (`src/cli/lock.ts`) | one lock file | acquire, release on exit or signal | left behind by a crash | one process per pair; a verb always frees it |
| file witness (`src/cli/v2/witness.ts`) | one JSON file for many pairs, its own lock file | init, read, snapshot, lock probe, advance | read-modify-write by several pairs, file replaced by an older copy, lock left behind | never loses another pair's advance, never endorses a regression |
| platform witness (`platform-witness.ts`, `tpm.ts`, `trust-store.ts`) | NV counter, state file with an entry and an assurance rung per pair, its lock, the pinned authority | init, pin, preflight, advance, record a rung | crash between file and counter, an increment that reports failure and moved, a pin changed meanwhile, an older file put back | what the file says at an accepted anchor knows every output and every rung granted |
| ceremony, provenance, withdrawal (`ceremony.ts`, `provenance.ts`, `withdrawal.ts`) | a workspace, two media, `provenance.json` and `withdrawal.json` on each, the rung in the authority | create, accept, withdraw, verify | authority first and sidecar second, sidecars anyone can replace, one medium under two names | the strongest label only for what was earned; a good copy survives |
| v1 store (`src/cli/store.ts`, `truepad-pad.ts`) | `pad.json`, `marks.log`, a lock | gen, burn, open, status | the same commit order, torn lines, an old `pad.json` | no symbol used twice |
| core arithmetic and codecs (`src/core/`, layouts of `src/spt/`) | none | sampling, partition, frame, envelopes, requests, packages, `wcTag`, GF(2^128), meters | boundaries, two spellings of one message | one spelling per message, slices disjoint, symbols uniform, a tag hard to forge |
| browser engine (`src/browser/engine/store.ts`, `verbs.ts`, `witness.ts`, `vfs.ts`, `opfs-vfs.ts`, `worker.ts`) | the same six files in OPFS, `pair.json`, `importing.json`, `destroyed.json`, a witness log per pair, a staging tree | gen, import, export, burn, open, retire, clear-freeze, destroy | tab closed at any await, a header torn in place, an import retried | as the command line; an import is all or nothing |
| hand-off and Sealed Pad Transfer (`handoff.ts`, `spt-*.ts`, `request-claim.ts`, `src/spt/`) | request, receiver markers, confirmation records, claims, hand-off record and staged package; session, lease and three locks | create, cancel, confirm, seal, re-share, export, open, save, reject, abandon | several tabs, writes that tear, a tab closed between two of them, a package delivered twice or late | a pad leaves once by one route; a request serves one pad and ends once |
| roles (`src/browser/ui/role.ts`) | the role a page stored per pair, beside the origin in `pair.json` | resolve, store at acquisition | both copies hold both halves; the browser forgets what it stored; envelopes lost, doubled, late | one installation sends a half, the other opens it, once and in order |
| views (`src/browser/main.ts`, `src/browser/ui/`) | the route in the hash, `pendingSession`, leave handlers | navigate, render, one form per engine call | replies, clicks and hash changes in any order over a session the worker keeps | no session is left with nobody to end it |
| deployment claims (`src/claims/shannon-deployment.ts`) | none | `assessDeployment` | many facts, one verdict | no gold verdict without every fact |
| Android (`android/`) and iOS (`ios/`) | the same formats in Kotlin and Swift | the same verbs | the same, plus process death | agreement with the TypeScript |
| exhibit (`src/exhibit/`), `scripts/`, `tests/`, `e2e/`, `docs/` | none | a teaching page, release gates | none | not modelled |

How they meet: a verb takes the pair lock, loads both halves, runs its free
checks (the witness preflight among them), and then writes: header, journal,
witness, output. The witness file and the platform's state file are shared by
pairs that know nothing of one another and have locks of their own. The ceremony
drives gen, copies, and the platform's rungs, and `status` derives its label
from all of them. The two sides of a pair share nothing but what a courier
carries: envelopes, a container, or a request and a sealed package; which half
is whose the page decides from how its copy was acquired. The browser
and the phones keep the same files in the same order of writes on another file
system; its tabs share the origin's files and are kept apart by Web Locks.

## 2. Modules

| Module | Models | EXTENDS or uses |
|---|---|---|
| `OneTimePad` | the promise: material is used at most once and in climbing order | |
| `PadStore` | one copy of a pair: store, verbs, lock, witness entry, crashes, repairs, restores | refines `OneTimePad` |
| `PadStoreProofs` | theorems about `PadStore` | EXTENDS `PadStore`, TLAPS |
| `SharedWitness` | several pairs on one witness file, its lock, `witness init`, a file that is replaced | stands alone; a pair is one key |
| `PairLifecycle` | gen, destroy and the verbs on one directory, file by file | stands alone |
| `PairLifecycleProofs` | theorems about `PairLifecycle` | EXTENDS `PairLifecycle`, TLAPS |
| `AssuranceLadder` | the rungs of a pair and which move is one | |
| `PlatformWitness` | the TPM counter, the state file one ahead of it, the pin, verbs and transitions | `AssuranceLadder` |
| `DeploymentClaims` | the assessment of a deployment, a pure function | |
| `WitnessProofs` | theorems about `SharedWitness` and `PlatformWitness` | EXTENDS both, TLAPS |
| `Ceremony` | two media made, compared, accepted, withdrawn; the label `status` shows | `AssuranceLadder`, `DeploymentClaims` |
| `PagePad` | the v1 pad directory | refines `OneTimePad` |
| `CommandLineProofs` | theorems about `Ceremony` and `PagePad` | EXTENDS both, TLAPS |
| `BrowserStore` | the browser's two direction stores and its witness log | refines `OneTimePad` |
| `BrowserStoreProofs` | theorems about `BrowserStore`, `BrowserPair` and `Copies` | EXTENDS the three, TLAPS |
| `BrowserPair` | a browser pad from gen or import to destroy, file by file | |
| `OneHandoff` | the promise: one route per pad, one answer per request | |
| `BrowserInstall` | the pads of an installation, their gates and locks | |
| `SealedSend`, `SealedReceive` | the two halves of a transfer | EXTEND `BrowserInstall` |
| `SealedTransfer` | both halves, several tabs, one installation | refines `OneHandoff` |
| `SealedTransferProofs` | theorems about `SealedTransfer` and `Screens` | EXTENDS both, TLAPS |
| `Copies` | one pad on two installations: roles, pad files, envelopes on a wire that loses, repeats and delays | refines `OneTimePad` |
| `Screens` | the router and the confirmation screen of one page over the worker's sessions | |
| `FieldHash`, `Material`, `Wire` | the pure algorithms and what each is for | |
| `AlgorithmProofs` | theorems about the algorithms, for every input | EXTENDS the three, TLAPS |
| `FileStates` | what a file may be: absent, or there and unreadable | |
| `MCPlatformWitness`, `MCBrowserPair`, `MCSealedTransfer`, `MCAlgorithms`, `MCComponents` | instances for TLC | |
| `ComponentsProofs` | the theorems about the parts, of the parts side by side | EXTENDS `MCComponents`, `BrowserStoreProofs`, `CommandLineProofs`, TLAPS |

The models overlap on purpose at one point each. `PadStore` sees of the witness
its own entry, advanced in one step; `SharedWitness` opens that step up and
reduces a pair's store to the one position the witness compares. `PadStore`
starts with two whole halves; `PairLifecycle` says how they come to be whole and
that no verb is let at them otherwise. `BrowserStore` and `BrowserPair` divide
the browser's pad in the same way, and `SealedTransfer` sees of a pad only
whether it is there, unused and ours. `Copies` takes a verb to be one step, as
`BrowserStore` shows it may, and `Screens` takes an engine call to be one, whose
steps `SealedTransfer` has. `Ceremony` takes the platform authority to
be what `PlatformWitness` shows it to be.

### PadStore

| Variable | Code |
|---|---|
| `head[d]` | `head.json` of a direction: `nextOffset`, `nextSequence`, `perSequenceAttempts`, `failureCount`, `clearedAtFailureCount` |
| `jrn[d]` | what `readJournal` folds from the terminated lines of `journal.log` |
| `tail[d]` | what follows them: nothing, a torn line, a whole line without a newline, two lines run together |
| `wit[d]` | the witness's entry for the pair and direction |
| `locked`, `op` | the lock file, and the verb its holder is running, `op.phase` being its next durable write |
| `recUse`, `padUse`, `begun`, `begunAll`, `refused` | history: outputs made with a record or a byte, verifications begun, refusals shown |

| Action | Code |
|---|---|
| `Burn`, `Open`, `Retire`, `ClearFreeze` | the verb up to its first durable write: lock, load, every free check, the values staged in memory |
| `ReserveAttempt`, `MarkAttempt` | OPEN O3: the attempt line, then the witness |
| `VerifyFails`, `VerifyPasses` | OPEN O4: the tag is looked at; its outcome is a free choice |
| `AppendAuthFail`, `RefuseAuthFailed` | `persistAuthFail`: journal line, then header, then the refusal |
| `CommitHead`, `CommitLine` | `commitAdvance`: header, then journal line |
| `AdvanceWitness`, `Output`, `Withhold` | the witness, the envelope or plaintext, or the loss row in its place |
| `Crash`, `CrashInAppend` | process death or power loss between or inside writes |
| `RemoveStaleLock`, `RemoveLastLine` | what the two refusals tell the operator to do |
| `TakeBackup`, `Restore` | copies of a half's files, put back whole or in part |

A refusal changes nothing but the lock it takes and frees again, so a verb that
is refused is no step. `atomic rewrite` is one step because `writeFileDurably`
writes a temporary file and renames it. `clear-freeze` may take the halves in
either order here; the code takes "A->B" first.

### SharedWitness

| Variable | Code |
|---|---|
| `there`, `entry[p]` | the witness file: present, and what it records for pair `p`; 0 is no entry |
| `lock` | the witness's lock file, by the process whose body is in it |
| `phase[p]` | how far the verb of pair `p` has come |
| `seen[p]`, `snap[p]`, `mem[p]` | what that verb read at the preflight (its counters, the whole file) and under the lock |
| `store[p]` | the effective counters of the pair's own store |
| `advances[p]` | commits of this verb: one for burn and retire, up to two for open, with one snapshot |
| `shown`, `again`, `waited`, `robbed` | history: outputs made, outputs repeated, records lost behind a stale lock, processes whose lock was removed under them |
| `matched`, `late` | processes that found their own body in the lock file and will unlink it; history: the operator removed a lock whose maker had come so far |
| `init[i]`, `copies` | runs of `witness init`; older contents of the file that were kept |

| Action | Code |
|---|---|
| `ReadCounters`, `ProbeLock`, `RefuseLocked`, `EndProbe`, `TakeSnapshot` | `witnessPreflight`: read, take the lock and give it back, compare, read the whole file |
| `Commit`, `RefuseReady` | the durable commit of the pair's own store, or a free refusal after the preflight |
| `LockWitness`, `LockTimeout`, `ReadWitness`, `WriteWitness`, `ReleaseWitness` | `advanceWitness`: the lock or the loss row, the read and the snapshot check, the elementwise maximum by atomic replace, the release |
| `ReadLockBody`, then `EndProbe` or `ReleaseWitness` | `release`: the lock file is read and compared with the process's own body, and in a second call unlinked, whatever is there by then |
| `Show`, `EndQuietly` | the output, or none |
| `CheckAbsent`, `WriteFresh` | `initWitness`, which takes no lock |
| `Crash`, `RemoveStaleLock`, `RemoveLiveLock`, `RestoreStore`, `KeepCopy`, `ReplaceWitness` | the process, the operator and the medium |

The three counters of an entry move together and are compared one by one, so
one number stands for them. One process at a time works for a pair: that is what
its pad lock gives, and `PadStore` has it. A commit that finds its lock held
waits a bounded time; the wait is a choice between `LockWitness` and
`LockTimeout`. `LockTimeout` may be taken while the holder is alive, too: the
holder may be slow.

### PairLifecycle

| Variable | Code |
|---|---|
| `secret[h]`, `head[h]`, `journal[h]`, `folder[h]` | the three files and the directory of a half, each by the pair it belongs to or by what is wrong with it |
| `tomb` | `destroyed.json`: who wrote it and the pair it names |
| `lock` | the pair's lock file |
| `at[p]`, `half[p]` | the next durable step of process `p`, and the half it works on |
| `stuck` | history: halves whose removal destroy noted as failed and no later run made good |

| Action | Code |
|---|---|
| `CheckNotDestroyed` | `requireNotDestroyed` in `gen`, before the sources are read |
| `LockForGen`, `MakeFolder`, `OpenSecret`, `FillSecret`, `WriteHead`, `OpenJournal`, `WriteInitLine` | `initStore2` for each half, under the lock |
| `StartVerb`, `EndVerb` | `withPair`: lock, tombstone, both loads |
| `StartDestroy`, `WriteTombstone`, `ZeroSecret`, `UnlinkSecret`, `UnlinkHead`, `UnlinkJournal`, `RemoveFolder` | `destroy`; each unlink and removal may fail |
| `Crash`, `RemoveStaleLock`, `RemoveTornLine`, `RemoveDirectory` | a death between any two writes, and what the refusals ask the operator to do |

A run of gen stands for the `pairId` it drew, so two runs never share one.
`manifest.json` and `provenance.json` come after the lock is freed and no verb
reads them to decide whether it may run: they are left out. The confirmation
token of destroy is a refusal that changes nothing. An overwrite with zeros may
fail, which the code reports and passes over. So may an unlink, which it passes
over in silence, and the removal of a half's directory, which it notes and passes
over: destroy still ends with `destroyed: true`. `MaxFailures` bounds the unlinks
and removals that fail, and `DestroyedIsGone` speaks of the halves that are not
`stuck`; a failed unlink alone leaves nothing, because the removal of the
directory takes the file with it.

### PlatformWitness

| Variable | Code |
|---|---|
| `counter` | the NV counter of the TPM |
| `stateAt[f]`, `stateLock[f]` | the state file at a path: its authority, its anchor, and for each pair the position and the rung; its lock file |
| `pinned` | the trust store's one pinned authority and path |
| `verb[p]` | what runs for a pair, and at which step of the protocol |
| `pstore[p]` | the effective position of the pair's own store |
| `outAt`, `outAgain`, `granted` | history: outputs, outputs at a position already used, rungs that a call reported |
| `backups`, `left` | what was copied; what is left of each bound |

`BeginPreflight`, `BeginTransition` and `BeginAdvance` are the three entries into
the state lock (`platformPreflight`, `platformRecordAssurance`,
`platformAdvance`); `Settle` and `Completed` are `reconcile`; `Prepare`,
`Increment` and `ReadBack` are PREPARE, COMMIT and the read-back; `TpmFails` is an
increment that is reported as failed and may have happened. `InitAuthority`,
`PinAuthority` and `Unpin` are the operator's verbs, `BackUpState` and
`PutStateBack` the operator's copies.

`CopiesAreSettled` says that a state file is copied, and the pin moved or taken
away, only when no process holds a state lock and the pinned file does not stand
prepared, one ahead of its counter. The passing run
assumes it. Without it two contents can be made for one anchor, and the file put
back is taken for the other (`platform_prepared`, section 6); a pin moved during
a transition forks the file in the same way.

### Ceremony

`made`, `maker` and `workspace` are `ceremony create` and what it has reached;
`copy[m]`, `prov[m]`, `sidecar` and `job[m]` the two media, their sidecars and
the verb that works on one; `attested`, `marked` and `trusted` the authority.
`RecordCreated`, `WriteCreation`, `CopyHalves`, `CopySidecar`, `CheckDistinct`,
`CompareFirst`, `CompareSecond`, `ReloadBoth`, `RemoveWorkspace` are create, in
its order; `Accept` and `WriteAccepted`, `Withdraw` and `WriteWithdrawal` the
two halves of each verb, authority first. `FactsOf` is what `truepad2.ts`
assembles for the evaluator, and `Eligible` the strongest label. One position
stands for both directions; `MovePin` makes the pair's authority one that is not
the pinned one, and back. `attested` is the rung in the authority's state file and `settled`
the one the TPM counter stands behind: a transition that fails between the two
leaves its rung prepared (`Answers`), the next call the authority answers settles
it (`SettlePrepared`, and the calls themselves), and the state file of before may be put
back until then (`PutRungBack`). `ceremony verify` changes nothing: its checks are those
of `Opens`.

### PagePad

`page[d]` is the `nextOffset` of `pad.json`, which is all that tells one from an
older one; `marks[d]` the lines of `marks.log`; `bare` the halves whose last line
has no newline. Two sets are history: `glued`, the halves where a line was appended
to such a one and no mark has had a line of its own since; and `exposed`, those whose
`pad.json` was put back (`PutPageBack`) while they were glued.
`WritePage`, `AppendMark`, `PageOut` are the order of a burn or an open, and of
gen for each half in turn; `CallCut` is a crash or a failed write;
`RemoveStaleGate`, `RemoveHalfPair` and `RemoveLastLine` are what the messages ask
of the operator. Of an exposed half `PagePromise` claims nothing, and section 6 says why; it
claims everything of the other half, and of a glued one whose page stays.

### BrowserStore and BrowserPair

`BrowserStore` has for each direction the header (`hd`, which a write in place
may leave `Torn`), the journal (`jn`, `newline`), the maximum of the witness log
(`wlog`), and the verb that holds the pad's lock (`call`). Its actions are the
checks of each verb up to the first write, and one action per write with all the
ways it may end. Nobody repairs a journal here, and a closed tab gives its lock
back, so there is neither a stale lock nor an operator.

`BrowserPair` has every file of a pad in one function `fs`. A verb is a list of
writes, appends and removals (`GenWrites`, `ImportWrites`, `UseWrites`,
`DestroyWrites`), in the code's order, that `Step` works off and `Cut` breaks off
anywhere. Its gates are `Active`, `WitnessAgrees`, `CommittedPairExists` and
`IsDestroyed`. `Bundles` are the containers of the pad that exist elsewhere.
`gen` draws its own id, so `Gen` happens on an empty directory.

### SealedTransfer

`SealedSend` keeps `confirmed`, `claim`, `handoff`, `payload` and `confirmBytes`,
which are files, and the call each tab is in; `SealedReceive` keeps `request`,
`cancelled` and `consumed`, which are files, and the session, lease and lock of
each request. A write ends in one of three ways, `Outcomes`: landed, torn, or
nothing. `SealedTransfer` lets each tab run one call at a time, except that
leaving the page (`Abandon`) waits for none; packages come in any order and as
often as one likes, those this installation made for itself included.

`commitReceive` reads the clock before it waits for the pad lock, which is why
`Consume` looks at the state as not yet late. `bestEffortDropKey`,
`dismissSealedPayload`, `cleanPreCommitStaging`, `deriveReceiveCompletion` and
`sessionForRequest` are called by no verb and are not modelled.

### Copies

| Variable | Code |
|---|---|
| `holding[d]` | the copy of installation `d`: the origin in its `pair.json` and the counters of both halves; or absent; or destroyed |
| `stored[d]` | the role in its `localStorage` |
| `files` | the pad files that were saved, by the counters inside |
| `wire` | every envelope ever emitted; nothing is taken off it |
| `recSent`, `padSent`, `released[h]` | history: envelopes made with a record or a byte, and what was opened, in order |

`Send` and `OpenOn` use the half `ResolveRole` gives, and do nothing where it gives
none. `Openable` is the window, offset and capacity of open. `Retire` takes
either half, because the engine does. `Generate` and `AddPadFile` may leave the
origin unknown (a gen cut off before `pair.json`, a copy older than the field) and
may leave the role unstored (`writeRole` ignores a refusal). A tag is taken to
hold for what was sent and for nothing else.

There are two installations: the file goes to one recipient. A second recipient
would be a second "B" and send from the same half; the code knows it
(`src/browser/engine/protocol.ts:89-93`) and warns before a second save. A whole
profile lost with its tombstones, and put back or imported again, is
`BrowserStore`'s `PutBack` and not repeated here.

### Screens

| Variable | Code |
|---|---|
| `hash`, `events` | `location.hash` by route, and hashchange events not delivered yet |
| `pending` | `pendingSession` |
| `displayed`, `loading` | what is mounted in the main element, and whether a screen still waits for the engine before it mounts |
| `leaving`, `settled` | confirmation screens with a leave handler, and those that have nothing to do |
| `live`, `unopened` | the worker's sessions |
| `calls`, `replies` | messages between page and worker, in any order |
| `refusedFree`, `skipped` | history: the two exceptions below |

`NobodyForgetsASession` names for every live session what will still end it: a
call or a reply under way, a leave handler, its buttons on the page. It
excludes two cases that the code allows (section 6): `refusedFree`, `skipped`.

### FieldHash, Material, Wire

Pure operators. A field element is a set of exponents; the operators of
`FieldHash` take the field as a parameter, so the multiplication is compared with
the definition of a product in a field of degree 6 with the code's shape, and of
the code's constants (degree 128) TLC checks `BackUndoes` alone; the product in
that field is proved (section 4). Sizes of
fields are small: a key has 2 bytes, a length prefix 4 bits, a varint 3 groups.
What each algorithm is for is an operator of its own (`HardToForge`,
`DividedOnce`, `OneGoodSourceIsEnough`, `SpelledOneWay`, ...), stated without
looking at how it is computed.

## 3. Runs

| Run | Bounds | Shows |
|---|---|---|
| `pad_crash` | one direction, 1 byte, 3 records, lengths 0 and 1, a lookahead of 2, attempt limit 1, freeze threshold 2, 2 crashes, torn lines, one stale header | the store implements `OneTimePad`; a crash never makes a header older than its journal; the freeze and the limit hold |
| `pad_pair` | two directions of one byte and one record each, lengths 0 and 1, witness, every restore once, 1 crash, fair | the witness covers whatever left; no restore leads to reuse; the lock is always freed |
| `pad_unterminated` | one record, 2 crashes, unterminated lines | a counterexample, section 6 |
| `pad_alias` | witness, 2 backups and restores | a counterexample, section 6 |
| `witness_shared` | 2 pairs, 3 commits each, 2 crashes, 2 restores of a store | no advance is lost, nothing shown twice, a stale lock costs a pair one record at most |
| `witness_fair` | 2 pairs, 1 commit each, 2 crashes, the file replaced or lost twice, 1 live lock removed by mistake, fair | no process publishes less than it read; a robbed process unlocks another only if the lock was removed between the two calls of its release, and one mistake never costs more than one process its lock; every verb ends though nobody removes the stale lock |
| `pair_lifecycle` | 2 runs of gen, 3 of destroy, 1 verb, 2 crashes, 2 unlinks or removals that fail, fair | no verb on a partial or zeroed pair; a finished destroy leaves nothing but in a half it noted it could not remove; destroy converges |
| `sealed_transfer` | 2 tabs, 3 pads, 2 requests, 2 encapsulations, any number of torn writes and closed tabs, from three starting states | one package per pad and per request, one ending per request, fresh material only, no deadlock; implements `OneHandoff`. Beside it the page: 2 sessions, 1 hash change under way; none is forgotten |
| `abandon_in_commit` | the same | a counterexample, section 6 |
| `components` | see below | the properties of the browser's store and pad, the copies of a pad, the platform witness, the ceremony, the v1 pad and the algorithms |
| `destroy_leaves_staging` | one verb cut off | a counterexample, section 6 |
| `platform_prepared` | one crash, two files put back | a counterexample, section 6 |

`components` explores parts that share nothing, one at a time: `part` is chosen
in the first state and the others keep theirs, so the state space is the sum and
not the product. Its bounds:

- store: 1 direction, 2 records, 2 bytes, limits of 2, one write cut off, one
  profile put back;
- pair: counters 0 and 1, three containers of which one is defective, two verbs
  cut off, which is one import cut off and its retry too;
- platform: 2 pairs, 2 paths, position 0 and 1, and of crash, restore, file put
  back, pin moved and init, each once and two together, one copy of a file kept;
- ceremony: 2 media, and of crash (once), sidecar, store or state file replaced
  and pin moved (twice), two together;
- page: 2 halves of 2 symbols, 3 lines, one cut and one old `pad.json`;
- copies: 2 installations, 2 records and 2 bytes a half, 1 pad file, 1 retirement
  of any half; messages of one byte, so that what a window skips and what is
  opened late both occur;
- algorithms: one state per question, from bounded inputs that hold every
  boundary: the first refused byte, a short and a full last block, a number at
  127 and 128, every text that differs from an accepted one in one place.

In `pad_crash` a lookahead of two records in a store of three is the least that
has a record just inside the window and one just outside it; the one byte and the
records of length zero are the least that run out of bytes before records. Of the
browser's store, two records and two bytes hold a skipped record and a record that
no longer fits. Two crashes are the least that can hit a repair. Two pairs
are the least that can lose one another's advance, and three positions let a pair
be two ahead of a copy; the second crash may hit the process that meets the first
one's lock. Three destroys with two crashes are the least of which one must get
through; two failures are the least that keep both an unlink and the removal after
it from taking a file away, or spoil both halves. Two tabs, two requests and two pads to send are the least that can cross
a claim, and the three starting states of `sealed_transfer` are states an
installation reaches: a pad with two requests to serve, two pads with one
request, a pad to receive and two requests to pass it on to. A pad is finite, a
process ends, and the bounds are spent in the end, so every run has
`CHECK_DEADLOCK FALSE`; where waiting for ever would be wrong there is a property
(`LockEventuallyFree`, `VerbEnds`, `DestroyConverges`, `SomeCallProceeds`).

Fairness, always weak, where it is assumed at all:

- `pad_pair`: a verb's own steps, because a verb is straight-line synchronous
  code, and the removal of a stale lock, because the refusal tells the operator
  to do it.
- `witness_fair`: a verb's own steps only. Its waits are bounded in the code,
  and nobody is assumed to remove the witness's lock.
- `pair_lifecycle`: the steps of a running process, the removal of a stale lock,
  and, once there is a tombstone, another run of destroy, which is what its
  report asks for.

No verb, no crash, no restore and no mistake is ever assumed to happen.

## 4. Proofs

`PadStoreProofs` proves, for every size, threshold, number of crashes, backups
and restores:

- `TypeCorrect`: `Spec => []TypeOK`.
- `MaterialIsUsedOnce`: `Spec => []MaterialUsedOnce`, assuming `Remembers`.
- `ImplementsOneTimePad`: `Spec => RefinesOneTimePad`, assuming `Remembers`.
- `WitnessAlwaysCovers`: `Spec => []WitnessCovers`.
- `CrashesNeverRegress`: `Spec => []CrashNeverRegresses`.
- `VerificationsAreBounded`: `Spec => []VerificationsBounded`,
  `AttemptsAreCounted` (no journal counts fewer attempts than verifications
  began) and `TheBrakeHolds`: `Spec => []FreezeBounds`, assuming `LinesAreKept`.

`Remembers` names the three situations in which something the operator cannot
restore remembers what was used: there is a witness; or nothing is restored and
the header remembers; or only headers are restored and the journal remembers
(which it does only if no crash leaves a line without its newline). Without it
the property is false, and `FORMAT-V2.md` §9.4 says so. `LinesAreKept` is what
the attempt limit and the freeze rest on: the journal is not restored and no
crash leaves a line without its newline. The runs `pad_alias` and
`pad_unterminated` (section 6) show what happens without each half of it.

The inductive invariant `UseInv` says that every use lies below what is
remembered (`UsedIsRemembered`), and, of the verb in progress (`OpInv`): it
works above everything used (`OpIsAboveUsed`), what it will write never lowers
the header (`NextNeverBehind`) and covers what it is about to use
(`CommitCoversUse`), and each of the commit's writes is there in its turn
(`HeadIsCommitted`, `LineIsCommitted`, `OutputIsRemembered`).
`MaterialUsedOnce` alone is not inductive: it says nothing of a verb between
its commit and its output. `AttemptInv` plays the same part for the witness's
attempt total, `OrderInv` for the order of header and journal
(`FirstTheHeader`: the position a line will carry is in the header already),
`TriesInv` for the reservations (`BegunIsReserved`; a verb runs only over
journals whose last line is whole, `RunsOnCleanTails`), and `FreezeInv` for the
freeze: every refusal shown, and the one that is under way (`Due`), is counted by
the journal's failures and whatever header, the kept ones included, is beside it.
All of them were checked by TLC before they were proved.

`WitnessProofs` proves of the witness file, for any set of pairs and any bounds:

- `SharedTypeCorrect`: `Spec => []TypeOK`.
- `OthersAlwaysLocked`: `Spec => []OthersStayLocked`. The rule that a release
  unlinks only its own body is two calls, so the invariant is about the gap between
  them (`GapInv`): whoever has found its body still has its lock, or was robbed of
  it, or the operator removed a lock in that gap; and each mistake leaves at most
  one process without a lock (`FewUnlocked`).
- `StaleLockCostsOne`: `Spec => []OneLossPerStaleLock`. The invariant is
  `StaleInv`: the lock's maker is inside, or died and has come no further than
  the probe (`LockHasMaker`); and whoever has lost a record behind the lock
  lying there is not past its own probe (`LosersAreStopped`), so cannot commit
  again.
- `KnowledgeIsKept`: `Spec => KnowledgeKept`, because what was read under the
  lock covers the snapshot (`ReadCoversSnapshot`), whoever replaces the file.
- `NoLostUpdate`: `Spec => EntriesNeverFall`, and
  `SharedMaterialUsedOnce`: `Spec => []NothingShownTwice` and
  `[]ShownIsWitnessed`, both assuming `Undisturbed`.

`Undisturbed` says that the file is not replaced, that no live lock is removed
and that init runs at most once: with any of the three, an entry can fall (the
second run of init is a finding, section 6; the other two are the operator's
doing). `FileInv` carries the argument: one process at a time is between its
read and its write, and what it read is what is still in the file. `ShownInv`
adds that what is about to be shown is in the witness (`WriteIsThere`) and
above everything shown before (`OutputIsFresh`).

`PairLifecycleProofs` proves, for any number of gens, destroys, verbs, crashes
and failed removals:

- `LifecycleTypeCorrect`: `Spec => []TypeOK`.
- `OnlyWholePairsAreUsed`: `Spec => []UsedPairIsWhole`, and
  `TombstoneBeforeLoss`: `Spec => []IntentComesFirst`, from `FilesInv`: as long
  as there is no tombstone a header has its body beneath it
  (`HeadHasItsBody`), the second half has the first beside it
  (`SecondAfterFirst`), and a run of gen finds what it wrote
  (`GenFindsItsFiles`), because a half that has a header is never written again.
- `TombstoneIsKept`: `Spec => TombstoneStands`.
- `DestroyedStaysGone`: `Spec => []DestroyedIsGone`, from `GoneInv`: the gen
  that made the named pair has ended (`NamedIsOver`), a run of destroy that is at
  the second half has removed the first or noted that it did not
  (`FirstIsRemoved`), and no folder means no files (`NoFolderNoFiles`), which is all
  that the finished-already answer rests on.

Under both lies `PlacesInv`: whoever is past its lock holds it, and destroy is
past the tombstone only when there is one. The three invariants were run through
TLC with the bounds of `pair_lifecycle` before they were proved. The assumptions
are that the processes are distinct and that the value for "no file" is none of
the values a file can have.

`WitnessProofs` proves of the platform witness, for any pairs, paths, levels and bounds:

- `PlatformUsesOnce`: `PlatformSpec => []PlatformUsedOnce`, and
  `AttestedFilesKnow`: `PlatformSpec => []AttestedKnowsAll`, both assuming
  `CopiesAreSettled`.
- `CrashesAreNoRollback`: `PlatformSpec => []CrashIsNoRollback`, with no such
  assumption.

`KnowledgeInv` is the argument of a counter that only climbs: whoever is past its
lock holds it on the pinned file (`LocksHeld`); only the pinned file may be ahead
of the counter, by one (`NoneAhead`); an anchor has one content
(`AnchorsAreUnique`), which is where `CopiesAreSettled` is needed and what
`platform_prepared` breaks without it; what a verb works on is the newest there
is (`WorksOnNewest`); a file the counter does not refute knows every output and
every rung (`LiveFilesKnow`); and what is prepared or committed is new
(`PreparedSays`, `CommitsFresh`). For `CrashIsNoRollback` the invariant is
`UndisturbedInv`: one file, one process on it at a time, one step ahead at most, as
long as nothing was put back and init did not run. The assumptions on the
constants are that the two homes and the first path are what they are declared to
be, that "no file" is neither a pair, a state file nor a pin, and that the sizes,
levels and budgets are numbers (`PlatformSizes`).

`BrowserStoreProofs` proves, for any sizes and limits and any number of writes
cut off and profiles put back:

- `ShapeIsKept`: `StoreSpec => []StoreTypeOK`.
- `WitnessCoversReleases`: `StoreSpec => []ReleasedIsInWitness`.
- `BrowserKeepsThePromise`: `StoreSpec => BrowserPromise`, the refinement of
  `OneTimePad`.
- `BrowserTriesAreBounded`: `StoreSpec => []TriesBounded`.
- `BrowserLoadsUnlessCut`: `StoreSpec => []LoadsUnlessCut`.

`ShapeInv` has the record of each verb in full and that a verb runs only over
headers that loaded. `WitnessInv` says that a verb works above what was released
(`WorksAbove`) and that the witness was told before it releases or verifies
(`MarkCovers`); it does not matter what the store was put back to, because the
log is not put back with it. `ReserveInv` says the same of a
verification and its reservation, or that the journal is one no verb will load.
`LoadInv` says that headers lead their journals and that only a cut leaves a file
torn. The assumption `TornIsNoFile` keeps a torn file apart from a whole one.

And about the files of one browser pad, for any containers of it, any counters
and any number of verbs cut off:

- `PairTypesAreKept`: `PairSpec => []PairTypeOK`.
- `ActivePadsAreWhole`: `PairSpec => []ActiveIsWhole`.
- `ImportsRecover`: `PairSpec => []ImportRecovers`.
- `DestroyIsForGood`: `PairSpec => DestroyedForGood`.

`PairInv` has three parts. `PairShape` says that a file holds what is written to
it, or a part. `Claims` is about the files alone, and holds whatever was cut off:
what was not committed is no pad (`GhostsStepAside`); a pad that was exported,
committed or used stays in the way of the next import until it is destroyed
(`StandsForGood`); a header that can be read is not behind what was put out
(`AheadOfShown`) nor behind a witness that is bound (`WitnessIsBehind`);
provenance is what it was (`OriginIsTrue`); bodies are zeroed under the tombstone
only (`ZeroedIsDestroyed`). None of this is inductive without the third part,
`VerbInv`: where the verb under way is in its list of writes and what it has
already done, item by item (`GenAt`, `ImportAt`, `UseAt`, `Marking`, `Tearing`),
or that what is left of it touches no file that decides anything (`Settled`).
The lists themselves are worked out once (`GenList`, `ImportList`, `DestroyList`,
`UseListIs`). The assumptions are `PairSizes`, that the counters and the bound on
cuts are numbers, and `FilesAreNotNone`, that "no file" and "torn" differ and are
nothing a file can hold. The invariant was checked by TLC, with counters up to 2
and two cuts, before it was proved.

`SealedTransferProofs` proves, for any tabs, pads, requests and packages, any
number of torn writes and closed tabs, and from every state `InitAfter` names (so
from those `sealed_transfer` starts in and from an empty installation):

- `TransferInvariant`, the types among it.
- `OnePackageLeaves`: `[]OnePackage`, `OnlyFreshMaterialLeaves`:
  `[]FreshMaterialOnly`, `RequestsEndOnce`: `[]OneEnding`.
- `TransferKeepsThePromise`: `OnePromise`, the refinement of `OneHandoff`.
- `NoCircularWait`: `[]SomeCallProceeds`, and `TransferTypesAreKept`: `[]TypeOK`.

`TransferInv` says of a tab: what it works on it holds the lock of (`HoldsLock`);
the pad it seals has not been used, destroyed or handed off since the gate, and
its request is bound to it (`SendsUnspent`); an import is announced before it is
committed (`ImportsAnnounced`); a call keeps a package with its request
(`Matches`). Of the files: a record of a handed-off pad names one package, whose
request is bound to that pad and no other (`PadsInv`), and what left is what the
record names (`ReleasedInv`). The proof has one lemma for each action, and one
for what no step of a tab does to the others. The assumption is `NamesDiffer`: the
values for "nothing" and for a torn file differ, and are neither pads nor records,
"nothing" is no tab, and no request is named like another route or "nothing".

`CommandLineProofs` proves about the ceremony, for any number of crashes,
sidecars or stores replaced and pins moved:

- `CeremonyTypesAreKept`: `CeremonySpec => []CeremonyTypeOK`.
- `LabelIsEarned`: `CeremonySpec => []EligibleIsEarned`.
- `GoodCopyIsKept`: `CeremonySpec => []AGoodCopyStays`.

`CeremonyInv`: nothing is anywhere before a pair is made (`MadeFirst`); a rung of
the ceremony, settled or prepared, belongs to a pair the ceremony made, and over a
settled terminal rung nothing is prepared (`RungsAreEarned`); who reports a
withdrawal over a settled record, or is about to, has the terminal rung settled
(`WithdrawalIsAttested`); the witness is behind no medium (`MarkCoversMedia`); and
the workspace stays until both copies were compared on two media
(`KeptUntilCompared`). The assumptions are that there are two media (`TwoMedia`)
and that "nothing" is none of the values the files hold (`NoneIsNothing`).

And about the v1 pad, for every size and any number of calls cut off and old
files put back:

- `PageTypesAreKept`: `PageSpec => []PageTypeOK`.
- `PagesKeepThePromise`: `PageSpec => PagePromise`, the refinement of
  `OneTimePad` with its one exception, outputs of an exposed half. With `BrowserKeepsThePromise` these are the two halves of
  `EveryStoreIsAPad`.

`PageInv`: nothing comes out of a pair that is not whole (`OnlyWholePairs`); what
came out of a half that is not exposed is below the marks, or below its page while
a line is spoiled (`MarksCover`); a verb works above what came out
(`WorksAboveOutputs`). The assumptions are the
two halves (`TwoSides`) and that offsets are numbers (`PagesAreNumbers`).

`BrowserStoreProofs` also proves about the copies of a pad, for every size of pad and
any number of files, messages, losses of the stored role and retirements:

- `CopiesTypeCorrect`: `CopiesSpec => []CopiesTypeOK`.
- `ReadsAreAsWritten`: `CopiesSpec => []ReadAsWritten`.
- `CopiesAreOnePad`: `CopiesSpec => CopiesPromise`, the refinement of
  `OneTimePad` by both copies together.

The invariant `CopiesInv` is the argument of `role.ts`: whatever a profile
forgets, the maker's copy never counts as imported and the recipient's never as
made there, and no role stored says otherwise (`RolesInv`); so each half has one
`Owner` that sends it and one `Reader` that opens it, and all that was sent lies
below the owner's counters (`SentInv`), all that was opened below the reader's,
climbing (`ReadInv`). `RolesInv` needs that no file exists before the maker's copy,
and that a destroyed copy is not added again. The assumption is
`TwoInstallations`.

`SealedTransferProofs` also proves about the screens, for any number of sessions and of hash changes not yet
delivered:

- `ScreenTypesAreKept`: `ScreensSpec => []ScreensTypeOK`.
- `SessionsStayInSight`: `ScreensSpec => []NobodyForgetsASession`.

`ScreensInv` adds where a session has not been (`UnopenedIsNowhere`), that its
open is answered once and before any screen of it (`OpenedOnce`), that a reply
stays true while it travels (`RepliesAreTrue`), that a screen with nothing left to
do has a session somebody ends or whose refusal was free (`SettledIsDone`), and
that what is displayed has its leave handler (`ShownIsGuarded`); the property then
holds without counting what is displayed (`LiveIsGuarded`). One lemma, about
`Navigate` and what it must be given, serves every route to a screen. The
assumption is that a session is not one of the names of the other screens.

`ComponentsProofs` proves that the parts of `components` keep their
specifications side by side (`PartsKeepTheirSpecifications`), so that what is
proved of each holds of the run's specification; of the run's own properties,
`ComponentsTypeOK` and `EveryStoreIsAPad` are stated there.

`AlgorithmProofs` proves of the algorithms, for every input where `components`
asks them of small ones:

- the cipher is decrypted with its key and hides every symbol equally
  (`EveryCipherHides`), sampled symbols are uniform for every range
  (`EverySymbolIsUniform`), the meters are exact (`EveryMeterIsTrue`), one good
  source is enough among any number of sources of any lengths
  (`EveryGoodSourceIsEnough`), material of every size is divided once
  (`AllMaterialIsDividedOnce`), and a frame gives back its message
  (`EveryFrameCarries`);
- every form has one spelling: whatever text or byte string is accepted at all is
  the one that is written for what is read, and what is written is read back (a
  number by the lemma `NumberIsRead`). This is stated of the receive request, the sealed package, the numbers of the
  compact envelope, the compact envelope and the JSON line
  (`EveryRequestIsSpelledOneWay`, `EveryPackageIsSpelledOneWay`,
  `EveryNumberIsSpelledOneWay`, `EveryCompactEnvelopeIsSpelledOneWay`,
  `EveryLineIsSpelledOneWay`). The run asks it of the texts that differ from an
  accepted one in one place, the theorems of all;
- two messages never have one canonical form (`EveryFormIsOneMessage`);
- `gfMul` multiplies in the field, for every degree and all taps
  (`EveryProductIsTheFields`), so in the field of the code, whose 128 bits TLC
  cannot enumerate (`CodeMultipliesInItsField`); and the constant by which `dot`
  divides is the inverse of x^128 there (`CodeDividesByItsPower`).

Induction there goes over sets: the inputs for which a statement holds are a set
of numbers that has 0 and, with every number, the next, and therefore has all
(`NatBySets`, from the well-foundedness of `<`). That a function defined by
recursion exists and satisfies its equation is proved in the same way before
anything is proved of it (`CombinedIs`, `ReducedIs`, `RunningSteps`). For the
product, `Reduced` is shown to respect sums (`ReducedAdds`) and to turn one more
power of x into `TimesX` (`ReducedGoesUp`), and one more bit of the second factor
to add one shifted copy of the first (`UnreducedStep`); the invariant of the loop
is `AfterBits`. For the envelope, `StandsAt` says which bytes stand where, and
both directions of the spelling come down to it. The assumptions are that `None`
is no number, no bit string, no byte string and nothing that is read from a
varint. The widths are those of the model, as in the run: a length prefix of four
bits, at most three groups in a number, two bytes for a length in a request or a
package, three bits for a number in the canonical form.

With TLC alone stay:

- liveness under fairness: `LockEventuallyFree`, `VerbEnds`, `DestroyConverges`;
- `OnlyLocksStop` in `TransferSound`, which is about ENABLED (its other conjuncts
  are `TransferTypesAreKept` and `ScreenTypesAreKept`);
- of `AlgorithmsAgree`, `HardToForge`, which counts keys in the small field: for
  all fields it would need that a polynomial has no more roots than its degree,
  and that the polynomial of the field is irreducible.

## 5. Plan

Done: the command line store with its two witnesses, gen and destroy, the
ceremony, the v1 tool, the browser's store and pads, the two copies of a pad with
the wire between them, Sealed Pad Transfer with its abstract specification and its
confirmation screen, and the pure algorithms. Left:

1. More than one recipient, and a forged envelope, in `Copies`; the other screens
   that hold state across an engine call.
2. The manifest and the argument checks of gen; external text as source material.

## 6. Where the code and its documents part

Found by a run:

- `pad_unterminated`: `readJournal` accepts a last line that has no newline and
  `appendLineDurably` appends after it without one, so the two fuse; removing
  "only that last line" drops an attempt whose verification began
  (`docs/FORMAT-V2.md` §12.1 says the journal can never under-count).
- `pad_alias`: the witness keeps the total of attempts per direction, so a copy
  that spent as many on another record passes the preflight (`docs/FORMAT-V2.md`
  §15.4 says a contested record's guesses cannot be refilled by a restore). It
  takes a crash between the reservation and the witness.
- `abandon_in_commit`: leaving the page sends an abandon that takes no request
  lock; a save under way goes on without its session, consumes the request over
  an identity that was wiped and imports the pad
  (`src/browser/engine/spt-verbs.ts:594-596` says the request stays pending).
- `destroy_leaves_staging`: destroy in the browser does not look under
  `importing/`, and its tombstone keeps every later import from cleaning it, so a
  staged secret body outlives a destroy that reported success
  (`docs/FORMAT-V2.md` N21 and §17).
- `platform_prepared`: a state file copied while a commit stands prepared has the
  anchor that another commit then settles; put back, it is taken for the settled
  file, and a withdrawn pair reads as it did before
  (`src/cli/v2/platform-witness.ts:28` says an older file is visible).

Met while modelling, and not given a run:

- `initWitness` looks for the file and later renames the empty one into place
  without the witness's lock; what is there by then is gone, though its comment
  (`src/cli/v2/witness.ts:659-661`) says it refuses to overwrite a witness that
  holds state. `SharedWitness` has the two steps (`CheckAbsent`, `WriteFresh`);
  the runs let init run once.
- `gen` looks for the tombstone before it reads its sources and takes the lock,
  and not again; a destroy in between is followed by a fresh pair under the
  tombstone, which the comment at `src/cli/v2/truepad2.ts:859-861` rules out. No
  verb will use that pair (`UsedPairIsWhole` has it), so what is lost is source
  material.
- v1: a crash may leave a mark complete but for its newline; the next mark is
  appended to that line, which then does not parse, and the message says to
  remove it. With it goes the mark of an output already made, and until the next
  mark is written an old `pad.json` is accepted again and its symbols go out a
  second time (`src/cli/store.ts:16-20` says it is refused). TLC finds it at once
  when `PagePromise` is asked without its exception (`ExposedOut`).
- `release` says that it unlinks only a lock the process still owns
  (`src/cli/v2/witness.ts:417-420`), but reads the body in one call and unlinks in
  the next (423-424). A lock removed by mistake in between, and taken by a third
  process, is unlinked all the same. `OthersStayLocked` names this case (`late`).
- destroy prints `destroyed: true` (`src/cli/v2/truepad2.ts:2203`) whether or not
  an unlink failed, and over its own note that a half could not be removed, which
  says that "its files were unlinked first" (2186) even if they were not.
  `DestroyedIsGone` names this case (`stuck`).
- A withdraw that failed after PREPARE leaves the terminal rung in a state file
  the counter does not stand behind. The next withdraw says "already withdrawn"
  and that it is one-way (`src/cli/v2/ceremony.ts:1003-1013`), and settles nothing; the
  state file of before, put back, is then the authority again and the pair may be
  eligible. `EligibleIsEarned` names this case: such a report does not count.
- `docs/` of Sealed Pad Transfer say that `dk.bin` is overwritten or removed after
  a request has ended; the function that would (`bestEffortDropKey`) is never
  called. No property here rests on it: the markers decide first.
- The confirmation screen counts as settled after every refusal of a save but one
  (`src/browser/ui/receive-online.ts:297`), so leaving it then abandons nothing.
  Where the refusal cost nothing (`src/browser/engine/spt-verbs.ts:702`, "Refusing
  HERE is FREE") the session lives on with its lease, and no other tab can open the
  transfer until this worker ends; the comment above (261-265) says that leaving
  must release it. `Screens` has it as `refusedFree`.
- A navigation between an open's `navigate` and the hashchange event it caused
  renders by the later hash; the screen of the opened session never comes, and
  nothing abandons it (`skipped`).
- `init` on the NV index of an authority in use moves its counter, and that
  authority is refused from then on. It fails closed; `CrashIsNoRollback` says so
  by excluding it.
- After a create that failed, a medium that was already copied can still be
  accepted; the message tells the operator to destroy both. And a withdraw cut
  off between the authority and the sidecar is finished by the authority alone:
  a rerun reports success and writes no `withdrawal.json`.

## 7. Not modelled

Cryptography (whether a tag verifies is a free choice, with no probability;
`FieldHash` has the arithmetic of a tag, the encapsulation and ciphers of `src/spt/`
have none), the contents of messages, erasure, file modes and symbolic links,
wording, the views but for the router and the confirmation screen, the identifiers
of worker messages. White space around a text that is trimmed before it is parsed
(`Wire` begins after it). Forged envelopes, but for the free tag outcome of
`PadStore`: the wire of `Copies` carries what was sent. A profile backup taken in the middle of a browser gen, before
`pair.json`, and put back later, which makes a pad without a witness. The Kotlin
and Swift editions follow the same formats and order of writes and are not
modelled apart. The teaching exhibit, the command line front end and the release
scripts keep no state.
