--------------------------- MODULE PairLifecycle ---------------------------
(***************************************************************************)
(* How one pair directory comes to be and ceases to be: gen writes the two *)
(* halves file by file, destroy writes a tombstone and takes the halves    *)
(* apart, and the other verbs load what they find (src/cli/v2/truepad2.ts, *)
(* store2.ts). Each may die between any two writes; destroy is run again   *)
(* until nothing is left.                                                  *)
(*                                                                         *)
(* A run of gen stands for the pairId it drew. manifest.json and           *)
(* provenance.json, written after gen has freed the lock, are left out: no *)
(* verb's right to use the pair depends on them. What is in the files once *)
(* they are whole is PadStore's.                                           *)
(***************************************************************************)
EXTENDS Naturals, FiniteSets

CONSTANTS
  Gens,        \* runs of gen, and the pairs they make
  Destroys,    \* runs of destroy
  Verbs,       \* processes that burn, open, retire or clear-freeze
  None,        \* no such file, no such pair
  MaxCrashes,  \* bound: crashes
  MaxFailures  \* bound: unlinks and removals that fail

Procs == Gens \cup Destroys \cup Verbs
ASSUME ProcsAreDistinct ==
  /\ Gens \cap Destroys = {} /\ Gens \cap Verbs = {}
  /\ Destroys \cap Verbs = {} /\ None \notin Procs
ASSUME BoundsAreNatural == MaxCrashes \in Nat /\ MaxFailures \in Nat
ASSUME NoneIsNothing ==
  /\ None \notin {"short", "zeroed", "empty", "torn", "init"}
  /\ None \notin [by : Destroys, pair : Gens \cup {None}]
  /\ Gens \cap {"short", "zeroed"} = {}

VARIABLES
  secret,   \* secret[h]: secret.bin of half h, by the pair whose bytes it holds
  head,     \* head[h]: head.json, by its pairId
  journal,  \* journal[h]: journal.log
  folder,   \* folder[h]: the half's directory exists
  tomb,     \* destroyed.json: the run that wrote it and the pair it names
  lock,     \* the holder's mark in the lock file
  at,       \* at[p]: where process p is
  half,     \* half[p]: the half it works on
  crashes,  \* crashes so far
  failures, \* unlinks and removals that failed so far
  stuck     \* history: halves whose removal destroy noted as failed, and has
            \* not made good since

store == <<secret, head, journal, folder>>
luck  == <<crashes, failures, stuck>>
vars  == <<store, tomb, lock, at, half, luck>>

Halves == {1, 2}   \* a-to-b/ and b-to-a/, in the order the code takes them

(* A cut-off secret.bin has the wrong length; one overwritten with zeros,  *)
(* wholly or in part, has the right one.                                   *)
Secrets  == Gens \cup {None, "short", "zeroed"}
Journals == {None, "empty", "torn", "init"}

Init ==
  /\ secret = [h \in Halves |-> None] /\ head = [h \in Halves |-> None]
  /\ journal = [h \in Halves |-> None] /\ folder = [h \in Halves |-> FALSE]
  /\ tomb = None /\ lock = None
  /\ at = [p \in Procs |-> "idle"] /\ half = [p \in Procs |-> 1]
  /\ crashes = 0 /\ failures = 0 /\ stuck = {}

Goes(p, next) == at' = [at EXCEPT ![p] = next]
OnHalf(p, h)  == half' = [half EXCEPT ![p] = h]
Locked(p)     == lock = None /\ lock' = p
----------------------------------------------------------------------------
(* gen, one run for each g.                                                *)

(* requireNotDestroyed, before the sources are read and the lock is taken. *)
CheckNotDestroyed(g) ==
  /\ at[g] = "idle" /\ tomb = None
  /\ Goes(g, "checked")
  /\ UNCHANGED <<store, tomb, lock, half, luck>>

LockForGen(g) ==
  /\ at[g] = "checked" /\ Locked(g)
  /\ Goes(g, "folder")
  /\ UNCHANGED <<store, tomb, half, luck>>

(* initStore2: a half that has a header is never written again. The throw  *)
(* frees the lock.                                                         *)
MakeFolder(g) ==
  LET h == half[g] IN
  /\ at[g] = "folder"
  /\ folder' = [folder EXCEPT ![h] = TRUE]
  /\ IF head[h] = None
       THEN Goes(g, "secret") /\ UNCHANGED lock
       ELSE Goes(g, "failed") /\ lock' = None
  /\ UNCHANGED <<secret, head, journal, tomb, half, luck>>

(* secret.bin is truncated and written, then whole and fsynced.            *)
OpenSecret(g) ==
  /\ at[g] = "secret"
  /\ secret' = [secret EXCEPT ![half[g]] = "short"]
  /\ Goes(g, "fill")
  /\ UNCHANGED <<head, journal, folder, tomb, lock, half, luck>>

FillSecret(g) ==
  /\ at[g] = "fill"
  /\ secret' = [secret EXCEPT ![half[g]] = g]
  /\ Goes(g, "head")
  /\ UNCHANGED <<head, journal, folder, tomb, lock, half, luck>>

WriteHead(g) ==
  /\ at[g] = "head"
  /\ head' = [head EXCEPT ![half[g]] = g]
  /\ Goes(g, "journal")
  /\ UNCHANGED <<secret, journal, folder, tomb, lock, half, luck>>

(* The init line: the file is made and part of the line may be in it; then *)
(* the line is whole. A journal that is there already was left by destroy, *)
(* under the tombstone, where nobody reads what becomes of it.             *)
OpenJournal(g) ==
  /\ at[g] = "journal"
  /\ \E j \in {"empty", "torn"} : journal' = [journal EXCEPT ![half[g]] = j]
  /\ Goes(g, "line")
  /\ UNCHANGED <<secret, head, folder, tomb, lock, half, luck>>

WriteInitLine(g) ==
  /\ at[g] = "line"
  /\ journal' = [journal EXCEPT ![half[g]] = "init"]
  /\ IF half[g] = 1
       THEN Goes(g, "folder") /\ OnHalf(g, 2) /\ UNCHANGED lock
       ELSE Goes(g, "done") /\ lock' = None /\ UNCHANGED half
  /\ UNCHANGED <<secret, head, folder, tomb, luck>>

GenStep(g) ==
  \/ LockForGen(g) \/ MakeFolder(g) \/ OpenSecret(g) \/ FillSecret(g)
  \/ WriteHead(g) \/ OpenJournal(g) \/ WriteInitLine(g)
----------------------------------------------------------------------------
(* withPair, for every verb that uses the pair.                            *)

(* loadStore2 of one half.                                                 *)
Loads(h) ==
  /\ head[h] # None
  /\ secret[h] \notin {None, "short"}
  /\ journal[h] \in {"empty", "init"}

(* Mutant: the files alone decide.                                         *)
StartVerbOnFiles(v) ==
  /\ at[v] = "idle" /\ Locked(v)
  /\ \A h \in Halves : Loads(h)
  /\ Goes(v, "using")
  /\ UNCHANGED <<store, tomb, half, luck>>

(* The tombstone is looked for under the lock and before anything is read. *)
StartVerb(v) ==
  /\ at[v] = "idle" /\ Locked(v)
  /\ tomb = None
  /\ \A h \in Halves : Loads(h)
  /\ Goes(v, "using")
  /\ UNCHANGED <<store, tomb, half, luck>>

EndVerb(v) ==
  /\ at[v] = "using"
  /\ lock' = None /\ Goes(v, "idle")
  /\ UNCHANGED <<store, tomb, half, luck>>
----------------------------------------------------------------------------
(* destroy, one run for each x.                                            *)

AlreadyGone == tomb # None /\ \A h \in Halves : ~folder[h]

(* Mutant: a pair with a tombstone is refused as by every other verb.      *)
StartDestroyOnce(x) ==
  /\ at[x] = "idle" /\ Locked(x)
  /\ tomb = None
  /\ Goes(x, "tombstone")
  /\ UNCHANGED <<store, tomb, half, luck>>

(* The lock, the tombstone, both halves' summaries and the confirmation. A *)
(* wrong confirmation changes nothing, and so does a finished destruction, *)
(* which only reports itself. Corrupt halves and no halves are no refusal. *)
StartDestroy(x) ==
  /\ at[x] = "idle"
  /\ IF AlreadyGone
       THEN lock = None /\ UNCHANGED lock /\ Goes(x, "done")
       ELSE Locked(x) /\ Goes(x, "tombstone")
  /\ UNCHANGED <<store, tomb, half, luck>>

(* The pairId a half yields, or the tombstone, or nothing.                 *)
NamedPair ==
  IF head[1] # None THEN head[1]
  ELSE IF head[2] # None THEN head[2]
  ELSE IF tomb # None THEN tomb.pair ELSE None

(* A tombstone that is there is kept.                                      *)
WriteTombstone(x) ==
  /\ at[x] = "tombstone"
  /\ tomb' = IF tomb = None THEN [by |-> x, pair |-> NamedPair] ELSE tomb
  /\ Goes(x, "zero")
  /\ UNCHANGED <<store, lock, half, luck>>

(* A failed overwrite is reported and passed over.                         *)
ZeroSecret(x) ==
  LET h == half[x] IN
  /\ at[x] = "zero"
  /\ \/ UNCHANGED secret
     \/ secret[h] \notin {None, "short"} /\ secret' = [secret EXCEPT ![h] = "zeroed"]
  /\ IF h = 1 THEN OnHalf(x, 2) /\ UNCHANGED at
              ELSE OnHalf(x, 1) /\ Goes(x, "unlinkSecret")
  /\ UNCHANGED <<head, journal, folder, tomb, lock, luck>>

(* An unlink that fails is passed over in silence, a removal that fails is *)
(* noted and passed over.                                                  *)
Fails == failures < MaxFailures /\ failures' = failures + 1

UnlinkSecret(x) ==
  LET h == half[x] IN
  /\ at[x] = "unlinkSecret" /\ Goes(x, "unlinkHead")
  /\ \/ secret' = [secret EXCEPT ![h] = None] /\ UNCHANGED failures
     \/ secret[h] # None /\ Fails /\ UNCHANGED secret
  /\ UNCHANGED <<head, journal, folder, tomb, lock, half, crashes, stuck>>

UnlinkHead(x) ==
  LET h == half[x] IN
  /\ at[x] = "unlinkHead" /\ Goes(x, "unlinkJournal")
  /\ \/ head' = [head EXCEPT ![h] = None] /\ UNCHANGED failures
     \/ head[h] # None /\ Fails /\ UNCHANGED head
  /\ UNCHANGED <<secret, journal, folder, tomb, lock, half, crashes, stuck>>

UnlinkJournal(x) ==
  LET h == half[x] IN
  /\ at[x] = "unlinkJournal" /\ Goes(x, "remove")
  /\ \/ journal' = [journal EXCEPT ![h] = None] /\ UNCHANGED failures
     \/ journal[h] # None /\ Fails /\ UNCHANGED journal
  /\ UNCHANGED <<secret, head, folder, tomb, lock, half, crashes, stuck>>

(* rmSync of a half takes with it whatever could not be unlinked; a failed *)
(* one leaves the folder, with or without each of the files in it.         *)
Removed(h) ==
  \/ /\ secret' = [secret EXCEPT ![h] = None] /\ head' = [head EXCEPT ![h] = None]
     /\ journal' = [journal EXCEPT ![h] = None] /\ folder' = [folder EXCEPT ![h] = FALSE]
     /\ stuck' = stuck \ {h} /\ UNCHANGED failures
  \/ /\ folder[h] /\ Fails /\ stuck' = stuck \cup {h} /\ UNCHANGED folder
     /\ secret' \in {secret, [secret EXCEPT ![h] = None]}
     /\ head' \in {head, [head EXCEPT ![h] = None]}
     /\ journal' \in {journal, [journal EXCEPT ![h] = None]}

(* Mutant: the second half is forgotten.                                   *)
RemoveFirstFolder(x) ==
  /\ at[x] = "remove" /\ Removed(half[x])
  /\ Goes(x, "done") /\ lock' = None
  /\ UNCHANGED <<tomb, half, crashes>>

(* Then the other half; after it the destruction is reported, whatever was *)
(* noted on the way.                                                       *)
RemoveFolder(x) ==
  /\ at[x] = "remove" /\ Removed(half[x])
  /\ IF half[x] = 1
       THEN Goes(x, "unlinkSecret") /\ OnHalf(x, 2) /\ UNCHANGED lock
       ELSE Goes(x, "done") /\ lock' = None /\ UNCHANGED half
  /\ UNCHANGED <<tomb, crashes>>

DestroyStep(x) ==
  \/ WriteTombstone(x) \/ ZeroSecret(x)
  \/ UnlinkSecret(x) \/ UnlinkHead(x) \/ UnlinkJournal(x) \/ RemoveFolder(x)
----------------------------------------------------------------------------
(* What befalls them.                                                      *)

Running(p) == at[p] \notin {"idle", "done", "failed", "dead"}

(* A lock file the process made stays.                                     *)
Crash(p) ==
  /\ Running(p) /\ crashes < MaxCrashes
  /\ crashes' = crashes + 1
  /\ Goes(p, IF p \in Verbs THEN "idle" ELSE "dead")
  /\ OnHalf(p, 1)
  /\ UNCHANGED <<store, tomb, lock, failures, stuck>>

(* The refusal asks the operator to confirm and remove the lock file.      *)
RemoveStaleLock ==
  /\ lock # None /\ ~Running(lock)
  /\ lock' = None
  /\ UNCHANGED <<store, tomb, at, half, luck>>

(* corrupt-journal asks for the torn last line to be removed.              *)
RemoveTornLine(h) ==
  /\ lock = None /\ tomb = None /\ journal[h] = "torn"
  /\ journal' = [journal EXCEPT ![h] = "empty"]
  /\ UNCHANGED <<secret, head, folder, tomb, lock, at, half, luck>>

(* half-pair and corrupt-store ask for the directory to be removed and gen *)
(* to be run again.                                                        *)
RemoveDirectory ==
  /\ lock = None /\ tomb = None
  /\ \E h \in Halves : ~Loads(h) /\ journal[h] # "torn"
  /\ \E h \in Halves : folder[h]
  /\ secret' = [h \in Halves |-> None] /\ head' = [h \in Halves |-> None]
  /\ journal' = [h \in Halves |-> None] /\ folder' = [h \in Halves |-> FALSE]
  /\ UNCHANGED <<tomb, lock, at, half, luck>>
----------------------------------------------------------------------------
Next ==
  \/ \E g \in Gens : CheckNotDestroyed(g) \/ GenStep(g)
  \/ \E v \in Verbs : StartVerb(v) \/ EndVerb(v)
  \/ \E x \in Destroys : StartDestroy(x) \/ DestroyStep(x)
  \/ \E p \in Procs : Crash(p)
  \/ RemoveStaleLock
  \/ \E h \in Halves : RemoveTornLine(h)
  \/ RemoveDirectory

Spec == Init /\ [][Next]_vars

(* A process that runs goes on; and the operator does what the refusals    *)
(* ask of him: remove a stale lock, run an interrupted destroy again.      *)
FairSpec ==
  /\ Spec
  /\ \A g \in Gens : WF_vars(GenStep(g))
  /\ \A v \in Verbs : WF_vars(EndVerb(v))
  /\ \A x \in Destroys : WF_vars(DestroyStep(x)) /\ WF_vars(tomb # None /\ StartDestroy(x))
  /\ WF_vars(RemoveStaleLock)
----------------------------------------------------------------------------
Places == {"idle", "checked", "folder", "secret", "fill", "head", "journal",
           "line", "using", "tombstone", "zero", "unlinkSecret", "unlinkHead",
           "unlinkJournal", "remove", "done", "failed", "dead"}

TypeOK ==
  /\ secret \in [Halves -> Secrets] /\ head \in [Halves -> Gens \cup {None}]
  /\ journal \in [Halves -> Journals] /\ folder \in [Halves -> BOOLEAN]
  /\ tomb \in {None} \cup [by : Destroys, pair : Gens \cup {None}]
  /\ lock \in Procs \cup {None}
  /\ at \in [Procs -> Places] /\ half \in [Procs -> Halves]
  /\ crashes \in Nat /\ failures \in Nat /\ stuck \subseteq Halves

Whole(g) ==
  \A h \in Halves : secret[h] = g /\ head[h] = g /\ journal[h] \in {"empty", "init"}

(* A verb only ever works on two whole halves of one pair, with no         *)
(* tombstone: never on what a dead gen or an interrupted destroy left, and *)
(* never on zeros, which would send the plaintext.                         *)
UsedPairIsWhole ==
  \A v \in Verbs : at[v] = "using" => tomb = None /\ \E g \in Gens : Whole(g)

(* Nothing of a pair that gen reported is touched before the tombstone is  *)
(* durable, so a crash before it leaves the pair in use.                   *)
IntentComesFirst ==
  \A g \in Gens : at[g] = "done" => tomb # None \/ Whole(g)

(* The tombstone is the historical truth: nothing removes it and no rerun  *)
(* of destroy stamps it again.                                             *)
TombstoneStands == [][tomb # None => tomb' = tomb]_vars

(* Once a run of destroy has ended, nothing is left of the pair that the   *)
(* tombstone names, except in a half it noted that it could not remove:    *)
(* it reports `destroyed: true` over that note (truepad2.ts:2183-2203).    *)
DestroyedIsGone ==
  \A x \in Destroys :
    at[x] = "done" =>
      /\ tomb # None
      /\ \A h \in Halves \ stuck :
           tomb.pair # None => tomb.pair \notin {secret[h], head[h]}

NoGenUnderWay  == \A g \in Gens : ~Running(g)
AnotherRunLeft ==
  Cardinality({x \in Destroys : at[x] = "idle"})
    > (MaxCrashes - crashes) + (MaxFailures - failures)

(* Rerunning destroy converges wherever earlier runs were interrupted or   *)
(* failed to remove something, as long as one run does neither, and once   *)
(* no gen is past its check.                                               *)
DestroyConverges ==
  (tomb # None /\ NoGenUnderWay /\ AnotherRunLeft) ~> AlreadyGone
=============================================================================
