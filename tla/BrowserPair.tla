---------------------------- MODULE BrowserPair -----------------------------
(***************************************************************************)
(* The files of one pad in the Browser Edition from gen or import to       *)
(* destroy (src/browser/engine/verbs.ts, initStore and loadStore of        *)
(* store.ts). A verb is a list of writes, appends and removals that runs   *)
(* under the pad's lock; a tab closed or a write failed in the middle      *)
(* leaves the files as they are and the lock free. What burn and open do   *)
(* inside is BrowserStore's; here a use raises one half's counter, which   *)
(* stands for all the counters of a half.                                  *)
(***************************************************************************)
EXTENDS Naturals, Sequences, FileStates

CONSTANTS
  Bundles,    \* the containers of this pad that exist elsewhere: for each half a counter
  Defective,  \* those of them that validation refuses
  TopCounter, \* bound on the counters
  MaxCuts     \* bound on the verbs that are cut off

Halves == {"a-to-b", "b-to-a"}
Names  == <<"secret.bin", "head.json", "journal.log">>
PathOf(root, h, name) == <<root, h, name>>
Meta == <<"pair.json">>  Marker == <<"importing.json">>  Tombstone == <<"destroyed.json">>
WitnessOf(h) == <<"witness", h>>
Roots == {"pad", "importing"}
StoreFiles == {PathOf(root, h, Names[i]) : root \in Roots, h \in Halves, i \in 1 .. 3}
Files == StoreFiles \cup {Meta, Marker, Tombstone} \cup {WitnessOf(h) : h \in Halves}

(* What pair.json says: the witness bound to the pad and its provenance.   *)
Kinds == {"browser-none", "browser-local-witness"}
Metas == [witness : Kinds, origin : {"generated-here", "imported"}]

ASSUME PairSizes ==
  TopCounter \in Nat /\ MaxCuts \in Nat /\ Bundles \subseteq [Halves -> 0 .. TopCounter]
ASSUME FilesAreNotNone ==
  /\ None # Torn
  /\ \A v \in {None, Torn} :
       /\ v \notin 0 .. TopCounter /\ v \notin 0 .. MaxCuts
       /\ v \notin {"whole", "zeros", "importing"} /\ v \notin Metas

VARIABLES
  fs,        \* fs[f]: what file f holds
  todo,      \* what the verb that holds the lock has still to do
  born,      \* "nowhere", "here" once gen ran, "elsewhere" once an import did
  shown,     \* shown[h]: the highest counter an output was released at
  taken,     \* containers exported here
  committed, \* an import reached its end: importing.json was removed
  reported,  \* destroy said that it is done
  cuts

pairVars == <<fs, todo, born, shown, taken, committed, reported, cuts>>

PairInit ==
  /\ fs = [f \in Files |-> None] /\ todo = <<>>
  /\ born = "nowhere" /\ shown = [h \in Halves |-> 0] /\ taken = {}
  /\ committed = FALSE /\ reported = FALSE /\ cuts = 0
----------------------------------------------------------------------------
(* The gates.                                                              *)

Counter(root, h) == fs[PathOf(root, h, "head.json")]

(* loadStore: three files, the header not behind the journal; a secret     *)
(* body of zeros has the right length.                                     *)
StoreLoads(root, h) ==
  /\ fs[PathOf(root, h, "secret.bin")] \notin {None, Torn}
  /\ Counter(root, h) \notin {None, Torn}
  /\ fs[PathOf(root, h, "journal.log")] \notin {None, Torn}
  /\ Counter(root, h) >= fs[PathOf(root, h, "journal.log")]

IsDestroyed == fs[Tombstone] # None

ActiveDespiteTombstone ==
  /\ fs[Marker] = None
  /\ \A h \in Halves : StoreLoads("pad", h)
  /\ fs[Meta] # Torn

(* loadPair and readPairMeta.                                              *)
Active ==
  /\ ~IsDestroyed /\ fs[Marker] = None
  /\ \A h \in Halves : StoreLoads("pad", h)
  /\ fs[Meta] # Torn

(* A pad without pair.json was never provisioned: no witness, no origin.   *)
Origin == IF fs[Meta] = None THEN "unknown" ELSE fs[Meta].origin
Witnessed == fs[Meta] # None /\ fs[Meta].witness = "browser-local-witness"

(* No record of a direction is not a fresh witness: it fails closed.       *)
WitnessAgrees(h) ==
  Witnessed => /\ fs[WitnessOf(h)] # None
               /\ Counter("pad", h) >= fs[WitnessOf(h)]

CommittedPairExists ==
  fs[Marker] = None /\ \E h \in Halves : Counter("pad", h) # None
----------------------------------------------------------------------------
(* What a verb is made of.                                                 *)

Write(f, v)  == [do |-> "write", file |-> f, val |-> v]
AppendTo(f, v) == [do |-> "append", file |-> f, val |-> v]
RemoveFiles(fset) == [do |-> "remove", files |-> fset]
Zero(f)      == [do |-> "zero", file |-> f]
Commit       == [do |-> "commit"]
Report       == [do |-> "report"]

(* initStore: secret.bin, then head.json, then the journal.                *)
StoreWrites(root, h, n) ==
  << Write(PathOf(root, h, "secret.bin"), "whole"), Write(PathOf(root, h, "head.json"), n),
     Write(PathOf(root, h, "journal.log"), n) >>

Bootstrap(kind, counters) ==
  IF kind = "browser-none" THEN <<>>
  ELSE << AppendTo(WitnessOf("a-to-b"), counters["a-to-b"]),
          AppendTo(WitnessOf("b-to-a"), counters["b-to-a"]) >>

MetaUnknown(kind, origin) == [witness |-> kind, origin |-> "unknown"]
MetaOf(kind, origin) == [witness |-> kind, origin |-> origin]
Fresh0 == [h \in Halves |-> 0]

GenWrites(kind) ==
  StoreWrites("pad", "a-to-b", 0) \o StoreWrites("pad", "b-to-a", 0)
    \o Bootstrap(kind, Fresh0)
    \o << Write(Meta, MetaOf(kind, "generated-here")) >>

Under(root) == {f \in StoreFiles : f[1] = root}
RemoveStoreFiles(root) ==
  << RemoveFiles({PathOf(root, "a-to-b", "secret.bin")}), RemoveFiles({PathOf(root, "a-to-b", "head.json")}),
     RemoveFiles({PathOf(root, "a-to-b", "journal.log")}),
     RemoveFiles({PathOf(root, "b-to-a", "secret.bin")}), RemoveFiles({PathOf(root, "b-to-a", "head.json")}),
     RemoveFiles({PathOf(root, "b-to-a", "journal.log")}) >>

WitnessLog == {WitnessOf(h) : h \in Halves}

DiscardKeepingWitness ==
  RemoveStoreFiles("pad") \o << RemoveFiles({Meta}), RemoveFiles({Marker}) >>
    \o RemoveStoreFiles("importing")

DiscardIncompleteImport ==
  RemoveStoreFiles("pad") \o << RemoveFiles({Meta}), RemoveFiles({Marker}), RemoveFiles(WitnessLog) >>
    \o RemoveStoreFiles("importing")

CopyBundle(root, b) ==
  StoreWrites(root, "a-to-b", b["a-to-b"]) \o StoreWrites(root, "b-to-a", b["b-to-a"])

ImportWritesMarkerLate(b, kind) ==
  DiscardIncompleteImport \o CopyBundle("importing", b)
    \o CopyBundle("pad", b) \o << Write(Marker, "importing") >> \o Bootstrap(kind, b)
    \o << Write(Meta, MetaOf(kind, "imported")), Commit >>
    \o RemoveStoreFiles("importing")

(* Stage and validate; mark, copy, witness, pair.json; unmark, which       *)
(* commits; unstage.                                                       *)
ImportWrites(b, kind) ==
  DiscardIncompleteImport \o CopyBundle("importing", b)
    \o IF b \in Defective THEN RemoveStoreFiles("importing")
       ELSE << Write(Marker, "importing") >> \o CopyBundle("pad", b) \o Bootstrap(kind, b)
              \o << Write(Meta, MetaOf(kind, "imported")), Commit >>
              \o RemoveStoreFiles("importing")

TearDown(h) ==
  << Zero(PathOf("pad", h, "secret.bin")), RemoveFiles({PathOf("pad", h, "secret.bin")}),
     RemoveFiles({PathOf("pad", h, "head.json")}), RemoveFiles({PathOf("pad", h, "journal.log")}) >>

DestroyRestamping ==
  << Write(Tombstone, cuts) >> \o TearDown("a-to-b") \o TearDown("b-to-a")
    \o << Report >>

(* A tombstone that can be read is kept as it is; one that cannot is       *)
(* written again. Its time is the number of verbs cut off before it.       *)
DestroyWrites ==
  (IF fs[Tombstone] \in {None, Torn} THEN << Write(Tombstone, cuts) >> ELSE <<>>)
    \o TearDown("a-to-b") \o TearDown("b-to-a") \o << Report >>

UseWrites(h, n) ==
  << Write(PathOf("pad", h, "head.json"), n), Write(PathOf("pad", h, "journal.log"), n) >>
    \o (IF Witnessed THEN << AppendTo(WitnessOf(h), n) >> ELSE <<>>)
    \o << [do |-> "show", half |-> h, val |-> n] >>
----------------------------------------------------------------------------
(* The verbs.                                                              *)
Takes(steps) == todo = <<>> /\ todo' = steps

(* gen draws a pad id of its own: nothing is there, and no container of it.*)
Gen(kind) ==
  /\ born = "nowhere" /\ born' = "here" /\ Takes(GenWrites(kind))
  /\ UNCHANGED <<fs, shown, taken, committed, reported, cuts>>

ImportOver(b, kind) ==
  /\ ~IsDestroyed
  /\ born # "here" /\ born' = "elsewhere" /\ Takes(ImportWrites(b, kind))
  /\ UNCHANGED <<fs, shown, taken, committed, reported, cuts>>

(* A pad made here comes back only as what was exported here.              *)
Import(b, kind) ==
  /\ ~IsDestroyed /\ ~CommittedPairExists
  /\ IF born = "here" THEN b \in taken /\ UNCHANGED born ELSE born' = "elsewhere"
  /\ Takes(ImportWrites(b, kind))
  /\ UNCHANGED <<fs, shown, taken, committed, reported, cuts>>

Use(h) ==
  /\ Active /\ WitnessAgrees(h) /\ Counter("pad", h) < TopCounter
  /\ Takes(UseWrites(h, Counter("pad", h) + 1))
  /\ UNCHANGED <<fs, born, shown, taken, committed, reported, cuts>>

Export ==
  /\ todo = <<>> /\ Active /\ Origin # "imported"
  /\ taken' = taken \cup {[h \in Halves |-> Counter("pad", h)]}
  /\ UNCHANGED <<fs, todo, born, shown, committed, reported, cuts>>

HasFiles == \E f \in Under("pad") : fs[f] # None

(* Of a pad that is there, in whatever state; when nothing is left it only *)
(* says so.                                                                *)
Destroy ==
  /\ HasFiles \/ IsDestroyed \/ fs[Marker] # None
  /\ IF IsDestroyed /\ ~HasFiles
       THEN todo = <<>> /\ reported' = TRUE /\ UNCHANGED todo
       ELSE Takes(DestroyWrites) /\ UNCHANGED reported
  /\ UNCHANGED <<fs, born, shown, taken, committed, cuts>>
----------------------------------------------------------------------------
Becomes(f, v) == fs' = [fs EXCEPT ![f] = v]
Later(f, v) == IF fs[f] = None \/ v > fs[f] THEN v ELSE fs[f]

(* The next item of the list.                                              *)
Step ==
  LET s == Head(todo) IN
  /\ todo # <<>> /\ todo' = Tail(todo)
  /\ CASE s.do = "write"  -> Becomes(s.file, s.val)
       [] s.do = "append" -> Becomes(s.file, Later(s.file, s.val))
       [] s.do = "remove" -> fs' = [f \in Files |-> IF f \in s.files THEN None ELSE fs[f]]
       [] s.do = "zero"   -> \/ /\ fs[s.file] # None /\ Becomes(s.file, "zeros")
                             \/ UNCHANGED fs
       [] s.do = "commit" -> Becomes(Marker, None)
       [] OTHER -> UNCHANGED fs
  /\ shown' = IF s.do = "show" THEN [shown EXCEPT ![s.half] = s.val] ELSE shown
  /\ committed' = (committed \/ s.do = "commit")
  /\ reported' = (reported \/ s.do = "report")
  /\ UNCHANGED <<born, taken, cuts>>

(* The tab closes, or the item fails: a file may be half written; a record *)
(* the witness lost is dropped when it is read.                            *)
Cut ==
  /\ todo # <<>> /\ todo' = <<>>
  /\ cuts < MaxCuts /\ cuts' = cuts + 1
  /\ \/ Head(todo).do = "write" /\ Becomes(Head(todo).file, Torn)
     \/ UNCHANGED fs
  /\ UNCHANGED <<born, shown, taken, committed, reported>>

PairNext ==
  \/ \E kind \in Kinds : Gen(kind) \/ \E b \in Bundles \cup taken : Import(b, kind)
  \/ \E h \in Halves : Use(h)
  \/ Export \/ Destroy \/ Step \/ Cut
PairSpec == PairInit /\ [][PairNext]_pairVars
----------------------------------------------------------------------------
(* Every file holds something a verb wrote, or a part of it.               *)
PairTypeOK ==
  /\ \A h \in Halves, root \in Roots :
       /\ fs[PathOf(root, h, "secret.bin")] \in {None, Torn, "whole", "zeros"}
       /\ Counter(root, h) \in 0 .. TopCounter \cup {None, Torn}
       /\ fs[PathOf(root, h, "journal.log")] \in 0 .. TopCounter \cup {None, Torn}
  /\ \A h \in Halves : fs[WitnessOf(h)] \in 0 .. TopCounter \cup {None}
  /\ fs[Meta] \in Metas \cup {None, Torn}
  /\ born \in {"nowhere", "here", "elsewhere"}

(* No verb works on a pad whose secret bodies are gone or zeroed, nor on   *)
(* one whose provenance is another's, nor on one behind what it has already*)
(* put out: what is active is all of one pad.                              *)
ActiveIsWhole ==
  Active =>
    /\ \A h \in Halves : fs[PathOf("pad", h, "secret.bin")] = "whole"
    /\ Origin = "imported" <=> born = "elsewhere"
    /\ \A h \in Halves : Counter("pad", h) >= shown[h]

(* What an import that did not finish left behind never stands in the way: *)
(* until one is committed the next is accepted ("a retry is never blocked  *)
(* by a ghost"). And the witness of a pad that nobody put back agrees with *)
(* it, whatever was imported, cut off and imported again ("bootstrap starts*)
(* from a clean witness").                                                 *)
ImportRecovers ==
  todo = <<>> =>
    /\ born = "elsewhere" /\ ~committed => ~CommittedPairExists
    /\ Active => \A h \in Halves : WitnessAgrees(h)

(* The tombstone, once there, stays; once it can be read it stays as it    *)
(* is; and no output is released under it (section 17.3 of FORMAT-V2).     *)
DestroyedForGood ==
  [][fs[Tombstone] # None =>
       /\ fs'[Tombstone] # None
       /\ fs[Tombstone] # Torn => fs'[Tombstone] = fs[Tombstone]
       /\ shown' = shown]_pairVars

(* FORMAT-V2 section 17: destroy removes a pair's accessible material. When*)
(* it says it is done, no secret body of the pad is left anywhere.         *)
DestroyedLeavesNoMaterial ==
  reported => \A f \in StoreFiles : f[3] = "secret.bin" => fs[f] # "whole"
=============================================================================
