------------------------ MODULE PairLifecycleProofs ------------------------
(***************************************************************************)
(* Theorems about PairLifecycle, for any number of runs of gen, of runs of *)
(* destroy, of verbs, of crashes and of unlinks and removals that fail.    *)
(*                                                                         *)
(* First who may be where (PlacesHold): whoever is past its lock holds it, *)
(* and destroy is past the tombstone only when there is one. Then what is  *)
(* in the files while there is no tombstone (FilesHold), from which follow *)
(* UsedPairIsWhole and IntentComesFirst. Then what becomes of them after   *)
(* (GoneHolds), from which follows DestroyedIsGone.                        *)
(***************************************************************************)
EXTENDS PairLifecycle, TLAPS

LEMMA NamedPairType == ASSUME TypeOK PROVE NamedPair \in Gens \cup {None}
BY DEF TypeOK, NamedPair, Halves

(* Each variable keeps its type.                                           *)
THEOREM LifecycleTypeCorrect == Spec => []TypeOK
<1>1. Init => TypeOK
  BY BoundsAreNatural
     DEF Init, TypeOK, Halves, Secrets, Journals, Places, Procs
<1>2. ASSUME TypeOK, [Next]_vars PROVE TypeOK'
  <2> USE <1>2 DEF TypeOK, Goes, OnHalf, Locked, luck
  <2>1. ASSUME NEW g \in Gens, CheckNotDestroyed(g) PROVE TypeOK'
    BY <2>1 DEF CheckNotDestroyed, Places, store
  <2>2. ASSUME NEW g \in Gens, LockForGen(g) PROVE TypeOK'
    BY <2>2 DEF LockForGen, Places, Procs, store
  <2>3. ASSUME NEW g \in Gens, MakeFolder(g) PROVE TypeOK'
    BY <2>3 DEF MakeFolder, Places
  <2>4. ASSUME NEW g \in Gens, OpenSecret(g) PROVE TypeOK'
    BY <2>4 DEF OpenSecret, Places, Secrets
  <2>5. ASSUME NEW g \in Gens, FillSecret(g) PROVE TypeOK'
    BY <2>5 DEF FillSecret, Places, Secrets
  <2>6. ASSUME NEW g \in Gens, WriteHead(g) PROVE TypeOK'
    BY <2>6 DEF WriteHead, Places
  <2>7. ASSUME NEW g \in Gens, OpenJournal(g) PROVE TypeOK'
    BY <2>7 DEF OpenJournal, Places, Journals
  <2>8. ASSUME NEW g \in Gens, WriteInitLine(g) PROVE TypeOK'
    BY <2>8 DEF WriteInitLine, Places, Journals, Halves
  <2>9. ASSUME NEW v \in Verbs, StartVerb(v) PROVE TypeOK'
    BY <2>9 DEF StartVerb, Places, Procs, store
  <2>10. ASSUME NEW v \in Verbs, EndVerb(v) PROVE TypeOK'
    BY <2>10 DEF EndVerb, Places, store
  <2>11. ASSUME NEW x \in Destroys, StartDestroy(x) PROVE TypeOK'
    BY <2>11 DEF StartDestroy, Places, Procs, store
  <2>12. ASSUME NEW x \in Destroys, WriteTombstone(x) PROVE TypeOK'
    BY <2>12, NamedPairType DEF WriteTombstone, Places, store
  <2>13. ASSUME NEW x \in Destroys, ZeroSecret(x) PROVE TypeOK'
    BY <2>13 DEF ZeroSecret, Places, Secrets, Halves
  <2>14. ASSUME NEW x \in Destroys, UnlinkSecret(x) PROVE TypeOK'
    <3>1. failures' \in Nat
      BY <2>14 DEF UnlinkSecret, Fails
    <3>2. secret' \in [Halves -> Secrets]
      BY <2>14 DEF UnlinkSecret, Secrets
    <3> QED
      BY <2>14, <3>1, <3>2 DEF UnlinkSecret, Places
  <2>15. ASSUME NEW x \in Destroys, UnlinkHead(x) PROVE TypeOK'
    <3>1. failures' \in Nat
      BY <2>15 DEF UnlinkHead, Fails
    <3>2. head' \in [Halves -> Gens \cup {None}]
      BY <2>15 DEF UnlinkHead
    <3> QED
      BY <2>15, <3>1, <3>2 DEF UnlinkHead, Places
  <2>16. ASSUME NEW x \in Destroys, UnlinkJournal(x) PROVE TypeOK'
    <3>1. failures' \in Nat
      BY <2>16 DEF UnlinkJournal, Fails
    <3>2. journal' \in [Halves -> Journals]
      BY <2>16 DEF UnlinkJournal, Journals
    <3> QED
      BY <2>16, <3>1, <3>2 DEF UnlinkJournal, Places
  <2>17. ASSUME NEW x \in Destroys, RemoveFolder(x) PROVE TypeOK'
    <3>1. at' \in [Procs -> Places] /\ half' \in [Procs -> Halves]
      BY <2>17 DEF RemoveFolder, Places, Halves
    <3>2. lock' \in Procs \cup {None}
      BY <2>17 DEF RemoveFolder
    <3>3. /\ secret' \in [Halves -> Secrets] /\ head' \in [Halves -> Gens \cup {None}]
          /\ journal' \in [Halves -> Journals] /\ folder' \in [Halves -> BOOLEAN]
      BY <2>17 DEF RemoveFolder, Removed, Secrets, Journals
    <3>4. failures' \in Nat /\ stuck' \subseteq Halves
      BY <2>17 DEF RemoveFolder, Removed, Fails, Procs
    <3> QED
      BY <2>17, <3>1, <3>2, <3>3, <3>4 DEF RemoveFolder
  <2>18. ASSUME NEW p \in Procs, Crash(p) PROVE TypeOK'
    BY <2>18 DEF Crash, Places, Halves, store
  <2>19. CASE RemoveStaleLock
    BY <2>19 DEF RemoveStaleLock, store
  <2>20. ASSUME NEW h \in Halves, RemoveTornLine(h) PROVE TypeOK'
    BY <2>20 DEF RemoveTornLine, Journals
  <2>21. CASE RemoveDirectory
    BY <2>21 DEF RemoveDirectory, Secrets, Journals
  <2>22. CASE UNCHANGED vars
    BY <2>22 DEF vars, store
  <2> QED
    BY <2>1, <2>2, <2>3, <2>4, <2>5, <2>6, <2>7, <2>8, <2>9, <2>10, <2>11,
       <2>12, <2>13, <2>14, <2>15, <2>16, <2>17, <2>18, <2>19, <2>20, <2>21,
       <2>22 DEF Next, GenStep, DestroyStep
<1> QED
  BY <1>1, <1>2, PTL DEF Spec
----------------------------------------------------------------------------
(* Who may be where.                                                       *)
GenPlaces     == {"folder", "secret", "fill", "head", "journal", "line"}
DestroyPlaces == {"zero", "unlinkSecret", "unlinkHead", "unlinkJournal", "remove"}
Inside        == GenPlaces \cup DestroyPlaces \cup {"using", "tombstone"}

InsideIsLocked == \A p \in Procs : at[p] \in Inside => lock = p
EachInItsPlaces ==
  /\ \A g \in Gens : at[g] \notin DestroyPlaces \cup {"using", "tombstone"}
  /\ \A x \in Destroys : at[x] \notin GenPlaces \cup {"using"}
  /\ \A v \in Verbs : at[v] \in {"idle", "using"}
TombstoneIsThere == \A x \in Destroys : at[x] \in DestroyPlaces \cup {"done"} => tomb # None

PlacesInv == TypeOK /\ InsideIsLocked /\ EachInItsPlaces /\ TombstoneIsThere

LEMMA PlacesHold == Spec => []PlacesInv
<1>1. Init => InsideIsLocked /\ EachInItsPlaces /\ TombstoneIsThere
  BY DEF Init, InsideIsLocked, EachInItsPlaces, TombstoneIsThere, Inside,
     GenPlaces, DestroyPlaces, Procs
<1>2. ASSUME PlacesInv, TypeOK', [Next]_vars
      PROVE  InsideIsLocked' /\ EachInItsPlaces' /\ TombstoneIsThere'
  <2> DEFINE Q == InsideIsLocked' /\ EachInItsPlaces' /\ TombstoneIsThere'
  <2> USE <1>2, ProcsAreDistinct
      DEF PlacesInv, InsideIsLocked, EachInItsPlaces, TombstoneIsThere, Inside,
          GenPlaces, DestroyPlaces, TypeOK, Procs, Goes, Locked, store, luck
  <2>1. ASSUME NEW g \in Gens, CheckNotDestroyed(g) PROVE Q
    BY <2>1 DEF CheckNotDestroyed
  <2>2. ASSUME NEW g \in Gens, LockForGen(g) PROVE Q
    BY <2>2 DEF LockForGen
  <2>3. ASSUME NEW g \in Gens, MakeFolder(g) PROVE Q
    BY <2>3 DEF MakeFolder
  <2>4. ASSUME NEW g \in Gens, OpenSecret(g) PROVE Q
    BY <2>4 DEF OpenSecret
  <2>5. ASSUME NEW g \in Gens, FillSecret(g) PROVE Q
    BY <2>5 DEF FillSecret
  <2>6. ASSUME NEW g \in Gens, WriteHead(g) PROVE Q
    BY <2>6 DEF WriteHead
  <2>7. ASSUME NEW g \in Gens, OpenJournal(g) PROVE Q
    BY <2>7 DEF OpenJournal
  <2>8. ASSUME NEW g \in Gens, WriteInitLine(g) PROVE Q
    BY <2>8 DEF WriteInitLine
  <2>9. ASSUME NEW v \in Verbs, StartVerb(v) PROVE Q
    BY <2>9 DEF StartVerb
  <2>10. ASSUME NEW v \in Verbs, EndVerb(v) PROVE Q
    BY <2>10 DEF EndVerb
  <2>11. ASSUME NEW x \in Destroys, StartDestroy(x) PROVE Q
    BY <2>11 DEF StartDestroy, AlreadyGone
  <2>12. ASSUME NEW x \in Destroys, WriteTombstone(x) PROVE Q
    <3>1. [by |-> x, pair |-> NamedPair] # None
      BY NamedPairType, NoneIsNothing
    <3>2. tomb' # None
      BY <2>12, <3>1 DEF WriteTombstone
    <3> QED
      BY <2>12, <3>2 DEF WriteTombstone
  <2>13. ASSUME NEW x \in Destroys, ZeroSecret(x) PROVE Q
    BY <2>13 DEF ZeroSecret
  <2>14. ASSUME NEW x \in Destroys, UnlinkSecret(x) PROVE Q
    BY <2>14 DEF UnlinkSecret
  <2>15. ASSUME NEW x \in Destroys, UnlinkHead(x) PROVE Q
    BY <2>15 DEF UnlinkHead
  <2>16. ASSUME NEW x \in Destroys, UnlinkJournal(x) PROVE Q
    BY <2>16 DEF UnlinkJournal
  <2>17. ASSUME NEW x \in Destroys, RemoveFolder(x) PROVE Q
    BY <2>17 DEF RemoveFolder
  <2>18. ASSUME NEW p \in Procs, Crash(p) PROVE Q
    BY <2>18 DEF Crash
  <2>19. CASE RemoveStaleLock
    BY <2>19 DEF RemoveStaleLock, Running
  <2>20. ASSUME NEW h \in Halves, RemoveTornLine(h) PROVE Q
    BY <2>20 DEF RemoveTornLine
  <2>21. CASE RemoveDirectory
    BY <2>21 DEF RemoveDirectory
  <2>22. CASE UNCHANGED vars
    BY <2>22 DEF vars
  <2> QED
    BY <2>1, <2>2, <2>3, <2>4, <2>5, <2>6, <2>7, <2>8, <2>9, <2>10, <2>11,
       <2>12, <2>13, <2>14, <2>15, <2>16, <2>17, <2>18, <2>19, <2>20, <2>21,
       <2>22 DEF Next, GenStep, DestroyStep
<1> QED
  BY <1>1, <1>2, LifecycleTypeCorrect, PTL DEF Spec, PlacesInv
----------------------------------------------------------------------------
(* What is in the files as long as there is no tombstone.                  *)
StartsAtFirstHalf == \A g \in Gens : at[g] \in {"idle", "checked"} => half[g] = 1
NoUseAfterTombstone == \A v \in Verbs : at[v] = "using" => tomb = None

(* A header comes after its body, and the second half after the first.     *)
HeadHasItsBody   == \A h \in Halves : head[h] # None => secret[h] = head[h]
SecondAfterFirst == head[2] # None => head[1] = head[2]
(* What a run of gen has written so far is still there.                    *)
GenFindsItsFiles ==
  \A g \in Gens :
    /\ at[g] \in {"secret", "fill", "head"} => head[half[g]] = None
    /\ at[g] = "head" => secret[half[g]] = g
    /\ at[g] \in {"journal", "line"} => head[half[g]] = g
    /\ at[g] \in GenPlaces /\ half[g] = 2 => head[1] = g /\ journal[1] = "init"
DoneIsWhole == \A g \in Gens : at[g] = "done" => Whole(g)
UsedIsWhole == \A v \in Verbs : at[v] = "using" => \E g \in Gens : Whole(g)

Built == HeadHasItsBody /\ SecondAfterFirst /\ GenFindsItsFiles /\ DoneIsWhole /\ UsedIsWhole
FilesInv == StartsAtFirstHalf /\ NoUseAfterTombstone /\ (tomb = None => Built)

LEMMA OneInside ==
  ASSUME PlacesInv, NEW p \in Procs, at[p] \in Inside
  PROVE  \A q \in Procs : at[q] \in Inside => q = p
BY DEF PlacesInv, InsideIsLocked

(* A step that leaves the files alone, and neither begins a use nor moves  *)
(* a run of gen further.                                                   *)
LEMMA QuietStep ==
  ASSUME PlacesInv, FilesInv, UNCHANGED <<secret, head, journal, tomb>>,
         \A g \in Gens :
           \/ UNCHANGED <<at[g], half[g]>>
           \/ at'[g] \in {"failed", "dead"}
           \/ at'[g] = "checked" /\ half'[g] = 1
           \/ at'[g] = "folder" /\ half'[g] = 1,
         \A v \in Verbs : at'[v] = at[v] \/ at'[v] = "idle"
  PROVE  FilesInv'
BY DEF FilesInv, StartsAtFirstHalf, NoUseAfterTombstone, Built, HeadHasItsBody,
   SecondAfterFirst, GenFindsItsFiles, DoneIsWhole, UsedIsWhole, Whole, GenPlaces

LEMMA FilesHold == Spec => []FilesInv
<1>1. Init => FilesInv
  BY DEF Init, FilesInv, StartsAtFirstHalf, NoUseAfterTombstone, Built,
     HeadHasItsBody, SecondAfterFirst, GenFindsItsFiles, DoneIsWhole,
     UsedIsWhole, GenPlaces, Procs, Halves
<1>2. ASSUME PlacesInv, PlacesInv', FilesInv, [Next]_vars PROVE FilesInv'
  <2> USE <1>2
  <2> USE ProcsAreDistinct DEF Goes, Locked, OnHalf, store, luck, Procs
  <2>t. TypeOK /\ TypeOK'
    BY DEF PlacesInv
  <2>1. ASSUME NEW g \in Gens, CheckNotDestroyed(g) PROVE FilesInv'
    BY <2>t, <2>1, QuietStep DEF CheckNotDestroyed, TypeOK, FilesInv, StartsAtFirstHalf
  <2>2. ASSUME NEW g \in Gens, LockForGen(g) PROVE FilesInv'
    BY <2>t, <2>2, QuietStep DEF LockForGen, TypeOK, FilesInv, StartsAtFirstHalf
  <2>9. ASSUME NEW v \in Verbs, StartVerb(v) PROVE FilesInv'
    <3>1. head[1] = head[2] /\ head[1] \in Gens /\ \A h \in Halves : secret[h] = head[h]
      BY <2>t, <2>9 DEF StartVerb, Loads, FilesInv, Built, HeadHasItsBody,
         SecondAfterFirst, TypeOK, Halves
    <3>2. Whole(head[1])
      BY <2>9, <3>1 DEF StartVerb, Loads, Whole, Halves
    <3> QED
      BY <2>t, <2>9, <3>1, <3>2
         DEF StartVerb, TypeOK, FilesInv, StartsAtFirstHalf, NoUseAfterTombstone,
             Built, HeadHasItsBody, SecondAfterFirst, GenFindsItsFiles,
             DoneIsWhole, UsedIsWhole, Whole
  <2>10. ASSUME NEW v \in Verbs, EndVerb(v) PROVE FilesInv'
    BY <2>t, <2>10, QuietStep DEF EndVerb, TypeOK
  <2>11. ASSUME NEW x \in Destroys, StartDestroy(x) PROVE FilesInv'
    BY <2>t, <2>11, QuietStep DEF StartDestroy, TypeOK
  <2>18. ASSUME NEW p \in Procs, Crash(p) PROVE FilesInv'
    BY <2>t, <2>18, QuietStep DEF Crash, TypeOK
  <2>19. CASE RemoveStaleLock
    BY <2>19, QuietStep DEF RemoveStaleLock
  <2>22. CASE UNCHANGED vars
    BY <2>22, QuietStep DEF vars
  (* destroy: only once there is a tombstone.                              *)
  <2>12. ASSUME NEW x \in Destroys, DestroyStep(x) PROVE FilesInv'
    <3>1. tomb' # None
      BY <2>12, <2>t, NamedPairType, NoneIsNothing
         DEF DestroyStep, WriteTombstone, ZeroSecret, UnlinkSecret, UnlinkHead,
             UnlinkJournal, RemoveFolder, PlacesInv, TombstoneIsThere, DestroyPlaces
    <3>2. at[x] \in Inside
      BY <2>12 DEF DestroyStep, WriteTombstone, ZeroSecret, UnlinkSecret,
         UnlinkHead, UnlinkJournal, RemoveFolder, Inside, DestroyPlaces
    <3>3. \A v \in Verbs : at[v] # "using"
      BY <3>2, OneInside DEF Inside
    <3>4. /\ \A v \in Verbs : at'[v] = at[v]
          /\ \A g \in Gens : at'[g] = at[g] /\ half'[g] = half[g]
      BY <2>12, <2>t DEF TypeOK, DestroyStep, WriteTombstone, ZeroSecret, UnlinkSecret,
         UnlinkHead, UnlinkJournal, RemoveFolder
    <3> QED
      BY <3>1, <3>3, <3>4 DEF FilesInv, StartsAtFirstHalf, NoUseAfterTombstone
  (* gen: its own files, and nobody else is inside.                        *)
  <2>3. ASSUME NEW g \in Gens, GenStep(g), ~LockForGen(g) PROVE FilesInv'
    <3>1. at[g] \in GenPlaces /\ at[g] \in Inside /\ tomb' = tomb
      BY <2>3 DEF GenStep, MakeFolder, OpenSecret, FillSecret, WriteHead,
         OpenJournal, WriteInitLine, GenPlaces, Inside
    <3>2. /\ \A q \in Gens : q # g => /\ at[q] \notin GenPlaces
                                       /\ at'[q] = at[q] /\ half'[q] = half[q]
          /\ \A v \in Verbs : at'[v] = at[v] /\ at[v] # "using"
          /\ at'[g] \in GenPlaces \cup {"done", "failed"}
      BY <2>3, <2>t, <3>1, OneInside
         DEF GenStep, MakeFolder, OpenSecret, FillSecret, WriteHead, OpenJournal,
             WriteInitLine, TypeOK, Inside, GenPlaces
    <3>3. StartsAtFirstHalf' /\ NoUseAfterTombstone'
      BY <3>1, <3>2 DEF FilesInv, StartsAtFirstHalf, NoUseAfterTombstone, GenPlaces
    <3>4. ASSUME tomb = None PROVE Built'
      <4>1. Built
        BY <3>4 DEF FilesInv
      <4>2. UsedIsWhole'
        BY <3>2 DEF UsedIsWhole
      <4> USE <4>1, <2>t, <3>1, <3>2 DEF Built, TypeOK
      <4>3. CASE MakeFolder(g)
        BY <4>2, <4>3 DEF MakeFolder, HeadHasItsBody, SecondAfterFirst,
           GenFindsItsFiles, DoneIsWhole, Whole, GenPlaces
      <4>4. CASE OpenSecret(g)
        BY <4>2, <4>4 DEF OpenSecret, HeadHasItsBody, SecondAfterFirst,
           GenFindsItsFiles, DoneIsWhole, Whole, GenPlaces
      <4>5. CASE FillSecret(g)
        BY <4>2, <4>5 DEF FillSecret, HeadHasItsBody, SecondAfterFirst,
           GenFindsItsFiles, DoneIsWhole, Whole, GenPlaces
      <4>6. CASE WriteHead(g)
        BY <4>2, <4>6 DEF WriteHead, HeadHasItsBody, SecondAfterFirst,
           GenFindsItsFiles, DoneIsWhole, Whole, GenPlaces, Halves
      <4>7. CASE OpenJournal(g)
        BY <4>2, <4>7 DEF OpenJournal, HeadHasItsBody, SecondAfterFirst,
           GenFindsItsFiles, DoneIsWhole, Whole, GenPlaces
      <4>8. CASE WriteInitLine(g)
        BY <4>2, <4>8 DEF WriteInitLine, HeadHasItsBody, SecondAfterFirst,
           GenFindsItsFiles, DoneIsWhole, Whole, GenPlaces, Halves
      <4> QED
        BY <2>3, <4>3, <4>4, <4>5, <4>6, <4>7, <4>8 DEF GenStep
    <3> QED
      BY <3>1, <3>3, <3>4 DEF FilesInv
  (* The operator's repairs find nobody inside.                            *)
  <2>20. ASSUME NEW h \in Halves, RemoveTornLine(h) PROVE FilesInv'
    <3>1. \A p \in Procs : at[p] \notin Inside
      BY <2>20 DEF RemoveTornLine, PlacesInv, InsideIsLocked
    <3> QED
      BY <2>20, <2>t, <3>1
         DEF RemoveTornLine, FilesInv, StartsAtFirstHalf, NoUseAfterTombstone,
             Built, HeadHasItsBody, SecondAfterFirst, GenFindsItsFiles,
             DoneIsWhole, UsedIsWhole, Whole, Inside, GenPlaces, TypeOK
  <2>21. CASE RemoveDirectory
    <3>1. \A p \in Procs : at[p] \notin Inside
      BY <2>21 DEF RemoveDirectory, PlacesInv, InsideIsLocked
    <3>2. \A g \in Gens : ~Whole(g)
      BY <2>21, NoneIsNothing DEF RemoveDirectory, Whole, Loads
    <3> QED
      BY <2>21, <2>t, <3>1, <3>2
         DEF RemoveDirectory, FilesInv, StartsAtFirstHalf, NoUseAfterTombstone,
             Built, HeadHasItsBody, SecondAfterFirst, GenFindsItsFiles,
             DoneIsWhole, UsedIsWhole, Inside, GenPlaces, TypeOK, Halves
  <2> QED
    BY <2>1, <2>2, <2>3, <2>9, <2>10, <2>11, <2>12, <2>18, <2>19, <2>20, <2>21,
       <2>22 DEF Next
<1> QED
  BY <1>1, <1>2, PlacesHold, PTL DEF Spec

(* No verb ever works on what a dead gen or an interrupted destroy left.   *)
THEOREM OnlyWholePairsAreUsed == Spec => []UsedPairIsWhole
<1>1. FilesInv => UsedPairIsWhole
  BY DEF FilesInv, NoUseAfterTombstone, Built, UsedIsWhole, UsedPairIsWhole
<1> QED
  BY <1>1, FilesHold, PTL

(* A pair that gen reported is whole until its tombstone is durable.       *)
THEOREM TombstoneBeforeLoss == Spec => []IntentComesFirst
<1>1. FilesInv => IntentComesFirst
  BY DEF FilesInv, Built, DoneIsWhole, IntentComesFirst
<1> QED
  BY <1>1, FilesHold, PTL

(* Nothing removes the tombstone and no rerun of destroy stamps it again.  *)
THEOREM TombstoneIsKept == Spec => TombstoneStands
<1>1. [Next]_vars => [tomb # None => tomb' = tomb]_vars
  BY DEF Next, GenStep, DestroyStep, CheckNotDestroyed, LockForGen, MakeFolder,
     OpenSecret, FillSecret, WriteHead, OpenJournal, WriteInitLine, StartVerb,
     EndVerb, StartDestroy, WriteTombstone, ZeroSecret, UnlinkSecret,
     UnlinkHead, UnlinkJournal, RemoveFolder, Crash, RemoveStaleLock,
     RemoveTornLine, RemoveDirectory
<1> QED
  BY <1>1, PTL DEF Spec, TombstoneStands
----------------------------------------------------------------------------
(* What becomes of the files once there is a tombstone.                    *)
Over == {"done", "failed", "dead"}
UnlinkPlaces == DestroyPlaces \ {"zero"}

NoFolderNoFiles == \A h \in Halves : ~folder[h] => secret[h] = None /\ head[h] = None
GenHasFolder    == \A g \in Gens : at[g] \in GenPlaces \ {"folder"} => folder[half[g]]
(* A pair in the files has been started, and the one in the tombstone is   *)
(* not going to be written again.                                          *)
FilesAreStarted ==
  \A g \in Gens : at[g] \in {"idle", "checked"} =>
    \A h \in Halves : g \notin {secret[h], head[h]}
NamedIsOver == tomb # None /\ tomb.pair # None => at[tomb.pair] \in Over
(* A half that a run of destroy is done with is gone, or was noted.        *)
FirstIsRemoved ==
  \A x \in Destroys :
    at[x] \in UnlinkPlaces /\ half[x] = 2 => 1 \in stuck \/ ~folder[1]

GoneInv ==
  /\ NoFolderNoFiles /\ GenHasFolder /\ FilesAreStarted
  /\ NamedIsOver /\ FirstIsRemoved /\ DestroyedIsGone

LEMMA GoneHolds == Spec => []GoneInv
<1>1. Init => GoneInv
  BY ProcsAreDistinct
     DEF Init, GoneInv, NoFolderNoFiles, GenHasFolder, FilesAreStarted,
         NamedIsOver, FirstIsRemoved, DestroyedIsGone, GenPlaces, DestroyPlaces,
         UnlinkPlaces, Procs
<1>2. ASSUME PlacesInv, PlacesInv', GoneInv, [Next]_vars PROVE GoneInv'
  <2> USE <1>2
  <2> USE ProcsAreDistinct, NoneIsNothing DEF Goes, Locked, OnHalf, store, luck, Procs, GoneInv
  <2>t. TypeOK /\ TypeOK'
    BY DEF PlacesInv
  <2>p. tomb # None => tomb.pair \in Gens \cup {None}
    BY <2>t DEF TypeOK
  (* A step that leaves files and tombstone alone and takes no process     *)
  (* further into gen or destroy.                                          *)
  <2>q. ASSUME UNCHANGED <<secret, head, folder, tomb, stuck>>,
               \A g \in Gens : \/ UNCHANGED <<at[g], half[g]>>
                               \/ at[g] \in Inside /\ at'[g] \in Over
                               \/ at[g] = "idle" /\ at'[g] = "checked"
                               \/ at[g] \in {"idle", "checked"} /\ at'[g] = "folder"
                               \/ at[g] \notin Over /\ at'[g] \in Over,
               \A x \in Destroys : \/ UNCHANGED <<at[x], half[x]>>
                                   \/ at'[x] \in {"tombstone", "dead"}
                                   \/ at'[x] = "done" /\ AlreadyGone
        PROVE  GoneInv'
    <3>1. NoFolderNoFiles' /\ GenHasFolder' /\ FilesAreStarted'
      BY <2>q DEF NoFolderNoFiles, GenHasFolder, FilesAreStarted, GenPlaces, Over
    <3>2. NamedIsOver' /\ FirstIsRemoved'
      BY <2>q, <2>p DEF NamedIsOver, FirstIsRemoved, UnlinkPlaces, DestroyPlaces,
         Over, Inside, GenPlaces
    <3>3. DestroyedIsGone'
      BY <2>q DEF DestroyedIsGone, AlreadyGone, NoFolderNoFiles
    <3> QED
      BY <3>1, <3>2, <3>3
  <2>1. ASSUME NEW g \in Gens, CheckNotDestroyed(g) PROVE GoneInv'
    BY <2>t, <2>1, <2>q DEF CheckNotDestroyed, TypeOK
  <2>2. ASSUME NEW g \in Gens, LockForGen(g) PROVE GoneInv'
    BY <2>t, <2>2, <2>q DEF LockForGen, TypeOK
  <2>9. ASSUME NEW v \in Verbs, StartVerb(v) \/ EndVerb(v) PROVE GoneInv'
    BY <2>t, <2>9, <2>q DEF StartVerb, EndVerb, TypeOK
  <2>11. ASSUME NEW x \in Destroys, StartDestroy(x) PROVE GoneInv'
    BY <2>t, <2>11, <2>q DEF StartDestroy, TypeOK
  <2>18. ASSUME NEW p \in Procs, Crash(p) PROVE GoneInv'
    BY <2>t, <2>18, <2>q DEF Crash, TypeOK, Running, Over
  <2>19. CASE RemoveStaleLock
    BY <2>19, <2>q DEF RemoveStaleLock
  <2>20. ASSUME NEW h \in Halves, RemoveTornLine(h) PROVE GoneInv'
    BY <2>20, <2>q DEF RemoveTornLine
  <2>22. CASE UNCHANGED vars
    BY <2>22, <2>q DEF vars
  (* gen: not the pair of the tombstone, and no destroy is inside.         *)
  <2>3. ASSUME NEW g \in Gens, GenStep(g), ~LockForGen(g) PROVE GoneInv'
    <3>1. at[g] \in GenPlaces /\ at[g] \in Inside /\ tomb' = tomb /\ stuck' = stuck
      BY <2>3 DEF GenStep, MakeFolder, OpenSecret, FillSecret, WriteHead,
         OpenJournal, WriteInitLine, GenPlaces, Inside
    <3>2. /\ \A q \in Gens : q # g => /\ at[q] \notin GenPlaces
                                       /\ at'[q] = at[q] /\ half'[q] = half[q]
          /\ \A x \in Destroys : at'[x] = at[x] /\ at[x] \notin DestroyPlaces
          /\ at'[g] \in GenPlaces \cup {"done", "failed"}
      BY <2>3, <2>t, <3>1, OneInside
         DEF GenStep, MakeFolder, OpenSecret, FillSecret, WriteHead, OpenJournal,
             WriteInitLine, TypeOK, Inside, GenPlaces
    <3>3. NamedIsOver' /\ (tomb # None => tomb.pair # g)
      BY <3>1, <3>2, <2>p DEF NamedIsOver, Over, GenPlaces
    <3>4. FirstIsRemoved'
      BY <3>2, <3>1 DEF FirstIsRemoved, UnlinkPlaces, DestroyPlaces
    <3>5. /\ \A h \in Halves : secret'[h] \in {secret[h], "short", g}
          /\ \A h \in Halves : head'[h] \in {head[h], g}
      BY <2>3, <2>t DEF TypeOK, GenStep, MakeFolder, OpenSecret, FillSecret,
         WriteHead, OpenJournal, WriteInitLine
    <3>6. DestroyedIsGone'
      BY <3>1, <3>2, <3>3, <3>5, <2>p DEF DestroyedIsGone
    <3>7. FilesAreStarted'
      BY <3>1, <3>2, <3>5 DEF FilesAreStarted, GenPlaces
    <3>8. NoFolderNoFiles' /\ GenHasFolder'
      BY <2>3, <2>t, <3>1, <3>2
         DEF TypeOK, GenStep, MakeFolder, OpenSecret, FillSecret, WriteHead,
             OpenJournal, WriteInitLine, NoFolderNoFiles, GenHasFolder, GenPlaces
    <3> QED
      BY <3>3, <3>4, <3>6, <3>7, <3>8
  (* destroy: no gen is inside, and no other run of destroy.               *)
  <2>12. ASSUME NEW x \in Destroys, DestroyStep(x) PROVE GoneInv'
    <3>1. at[x] \in DestroyPlaces \cup {"tombstone"} /\ at[x] \in Inside
      BY <2>12 DEF DestroyStep, WriteTombstone, ZeroSecret, UnlinkSecret,
         UnlinkHead, UnlinkJournal, RemoveFolder, Inside, DestroyPlaces
    <3>2. /\ \A g \in Gens : /\ at[g] \notin GenPlaces
                             /\ at'[g] = at[g] /\ half'[g] = half[g]
          /\ \A y \in Destroys : y # x => /\ at[y] \notin DestroyPlaces
                                          /\ at'[y] = at[y] /\ half'[y] = half[y]
      BY <2>12, <2>t, <3>1, OneInside
         DEF DestroyStep, WriteTombstone, ZeroSecret, UnlinkSecret, UnlinkHead,
             UnlinkJournal, RemoveFolder, TypeOK, Inside
    <3>3. /\ \A h \in Halves : secret'[h] \in {secret[h], "zeroed", None}
          /\ \A h \in Halves : head'[h] \in {head[h], None}
      BY <2>12, <2>t
         DEF DestroyStep, WriteTombstone, ZeroSecret, UnlinkSecret, UnlinkHead,
             UnlinkJournal, RemoveFolder, Removed, TypeOK
    <3>4. FilesAreStarted' /\ GenHasFolder'
      BY <3>2, <3>3 DEF FilesAreStarted, GenHasFolder, GenPlaces
    <3>5. NamedIsOver'
      <4>1. CASE WriteTombstone(x) /\ tomb = None
        <5>1. tomb' = [by |-> x, pair |-> NamedPair]
          BY <4>1 DEF WriteTombstone
        <5>2. CASE NamedPair = None
          BY <5>1, <5>2 DEF NamedIsOver
        <5>3. CASE NamedPair # None
          <6>1. NamedPair \in Gens /\ \E h \in Halves : head[h] = NamedPair
            BY <4>1, <5>3, <2>t, NamedPairType DEF NamedPair, Halves
          <6>2. at[NamedPair] \notin {"idle", "checked"} \cup GenPlaces
            BY <6>1, <3>2 DEF FilesAreStarted
          <6>3. at[NamedPair] \in Over
            BY <6>1, <6>2, <2>t DEF PlacesInv, EachInItsPlaces, TypeOK, Places,
               Over, GenPlaces, DestroyPlaces
          <6> QED
            BY <5>1, <6>1, <6>3, <3>2 DEF NamedIsOver
        <5> QED
          BY <5>2, <5>3
      <4>2. CASE ~(WriteTombstone(x) /\ tomb = None)
        <5>1. tomb' = tomb
          BY <4>2, <2>12 DEF DestroyStep, WriteTombstone, ZeroSecret,
             UnlinkSecret, UnlinkHead, UnlinkJournal, RemoveFolder
        <5> QED
          BY <5>1, <3>2, <2>p DEF NamedIsOver
      <4> QED
        BY <4>1, <4>2
    <3>6. FirstIsRemoved'
      <4> USE <2>t, <3>2 DEF TypeOK, FirstIsRemoved, UnlinkPlaces, DestroyPlaces, Halves
      <4>1. CASE WriteTombstone(x)
        BY <4>1 DEF WriteTombstone
      <4>2. CASE ZeroSecret(x)
        BY <4>2 DEF ZeroSecret
      <4>3. CASE UnlinkSecret(x)
        BY <4>3 DEF UnlinkSecret
      <4>4. CASE UnlinkHead(x)
        BY <4>4 DEF UnlinkHead
      <4>5. CASE UnlinkJournal(x)
        BY <4>5 DEF UnlinkJournal
      <4>6. CASE RemoveFolder(x)
        BY <4>6 DEF RemoveFolder, Removed
      <4> QED
        BY <2>12, <4>1, <4>2, <4>3, <4>4, <4>5, <4>6 DEF DestroyStep
    <3>7. NoFolderNoFiles'
      <4>1. CASE RemoveFolder(x)
        BY <4>1, <2>t DEF RemoveFolder, Removed, NoFolderNoFiles, TypeOK
      <4>2. CASE ~RemoveFolder(x)
        BY <4>2, <2>12, <2>t
           DEF DestroyStep, WriteTombstone, ZeroSecret, UnlinkSecret, UnlinkHead,
               UnlinkJournal, NoFolderNoFiles, TypeOK
      <4> QED
        BY <4>1, <4>2
    <3>8. DestroyedIsGone'
      <4>1. ASSUME NEW y \in Destroys, at[y] = "done"
            PROVE  tomb # None /\ tomb' = tomb
        BY <4>1, <2>12
           DEF PlacesInv, TombstoneIsThere, DestroyStep, WriteTombstone,
               ZeroSecret, UnlinkSecret, UnlinkHead, UnlinkJournal, RemoveFolder
      <4>2. ASSUME NEW y \in Destroys, at'[y] = "done", at[y] # "done"
            PROVE  \A h \in Halves \ stuck' : secret'[h] = None /\ head'[h] = None
        <5>1. y = x /\ RemoveFolder(x) /\ half[x] # 1
          BY <4>2, <3>2, <2>12, <2>t
             DEF DestroyStep, WriteTombstone, ZeroSecret, UnlinkSecret,
                 UnlinkHead, UnlinkJournal, RemoveFolder, TypeOK
        <5>2. half[x] = 2 /\ (1 \in stuck \/ ~folder[1])
          BY <5>1, <2>t DEF RemoveFolder, FirstIsRemoved, UnlinkPlaces,
             DestroyPlaces, TypeOK, Halves
        <5>3. 1 \notin stuck' => secret'[1] = None /\ head'[1] = None
          BY <5>1, <5>2, <2>t DEF RemoveFolder, Removed, NoFolderNoFiles, TypeOK, Halves
        <5>4. 2 \notin stuck' => secret'[2] = None /\ head'[2] = None
          BY <5>1, <5>2, <2>t DEF RemoveFolder, Removed, TypeOK, Halves
        <5> QED
          BY <5>3, <5>4 DEF Halves
      <4>3. \A y \in Destroys : at'[y] = "done" => tomb' # None
        BY DEF PlacesInv, TombstoneIsThere
      <4>4. ASSUME NEW y \in Destroys, at[y] = "done", tomb.pair # None,
                   NEW h \in Halves \ stuck'
            PROVE  tomb.pair \notin {secret'[h], head'[h]}
        <5>1. CASE h \notin stuck
          BY <4>1, <4>4, <5>1, <3>3, <2>p DEF DestroyedIsGone
        <5>2. CASE h \in stuck
          <6>1. secret'[h] = None /\ head'[h] = None
            BY <4>4, <5>2, <2>12, <2>t
               DEF DestroyStep, WriteTombstone, ZeroSecret, UnlinkSecret, UnlinkHead,
                   UnlinkJournal, RemoveFolder, Removed, TypeOK
          <6> QED
            BY <4>4, <6>1
        <5> QED
          BY <5>1, <5>2
      <4> QED
        BY <4>1, <4>2, <4>3, <4>4 DEF DestroyedIsGone
    <3> QED
      BY <3>4, <3>5, <3>6, <3>7, <3>8
  <2>21. CASE RemoveDirectory
    BY <2>21, <2>t
       DEF RemoveDirectory, NoFolderNoFiles, GenHasFolder, FilesAreStarted,
           NamedIsOver, FirstIsRemoved, DestroyedIsGone, TypeOK, PlacesInv,
           InsideIsLocked, TombstoneIsThere, Inside, GenPlaces, DestroyPlaces, Halves
  <2> QED
    BY <2>1, <2>2, <2>3, <2>9, <2>11, <2>12, <2>18, <2>19, <2>20, <2>21, <2>22
       DEF Next
<1> QED
  BY <1>1, <1>2, PlacesHold, PTL DEF Spec

(* Once any run of destroy has ended, nothing is left of the pair that the *)
(* tombstone names in any half but those it noted that it could not        *)
(* remove, however many unlinks failed; and nothing of it comes back.      *)
THEOREM DestroyedStaysGone == Spec => []DestroyedIsGone
<1>1. GoneInv => DestroyedIsGone
  BY DEF GoneInv
<1> QED
  BY <1>1, GoneHolds, PTL
=============================================================================
