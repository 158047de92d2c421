------------------------- MODULE CommandLineProofs --------------------------
(***************************************************************************)
(* Proofs about what the command line keeps beside the v2 store: Ceremony, *)
(* for any two media and any number of crashes, sidecars replaced, stores  *)
(* restored and pins moved; and PagePad, the v1 pad directory, for every   *)
(* size of the pad and any number of calls cut off and old files put back. *)
(* The two share nothing.                                                  *)
(***************************************************************************)
EXTENDS Ceremony, PagePad, TLAPS

CeremonySpec == CeremonyInit /\ [][CeremonyNext]_ceremonyVars

(* How far ceremony create gets after the media were found distinct, and   *)
(* after the first and the second copy were compared.                      *)
OneCompared == {"compared first", "compared", "reloaded", "done"}
BothCompared == OneCompared \ {"compared first"}
FoundDistinct == OneCompared \cup {"distinct"}
MakerPoints ==
  FoundDistinct \cup {"idle", "failed", "generated", "recorded", "attributed",
    "copying first", "copied first", "copying second", "copied"}

RungsTyped == attested \in Ordinary .. Withdrawn /\ settled \in Ordinary .. Withdrawn

CeremonyShape ==
  /\ made \in Makings \cup {None} /\ maker \in MakerPoints
  /\ workspace \in {None, GenRecord, CeremonyRecord("local-only")}
  /\ oneMedium \in BOOLEAN
  /\ copy \in [Media -> [body : Bodies \cup {None}, pos : 0 .. 1]]
  /\ prov \in [Media -> ProvenanceRecords \cup {None}]
  /\ sidecar \subseteq Media /\ job \in [Media -> {None, "accept", "withdraw"}]
  /\ RungsTyped /\ marked \in 0 .. 1
  /\ trusted \in BOOLEAN /\ withdrawn \in BOOLEAN

(* Nothing is anywhere before a pair is made, and only ceremony create     *)
(* leaves its first point.                                                 *)
MadeFirst ==
  /\ made = None =>
       /\ maker = "idle" /\ copy = [m \in Media |-> NoCopy]
       /\ job = [m \in Media |-> None] /\ ~withdrawn
       /\ attested = Ordinary /\ settled = Ordinary
  /\ maker # "idle" => made # None /\ made.by = "cli-ceremony"

(* A rung of the ceremony, settled or prepared, is one of a pair the       *)
(* ceremony made; and over the terminal one nothing is prepared.           *)
RungsAreEarned ==
  /\ \A r \in {attested, settled} :
       r \in {CeremonyCreated, HandoffAccepted} => made # None /\ made.by = "cli-ceremony"
  /\ settled = Withdrawn => attested = Withdrawn

(* Whoever is about to report a withdrawal, or did, has the authority's    *)
(* terminal rung behind it, settled, if the pair has an authority.         *)
WithdrawalIsAttested ==
  made # None /\ made.tpm =>
    /\ withdrawn => settled = Withdrawn
    /\ \A m \in Media : job[m] = "withdraw" => settled = Withdrawn

(* The witness is nowhere behind a medium.                                 *)
MarkCoversMedia ==
  made # None /\ made.tpm => \A m \in Media : copy[m].pos <= marked

(* The workspace stays until create is done, and by then what was compared *)
(* is on two media.                                                        *)
Good(m) == copy[m].body \in {"whole", "destroyed"}
KeptUntilCompared ==
  /\ maker \notin {"idle", "done"} => workspace # None
  /\ maker \in FoundDistinct => ~oneMedium
  /\ maker \in OneCompared => Good(FirstMedium)
  /\ maker \in BothCompared => Good(Second)

CeremonyInv ==
  /\ CeremonyShape /\ MadeFirst /\ RungsAreEarned
  /\ WithdrawalIsAttested /\ MarkCoversMedia /\ KeptUntilCompared
-----------------------------------------------------------------------------
LEMMA TheMedia ==
  /\ FirstMedium \in Media /\ Second \in Media /\ Second # FirstMedium
  /\ Media = {FirstMedium, Second}
BY TwoMedia DEF Second

LEMMA PlacesAreMedia ==
  ASSUME oneMedium \in BOOLEAN
  PROVE  Places \subseteq Media /\ \A m \in Media : Place(m) \in Media
BY TheMedia DEF Places, Place

LEMMA NoneIsNoText ==
  /\ None \notin {"whole", "flipped", "cut", "destroyed", "accept", "withdraw"}
  /\ None \notin Makings /\ None \notin ProvenanceRecords
BY NoneIsNothing DEF Bodies

(* A verb finds a pair that was made, and its lock free.                   *)
LEMMA OpenedIsMade ==
  ASSUME CeremonyInv, NEW m \in Media, copy[m].body # None
  PROVE  made \in Makings
BY DEF CeremonyInv, CeremonyShape, MadeFirst, NoCopy

LEMMA OpensMeans ==
  ASSUME CeremonyInv, NEW m \in Media, Opens(m)
  PROVE  made \in Makings /\ copy[m].body \in {"whole", "flipped"} /\ job[m] = None
<1>1. copy[m].body \in {"whole", "flipped"} /\ job[m] = None
  BY DEF Opens, LoadsWhole
<1> QED
  BY <1>1, OpenedIsMade, NoneIsNoText

(* The authority's answer: the rung asked for, settled, when it says so,   *)
(* and where the ladder leads from this one, or this one, when it does not.*)
LEMMA RungsOfAnswers ==
  ASSUME RungsTyped, settled = Withdrawn => attested = Withdrawn,
         NEW to \in CeremonyCreated .. Withdrawn, NEW a \in Answers(to)
  PROVE  /\ a.rung \in Ordinary .. Withdrawn /\ a.settled \in Ordinary .. Withdrawn
         /\ a.ok => a.settled = to
         /\ settled = Withdrawn => a.settled = Withdrawn
         /\ a.settled = Withdrawn => a.rung = Withdrawn
         /\ \A r \in {a.rung, a.settled} :
              r \in {attested, settled} \/ (r = to /\ AssuranceAdvanceOk(attested, to))
<1>1. \/ a.rung = attested /\ a.settled = settled /\ a.ok = FALSE
      \/ a.rung = attested /\ a.settled = attested /\ a.ok = (attested = to)
      \/ /\ AssuranceAdvanceOk(attested, to) /\ a.rung = to
         /\ \/ a.settled = attested /\ a.ok = FALSE
            \/ a.settled = to
  BY DEF Answers
<1>2. AssuranceAdvanceOk(attested, to) => attested # Withdrawn
  BY DEF AssuranceAdvanceOk, Ordinary, CeremonyCreated, HandoffAccepted, Withdrawn
<1>3. a.ok => a.settled = to
  BY <1>1
<1>4. to \in Ordinary .. Withdrawn
  BY DEF Ordinary, CeremonyCreated, Withdrawn
<1> QED
  BY <1>1, <1>2, <1>3, <1>4 DEF RungsTyped

(* A step of the authority keeps what rungs say, if ceremony create is the *)
(* one that asks for the first.                                            *)
LEMMA AnswerKeepsRungs ==
  ASSUME CeremonyInv, made \in Makings, made' = made,
         NEW to \in CeremonyCreated .. Withdrawn, NEW a \in Answers(to), Recorded(a),
         to = CeremonyCreated => made.by = "cli-ceremony"
  PROVE  /\ RungsTyped' /\ RungsAreEarned'
         /\ a.ok => settled' = to
         /\ settled = Withdrawn => settled' = Withdrawn
<1>1. RungsTyped /\ RungsAreEarned /\ made # None
  BY NoneIsNoText DEF CeremonyInv, CeremonyShape
<1>2. attested' = a.rung /\ settled' = a.settled
  BY DEF Recorded
<1>3. AssuranceAdvanceOk(attested, to) /\ to = HandoffAccepted => attested = CeremonyCreated
  BY <1>1 DEF AssuranceAdvanceOk, HandoffAccepted, CeremonyCreated, Withdrawn, RungsTyped
<1>4. /\ to \in {CeremonyCreated, HandoffAccepted, Withdrawn}
      /\ Withdrawn \notin {CeremonyCreated, HandoffAccepted}
  BY DEF CeremonyCreated, HandoffAccepted, Withdrawn
<1> QED
  BY <1>1, <1>2, <1>3, <1>4, RungsOfAnswers DEF RungsAreEarned, RungsTyped
-----------------------------------------------------------------------------
(* Steps of one kind.                                                      *)

(* Ceremony create goes on, or stops, and touches nothing.                 *)
LEMMA MakerAlone ==
  ASSUME CeremonyInv, maker # "idle", maker' \in MakerPoints \ {"idle", "done"},
         maker # "done",
         UNCHANGED <<made, workspace, oneMedium, onMedia, authority, withdrawn>>,
         maker' \in FoundDistinct => ~oneMedium,
         maker' \in OneCompared => Good(FirstMedium),
         maker' \in BothCompared => Good(Second)
  PROVE  CeremonyInv'
<1>1. CeremonyShape'
  BY DEF CeremonyInv, CeremonyShape, RungsTyped, onMedia, authority, rungs
<1>2. MadeFirst' /\ RungsAreEarned' /\ WithdrawalIsAttested' /\ MarkCoversMedia'
  BY DEF CeremonyInv, MadeFirst, RungsAreEarned, WithdrawalIsAttested, MarkCoversMedia,
         onMedia, authority, rungs
<1>3. KeptUntilCompared'
  BY DEF CeremonyInv, KeptUntilCompared, Good, onMedia
<1> QED
  BY <1>1, <1>2, <1>3 DEF CeremonyInv

(* Files of a medium change; no position goes up and no good copy goes bad.*)
LEMMA FilesAlone ==
  ASSUME CeremonyInv, made # None, UNCHANGED <<creating, job, authority, withdrawn>>,
         copy' \in [Media -> [body : Bodies \cup {None}, pos : 0 .. 1]],
         prov' \in [Media -> ProvenanceRecords \cup {None}], sidecar' \subseteq Media,
         \A m \in Media : copy'[m].pos <= copy[m].pos,
         \A m \in Media : Good(m) => copy'[m].body \in {"whole", "destroyed"}
  PROVE  CeremonyInv'
<1>1. CeremonyShape'
  BY DEF CeremonyInv, CeremonyShape, RungsTyped, creating, authority, rungs
<1>2. MadeFirst' /\ RungsAreEarned' /\ WithdrawalIsAttested'
  BY DEF CeremonyInv, MadeFirst, RungsAreEarned, WithdrawalIsAttested, creating, authority, rungs
<1>3. MarkCoversMedia'
  <2>1. marked' = marked /\ made' = made /\ marked \in Nat
    BY DEF creating, authority, rungs, CeremonyInv, CeremonyShape
  <2>2. \A m \in Media : copy[m].pos \in Nat /\ copy'[m].pos \in Nat
    BY DEF CeremonyInv, CeremonyShape
  <2> QED
    BY <2>1, <2>2 DEF CeremonyInv, MarkCoversMedia
<1>4. KeptUntilCompared'
  BY TheMedia DEF CeremonyInv, KeptUntilCompared, Good, creating
<1> QED
  BY <1>1, <1>2, <1>3, <1>4 DEF CeremonyInv

(* A verb takes or leaves the lock of a medium after the authority's       *)
(* answer.                                                                 *)
LEMMA VerbAlone ==
  ASSUME CeremonyInv, made \in Makings,
         UNCHANGED <<creating, copy, marked, trusted>>,
         job' \in [Media -> {None, "accept", "withdraw"}],
         prov' \in [Media -> ProvenanceRecords \cup {None}], sidecar' \subseteq Media,
         withdrawn' \in BOOLEAN, RungsTyped', RungsAreEarned',
         WithdrawalIsAttested'
  PROVE  CeremonyInv'
<1>1. CeremonyShape'
  BY DEF CeremonyInv, CeremonyShape, creating
<1>2. MadeFirst' /\ MarkCoversMedia'
  BY NoneIsNoText DEF CeremonyInv, MadeFirst, MarkCoversMedia, creating
<1>3. KeptUntilCompared'
  BY DEF CeremonyInv, KeptUntilCompared, Good, creating
<1> QED
  BY <1>1, <1>2, <1>3 DEF CeremonyInv
-----------------------------------------------------------------------------
(* The steps of ceremony create.                                           *)

LEMMA PlainGenKeeps ==
  ASSUME CeremonyInv, NEW m \in Media, NEW tpm \in BOOLEAN, PlainGen(m, tpm)
  PROVE  CeremonyInv'
<1>1. /\ made = None /\ made' = [by |-> "cli-gen", tpm |-> tpm]
      /\ copy' = [copy EXCEPT ![m] = Whole] /\ prov' = [prov EXCEPT ![m] = GenRecord]
      /\ UNCHANGED <<maker, workspace, oneMedium, sidecar, job, authority, withdrawn>>
  BY DEF PlainGen
<1>2. /\ maker = "idle" /\ copy = [n \in Media |-> NoCopy] /\ job = [n \in Media |-> None]
      /\ attested = Ordinary /\ settled = Ordinary /\ ~withdrawn
  BY <1>1 DEF CeremonyInv, MadeFirst
<1>3. made' \in Makings /\ made' # None
  BY <1>1, NoneIsNoText DEF Makings
<1>4. CeremonyShape'
  BY <1>1, <1>3 DEF CeremonyInv, CeremonyShape, RungsTyped, Whole, Bodies,
                    ProvenanceRecords, authority, rungs
<1>5. MadeFirst' /\ RungsAreEarned' /\ WithdrawalIsAttested'
  BY <1>1, <1>2, <1>3, NoneIsNoText
  DEF MadeFirst, RungsAreEarned, WithdrawalIsAttested, authority, rungs, Ordinary, CeremonyCreated,
      HandoffAccepted
<1>6. MarkCoversMedia'
  BY <1>1, <1>2 DEF CeremonyInv, CeremonyShape, MarkCoversMedia, NoCopy, Whole, authority, rungs
<1>7. KeptUntilCompared'
  BY <1>1, <1>2 DEF KeptUntilCompared, FoundDistinct, OneCompared, BothCompared
<1> QED
  BY <1>4, <1>5, <1>6, <1>7 DEF CeremonyInv

LEMMA GenInWorkspaceKeeps ==
  ASSUME CeremonyInv, NEW tpm \in BOOLEAN, NEW same \in BOOLEAN, GenInWorkspace(tpm, same)
  PROVE  CeremonyInv'
<1>1. /\ made = None /\ made' = [by |-> "cli-ceremony", tpm |-> tpm] /\ oneMedium' = same
      /\ workspace' = GenRecord /\ maker' = "generated"
      /\ UNCHANGED <<onMedia, authority, withdrawn>>
  BY DEF GenInWorkspace
<1>2. /\ copy = [n \in Media |-> NoCopy] /\ job = [n \in Media |-> None]
      /\ attested = Ordinary /\ settled = Ordinary /\ ~withdrawn
  BY <1>1 DEF CeremonyInv, MadeFirst
<1>3. made' \in Makings /\ made' # None /\ workspace' # None
  BY <1>1, NoneIsNoText DEF Makings, ProvenanceRecords
<1>4. CeremonyShape'
  BY <1>1, <1>3 DEF CeremonyInv, CeremonyShape, RungsTyped, MakerPoints, authority, rungs, onMedia
<1>5. MadeFirst' /\ RungsAreEarned' /\ WithdrawalIsAttested'
  BY <1>1, <1>2, <1>3, NoneIsNoText
  DEF MadeFirst, RungsAreEarned, WithdrawalIsAttested, authority, rungs, onMedia
<1>6. MarkCoversMedia'
  BY <1>1, <1>2 DEF CeremonyInv, CeremonyShape, MarkCoversMedia, NoCopy, authority, rungs, onMedia
<1>7. KeptUntilCompared'
  BY <1>1, <1>3 DEF KeptUntilCompared, FoundDistinct, OneCompared, BothCompared
<1> QED
  BY <1>4, <1>5, <1>6, <1>7 DEF CeremonyInv

LEMMA RecordCreatedKeeps ==
  ASSUME CeremonyInv, RecordCreated
  PROVE  CeremonyInv'
<1>1. /\ maker = "generated" /\ maker' \in {"recorded", "failed"}
      /\ UNCHANGED <<made, workspace, oneMedium, onMedia, marked, trusted, withdrawn>>
      /\ \/ UNCHANGED rungs
         \/ \E a \in Answers(CeremonyCreated) : Recorded(a)
  BY DEF RecordCreated, MakerGoes, MakerStep, Stops
<1>2. made \in Makings /\ made.by = "cli-ceremony"
  BY <1>1 DEF CeremonyInv, CeremonyShape, MadeFirst
<1>3. /\ RungsTyped' /\ RungsAreEarned'
      /\ settled = Withdrawn => settled' = Withdrawn
  <2>1. CASE UNCHANGED rungs
    BY <2>1, <1>1 DEF CeremonyInv, CeremonyShape, RungsTyped, RungsAreEarned, rungs
  <2>2. CASE \E a \in Answers(CeremonyCreated) : Recorded(a)
    <3>1. PICK a \in Answers(CeremonyCreated) : Recorded(a)
      BY <2>2
    <3>2. CeremonyCreated \in CeremonyCreated .. Withdrawn
      BY DEF CeremonyCreated, Withdrawn
    <3> QED
      BY <3>1, <3>2, <1>1, <1>2, AnswerKeepsRungs
  <2> QED
    BY <2>1, <2>2, <1>1
<1>4. CeremonyShape'
  BY <1>1, <1>3 DEF CeremonyInv, CeremonyShape, RungsTyped, MakerPoints, onMedia
<1>5. MadeFirst' /\ WithdrawalIsAttested' /\ MarkCoversMedia'
  BY <1>1, <1>2, <1>3, NoneIsNoText
  DEF CeremonyInv, MadeFirst, WithdrawalIsAttested, MarkCoversMedia, onMedia
<1>6. KeptUntilCompared'
  BY <1>1 DEF CeremonyInv, KeptUntilCompared, FoundDistinct, OneCompared, BothCompared
<1> QED
  BY <1>3, <1>4, <1>5, <1>6 DEF CeremonyInv

LEMMA WriteCreationKeeps ==
  ASSUME CeremonyInv, WriteCreation
  PROVE  CeremonyInv'
<1>1. /\ maker = "recorded" /\ maker' = "attributed"
      /\ workspace' = CeremonyRecord("local-only")
      /\ UNCHANGED <<made, oneMedium, onMedia, authority, withdrawn>>
  BY DEF WriteCreation, MakerGoes
<1>2. CeremonyShape'
  BY <1>1 DEF CeremonyInv, CeremonyShape, RungsTyped, MakerPoints, onMedia, authority, rungs
<1>3. MadeFirst' /\ RungsAreEarned' /\ WithdrawalIsAttested' /\ MarkCoversMedia'
  BY <1>1 DEF CeremonyInv, MadeFirst, RungsAreEarned, WithdrawalIsAttested, MarkCoversMedia,
              onMedia, authority, rungs
<1>4. KeptUntilCompared'
  BY <1>1, NoneIsNoText DEF KeptUntilCompared, FoundDistinct, OneCompared, BothCompared,
                            ProvenanceRecords
<1> QED
  BY <1>2, <1>3, <1>4 DEF CeremonyInv

LEMMA CopyHalvesKeeps ==
  ASSUME CeremonyInv, NEW m \in Media, CopyHalves(m)
  PROVE  CeremonyInv'
<1>1. PICK b \in {"whole", "flipped", "cut"} :
        copy' = [copy EXCEPT ![Place(m)] = [body |-> b, pos |-> 0]]
  BY DEF CopyHalves
<1>2. /\ maker \in {"attributed", "copied first"}
      /\ maker' \in {"copying first", "copying second"}
      /\ UNCHANGED <<made, workspace, oneMedium, prov, sidecar, job, authority, withdrawn>>
  BY DEF CopyHalves, MakerStep, MakerGoes, Before, InCopy
<1>3. Place(m) \in Media
  BY PlacesAreMedia DEF CeremonyInv, CeremonyShape
<1>4. CeremonyShape'
  <2>1. [body |-> b, pos |-> 0] \in [body : Bodies \cup {None}, pos : 0 .. 1]
    BY DEF Bodies
  <2>2. copy' \in [Media -> [body : Bodies \cup {None}, pos : 0 .. 1]]
    BY <1>1, <1>3, <2>1 DEF CeremonyInv, CeremonyShape
  <2> QED
    BY <1>2, <2>2 DEF CeremonyInv, CeremonyShape, RungsTyped, MakerPoints, authority, rungs
<1>5. MadeFirst' /\ RungsAreEarned' /\ WithdrawalIsAttested'
  BY <1>2 DEF CeremonyInv, MadeFirst, RungsAreEarned, WithdrawalIsAttested, authority, rungs
<1>6. MarkCoversMedia'
  <2>1. \A n \in Media : copy'[n].pos = copy[n].pos \/ copy'[n].pos = 0
    BY <1>1, <1>3 DEF CeremonyInv, CeremonyShape
  <2>2. marked' = marked /\ made' = made
    BY <1>2 DEF authority, rungs
  <2>3. marked \in Nat
    BY DEF CeremonyInv, CeremonyShape
  <2> QED
    BY <2>1, <2>2, <2>3 DEF CeremonyInv, MarkCoversMedia
<1>7. KeptUntilCompared'
  BY <1>2 DEF CeremonyInv, KeptUntilCompared, FoundDistinct, OneCompared, BothCompared
<1> QED
  BY <1>4, <1>5, <1>6, <1>7 DEF CeremonyInv

LEMMA CopySidecarKeeps ==
  ASSUME CeremonyInv, NEW m \in Media, CopySidecar(m)
  PROVE  CeremonyInv'
<1>1. /\ maker \in {"copying first", "copying second"} /\ maker' \in {"copied first", "copied"}
      /\ prov' = [prov EXCEPT ![Place(m)] = workspace]
      /\ UNCHANGED <<made, workspace, oneMedium, copy, sidecar, job, authority, withdrawn>>
  BY DEF CopySidecar, MakerStep, MakerGoes, InCopy, After
<1>2. CeremonyShape'
  BY <1>1 DEF CeremonyInv, CeremonyShape, RungsTyped, MakerPoints, ProvenanceRecords,
              authority, rungs
<1>3. MadeFirst' /\ RungsAreEarned' /\ WithdrawalIsAttested' /\ MarkCoversMedia'
  BY <1>1 DEF CeremonyInv, MadeFirst, RungsAreEarned, WithdrawalIsAttested, MarkCoversMedia,
              authority, rungs
<1>4. KeptUntilCompared'
  BY <1>1 DEF CeremonyInv, KeptUntilCompared, FoundDistinct, OneCompared, BothCompared
<1> QED
  BY <1>2, <1>3, <1>4 DEF CeremonyInv

LEMMA CheckDistinctKeeps ==
  ASSUME CeremonyInv, CheckDistinct
  PROVE  CeremonyInv'
<1>1. /\ maker = "copied" /\ maker' \in {"distinct", "failed"}
      /\ maker' = "distinct" => ~oneMedium
      /\ UNCHANGED <<made, workspace, oneMedium, onMedia, authority, withdrawn>>
  BY DEF CheckDistinct, MakerGoes, MakerStep, Stops
<1> QED
  BY <1>1, MakerAlone DEF MakerPoints, FoundDistinct, OneCompared, BothCompared

LEMMA CompareFirstKeeps ==
  ASSUME CeremonyInv, CompareFirst
  PROVE  CeremonyInv'
<1>1. /\ maker = "distinct" /\ maker' \in {"compared first", "failed"}
      /\ maker' = "compared first" => SameAsWorkspace(FirstMedium)
      /\ UNCHANGED <<made, workspace, oneMedium, onMedia, authority, withdrawn>>
  BY DEF CompareFirst, MakerGoes, MakerStep, Stops
<1>2. ~oneMedium
  BY <1>1 DEF CeremonyInv, KeptUntilCompared, FoundDistinct
<1>3. Place(FirstMedium) = FirstMedium
  BY <1>2 DEF Place
<1>4. maker' = "compared first" => Good(FirstMedium)
  <2>1. SameAsWorkspace(FirstMedium) => copy[FirstMedium] = Whole
    BY <1>3 DEF SameAsWorkspace
  <2>2. copy[FirstMedium] = Whole => Good(FirstMedium)
    BY DEF Good, Whole
  <2> QED
    BY <1>1, <2>1, <2>2
<1> QED
  BY <1>1, <1>2, <1>4, MakerAlone DEF MakerPoints, FoundDistinct, OneCompared, BothCompared

LEMMA CompareSecondKeeps ==
  ASSUME CeremonyInv, CompareSecond
  PROVE  CeremonyInv'
<1>1. /\ maker = "compared first" /\ maker' \in {"compared", "failed"}
      /\ maker' = "compared" => SameAsWorkspace(Second)
      /\ UNCHANGED <<made, workspace, oneMedium, onMedia, authority, withdrawn>>
  BY DEF CompareSecond, MakerGoes, MakerStep, Stops
<1>2. ~oneMedium /\ Good(FirstMedium)
  BY <1>1 DEF CeremonyInv, KeptUntilCompared, FoundDistinct, OneCompared
<1>3. Place(Second) = Second
  BY <1>2 DEF Place
<1>4. maker' = "compared" => Good(Second)
  <2>1. SameAsWorkspace(Second) => copy[Second] = Whole
    BY <1>3 DEF SameAsWorkspace
  <2>2. copy[Second] = Whole => Good(Second)
    BY DEF Good, Whole
  <2> QED
    BY <1>1, <2>1, <2>2
<1> QED
  BY <1>1, <1>2, <1>4, MakerAlone DEF MakerPoints, FoundDistinct, OneCompared, BothCompared

LEMMA ReloadBothKeeps ==
  ASSUME CeremonyInv, ReloadBoth
  PROVE  CeremonyInv'
<1>1. /\ maker = "compared" /\ maker' \in {"reloaded", "failed"}
      /\ UNCHANGED <<made, workspace, oneMedium, onMedia, authority, withdrawn>>
  BY DEF ReloadBoth, MakerGoes, MakerStep, Stops
<1>2. ~oneMedium /\ Good(FirstMedium) /\ Good(Second)
  BY <1>1 DEF CeremonyInv, KeptUntilCompared, FoundDistinct, OneCompared, BothCompared
<1> QED
  BY <1>1, <1>2, MakerAlone DEF MakerPoints, FoundDistinct, OneCompared, BothCompared

LEMMA CreateDiesKeeps ==
  ASSUME CeremonyInv, CreateDies
  PROVE  CeremonyInv'
<1>1. /\ maker \notin {"idle", "done"} /\ maker' = "failed"
      /\ UNCHANGED <<made, workspace, oneMedium, onMedia, authority, withdrawn>>
  BY DEF CreateDies
<1> QED
  BY <1>1, MakerAlone DEF MakerPoints, FoundDistinct, OneCompared, BothCompared

LEMMA RemoveWorkspaceKeeps ==
  ASSUME CeremonyInv, RemoveWorkspace
  PROVE  CeremonyInv'
<1>1. /\ maker = "reloaded" /\ maker' = "done" /\ workspace' \in {None, workspace}
      /\ UNCHANGED <<made, oneMedium, onMedia, authority, withdrawn>>
  BY DEF RemoveWorkspace, MakerGoes
<1>2. CeremonyShape'
  BY <1>1 DEF CeremonyInv, CeremonyShape, RungsTyped, MakerPoints, FoundDistinct,
              OneCompared, onMedia,
              authority, rungs
<1>3. MadeFirst' /\ RungsAreEarned' /\ WithdrawalIsAttested' /\ MarkCoversMedia'
  BY <1>1 DEF CeremonyInv, MadeFirst, RungsAreEarned, WithdrawalIsAttested, MarkCoversMedia,
              onMedia, authority, rungs
<1>4. KeptUntilCompared'
  BY <1>1 DEF CeremonyInv, KeptUntilCompared, FoundDistinct, OneCompared, BothCompared, Good,
              onMedia
<1> QED
  BY <1>2, <1>3, <1>4 DEF CeremonyInv
-----------------------------------------------------------------------------
(* The verbs on a medium.                                                  *)

LEMMA AcceptKeeps ==
  ASSUME CeremonyInv, NEW m \in Media, Accept(m)
  PROVE  CeremonyInv'
<1>1. made \in Makings /\ job[m] = None
  BY OpensMeans DEF Accept
<1>2. /\ UNCHANGED <<creating, copy, prov, sidecar, marked, trusted, withdrawn>>
      /\ job' = job \/ job' = [job EXCEPT ![m] = "accept"]
      /\ \/ UNCHANGED rungs
         \/ \E a \in Answers(HandoffAccepted) : Recorded(a)
  BY DEF Accept
<1>3. /\ RungsTyped' /\ RungsAreEarned'
      /\ settled = Withdrawn => settled' = Withdrawn
  <2>1. CASE UNCHANGED rungs
    BY <2>1, <1>2 DEF CeremonyInv, CeremonyShape, RungsTyped, RungsAreEarned, creating, rungs
  <2>2. CASE \E a \in Answers(HandoffAccepted) : Recorded(a)
    <3>1. PICK a \in Answers(HandoffAccepted) : Recorded(a)
      BY <2>2
    <3>2. HandoffAccepted \in CeremonyCreated .. Withdrawn /\ HandoffAccepted # CeremonyCreated
      BY DEF HandoffAccepted, CeremonyCreated, Withdrawn
    <3> QED
      BY <3>1, <3>2, <1>1, <1>2, AnswerKeepsRungs DEF creating
  <2> QED
    BY <2>1, <2>2, <1>2
<1>4. job' \in [Media -> {None, "accept", "withdraw"}]
  BY <1>2 DEF CeremonyInv, CeremonyShape
<1>5. \A n \in Media : job'[n] = "withdraw" => job[n] = "withdraw"
  BY <1>2 DEF CeremonyInv, CeremonyShape
<1>6. WithdrawalIsAttested'
  BY <1>2, <1>3, <1>5 DEF CeremonyInv, WithdrawalIsAttested, creating
<1> QED
  BY <1>1, <1>2, <1>3, <1>4, <1>6, VerbAlone DEF CeremonyInv, CeremonyShape

(* A lock is only held on a pair that was made.                            *)
LEMMA JobsAreOfMade ==
  ASSUME CeremonyInv, NEW m \in Media, job[m] # None
  PROVE  made \in Makings
BY DEF CeremonyInv, CeremonyShape, MadeFirst

(* What does not touch the authority and tells of no withdrawal.           *)
LEMMA NoNewWithdrawal ==
  ASSUME CeremonyInv, UNCHANGED <<creating, authority, withdrawn>>,
         \A n \in Media : job'[n] = "withdraw" => job[n] = "withdraw"
  PROVE  /\ RungsAreEarned' /\ WithdrawalIsAttested' /\ RungsTyped'
         /\ withdrawn' \in BOOLEAN /\ UNCHANGED <<marked, trusted>>
BY DEF CeremonyInv, CeremonyShape, RungsTyped, RungsAreEarned, WithdrawalIsAttested,
       creating, authority, rungs

LEMMA WriteAcceptedKeeps ==
  ASSUME CeremonyInv, NEW m \in Media, WriteAccepted(m)
  PROVE  CeremonyInv'
<1>1. /\ job[m] # None /\ job' = [job EXCEPT ![m] = None]
      /\ prov' = [prov EXCEPT ![m] = CeremonyRecord("physical-private-operator-asserted")]
      /\ UNCHANGED <<creating, copy, sidecar, authority, withdrawn>>
  BY NoneIsNoText DEF WriteAccepted
<1>2. made \in Makings
  BY <1>1, JobsAreOfMade
<1>3. job' \in [Media -> {None, "accept", "withdraw"}]
  BY <1>1 DEF CeremonyInv, CeremonyShape
<1>4. \A n \in Media : job'[n] = "withdraw" => job[n] = "withdraw"
  BY <1>1, NoneIsNoText DEF CeremonyInv, CeremonyShape
<1>5. prov' \in [Media -> ProvenanceRecords \cup {None}] /\ sidecar' \subseteq Media
  BY <1>1 DEF CeremonyInv, CeremonyShape, ProvenanceRecords
<1> QED
  BY <1>1, <1>2, <1>3, <1>4, <1>5, NoNewWithdrawal, VerbAlone

LEMMA VerbDiesKeeps ==
  ASSUME CeremonyInv, NEW m \in Media, VerbDies(m)
  PROVE  CeremonyInv'
<1>1. /\ job[m] # None /\ job' = [job EXCEPT ![m] = None]
      /\ UNCHANGED <<creating, copy, prov, sidecar, authority, withdrawn>>
  BY DEF VerbDies
<1>2. made \in Makings
  BY <1>1, JobsAreOfMade
<1>3. job' \in [Media -> {None, "accept", "withdraw"}]
  BY <1>1 DEF CeremonyInv, CeremonyShape
<1>4. \A n \in Media : job'[n] = "withdraw" => job[n] = "withdraw"
  BY <1>1, NoneIsNoText DEF CeremonyInv, CeremonyShape
<1>5. prov' \in [Media -> ProvenanceRecords \cup {None}] /\ sidecar' \subseteq Media
  BY <1>1 DEF CeremonyInv, CeremonyShape
<1> QED
  BY <1>1, <1>2, <1>3, <1>4, <1>5, NoNewWithdrawal, VerbAlone

LEMMA WithdrawKeeps ==
  ASSUME CeremonyInv, NEW m \in Media, Withdraw(m)
  PROVE  CeremonyInv'
<1>1. made \in Makings /\ job[m] = None
  BY OpensMeans DEF Withdraw
<1>2. UNCHANGED <<creating, copy, prov, sidecar, marked, trusted>>
  BY DEF Withdraw
<1>3. CASE IF made.tpm THEN trusted /\ attested = Withdrawn ELSE m \in sidecar
  <2>1. /\ withdrawn' = (withdrawn \/ ~made.tpm \/ settled = Withdrawn)
        /\ job' = job /\ attested' = attested /\ settled' = settled
    BY <1>3 DEF Withdraw, rungs
  <2>2. /\ withdrawn' \in BOOLEAN
        /\ withdrawn' => withdrawn \/ ~made.tpm \/ settled = Withdrawn
    BY <2>1, Zenon
  <2>3. WithdrawalIsAttested' /\ RungsAreEarned' /\ RungsTyped'
    BY <1>2, <1>3, <2>1, <2>2
    DEF CeremonyInv, CeremonyShape, WithdrawalIsAttested, RungsAreEarned, RungsTyped, creating
  <2> QED
    BY <1>1, <1>2, <2>1, <2>2, <2>3, VerbAlone DEF CeremonyInv, CeremonyShape
<1>4. CASE ~(IF made.tpm THEN trusted /\ attested = Withdrawn ELSE m \in sidecar)
  <2>1. /\ withdrawn' = withdrawn
        /\ IF made.tpm
           THEN \E a \in Answers(Withdrawn) :
                  /\ Recorded(a)
                  /\ job' = IF a.ok THEN [job EXCEPT ![m] = "withdraw"] ELSE job
           ELSE /\ job' = [job EXCEPT ![m] = "withdraw"]
                /\ attested' = attested /\ settled' = settled
    BY <1>4 DEF Withdraw, rungs
  <2>2. job' \in [Media -> {None, "accept", "withdraw"}]
    BY <2>1 DEF CeremonyInv, CeremonyShape
  <2>3. RungsTyped' /\ RungsAreEarned' /\ WithdrawalIsAttested'
    <3>1. CASE made.tpm
      <4>1. PICK a \in Answers(Withdrawn) :
              /\ Recorded(a)
              /\ job' = IF a.ok THEN [job EXCEPT ![m] = "withdraw"] ELSE job
        BY <2>1, <3>1
      <4>2. Withdrawn \in CeremonyCreated .. Withdrawn /\ Withdrawn # CeremonyCreated
        BY DEF CeremonyCreated, Withdrawn
      <4>3. /\ RungsTyped' /\ RungsAreEarned'
            /\ a.ok => settled' = Withdrawn
            /\ settled = Withdrawn => settled' = Withdrawn
        BY <1>1, <1>2, <4>1, <4>2, AnswerKeepsRungs DEF creating
      <4>4. \A n \in Media : job'[n] = "withdraw" => job[n] = "withdraw" \/ a.ok
        BY <4>1 DEF CeremonyInv, CeremonyShape
      <4> QED
        BY <1>2, <2>1, <4>3, <4>4 DEF CeremonyInv, WithdrawalIsAttested, creating
    <3>2. CASE ~made.tpm
      BY <1>2, <2>1, <3>2
      DEF CeremonyInv, CeremonyShape, RungsTyped, RungsAreEarned, WithdrawalIsAttested, creating
    <3> QED
      BY <3>1, <3>2
  <2> QED
    BY <1>1, <1>2, <2>1, <2>2, <2>3, VerbAlone DEF CeremonyInv, CeremonyShape
<1> QED
  BY <1>3, <1>4

LEMMA WriteWithdrawalKeeps ==
  ASSUME CeremonyInv, NEW m \in Media, WriteWithdrawal(m)
  PROVE  CeremonyInv'
<1>1. /\ job[m] = "withdraw" /\ job' = [job EXCEPT ![m] = None] /\ withdrawn' = TRUE
      /\ sidecar' = sidecar \cup {m} /\ UNCHANGED <<creating, copy, prov, authority>>
  BY DEF WriteWithdrawal
<1>2. made \in Makings
  BY <1>1, NoneIsNoText, JobsAreOfMade
<1>3. job' \in [Media -> {None, "accept", "withdraw"}] /\ sidecar' \subseteq Media
  BY <1>1 DEF CeremonyInv, CeremonyShape
<1>4. RungsAreEarned' /\ RungsTyped' /\ UNCHANGED <<marked, trusted>>
  BY <1>1 DEF CeremonyInv, CeremonyShape, RungsTyped, RungsAreEarned, creating, authority, rungs
<1>5. WithdrawalIsAttested'
  <2>1. made # None /\ made.tpm => settled = Withdrawn
    BY <1>1 DEF CeremonyInv, WithdrawalIsAttested
  <2> QED
    BY <1>1, <2>1 DEF WithdrawalIsAttested, creating, authority, rungs
<1> QED
  BY <1>1, <1>2, <1>3, <1>4, <1>5, VerbAlone DEF CeremonyInv, CeremonyShape

LEMMA UseMediumKeeps ==
  ASSUME CeremonyInv, NEW m \in Media, UseMedium(m)
  PROVE  CeremonyInv'
<1>1. /\ made \in Makings /\ made # None
      /\ copy' = [copy EXCEPT ![m].pos = 1] /\ marked' = IF made.tpm THEN 1 ELSE marked
      /\ settled' = attested
      /\ UNCHANGED <<creating, prov, sidecar, job, attested, trusted, withdrawn>>
  BY OpensMeans, NoneIsNoText DEF UseMedium
<1>2. /\ copy' \in [Media -> [body : Bodies \cup {None}, pos : 0 .. 1]]
      /\ \A n \in Media : copy'[n].body = copy[n].body
  BY <1>1 DEF CeremonyInv, CeremonyShape
<1>3. CeremonyShape'
  BY <1>1, <1>2 DEF CeremonyInv, CeremonyShape, RungsTyped, creating
<1>4. MadeFirst' /\ RungsAreEarned' /\ WithdrawalIsAttested'
  BY <1>1 DEF CeremonyInv, MadeFirst, RungsAreEarned, WithdrawalIsAttested, creating
<1>5. MarkCoversMedia'
  <2>1. \A n \in Media : copy'[n].pos \in 0 .. 1
    BY <1>2
  <2> QED
    BY <1>1, <2>1 DEF MarkCoversMedia, creating
<1>6. KeptUntilCompared'
  BY <1>1, <1>2, TheMedia DEF CeremonyInv, KeptUntilCompared, Good, creating
<1> QED
  BY <1>3, <1>4, <1>5, <1>6 DEF CeremonyInv

LEMMA DestroyMediumKeeps ==
  ASSUME CeremonyInv, NEW m \in Media, DestroyMedium(m)
  PROVE  CeremonyInv'
<1>1. /\ copy[m].body # None /\ copy' = [copy EXCEPT ![m].body = "destroyed"]
      /\ UNCHANGED <<creating, prov, sidecar, job, authority, withdrawn>>
  BY DEF DestroyMedium
<1>2. /\ copy' \in [Media -> [body : Bodies \cup {None}, pos : 0 .. 1]]
      /\ \A n \in Media : copy'[n].pos = copy[n].pos
      /\ \A n \in Media : copy'[n].body \in {"destroyed", copy[n].body}
  BY <1>1 DEF CeremonyInv, CeremonyShape, Bodies
<1>3. \A n \in Media : copy'[n].pos <= copy[n].pos
  BY <1>2 DEF CeremonyInv, CeremonyShape
<1>4. made # None
  BY <1>1, OpenedIsMade, NoneIsNoText
<1> QED
  BY <1>1, <1>2, <1>3, <1>4, FilesAlone DEF CeremonyInv, CeremonyShape, Good

LEMMA ReplaceProvenanceKeeps ==
  ASSUME CeremonyInv, NEW m \in Media, ReplaceProvenance(m)
  PROVE  CeremonyInv'
<1>1. PICK r \in ProvenanceRecords \cup {None} : prov' = [prov EXCEPT ![m] = r]
  BY DEF ReplaceProvenance
<1>2. UNCHANGED <<creating, copy, sidecar, job, authority, withdrawn>> /\ LoadsWhole(m)
  BY DEF ReplaceProvenance
<1>3. made # None
  BY <1>2, OpenedIsMade, NoneIsNoText DEF LoadsWhole
<1>4. prov' \in [Media -> ProvenanceRecords \cup {None}]
  BY <1>1 DEF CeremonyInv, CeremonyShape
<1>5. \A n \in Media : copy'[n].pos <= copy[n].pos
  BY <1>2 DEF CeremonyInv, CeremonyShape
<1> QED
  BY <1>2, <1>3, <1>4, <1>5, FilesAlone DEF CeremonyInv, CeremonyShape, Good

LEMMA LoseWithdrawalKeeps ==
  ASSUME CeremonyInv, NEW m \in Media, LoseWithdrawal(m)
  PROVE  CeremonyInv'
<1>1. /\ sidecar' = sidecar \ {m} /\ LoadsWhole(m)
      /\ UNCHANGED <<creating, copy, prov, job, authority, withdrawn>>
  BY DEF LoseWithdrawal
<1>2. made # None
  BY <1>1, OpenedIsMade, NoneIsNoText DEF LoadsWhole
<1>3. \A n \in Media : copy'[n].pos <= copy[n].pos
  BY <1>1 DEF CeremonyInv, CeremonyShape
<1>4. sidecar' \subseteq Media
  BY <1>1 DEF CeremonyInv, CeremonyShape
<1> QED
  BY <1>1, <1>2, <1>3, <1>4, FilesAlone DEF CeremonyInv, CeremonyShape, Good

LEMMA RestoreMediumKeeps ==
  ASSUME CeremonyInv, NEW m \in Media, RestoreMedium(m)
  PROVE  CeremonyInv'
<1>1. /\ LoadsWhole(m) /\ copy' = [copy EXCEPT ![m].pos = 0]
      /\ UNCHANGED <<creating, prov, sidecar, job, authority, withdrawn>>
  BY DEF RestoreMedium
<1>2. made # None
  BY <1>1, OpenedIsMade, NoneIsNoText DEF LoadsWhole
<1>3. /\ copy' \in [Media -> [body : Bodies \cup {None}, pos : 0 .. 1]]
      /\ \A n \in Media : copy'[n].body = copy[n].body
      /\ \A n \in Media : copy'[n].pos \in {0, copy[n].pos}
  BY <1>1 DEF CeremonyInv, CeremonyShape
<1>4. \A n \in Media : copy'[n].pos <= copy[n].pos
  BY <1>3 DEF CeremonyInv, CeremonyShape
<1> QED
  BY <1>1, <1>2, <1>3, <1>4, FilesAlone DEF CeremonyInv, CeremonyShape, Good

(* The authority's rung, or what is settled of it, alone.                  *)
LEMMA RungAlone ==
  ASSUME CeremonyInv, made # None \/ attested = settled,
         attested' \in {attested, settled}, settled' \in {attested, settled},
         settled = Withdrawn => settled' = Withdrawn,
         settled' = Withdrawn => attested' = Withdrawn,
         trusted' \in BOOLEAN, UNCHANGED <<creating, onMedia, marked, withdrawn>>
  PROVE  CeremonyInv'
<1>1. CeremonyShape'
  BY DEF CeremonyInv, CeremonyShape, RungsTyped, creating, onMedia
<1>2. MadeFirst' /\ RungsAreEarned' /\ WithdrawalIsAttested'
  BY DEF CeremonyInv, MadeFirst, RungsAreEarned, WithdrawalIsAttested, creating, onMedia
<1>3. MarkCoversMedia' /\ KeptUntilCompared'
  BY DEF CeremonyInv, MarkCoversMedia, KeptUntilCompared, Good, creating, onMedia
<1> QED
  BY <1>1, <1>2, <1>3 DEF CeremonyInv

LEMMA MovePinKeeps ==
  ASSUME CeremonyInv, MovePin
  PROVE  CeremonyInv'
<1>1. /\ trusted' \in BOOLEAN /\ made # None
      /\ UNCHANGED <<creating, onMedia, attested, settled, marked, withdrawn>>
  BY DEF MovePin, rungs
<1> QED
  BY <1>1, RungAlone DEF CeremonyInv, RungsAreEarned

LEMMA SettlePreparedKeeps ==
  ASSUME CeremonyInv, SettlePrepared
  PROVE  CeremonyInv'
<1>1. /\ settled # attested /\ settled' = attested
      /\ UNCHANGED <<creating, onMedia, attested, marked, trusted, withdrawn>>
  BY DEF SettlePrepared
<1>2. made # None /\ (settled = Withdrawn => attested = Withdrawn)
  BY <1>1 DEF CeremonyInv, MadeFirst, RungsAreEarned
<1> QED
  BY <1>1, <1>2, RungAlone DEF CeremonyInv, CeremonyShape

LEMMA PutRungBackKeeps ==
  ASSUME CeremonyInv, PutRungBack
  PROVE  CeremonyInv'
<1>1. /\ settled # attested /\ attested' = settled
      /\ UNCHANGED <<creating, onMedia, settled, marked, trusted, withdrawn>>
  BY DEF PutRungBack
<1>2. made # None
  BY <1>1 DEF CeremonyInv, MadeFirst
<1> QED
  BY <1>1, <1>2, RungAlone DEF CeremonyInv, CeremonyShape
-----------------------------------------------------------------------------
LEMMA CeremonyFirst == CeremonyInit => CeremonyInv
<1>. SUFFICES ASSUME CeremonyInit PROVE CeremonyInv
  OBVIOUS
<1>1. /\ made = None /\ maker = "idle" /\ workspace = None /\ oneMedium = FALSE
      /\ copy = [m \in Media |-> NoCopy] /\ prov = [m \in Media |-> None]
      /\ sidecar = {} /\ job = [m \in Media |-> None]
      /\ attested = Ordinary /\ settled = Ordinary
      /\ marked = 0 /\ trusted = TRUE /\ withdrawn = FALSE
  BY DEF CeremonyInit
<1>2. CeremonyShape
  <2>1. NoCopy \in [body : Bodies \cup {None}, pos : 0 .. 1]
    BY DEF NoCopy
  <2>2. /\ copy \in [Media -> [body : Bodies \cup {None}, pos : 0 .. 1]]
        /\ prov \in [Media -> ProvenanceRecords \cup {None}]
        /\ job \in [Media -> {None, "accept", "withdraw"}]
    BY <1>1, <2>1
  <2>3. RungsTyped /\ marked \in 0 .. 1
    BY <1>1 DEF RungsTyped, Ordinary, Withdrawn
  <2>4. oneMedium \in BOOLEAN /\ trusted \in BOOLEAN /\ withdrawn \in BOOLEAN
    BY <1>1, Zenon
  <2>5. maker \in MakerPoints /\ made \in Makings \cup {None} /\ sidecar \subseteq Media
    BY <1>1 DEF MakerPoints
  <2> QED
    BY <1>1, <2>2, <2>3, <2>4, <2>5 DEF CeremonyShape
<1>3. MadeFirst /\ RungsAreEarned /\ WithdrawalIsAttested /\ MarkCoversMedia
  BY <1>1 DEF MadeFirst, RungsAreEarned, WithdrawalIsAttested, MarkCoversMedia, Ordinary,
              CeremonyCreated, HandoffAccepted
<1>4. KeptUntilCompared
  BY <1>1 DEF KeptUntilCompared, FoundDistinct, OneCompared, BothCompared
<1> QED
  BY <1>2, <1>3, <1>4 DEF CeremonyInv

LEMMA CeremonyStep == CeremonyInv /\ [CeremonyNext]_ceremonyVars => CeremonyInv'
<1>. SUFFICES ASSUME CeremonyInv, [CeremonyNext]_ceremonyVars PROVE CeremonyInv'
  OBVIOUS
<1>1. CASE UNCHANGED ceremonyVars
  BY <1>1 DEF ceremonyVars, CeremonyInv, CeremonyShape, RungsTyped, MadeFirst, RungsAreEarned,
              WithdrawalIsAttested, MarkCoversMedia, KeptUntilCompared, Good
<1>2. ASSUME NEW tpm \in BOOLEAN, NEW m \in Media, PlainGen(m, tpm) PROVE CeremonyInv'
  BY <1>2, PlainGenKeeps
<1>3. ASSUME NEW tpm \in BOOLEAN, NEW same \in BOOLEAN, GenInWorkspace(tpm, same)
      PROVE  CeremonyInv'
  BY <1>3, GenInWorkspaceKeeps
<1>4. CASE CreateStep
  BY <1>4, RecordCreatedKeeps, WriteCreationKeeps, CopyHalvesKeeps, CopySidecarKeeps,
     CheckDistinctKeeps, CompareFirstKeeps, CompareSecondKeeps, ReloadBothKeeps,
     RemoveWorkspaceKeeps DEF CreateStep
<1>5. CASE CreateDies \/ SettlePrepared \/ MovePin \/ PutRungBack
  BY <1>5, CreateDiesKeeps, SettlePreparedKeeps, MovePinKeeps, PutRungBackKeeps
<1>6. ASSUME NEW m \in Media,
             \/ Accept(m) \/ WriteAccepted(m) \/ Withdraw(m) \/ WriteWithdrawal(m)
             \/ UseMedium(m) \/ DestroyMedium(m) \/ VerbDies(m)
      PROVE  CeremonyInv'
  BY <1>6, AcceptKeeps, WriteAcceptedKeeps, WithdrawKeeps, WriteWithdrawalKeeps,
     UseMediumKeeps, DestroyMediumKeeps, VerbDiesKeeps
<1>7. ASSUME NEW m \in Media,
             ReplaceProvenance(m) \/ LoseWithdrawal(m) \/ RestoreMedium(m)
      PROVE  CeremonyInv'
  BY <1>7, ReplaceProvenanceKeeps, LoseWithdrawalKeeps, RestoreMediumKeeps
<1> QED
  BY <1>1, <1>2, <1>3, <1>4, <1>5, <1>6, <1>7 DEF CeremonyNext

LEMMA CeremonyIsInv == CeremonySpec => []CeremonyInv
BY CeremonyFirst, CeremonyStep, PTL DEF CeremonySpec
-----------------------------------------------------------------------------
(* The facts that the evaluator is given about a medium.                   *)
LEMMA FactsAreFacts ==
  ASSUME CeremonyInv, NEW m \in Media, made # None
  PROVE  FactsOf(m) \in Facts
<1>1. prov[m] \in ProvenanceRecords \cup {None} /\ made \in Makings
  BY DEF CeremonyInv, CeremonyShape
<1>2. /\ FactsOf(m).creation \in {"cli-gen", "cli-ceremony", "unknown"}
      /\ FactsOf(m).delivery \in {"local-only", "physical-private-operator-asserted", "unknown"}
  BY <1>1 DEF FactsOf, Known, ProvenanceRecords, GenRecord, CeremonyRecord
<1>3. RollbackOf(m) \in Rollbacks
  BY DEF RollbackOf, Rollbacks, Healths
<1>4. AssuranceOf \in {"unavailable", "untrusted-authority", "ordinary", "ceremony-created",
                       "handoff-accepted", "withdrawn"}
  BY DEF AssuranceOf
<1> QED
  BY <1>2, <1>3, <1>4 DEF FactsOf, Facts

(* What it takes to be given the strongest label.                          *)
LEMMA StrongestMeans ==
  ASSUME NEW f \in Facts, AssessDeployment(f) = "conditionally-eligible"
  PROVE  /\ f.rollback = [kind |-> "platform-monotonic", health |-> "healthy"]
         /\ f.assuranceAuthority = "handoff-accepted"
BY DEF AssessDeployment, StrongestPath

LEMMA EligibleMeans ==
  ASSUME CeremonyInv, NEW m \in Media, Eligible(m)
  PROVE  /\ made \in Makings /\ made.tpm /\ trusted
         /\ attested = HandoffAccepted /\ copy[m].pos >= marked
<1>1. made \in Makings /\ made # None
  BY OpensMeans, NoneIsNoText DEF Eligible
<1>2. /\ RollbackOf(m) = [kind |-> "platform-monotonic", health |-> "healthy"]
      /\ AssuranceOf = "handoff-accepted"
  BY <1>1, FactsAreFacts, StrongestMeans DEF Eligible, FactsOf
<1>3. made.tpm /\ trusted
  BY <1>2 DEF AssuranceOf
<1>4. attested = HandoffAccepted
  BY <1>2, <1>3 DEF AssuranceOf
<1>5. ~(copy[m].pos < marked)
  BY <1>2, <1>3 DEF RollbackOf
<1> QED
  BY <1>1, <1>3, <1>4, <1>5 DEF CeremonyInv, CeremonyShape
-----------------------------------------------------------------------------
(* The types of Ceremony; what assembleDeploymentFacts tells the evaluator *)
(* about a pair that was made is always a set of facts it knows.           *)
THEOREM CeremonyTypesAreKept == CeremonySpec => []CeremonyTypeOK
<1>1. CeremonyInv => CeremonyTypeOK
  BY FactsAreFacts DEF CeremonyInv, CeremonyShape, RungsTyped, CeremonyTypeOK
<1> QED
  BY <1>1, CeremonyIsInv, PTL

(* The strongest label is earned: whatever files of a medium were replaced,*)
(* lost or restored, whichever calls died and however the pin moved, it is *)
(* shown for a pair of the ceremony, accepted, that nobody was told is     *)
(* withdrawn over a settled record, on a store behind no other.            *)
THEOREM LabelIsEarned == CeremonySpec => []EligibleIsEarned
<1>1. CeremonyInv => EligibleIsEarned
  <2>. SUFFICES ASSUME CeremonyInv, NEW m \in Media, Eligible(m)
                PROVE  /\ made.by = "cli-ceremony" /\ attested = HandoffAccepted /\ ~withdrawn
                       /\ \A n \in Media : copy[n].pos <= copy[m].pos
    BY DEF EligibleIsEarned
  <2>1. /\ made \in Makings /\ made # None /\ made.tpm /\ attested = HandoffAccepted
        /\ copy[m].pos >= marked
    BY EligibleMeans, NoneIsNoText
  <2>2. made.by = "cli-ceremony"
    BY <2>1 DEF CeremonyInv, RungsAreEarned
  <2>3. ~withdrawn
    BY <2>1 DEF CeremonyInv, WithdrawalIsAttested, RungsAreEarned, HandoffAccepted, Withdrawn
  <2>4. \A n \in Media : copy[n].pos <= marked
    BY <2>1 DEF CeremonyInv, MarkCoversMedia
  <2>5. marked \in Nat /\ \A n \in Media : copy[n].pos \in Nat
    BY DEF CeremonyInv, CeremonyShape
  <2> QED
    BY <2>1, <2>2, <2>3, <2>4, <2>5
<1> QED
  BY <1>1, CeremonyIsInv, PTL

(* From the moment ceremony create made the pair there is a good copy of   *)
(* it: the workspace, or else both media, which were found to be two and   *)
(* compared; only destroy takes one of those away.                         *)
THEOREM GoodCopyIsKept == CeremonySpec => []AGoodCopyStays
<1>1. CeremonyInv => AGoodCopyStays
  BY TheMedia DEF CeremonyInv, KeptUntilCompared, Good, AGoodCopyStays, FoundDistinct,
                  OneCompared, BothCompared
<1> QED
  BY <1>1, CeremonyIsInv, PTL
-----------------------------------------------------------------------------
(* The v1 pad directory.                                                   *)

PageSpec == PageInit /\ [][PageNext]_pageVars

Steps == {"page", "mark", "out"}
PageVerbs == [op : {"gen", "burn", "open"}, half : Sides, from : 0 .. PadSize,
              len : 0 .. PadSize, step : Steps]

Lines == Glued .. PadSize

PageShape ==
  /\ page \in [Sides -> {None} \cup 0 .. PadSize]
  /\ marks \in [Sides -> Seq(Lines)] /\ bare \subseteq Sides
  /\ glued \subseteq Sides /\ exposed \subseteq Sides
  /\ \A d \in bare : marks[d] # <<>>
  /\ doing = NoVerb \/ (doing \in PageVerbs /\ doing.from + doing.len <= PadSize)
  /\ gate \in {"free", "held", "stale"} /\ (gate = "held" <=> doing # NoVerb)
  /\ doing.op = "gen" => doing.step # "out"
  /\ startUse \in [Sides -> [Symbols -> Nat]] /\ symUse \in [Sides -> [Symbols -> Nat]]

Put(d, o) == symUse[d][o] > 0 \/ startUse[d][o] > 0
Outputs == doing # NoVerb /\ doing.op \in {"burn", "open"}

(* Nothing comes out of a pair that is not whole, and a whole one stays.   *)
OnlyWholePairs ==
  /\ \A d \in Sides, o \in Symbols : Put(d, o) => PairWhole
  /\ Outputs => PairWhole
  /\ doing.op = "gen" /\ doing.step = "mark" => \A d \in Sides, o \in Symbols : ~Put(d, o)

(* What came out of a half is below a mark; or below its page, while a     *)
(* line of the marks is spoiled. Of a half whose page was put back then    *)
(* neither is claimed.                                                     *)
MarksCover ==
  \A d \in Sides \ exposed, o \in Symbols : Put(d, o) =>
    IF d \in glued THEN page[d] > o ELSE \E i \in DOMAIN marks[d] : marks[d][i] > o

(* A verb works above everything that came out of its half, and before its *)
(* own output both the page and a mark say so.                             *)
WorksAboveOutputs ==
  Outputs /\ doing.half \notin exposed =>
    /\ \A o \in Symbols : Put(doing.half, o) => o < doing.from
    /\ doing.step = "page" => page[doing.half] <= doing.from
    /\ doing.step \in {"mark", "out"} => page[doing.half] = doing.from + doing.len
    /\ doing.step = "out" /\ doing.half \notin glued =>
         \E i \in DOMAIN marks[doing.half] :
           marks[doing.half][i] = doing.from + doing.len

PageInv == PageShape /\ OnlyWholePairs /\ MarksCover /\ WorksAboveOutputs
-----------------------------------------------------------------------------
LEMMA TheSides == FirstSide \in Sides /\ (CHOOSE d \in Sides : d # FirstSide) \in Sides
BY TwoSides

LEMMA VerbsAreNotNone == NoVerb \notin PageVerbs
BY DEF PageVerbs, NoVerb, Steps

(* A verb that runs, by its fields.                                        *)
LEMMA VerbFields ==
  ASSUME PageShape, doing.step # "none"
  PROVE  /\ doing # NoVerb /\ doing \in PageVerbs /\ gate = "held"
         /\ doing.op \in {"gen", "burn", "open"} /\ doing.half \in Sides
         /\ doing.from \in Nat /\ doing.len \in Nat
         /\ doing.from + doing.len \in 0 .. PadSize
BY PagesAreNumbers DEF PageShape, NoVerb, PageVerbs

LEMMA WholePages ==
  ASSUME PageShape, PairWhole, NEW d \in Sides
  PROVE  page[d] \in 0 .. PadSize /\ page[d] \in Nat
BY PagesAreNumbers DEF PageShape, PairWhole

LEMMA LinesAreInts == Lines \subseteq Int /\ Partial \in Lines /\ Glued \in Lines
BY PagesAreNumbers DEF Lines, Glued, Partial

LEMMA LinesOfMarks ==
  ASSUME NEW s \in Seq(Lines)
  PROVE  \A i \in DOMAIN s : s[i] \in Lines /\ s[i] \in Int
<1>1. \A i \in DOMAIN s : s[i] \in Lines
  OBVIOUS
<1> QED
  BY <1>1, LinesAreInts

LEMMA AppendKeeps ==
  ASSUME NEW s \in Seq(Lines), NEW x \in Lines
  PROVE  /\ Append(s, x) \in Seq(Lines) /\ Append(s, x) # <<>>
         /\ \A i \in DOMAIN s : i \in DOMAIN Append(s, x) /\ Append(s, x)[i] = s[i]
         /\ Len(s) + 1 \in DOMAIN Append(s, x) /\ Append(s, x)[Len(s) + 1] = x
OBVIOUS

LEMMA FrontKeeps ==
  ASSUME NEW s \in Seq(Lines), s # <<>>
  PROVE  /\ Front(s) \in Seq(Lines)
         /\ \A i \in DOMAIN s : i # Len(s) => i \in DOMAIN Front(s) /\ Front(s)[i] = s[i]
<1>1. Len(s) \in Nat /\ Len(s) > 0
  OBVIOUS
<1> QED
  BY <1>1 DEF Front

LEMMA AppendsEffect ==
  ASSUME PageShape, NEW d \in Sides, NEW x \in Lines, Appends(d, x)
  PROVE  /\ marks' \in [Sides -> Seq(Lines)] /\ marks'[d] # <<>>
         /\ \A e \in Sides : e # d => marks'[e] = marks[e]
         /\ glued' \in {glued, glued \cup {d}, glued \ {d}}
         /\ d \notin glued' => marks'[d] = Append(marks[d], x)
         /\ d \notin glued' => d \notin glued \/ x # Partial
<1>1. marks \in [Sides -> Seq(Lines)] /\ marks[d] \in Seq(Lines)
  BY DEF PageShape
<1>2. CASE d \in bare
  <2>1. /\ marks' = [marks EXCEPT ![d] = [marks[d] EXCEPT ![Len(marks[d])] = Glued]]
        /\ glued' = glued \cup {d}
    BY <1>2 DEF Appends
  <2>2. marks[d] # <<>>
    BY <1>2 DEF PageShape
  <2>3. DEFINE s == marks[d]  t == [s EXCEPT ![Len(s)] = Glued]
  <2>4. t \in Seq(Lines) /\ t # <<>>
    BY <1>1, <2>2, LinesAreInts
  <2>5. marks' = [marks EXCEPT ![d] = t]
    BY <2>1
  <2> HIDE DEF t
  <2> QED
    BY <1>1, <2>1, <2>4, <2>5
<1>3. CASE d \notin bare
  <2>1. /\ marks' = [marks EXCEPT ![d] = Append(marks[d], x)]
        /\ glued' = IF x = Partial THEN glued ELSE glued \ {d}
    BY <1>3 DEF Appends
  <2> QED
    BY <1>1, <2>1, AppendKeeps
<1> QED
  BY <1>2, <1>3

(* What loads is above everything that came out.                           *)
LEMMA LoadedIsAbove ==
  ASSUME PageInv, PairWhole, NEW d \in Sides \ exposed, PageLoads(d),
         NEW o \in Symbols, Put(d, o)
  PROVE  o < page[d]
<1>1. page[d] \in Nat /\ o \in Int
  BY WholePages DEF PageInv, Symbols
<1>2. CASE d \in glued
  BY <1>1, <1>2 DEF PageInv, MarksCover
<1>3. CASE d \notin glued
  <2>1. PICK i \in DOMAIN marks[d] : marks[d][i] > o
    BY <1>3 DEF PageInv, MarksCover
  <2>2. marks[d][i] \in Int
    BY <2>1, LinesOfMarks DEF PageInv, PageShape
  <2>3. page[d] >= marks[d][i]
    BY <2>1 DEF PageLoads
  <2> QED
    BY <1>1, <2>1, <2>2, <2>3
<1> QED
  BY <1>2, <1>3
-----------------------------------------------------------------------------
LEMMA BeginsKeeps ==
  ASSUME PageInv, NEW op \in {"gen", "burn", "open"}, NEW d \in Sides,
         NEW from \in 0 .. PadSize, NEW len \in 0 .. PadSize, from + len <= PadSize,
         op # "gen" => PairWhole,
         op # "gen" /\ d \notin exposed =>
           page[d] <= from /\ \A o \in Symbols : Put(d, o) => o < from,
         Begins(op, d, from, len)
  PROVE  PageInv'
<1>1. /\ doing' = [op |-> op, half |-> d, from |-> from, len |-> len, step |-> "page"]
      /\ gate' = "held" /\ UNCHANGED <<page, marks, bare, glued, exposed, startUse, symUse>>
  BY DEF Begins, disk
<1>2. /\ doing'.op = op /\ doing'.half = d /\ doing'.from = from /\ doing'.len = len
      /\ doing'.step = "page"
  BY <1>1
<1>3. doing' \in PageVerbs
  BY <1>1 DEF PageVerbs, Steps
<1>4. PageShape'
  BY <1>1, <1>2, <1>3, VerbsAreNotNone DEF PageInv, PageShape
<1>5. OnlyWholePairs' /\ MarksCover'
  BY <1>1, <1>2 DEF PageInv, OnlyWholePairs, MarksCover, Put, Outputs, PairWhole
<1>6. WorksAboveOutputs'
  BY <1>1, <1>2 DEF WorksAboveOutputs, Put, Outputs
<1> QED
  BY <1>4, <1>5, <1>6 DEF PageInv

LEMMA GenPagesKeeps == PageInv /\ GenPages => PageInv'
BY BeginsKeeps, TheSides, PagesAreNumbers DEF GenPages

LEMMA BurnKeeps ==
  ASSUME PageInv, NEW d \in Sides, NEW len \in 0 .. PadSize, Burn(d, len)
  PROVE  PageInv'
<1>1. /\ PairWhole /\ PageLoads(d) /\ page[d] + len <= PadSize
      /\ Begins("burn", d, page[d], len)
  BY DEF Burn
<1>2. page[d] \in 0 .. PadSize /\ page[d] \in Nat
  BY <1>1, WholePages DEF PageInv
<1>3. d \notin exposed => \A o \in Symbols : Put(d, o) => o < page[d]
  BY <1>1, LoadedIsAbove
<1>4. page[d] <= page[d]
  BY <1>2
<1> QED
  BY <1>1, <1>2, <1>3, <1>4, BeginsKeeps

LEMMA OpenKeeps ==
  ASSUME PageInv, NEW d \in Sides, NEW from \in 0 .. PadSize, NEW len \in 0 .. PadSize,
         Open(d, from, len)
  PROVE  PageInv'
<1>1. /\ PairWhole /\ PageLoads(d) /\ from >= page[d] /\ from + len <= PadSize
      /\ Begins("open", d, from, len)
  BY DEF Open
<1>2. page[d] \in Nat
  BY <1>1, WholePages DEF PageInv
<1>3. page[d] <= from
  BY <1>1, <1>2
<1>4. d \notin exposed => \A o \in Symbols : Put(d, o) => o < from
  <2>1. d \notin exposed => \A o \in Symbols : Put(d, o) => o < page[d]
    BY <1>1, LoadedIsAbove
  <2> QED
    BY <1>2, <1>3, <2>1 DEF Symbols
<1> QED
  BY <1>1, <1>3, <1>4, BeginsKeeps

(* A call ends, or a lock file is removed: the directory stays as it is.   *)
LEMMA EndsKeep ==
  ASSUME PageInv, doing' = NoVerb, gate' \in {"free", "stale"},
         UNCHANGED <<page, marks, bare, glued, exposed, startUse, symUse>>
  PROVE  PageInv'
<1>1. doing'.op = "none" /\ doing'.step = "none"
  BY DEF NoVerb
<1>2. PageShape'
  BY <1>1 DEF PageInv, PageShape, NoVerb
<1>3. OnlyWholePairs' /\ MarksCover' /\ WorksAboveOutputs'
  BY <1>1 DEF PageInv, OnlyWholePairs, MarksCover, WorksAboveOutputs, Put, Outputs, PairWhole
<1> QED
  BY <1>2, <1>3 DEF PageInv

LEMMA GenRefusedKeeps == PageInv /\ GenRefused => PageInv'
BY EndsKeep DEF GenRefused, VerbEnds, disk

LEMMA RemoveStaleGateKeeps == PageInv /\ RemoveStaleGate => PageInv'
BY EndsKeep DEF RemoveStaleGate, PageInv, PageShape, disk

LEMMA WritePageKeeps ==
  ASSUME PageInv, WritePage
  PROVE  PageInv'
<1>. DEFINE d == doing.half
            n == doing.from + doing.len
<1>1. /\ doing.step = "page"
      /\ doing.op = "gen" => page[d] = None
      /\ page' = [page EXCEPT ![d] = n] /\ doing' = [doing EXCEPT !.step = "mark"]
      /\ UNCHANGED <<gate, marks, bare, glued, exposed, startUse, symUse>>
  BY DEF WritePage, StepsTo
<1>2. /\ doing # NoVerb /\ doing \in PageVerbs /\ gate = "held" /\ d \in Sides
      /\ doing.op \in {"gen", "burn", "open"} /\ doing.from \in Nat /\ doing.len \in Nat
      /\ n \in 0 .. PadSize
  BY <1>1, VerbFields DEF PageInv
<1>3. /\ doing' \in PageVerbs /\ doing'.op = doing.op /\ doing'.half = d
      /\ doing'.from = doing.from /\ doing'.len = doing.len /\ doing'.step = "mark"
  BY <1>1, <1>2 DEF PageVerbs, Steps
<1>4. /\ page' \in [Sides -> {None} \cup 0 .. PadSize] /\ page'[d] = n
      /\ \A e \in Sides : e # d => page'[e] = page[e]
  BY <1>1, <1>2 DEF PageInv, PageShape
<1>5. PageShape'
  BY <1>1, <1>2, <1>3, <1>4, VerbsAreNotNone DEF PageInv, PageShape
<1>6. n # None /\ (PairWhole => PairWhole')
  BY <1>2, <1>4, PagesAreNumbers DEF PairWhole
<1>7. CASE doing.op = "gen"
  <2>1. \A e \in Sides, o \in Symbols : ~Put(e, o)
    BY <1>1, <1>2, <1>7 DEF PageInv, OnlyWholePairs, PairWhole
  <2> QED
    BY <1>1, <1>3, <1>5, <1>7, <2>1
    DEF PageInv, OnlyWholePairs, MarksCover, WorksAboveOutputs, Put, Outputs
<1>8. CASE doing.op # "gen"
  <2>1. /\ Outputs /\ PairWhole
        /\ d \notin exposed => /\ page[d] <= doing.from
                               /\ \A o \in Symbols : Put(d, o) => o < doing.from
    BY <1>1, <1>2, <1>8 DEF PageInv, OnlyWholePairs, WorksAboveOutputs, Outputs
  <2>2. OnlyWholePairs'
    BY <1>1, <1>3, <1>6, <1>8, <2>1 DEF PageInv, OnlyWholePairs, Put
  <2>3. MarksCover'
    <3>1. d \notin exposed => \A o \in Symbols : Put(d, o) => page'[d] > o
      BY <1>2, <1>4, <2>1 DEF Symbols
    <3> QED
      BY <1>1, <1>4, <3>1 DEF PageInv, MarksCover, Put
  <2>4. WorksAboveOutputs'
    BY <1>1, <1>3, <1>4, <2>1 DEF WorksAboveOutputs, Put
  <2> QED
    BY <1>5, <2>2, <2>3, <2>4 DEF PageInv
<1> QED
  BY <1>7, <1>8

(* A line is appended to the marks of the half that a verb works on, or a  *)
(* part of one, or nothing: what came out stays covered.                   *)
LEMMA AppendedStaysCovered ==
  ASSUME PageInv, doing.step = "mark",
         NEW x \in {Partial, doing.from + doing.len}, Appends(doing.half, x),
         UNCHANGED <<page, exposed, startUse, symUse>>
  PROVE  MarksCover'
<1>. DEFINE d == doing.half
<1>1. /\ doing # NoVerb /\ d \in Sides /\ doing.op \in {"gen", "burn", "open"}
      /\ doing.from \in Nat /\ doing.len \in Nat /\ x \in Lines
  BY VerbFields, LinesAreInts DEF PageInv, Lines, Glued
<1>2. /\ \A e \in Sides : e # d => marks'[e] = marks[e]
      /\ glued' \in {glued, glued \cup {d}, glued \ {d}}
      /\ d \notin glued' => marks'[d] = Append(marks[d], x)
      /\ d \notin glued' => d \notin glued \/ x # Partial
  BY <1>1, AppendsEffect DEF PageInv
<1>3. SUFFICES ASSUME NEW e \in Sides \ exposed, NEW o \in Symbols, Put(e, o)
               PROVE  IF e \in glued' THEN page[e] > o
                      ELSE \E i \in DOMAIN marks'[e] : marks'[e][i] > o
  BY DEF MarksCover, Put
<1>4. IF e \in glued THEN page[e] > o ELSE \E i \in DOMAIN marks[e] : marks[e][i] > o
  BY <1>3 DEF PageInv, MarksCover
<1>5. CASE e # d
  BY <1>2, <1>4, <1>5
<1>6. CASE e = d
  <2>1. Outputs
    BY <1>1, <1>3, <1>6 DEF PageInv, OnlyWholePairs, Outputs
  <2>2. o < doing.from /\ page[d] = doing.from + doing.len
    BY <2>1, <1>3, <1>6 DEF PageInv, WorksAboveOutputs
  <2>3. page[d] > o
    BY <2>2, <1>1 DEF Symbols
  <2>4. CASE d \notin glued'
    <3>1. marks[d] \in Seq(Lines) /\ marks'[d] = Append(marks[d], x)
      BY <1>1, <1>2, <2>4 DEF PageInv, PageShape
    <3>2. CASE d \notin glued
      <4>1. PICK i \in DOMAIN marks[d] : marks[d][i] > o
        BY <1>4, <1>6, <3>2
      <4>2. i \in DOMAIN marks'[d] /\ marks'[d][i] = marks[d][i]
        BY <1>1, <3>1, <4>1, AppendKeeps
      <4> QED
        BY <1>6, <2>4, <4>1, <4>2
    <3>3. CASE d \in glued
      <4>1. x = doing.from + doing.len
        BY <1>2, <2>4, <3>3
      <4>2. x > o
        BY <1>1, <2>2, <4>1 DEF Symbols
      <4>3. Len(marks[d]) + 1 \in DOMAIN marks'[d] /\ marks'[d][Len(marks[d]) + 1] = x
        BY <1>1, <3>1, AppendKeeps
      <4> QED
        BY <1>6, <2>4, <4>2, <4>3
    <3> QED
      BY <3>2, <3>3
  <2> QED
    BY <1>6, <2>3, <2>4
<1> QED
  BY <1>5, <1>6

LEMMA AppendMarkKeeps ==
  ASSUME PageInv, AppendMark
  PROVE  PageInv'
<1>. DEFINE d == doing.half
            n == doing.from + doing.len
            other == CHOOSE e \in Sides : e # FirstSide
<1>1. /\ doing.step = "mark" /\ Appends(d, n) /\ bare' = bare \ {d}
      /\ UNCHANGED <<page, exposed, startUse, symUse>>
  BY DEF AppendMark
<1>2. /\ doing # NoVerb /\ doing \in PageVerbs /\ gate = "held" /\ d \in Sides
      /\ doing.op \in {"gen", "burn", "open"} /\ doing.from \in Nat /\ doing.len \in Nat
      /\ n \in 0 .. PadSize
  BY <1>1, VerbFields DEF PageInv
<1>3. n \in Lines
  BY <1>2 DEF Lines, Glued
<1>4. /\ marks' \in [Sides -> Seq(Lines)] /\ marks'[d] # <<>>
      /\ \A e \in Sides : e # d => marks'[e] = marks[e]
      /\ glued' \in {glued, glued \cup {d}, glued \ {d}}
      /\ d \notin glued' => marks'[d] = Append(marks[d], n)
  BY <1>1, <1>2, <1>3, AppendsEffect DEF PageInv
<1>5. MarksCover'
  BY <1>1, AppendedStaysCovered
<1>6. bare' \subseteq Sides /\ glued' \subseteq Sides /\ \A e \in bare' : marks'[e] # <<>>
  BY <1>1, <1>2, <1>4 DEF PageInv, PageShape
<1>7. CASE doing.op # "gen"
  <2>1. doing' = [doing EXCEPT !.step = "out"] /\ gate' = gate
    BY <1>7 DEF AppendMark, StepsTo
  <2>2. /\ doing' \in PageVerbs /\ doing'.op = doing.op /\ doing'.half = d
        /\ doing'.from = doing.from /\ doing'.len = doing.len /\ doing'.step = "out"
    BY <1>2, <2>1 DEF PageVerbs, Steps
  <2>3. PageShape'
    BY <1>1, <1>2, <1>4, <1>6, <1>7, <2>1, <2>2, VerbsAreNotNone DEF PageInv, PageShape
  <2>4. /\ Outputs /\ PairWhole
        /\ d \notin exposed => /\ page[d] = n
                               /\ \A o \in Symbols : Put(d, o) => o < doing.from
    BY <1>1, <1>2, <1>7 DEF PageInv, OnlyWholePairs, WorksAboveOutputs, Outputs
  <2>5. OnlyWholePairs'
    BY <1>1, <1>7, <2>2, <2>4 DEF OnlyWholePairs, Put, PairWhole
  <2>6. d \notin glued' => \E i \in DOMAIN marks'[d] : marks'[d][i] = n
    <3>1. marks[d] \in Seq(Lines)
      BY <1>2 DEF PageInv, PageShape
    <3> QED
      BY <1>3, <1>4, <3>1, AppendKeeps
  <2>7. WorksAboveOutputs'
    BY <1>1, <2>2, <2>4, <2>6 DEF WorksAboveOutputs, Put
  <2> QED
    BY <1>5, <2>3, <2>5, <2>7 DEF PageInv
<1>8. CASE doing.op = "gen"
  <2>1. \/ /\ doing' = [doing EXCEPT !.half = other, !.step = "page"] /\ gate' = gate
        \/ doing' = NoVerb /\ gate' = "free"
    BY <1>8 DEF AppendMark, VerbEnds
  <2>2. \A e \in Sides, o \in Symbols : ~Put(e, o)
    BY <1>1, <1>8 DEF PageInv, OnlyWholePairs
  <2>3. CASE doing' = NoVerb /\ gate' = "free"
    <3>1. doing'.op = "none" /\ doing'.step = "none"
      BY <2>3 DEF NoVerb
    <3>2. PageShape'
      BY <1>1, <1>4, <1>6, <2>3, <3>1 DEF PageInv, PageShape, NoVerb
    <3> QED
      BY <1>1, <1>5, <2>2, <2>3, <3>1, <3>2
      DEF PageInv, OnlyWholePairs, WorksAboveOutputs, Put, Outputs, NoVerb
  <2>4. CASE doing' = [doing EXCEPT !.half = other, !.step = "page"] /\ gate' = gate
    <3>1. other \in Sides
      BY TheSides
    <3> HIDE DEF other
    <3>2. /\ doing' \in PageVerbs /\ doing'.op = "gen" /\ doing'.step = "page"
          /\ doing'.from = doing.from /\ doing'.len = doing.len
      BY <1>2, <1>8, <2>4, <3>1 DEF PageVerbs, Steps
    <3>3. PageShape'
      BY <1>1, <1>2, <1>4, <1>6, <2>4, <3>2, VerbsAreNotNone DEF PageInv, PageShape
    <3> QED
      BY <1>1, <1>5, <2>2, <3>2, <3>3
      DEF PageInv, OnlyWholePairs, WorksAboveOutputs, Put, Outputs
  <2> QED
    BY <2>1, <2>3, <2>4
<1> QED
  BY <1>7, <1>8

LEMMA CallCutKeeps ==
  ASSUME PageInv, CallCut
  PROVE  PageInv'
<1>. DEFINE d == doing.half
            n == doing.from + doing.len
<1>1. /\ doing.step # "none" /\ doing' = NoVerb /\ gate' \in {"free", "stale"}
      /\ UNCHANGED <<page, exposed, startUse, symUse>>
      /\ \/ UNCHANGED <<marks, bare, glued>>
         \/ /\ doing.step = "mark"
            /\ \/ Appends(d, Partial) /\ bare' = bare \cup {d}
               \/ Appends(d, n) /\ bare' = bare \cup {d}
               \/ Appends(d, n) /\ bare' = bare \ {d}
  BY DEF CallCut, VerbEnds
<1>2. CASE UNCHANGED <<marks, bare, glued>>
  BY <1>1, <1>2, EndsKeep
<1>3. CASE /\ doing.step = "mark"
           /\ \/ Appends(d, Partial) /\ bare' = bare \cup {d}
              \/ Appends(d, n) /\ bare' = bare \cup {d}
              \/ Appends(d, n) /\ bare' = bare \ {d}
  <2>1. d \in Sides /\ n \in Lines /\ Partial \in Lines
    BY <1>1, VerbFields, LinesAreInts DEF PageInv, Lines, Glued
  <2>2. PICK x \in {Partial, n} : Appends(d, x) /\ bare' \in {bare \cup {d}, bare \ {d}}
    BY <1>3, <2>1
  <2>3. /\ marks' \in [Sides -> Seq(Lines)] /\ marks'[d] # <<>>
        /\ \A e \in Sides : e # d => marks'[e] = marks[e]
        /\ glued' \in {glued, glued \cup {d}, glued \ {d}}
    BY <2>1, <2>2, AppendsEffect DEF PageInv
  <2>4. doing'.op = "none" /\ doing'.step = "none"
    BY <1>1 DEF NoVerb
  <2>5. bare' \subseteq Sides /\ glued' \subseteq Sides /\ \A e \in bare' : marks'[e] # <<>>
    BY <2>1, <2>2, <2>3 DEF PageInv, PageShape
  <2>6. PageShape'
    BY <1>1, <2>3, <2>4, <2>5 DEF PageInv, PageShape, NoVerb
  <2>7. MarksCover'
    BY <1>1, <1>3, <2>2, AppendedStaysCovered
  <2>8. OnlyWholePairs' /\ WorksAboveOutputs'
    BY <1>1, <2>4 DEF PageInv, OnlyWholePairs, WorksAboveOutputs, Put, Outputs, PairWhole, NoVerb
  <2> QED
    BY <2>6, <2>7, <2>8 DEF PageInv
<1> QED
  BY <1>1, <1>2, <1>3

(* What an output adds to what came out.                                   *)
LEMMA PageOutUses ==
  ASSUME PageInv, PageOut
  PROVE  /\ doing.half \in Sides /\ Outputs /\ doing.step = "out"
         /\ doing.from \in Nat /\ doing.len \in Nat /\ doing.from + doing.len <= PadSize
         /\ startUse' = [startUse EXCEPT ![doing.half] =
              [o \in Symbols |-> startUse[doing.half][o]
                                   + IF doing.len > 0 /\ o = doing.from THEN 1 ELSE 0]]
         /\ symUse' = [symUse EXCEPT ![doing.half] =
              [o \in Symbols |-> symUse[doing.half][o]
                                   + IF o \in doing.from .. doing.from + doing.len - 1
                                     THEN 1 ELSE 0]]
         /\ doing' = NoVerb /\ gate' = "free" /\ UNCHANGED <<page, marks, bare, glued, exposed>>
<1>1. doing.step = "out"
  BY DEF PageOut
<1>2. /\ doing # NoVerb /\ doing.half \in Sides /\ doing.op \in {"gen", "burn", "open"}
      /\ doing.from \in Nat /\ doing.len \in Nat /\ doing.from + doing.len <= PadSize
  BY <1>1, VerbFields, PagesAreNumbers DEF PageInv
<1>3. Outputs
  BY <1>1, <1>2 DEF PageInv, PageShape, Outputs
<1> QED
  BY <1>1, <1>2, <1>3 DEF PageOut, VerbEnds, disk

LEMMA PageOutKeeps ==
  ASSUME PageInv, PageOut
  PROVE  PageInv'
<1>. DEFINE d == doing.half
            n == doing.from + doing.len
            one(o) == IF doing.len > 0 /\ o = doing.from THEN 1 ELSE 0
            in(o) == IF o \in doing.from .. doing.from + doing.len - 1 THEN 1 ELSE 0
            starts == [o \in Symbols |-> startUse[d][o] + one(o)]
            syms == [o \in Symbols |-> symUse[d][o] + in(o)]
<1>1. /\ d \in Sides /\ Outputs /\ doing.step = "out"
      /\ doing.from \in Nat /\ doing.len \in Nat
      /\ startUse' = [startUse EXCEPT ![d] = starts]
      /\ symUse' = [symUse EXCEPT ![d] = syms]
      /\ doing' = NoVerb /\ gate' = "free" /\ UNCHANGED <<page, marks, bare, glued, exposed>>
  BY PageOutUses
<1>2. /\ startUse \in [Sides -> [Symbols -> Nat]] /\ symUse \in [Sides -> [Symbols -> Nat]]
  BY DEF PageInv, PageShape
<1>3. \A o \in Symbols : one(o) \in Nat /\ in(o) \in Nat
  OBVIOUS
<1>4. \A o \in Symbols : one(o) > 0 \/ in(o) > 0 => o < n
  BY <1>1 DEF Symbols
<1>5. \A o \in Symbols : starts[o] = startUse[d][o] + one(o) /\ syms[o] = symUse[d][o] + in(o)
  OBVIOUS
<1> HIDE DEF one, in
<1>6. starts \in [Symbols -> Nat] /\ syms \in [Symbols -> Nat]
  BY <1>1, <1>2, <1>3
<1> HIDE DEF starts, syms
<1>7. doing'.op = "none" /\ doing'.step = "none"
  BY <1>1 DEF NoVerb
<1>8. startUse' \in [Sides -> [Symbols -> Nat]] /\ symUse' \in [Sides -> [Symbols -> Nat]]
  BY <1>1, <1>2, <1>6
<1>9. PageShape'
  BY <1>1, <1>7, <1>8 DEF PageInv, PageShape, NoVerb
<1>10. \A e \in Sides, o \in Symbols :
         symUse'[e][o] > 0 \/ startUse'[e][o] > 0 => Put(e, o) \/ (e = d /\ o < n)
  <2>1. ASSUME NEW o \in Symbols, syms[o] > 0 \/ starts[o] > 0
        PROVE  Put(d, o) \/ o < n
    <3>1. startUse[d][o] \in Nat /\ symUse[d][o] \in Nat /\ one(o) \in Nat /\ in(o) \in Nat
      BY <1>1, <1>2, <1>3
    <3> QED
      BY <1>4, <1>5, <2>1, <3>1 DEF Put
  <2> QED
    BY <1>1, <1>2, <2>1 DEF Put
<1>11. /\ PairWhole
       /\ d \notin exposed =>
            /\ page[d] = n
            /\ d \notin glued => \E i \in DOMAIN marks[d] : marks[d][i] = n
  BY <1>1 DEF PageInv, OnlyWholePairs, WorksAboveOutputs
<1>12. OnlyWholePairs' /\ WorksAboveOutputs'
  BY <1>1, <1>7, <1>11 DEF OnlyWholePairs, WorksAboveOutputs, Outputs, NoVerb, PairWhole
<1>13. MarksCover'
  <2>1. ASSUME NEW e \in Sides \ exposed, NEW o \in Symbols, Put(e, o) \/ (e = d /\ o < n)
        PROVE  IF e \in glued THEN page[e] > o ELSE \E i \in DOMAIN marks[e] : marks[e][i] > o
    <3>1. CASE Put(e, o)
      BY <3>1 DEF PageInv, MarksCover
    <3>2. CASE e = d /\ o < n
      <4>1. n \in Int /\ o \in Int
        BY <1>1 DEF Symbols
      <4> QED
        BY <1>11, <3>2, <4>1
    <3> QED
      BY <2>1, <3>1, <3>2
  <2> QED
    BY <1>1, <1>10, <2>1 DEF MarksCover, Put
<1> QED
  BY <1>9, <1>12, <1>13 DEF PageInv

LEMMA RemoveHalfPairKeeps ==
  ASSUME PageInv, RemoveHalfPair
  PROVE  PageInv'
<1>1. /\ gate = "free" /\ ~PairWhole
      /\ page' = [e \in Sides |-> None] /\ marks' = [e \in Sides |-> <<>>]
      /\ bare' = {} /\ glued' = {} /\ exposed' = {}
      /\ UNCHANGED <<gate, doing, startUse, symUse>>
  BY DEF RemoveHalfPair
<1>2. \A e \in Sides, o \in Symbols : ~Put(e, o)
  BY <1>1 DEF PageInv, OnlyWholePairs
<1>3. doing = NoVerb
  BY <1>1 DEF PageInv, PageShape
<1>4. marks' \in [Sides -> Seq(Lines)] /\ page' \in [Sides -> {None} \cup 0 .. PadSize]
  BY <1>1
<1>5. PageShape'
  BY <1>1, <1>3, <1>4 DEF PageInv, PageShape
<1>6. OnlyWholePairs' /\ MarksCover' /\ WorksAboveOutputs'
  BY <1>1, <1>2, <1>3 DEF OnlyWholePairs, MarksCover, WorksAboveOutputs, Outputs, Put, NoVerb
<1> QED
  BY <1>5, <1>6 DEF PageInv

(* A last line that no mark is on covers nothing.                          *)
LEMMA RemoveLastLineKeeps ==
  ASSUME PageInv, NEW d \in Sides, RemoveLastLine(d)
  PROVE  PageInv'
<1>1. /\ gate = "free" /\ marks[d] # <<>> /\ marks[d][Len(marks[d])] < 0
      /\ marks' = [marks EXCEPT ![d] = Front(marks[d])] /\ bare' = bare \ {d}
      /\ UNCHANGED <<page, glued, exposed, gate, doing, startUse, symUse>>
  BY DEF RemoveLastLine, Last
<1>2. doing = NoVerb /\ marks \in [Sides -> Seq(Lines)] /\ marks[d] \in Seq(Lines)
  BY <1>1 DEF PageInv, PageShape
<1>3. /\ Front(marks[d]) \in Seq(Lines)
      /\ \A i \in DOMAIN marks[d] :
           i # Len(marks[d]) => i \in DOMAIN Front(marks[d]) /\ Front(marks[d])[i] = marks[d][i]
  BY <1>1, <1>2, FrontKeeps
<1>4. /\ marks' \in [Sides -> Seq(Lines)] /\ marks'[d] = Front(marks[d])
      /\ \A e \in Sides : e # d => marks'[e] = marks[e]
  BY <1>1, <1>2, <1>3
<1>5. PageShape'
  BY <1>1, <1>2, <1>4 DEF PageInv, PageShape
<1>6. OnlyWholePairs' /\ WorksAboveOutputs'
  BY <1>1, <1>2 DEF PageInv, OnlyWholePairs, WorksAboveOutputs, Outputs, Put, NoVerb, PairWhole
<1>7. MarksCover'
  <2>1. ASSUME NEW e \in Sides, NEW o \in Symbols,
               IF e \in glued THEN page[e] > o ELSE \E i \in DOMAIN marks[e] : marks[e][i] > o
        PROVE  IF e \in glued THEN page[e] > o ELSE \E i \in DOMAIN marks'[e] : marks'[e][i] > o
    <3>1. CASE e \in glued \/ e # d
      BY <1>4, <2>1, <3>1
    <3>2. CASE e \notin glued /\ e = d
      <4>1. PICK i \in DOMAIN marks[d] : marks[d][i] > o
        BY <2>1, <3>2
      <4>2. marks[d][i] \in Int /\ marks[d][Len(marks[d])] \in Int /\ o \in Nat
        BY <1>1, <1>2, <4>1, LinesOfMarks DEF Symbols
      <4>3. i # Len(marks[d])
        BY <1>1, <4>1, <4>2
      <4> QED
        BY <1>3, <1>4, <3>2, <4>1, <4>3
    <3> QED
      BY <3>1, <3>2
  <2> QED
    BY <1>1, <2>1 DEF PageInv, MarksCover, Put
<1> QED
  BY <1>5, <1>6, <1>7 DEF PageInv

LEMMA PutPageBackKeeps ==
  ASSUME PageInv, NEW d \in Sides, PutPageBack(d)
  PROVE  PageInv'
<1>1. /\ gate = "free" /\ PairWhole
      /\ exposed' = IF d \in glued THEN exposed \cup {d} ELSE exposed
      /\ UNCHANGED <<marks, bare, glued, gate, doing, startUse, symUse>>
  BY DEF PutPageBack
<1>2. PICK o \in 0 .. page[d] - 1 : page' = [page EXCEPT ![d] = o]
  BY DEF PutPageBack
<1>3. page[d] \in 0 .. PadSize /\ o \in 0 .. PadSize
  BY <1>1, <1>2, WholePages, PagesAreNumbers DEF PageInv
<1>4. /\ page' \in [Sides -> {None} \cup 0 .. PadSize]
      /\ \A e \in Sides : e # d => page'[e] = page[e]
      /\ page'[d] = o /\ doing = NoVerb
  BY <1>1, <1>2, <1>3 DEF PageInv, PageShape
<1>5. PairWhole'
  BY <1>1, <1>3, <1>4, PagesAreNumbers DEF PairWhole
<1>6. PageShape'
  BY <1>1, <1>4 DEF PageInv, PageShape
<1>7. OnlyWholePairs' /\ MarksCover' /\ WorksAboveOutputs'
  BY <1>1, <1>4, <1>5
  DEF PageInv, OnlyWholePairs, MarksCover, WorksAboveOutputs, Outputs, Put, NoVerb
<1> QED
  BY <1>6, <1>7 DEF PageInv
-----------------------------------------------------------------------------
LEMMA PageFirst == PageInit => PageInv
<1>. SUFFICES ASSUME PageInit PROVE PageInv
  OBVIOUS
<1>1. /\ page = [d \in Sides |-> None] /\ marks = [d \in Sides |-> <<>>]
      /\ bare = {} /\ glued = {} /\ exposed = {} /\ gate = "free" /\ doing = NoVerb
      /\ startUse = [d \in Sides |-> [o \in Symbols |-> 0]]
      /\ symUse = [d \in Sides |-> [o \in Symbols |-> 0]]
  BY DEF PageInit
<1>2. /\ marks \in [Sides -> Seq(Lines)] /\ page \in [Sides -> {None} \cup 0 .. PadSize]
      /\ startUse \in [Sides -> [Symbols -> Nat]] /\ symUse \in [Sides -> [Symbols -> Nat]]
  BY <1>1
<1>3. \A d \in Sides, o \in Symbols : ~Put(d, o)
  BY <1>1 DEF Put
<1>4. PageShape
  BY <1>1, <1>2 DEF PageShape, NoVerb
<1>5. OnlyWholePairs /\ MarksCover /\ WorksAboveOutputs
  BY <1>1, <1>3 DEF OnlyWholePairs, MarksCover, WorksAboveOutputs, Outputs, NoVerb
<1> QED
  BY <1>4, <1>5 DEF PageInv

LEMMA PageStep == PageInv /\ [PageNext]_pageVars => PageInv'
<1>. SUFFICES ASSUME PageInv, [PageNext]_pageVars PROVE PageInv'
  OBVIOUS
<1>1. CASE UNCHANGED pageVars
  BY <1>1 DEF pageVars, disk, PageInv, PageShape, OnlyWholePairs, MarksCover,
              WorksAboveOutputs, Outputs, Put, PairWhole
<1>2. CASE \/ GenPages \/ GenRefused \/ WritePage \/ AppendMark \/ PageOut \/ CallCut
           \/ RemoveStaleGate \/ RemoveHalfPair
  BY <1>2, GenPagesKeeps, GenRefusedKeeps, WritePageKeeps, AppendMarkKeeps, PageOutKeeps,
     CallCutKeeps, RemoveStaleGateKeeps, RemoveHalfPairKeeps
<1>3. ASSUME NEW d \in Sides, \E len \in 0 .. PadSize : Burn(d, len) PROVE PageInv'
  BY <1>3, BurnKeeps
<1>4. ASSUME NEW d \in Sides, \E from, len \in 0 .. PadSize : Open(d, from, len)
      PROVE  PageInv'
  BY <1>4, OpenKeeps
<1>5. ASSUME NEW d \in Sides, RemoveLastLine(d) \/ PutPageBack(d) PROVE PageInv'
  BY <1>5, RemoveLastLineKeeps, PutPageBackKeeps
<1> QED
  BY <1>1, <1>2, <1>3, <1>4, <1>5 DEF PageNext

LEMMA PageIsInv == PageSpec => []PageInv
BY PageFirst, PageStep, PTL DEF PageSpec
-----------------------------------------------------------------------------
(* An output uses what nothing came out of, and only an output uses any.   *)
LEMMA PageOutIsOtpStep ==
  ASSUME PageInv, PageOut, doing.half \notin exposed
  PROVE  PageOtp!Next \/ UNCHANGED <<startUse, symUse>>
<1>. DEFINE d == doing.half
            s == doing.from
            window == doing.from .. doing.from + doing.len - 1
<1>1. /\ d \in Sides /\ Outputs /\ s \in Nat /\ doing.len \in Nat
      /\ s + doing.len <= PadSize
      /\ startUse' = [startUse EXCEPT ![d] =
           [o \in Symbols |-> startUse[d][o] + IF doing.len > 0 /\ o = s THEN 1 ELSE 0]]
      /\ symUse' = [symUse EXCEPT ![d] =
           [o \in Symbols |-> symUse[d][o] + IF o \in window THEN 1 ELSE 0]]
  BY PageOutUses
<1>2. /\ startUse \in [Sides -> [Symbols -> Nat]] /\ symUse \in [Sides -> [Symbols -> Nat]]
  BY DEF PageInv, PageShape
<1>3. \A o \in Symbols : o >= s => startUse[d][o] = 0 /\ symUse[d][o] = 0
  <2>1. \A o \in Symbols : Put(d, o) => o < s
    BY <1>1 DEF PageInv, WorksAboveOutputs
  <2>2. startUse[d] \in [Symbols -> Nat] /\ symUse[d] \in [Symbols -> Nat]
    BY <1>1, <1>2
  <2>3. \A o \in Symbols : o \in Int /\ s \in Int
    BY <1>1 DEF Symbols
  <2> QED
    BY <2>1, <2>2, <2>3 DEF Put
<1>4. CASE doing.len = 0
  <2>1. \A o \in Symbols : o \notin window
    BY <1>1, <1>4 DEF Symbols
  <2>2. /\ startUse[d] = [o \in Symbols |-> startUse[d][o]]
        /\ symUse[d] = [o \in Symbols |-> symUse[d][o]]
        /\ \A o \in Symbols : startUse[d][o] + 0 = startUse[d][o] /\ symUse[d][o] + 0 = symUse[d][o]
    BY <1>1, <1>2
  <2>3. [o \in Symbols |-> startUse[d][o] + IF doing.len > 0 /\ o = s THEN 1 ELSE 0]
          = startUse[d]
    BY <1>4, <2>2
  <2>4. [o \in Symbols |-> symUse[d][o] + IF o \in window THEN 1 ELSE 0] = symUse[d]
    BY <2>1, <2>2
  <2> QED
    BY <1>1, <1>2, <2>3, <2>4
<1>5. CASE doing.len > 0
  <2>1. s \in Symbols /\ window \in SUBSET Symbols
    BY <1>1, <1>5, PagesAreNumbers DEF Symbols
  <2>2. [o \in Symbols |-> startUse[d][o] + IF doing.len > 0 /\ o = s THEN 1 ELSE 0]
          = [startUse[d] EXCEPT ![s] = startUse[d][s] + 1]
    <3>1. startUse[d] \in [Symbols -> Nat]
      BY <1>1, <1>2
    <3> DEFINE f == [o \in Symbols |->
                      startUse[d][o] + IF doing.len > 0 /\ o = s THEN 1 ELSE 0]
               g == [startUse[d] EXCEPT ![s] = startUse[d][s] + 1]
    <3>2. f = [o \in Symbols |-> f[o]] /\ g = [o \in Symbols |-> g[o]]
      BY <3>1
    <3>3. ASSUME NEW o \in Symbols PROVE f[o] = g[o]
      <4>1. startUse[d][o] \in Nat
        BY <3>1
      <4>2. f[o] = startUse[d][o] + IF o = s THEN 1 ELSE 0
        BY <1>5
      <4>3. g[o] = IF o = s THEN startUse[d][o] + 1 ELSE startUse[d][o]
        BY <2>1, <3>1
      <4> QED
        BY <4>1, <4>2, <4>3
    <3> HIDE DEF f, g
    <3>4. f = g
      BY <3>2, <3>3
    <3> QED
      BY <3>4 DEF f, g
  <2>3. startUse' = [startUse EXCEPT ![d][s] = startUse[d][s] + 1]
    BY <1>1, <2>2
  <2>4. PageOtp!UseRecord(d, s)
    BY <1>3, <2>3 DEF PageOtp!UseRecord
  <2>5. \A w \in window, o \in Symbols : o >= w => symUse[d][o] = 0
    <3>1. \A w \in window, o \in Symbols : o >= w => o >= s
      BY <1>1 DEF Symbols
    <3> QED
      BY <1>3, <3>1
  <2>6. PageOtp!UseWindow(d, window)
    BY <1>1, <2>5 DEF PageOtp!UseWindow
  <2> QED
    BY <1>1, <2>1, <2>4, <2>6 DEF PageOtp!Next
<1> QED
  BY <1>1, <1>4, <1>5

LEMMA PageStepIsOtpStep ==
  PageInv /\ [PageNext]_pageVars => [PageOtp!Next \/ ExposedOut]_<<startUse, symUse>>
<1>. SUFFICES ASSUME PageInv, [PageNext]_pageVars
              PROVE  PageOtp!Next \/ ExposedOut \/ UNCHANGED <<startUse, symUse>>
  OBVIOUS
<1>1. CASE PageOut
  BY <1>1, PageOutIsOtpStep DEF PageOut, ExposedOut
<1>2. CASE ~PageOut
  BY <1>2 DEF PageNext, pageVars, GenPages, GenRefused, WritePage, AppendMark, CallCut,
    RemoveStaleGate, RemoveHalfPair, Burn, Open, RemoveLastLine, PutPageBack, Begins
<1> QED
  BY <1>1, <1>2

(* Each half of a v1 pad directory is a one-time pad: whatever call was cut*)
(* off at whichever write, whatever line was lost, joined or removed, and  *)
(* whatever old pad.json was put back, no symbol comes out twice and what  *)
(* comes out climbs. The one exception is the half whose pad.json was put  *)
(* back while the mark of an output was lost to a joined line.             *)
THEOREM PagesKeepThePromise == PageSpec => PagePromise
<1>1. PageInit => PageOtp!Init
  BY DEF PageInit, PageOtp!Init
<1> QED
  BY <1>1, PageIsInv, PageStepIsOtpStep, PTL DEF PageSpec, PagePromise

(* The types of PagePad, and its lock: a verb runs when it is held.        *)
THEOREM PageTypesAreKept == PageSpec => []PageTypeOK
<1>1. PageInv => PageTypeOK
  <2>. SUFFICES ASSUME PageInv PROVE PageTypeOK
    OBVIOUS
  <2>1. \A d \in Sides : \A i \in DOMAIN marks[d] : marks[d][i] \in Glued .. PadSize
    BY LinesOfMarks DEF PageInv, PageShape, Lines
  <2>2. doing.half \in Sides /\ doing.from + doing.len \in 0 .. PadSize
    <3>1. CASE doing = NoVerb
      BY <3>1, TheSides, PagesAreNumbers DEF NoVerb
    <3>2. CASE doing # NoVerb
      BY <3>2, PagesAreNumbers DEF PageInv, PageShape, PageVerbs
    <3> QED
      BY <3>1, <3>2
  <2> QED
    BY <2>1, <2>2 DEF PageInv, PageShape, PageTypeOK
<1> QED
  BY <1>1, PageIsInv, PTL
=============================================================================
