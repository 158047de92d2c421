------------------------------ MODULE Ceremony ------------------------------
(***************************************************************************)
(* The physical ceremony: a pair made in a workspace, copied to two media, *)
(* compared, and only then removed; the hand-off accepted and the premises *)
(* withdrawn on a medium; and the assessment status derives                *)
(* (src/cli/v2/ceremony.ts, provenance.ts, withdrawal.ts and the facts     *)
(* truepad2.ts assembles).                                                 *)
(*                                                                         *)
(* There is one pair. The platform authority is here what PlatformWitness  *)
(* shows it to be: a rung that moves by the ladder only, whose call may    *)
(* fail before it was prepared, after, or after the TPM settled it. One    *)
(* position stands for both directions. A medium stands for the directory  *)
(* on it that got the pair.                                                *)
(***************************************************************************)
EXTENDS AssuranceLadder, DeploymentClaims, FileStates

CONSTANTS
  Media,       \* the two peer media, by the names they were given
  FirstMedium, \* the one copied first
  Trials       \* bounds on crashes, sidecars replaced, lost or restored, and all together

VARIABLES
  made,      \* how the pair was made, and whether it has a platform witness; or None
  maker,     \* how far ceremony create is
  workspace, \* the provenance the pair has there; None when it is not there
  oneMedium, \* the two names lead to one directory
  copy,      \* copy[m]: the pair on medium m
  prov,      \* prov[m]: its provenance.json; None when there is none that is valid
  sidecar,   \* media with a withdrawal.json of this pair
  job,       \* job[m]: a verb that has the authority's answer and the lock of m
  attested,  \* the rung of the pair in the authority's state file, settled or prepared
  settled,   \* the rung the TPM counter settled last
  marked,    \* the position the authority's witness has
  trusted,   \* the pair's authority is the one pinned here
  spent,     \* trials spent
  withdrawn  \* some withdraw reported success over a settled record

ceremonyVars == <<made, maker, workspace, oneMedium, copy, prov, sidecar, job, attested,
                  settled, marked, trusted, spent, withdrawn>>

rungs == <<attested, settled>>
authority == <<rungs, marked, trusted>>
creating == <<made, maker, workspace, oneMedium>>
onMedia == <<copy, prov, sidecar, job>>

Places == IF oneMedium THEN {FirstMedium} ELSE Media
Place(m) == IF oneMedium THEN FirstMedium ELSE m
Second == CHOOSE m \in Media : m # FirstMedium

GenRecord == [creation |-> "cli-gen", delivery |-> "local-only"]
CeremonyRecord(d) == [creation |-> "cli-ceremony", delivery |-> d]

Makings == [by : {"cli-gen", "cli-ceremony"}, tpm : BOOLEAN]
ProvenanceRecords ==
  {GenRecord, CeremonyRecord("local-only"),
   CeremonyRecord("physical-private-operator-asserted")}
Bodies == {"whole", "flipped", "cut", "destroyed"}

(* There are two media, and what is there is not None.                     *)
ASSUME TwoMedia == \E m \in Media : Media = {FirstMedium, m} /\ m # FirstMedium
ASSUME NoneIsNothing ==
  None \notin Makings \cup ProvenanceRecords \cup Bodies \cup {"accept", "withdraw"}

NoCopy == [body |-> None, pos |-> 0]
Whole == [body |-> "whole", pos |-> 0]

CeremonyInit ==
  /\ made = None /\ maker = "idle" /\ workspace = None /\ oneMedium = FALSE
  /\ copy = [m \in Media |-> NoCopy] /\ prov = [m \in Media |-> None]
  /\ sidecar = {} /\ job = [m \in Media |-> None]
  /\ attested = Ordinary /\ settled = Ordinary /\ marked = 0 /\ trusted = TRUE
  /\ spent = [t \in DOMAIN Trials |-> 0]
  /\ withdrawn = FALSE

Try(t) ==
  /\ spent[t] < Trials[t] /\ spent["any"] < Trials["any"]
  /\ spent' = [spent EXCEPT ![t] = @ + 1, !["any"] = @ + 1]

(* platformRecordAssurance: the rung after it, the one settled, and whether *)
(* it reported so. What was prepared before is settled first, which may    *)
(* fail; a refused increment may have moved the counter, and what was      *)
(* prepared is the state either way. A rung already there costs nothing.   *)
Answers(to) ==
  LET moves == trusted /\ AssuranceAdvanceOk(attested, to)
      Answer(rung, by, ok) == [rung |-> rung, settled |-> by, ok |-> ok]
  IN {Answer(attested, settled, FALSE)}
     \cup (IF trusted THEN {Answer(attested, attested, attested = to)} ELSE {})
     \cup (IF moves THEN {Answer(to, attested, FALSE), Answer(to, to, FALSE), Answer(to, to, TRUE)}
                    ELSE {})

Recorded(a) == attested' = a.rung /\ settled' = a.settled
----------------------------------------------------------------------------
(* A plain gen straight onto a medium.                                     *)
PlainGen(m, tpm) ==
  /\ made = None
  /\ made' = [by |-> "cli-gen", tpm |-> tpm]
  /\ copy' = [copy EXCEPT ![m] = Whole] /\ prov' = [prov EXCEPT ![m] = GenRecord]
  /\ UNCHANGED <<maker, workspace, oneMedium, sidecar, job, authority, spent, withdrawn>>

(* ceremonyCreate up to gen's return: nothing is on the media yet, so two  *)
(* names for one directory need not show.                                  *)
GenInWorkspace(tpm, same) ==
  /\ made = None
  /\ made' = [by |-> "cli-ceremony", tpm |-> tpm] /\ oneMedium' = same
  /\ workspace' = GenRecord /\ maker' = "generated"
  /\ UNCHANGED <<onMedia, authority, spent, withdrawn>>

MakerGoes(from, to) == maker = from /\ maker' = to
MakerStep(from, to) == MakerGoes(from, to) /\ UNCHANGED <<made, workspace, oneMedium>>
Stops(from) == MakerStep(from, "failed")

RecordCreated ==
  /\ maker = "generated"
  /\ IF ~made.tpm THEN MakerStep("generated", "recorded") /\ UNCHANGED rungs
     ELSE \E a \in Answers(CeremonyCreated) :
       /\ Recorded(a)
       /\ IF a.ok THEN MakerStep("generated", "recorded") ELSE Stops("generated")
  /\ UNCHANGED <<onMedia, marked, trusted, spent, withdrawn>>

WriteCreation ==
  /\ MakerGoes("recorded", "attributed") /\ workspace' = CeremonyRecord("local-only")
  /\ UNCHANGED <<made, oneMedium, onMedia, authority, spent, withdrawn>>

Before(m) == IF m = FirstMedium THEN "attributed" ELSE "copied first"
InCopy(m) == IF m = FirstMedium THEN "copying first" ELSE "copying second"
After(m) == IF m = FirstMedium THEN "copied first" ELSE "copied"

(* copyTreeDurably: the halves, which may come out wrong, then the sidecar.*)
CopyHalves(m) ==
  /\ MakerStep(Before(m), InCopy(m))
  /\ \E b \in {"whole", "flipped", "cut"} :
       copy' = [copy EXCEPT ![Place(m)] = [body |-> b, pos |-> 0]]
  /\ UNCHANGED <<prov, sidecar, job, authority, spent, withdrawn>>

CopySidecar(m) ==
  /\ MakerStep(InCopy(m), After(m))
  /\ prov' = [prov EXCEPT ![Place(m)] = workspace]
  /\ UNCHANGED <<copy, sidecar, job, authority, spent, withdrawn>>

(* requireDistinctMedia, now that both directories are there.              *)
CheckDistinct ==
  /\ IF oneMedium THEN Stops("copied") ELSE MakerStep("copied", "distinct")
  /\ UNCHANGED <<onMedia, authority, spent, withdrawn>>

SameAsWorkspace(m) == copy[Place(m)] = Whole /\ prov[Place(m)] = workspace

(* verifyMediumCopy, file by file, one medium after the other.             *)
CompareFirst ==
  /\ IF SameAsWorkspace(FirstMedium) THEN MakerStep("distinct", "compared first")
                                     ELSE Stops("distinct")
  /\ UNCHANGED <<onMedia, authority, spent, withdrawn>>

(* Mutant: the second medium is only loaded.                               *)
CompareNoSecond ==
  /\ MakerStep("compared first", "compared")
  /\ UNCHANGED <<onMedia, authority, spent, withdrawn>>

CompareSecond ==
  /\ IF SameAsWorkspace(Second) THEN MakerStep("compared first", "compared")
                                ELSE Stops("compared first")
  /\ UNCHANGED <<onMedia, authority, spent, withdrawn>>

(* loadMediumPair: a body of the right length loads whatever is in it.     *)
LoadsWhole(m) == copy[m].body \in {"whole", "flipped"}

ReloadBoth ==
  /\ IF \A m \in Media : LoadsWhole(Place(m)) THEN MakerStep("compared", "reloaded")
                                           ELSE Stops("compared")
  /\ UNCHANGED <<onMedia, authority, spent, withdrawn>>

(* A workspace that cannot be removed is a warning.                        *)
RemoveWorkspace ==
  /\ MakerGoes("reloaded", "done") /\ workspace' \in {None, workspace}
  /\ UNCHANGED <<made, oneMedium, onMedia, authority, spent, withdrawn>>

CreateStep ==
  \/ RecordCreated \/ WriteCreation
  \/ \E m \in Media : CopyHalves(m) \/ CopySidecar(m)
  \/ CheckDistinct \/ CompareFirst \/ CompareSecond \/ ReloadBoth \/ RemoveWorkspace

CreateDies ==
  /\ maker \notin {"idle", "failed", "done"} /\ Try("crash")
  /\ maker' = "failed"
  /\ UNCHANGED <<made, workspace, oneMedium, onMedia, authority, withdrawn>>
----------------------------------------------------------------------------
(* withPair and readProvenance: the lock is free, both halves load, and    *)
(* the record is of this pair.                                             *)
Opens(m) == m \in Places /\ job[m] = None /\ LoadsWhole(m)

(* The load-bearing transition of accept, to its answer.                   *)
Accept(m) ==
  /\ Opens(m) /\ m \notin sidecar
  /\ prov[m] = CeremonyRecord("local-only")
  /\ IF made.tpm
     THEN \E a \in Answers(HandoffAccepted) :
            /\ Recorded(a)
            /\ job' = IF a.ok THEN [job EXCEPT ![m] = "accept"] ELSE job
     ELSE job' = [job EXCEPT ![m] = "accept"] /\ UNCHANGED rungs
  /\ UNCHANGED <<creating, copy, prov, sidecar, marked, trusted, spent, withdrawn>>

(* The descriptive sidecar, and the report.                                *)
WriteAccepted(m) ==
  /\ job[m] = "accept" /\ job' = [job EXCEPT ![m] = None]
  /\ prov' = [prov EXCEPT ![m] = CeremonyRecord("physical-private-operator-asserted")]
  /\ UNCHANGED <<creating, copy, sidecar, authority, spent, withdrawn>>

(* Mutant: the sidecar decides whether it was withdrawn before.            *)
WithdrawSidecarFirst(m) ==
  /\ Opens(m)
  /\ job' = [job EXCEPT ![m] = "withdraw"]
  /\ UNCHANGED <<creating, copy, prov, sidecar, authority, spent, withdrawn>>

(* ceremonyWithdraw: already withdrawn by the authority that counts, which *)
(* is asked and not made to settle, or the terminal transition of it.      *)
Withdraw(m) ==
  /\ Opens(m)
  /\ IF IF made.tpm THEN trusted /\ attested = Withdrawn ELSE m \in sidecar
     THEN /\ withdrawn' = (withdrawn \/ ~made.tpm \/ settled = Withdrawn)
          /\ UNCHANGED <<job, rungs>>
     ELSE /\ UNCHANGED withdrawn
          /\ IF made.tpm
             THEN \E a \in Answers(Withdrawn) :
                    /\ Recorded(a)
                    /\ job' = IF a.ok THEN [job EXCEPT ![m] = "withdraw"] ELSE job
             ELSE job' = [job EXCEPT ![m] = "withdraw"] /\ UNCHANGED rungs
  /\ UNCHANGED <<creating, copy, prov, sidecar, marked, trusted, spent>>

WriteWithdrawal(m) ==
  /\ job[m] = "withdraw" /\ job' = [job EXCEPT ![m] = None]
  /\ sidecar' = sidecar \cup {m} /\ withdrawn' = TRUE
  /\ UNCHANGED <<creating, copy, prov, authority, spent>>

(* A burn or an open on a medium: refused behind the witness, which hears  *)
(* of it before anything leaves, and settles what was prepared.            *)
UseMedium(m) ==
  /\ Opens(m) /\ copy[m].pos = 0
  /\ made.tpm => trusted /\ marked = 0
  /\ copy' = [copy EXCEPT ![m].pos = 1] /\ marked' = IF made.tpm THEN 1 ELSE marked
  /\ settled' = attested
  /\ UNCHANGED <<creating, prov, sidecar, job, attested, trusted, spent, withdrawn>>

(* reconcile: any other verb that the authority answers settles what was   *)
(* prepared, a refused one too.                                            *)
SettlePrepared ==
  /\ trusted /\ settled # attested /\ settled' = attested
  /\ UNCHANGED <<creating, onMedia, attested, marked, trusted, spent, withdrawn>>

(* destroy: the tombstone stands, whatever else is left.                   *)
DestroyMedium(m) ==
  /\ m \in Places /\ job[m] = None /\ copy[m].body # None
  /\ copy' = [copy EXCEPT ![m].body = "destroyed"]
  /\ UNCHANGED <<creating, prov, sidecar, job, authority, spent, withdrawn>>

VerbDies(m) ==
  /\ job[m] # None /\ Try("crash") /\ job' = [job EXCEPT ![m] = None]
  /\ UNCHANGED <<creating, copy, prov, sidecar, authority, withdrawn>>
----------------------------------------------------------------------------
(* provenance.json is a replaceable file, withdrawal.json one that can be  *)
(* lost, a store one that can be restored, a pin one that can be moved.    *)
ReplaceProvenance(m) ==
  /\ m \in Places /\ LoadsWhole(m) /\ Try("replace")
  /\ \E r \in ProvenanceRecords \cup {None} :
       r # prov[m] /\ prov' = [prov EXCEPT ![m] = r]
  /\ UNCHANGED <<creating, copy, sidecar, job, authority, withdrawn>>

LoseWithdrawal(m) ==
  /\ m \in sidecar /\ LoadsWhole(m) /\ Try("replace") /\ sidecar' = sidecar \ {m}
  /\ UNCHANGED <<creating, copy, prov, job, authority, withdrawn>>

RestoreMedium(m) ==
  /\ LoadsWhole(m) /\ copy[m].pos = 1 /\ job[m] = None /\ Try("replace")
  /\ copy' = [copy EXCEPT ![m].pos = 0]
  /\ UNCHANGED <<creating, prov, sidecar, job, authority, withdrawn>>

MovePin ==
  /\ made # None /\ Try("pin") /\ trusted' = ~trusted
  /\ UNCHANGED <<creating, onMedia, rungs, marked, withdrawn>>

(* The authority's state file as it was at the counter's value, put back   *)
(* over one that was only prepared. An older one is refused: the anchor.   *)
PutRungBack ==
  /\ settled # attested /\ Try("replace") /\ attested' = settled
  /\ UNCHANGED <<creating, onMedia, settled, marked, trusted, withdrawn>>

CeremonyNext ==
  \/ \E tpm \in BOOLEAN :
       \/ \E m \in Media : PlainGen(m, tpm)
       \/ \E same \in BOOLEAN : GenInWorkspace(tpm, same)
  \/ CreateStep \/ CreateDies \/ SettlePrepared \/ MovePin \/ PutRungBack
  \/ \E m \in Media :
       \/ Accept(m) \/ WriteAccepted(m) \/ Withdraw(m) \/ WriteWithdrawal(m)
       \/ UseMedium(m) \/ DestroyMedium(m) \/ VerbDies(m)
       \/ ReplaceProvenance(m) \/ LoseWithdrawal(m) \/ RestoreMedium(m)
----------------------------------------------------------------------------
(* rollbackAuthorityForPair: the pinned authority, asked live.             *)
RollbackOf(m) ==
  IF ~made.tpm THEN [kind |-> "none"]
  ELSE [kind |-> "platform-monotonic",
        health |-> IF ~trusted THEN "inconsistent"
                   ELSE IF copy[m].pos < marked THEN "regressed" ELSE "healthy"]

(* assuranceAuthorityForPair.                                              *)
AssuranceOf ==
  IF ~made.tpm THEN "unavailable"
  ELSE IF ~trusted THEN "untrusted-authority"
  ELSE CASE attested = Ordinary -> "ordinary" [] attested = CeremonyCreated -> "ceremony-created"
         [] attested = HandoffAccepted -> "handoff-accepted" [] OTHER -> "withdrawn"

(* readProvenance, and provenanceBoundTo this pair.                        *)
Known(m) == prov[m] # None

(* assembleDeploymentFacts. A record that cannot be read, or is of another *)
(* pair, is unknown; a withdrawal on the medium outranks it.               *)
FactsOf(m) ==
  [creation |-> IF Known(m) THEN prov[m].creation ELSE "unknown",
   source |-> IF Known(m) THEN "external-declared" ELSE "unknown",
   delivery |-> IF Known(m) THEN prov[m].delivery ELSE "unknown",
   sealedAncestor |-> IF Known(m) THEN "no" ELSE "unknown",
   ceremonyPremises |-> IF m \in sidecar THEN "withdrawn"
                        ELSE IF ~Known(m) THEN "unknown"
                        ELSE IF prov[m] = GenRecord THEN "absent" ELSE "accepted",
   storage |-> "native",
   rollback |-> RollbackOf(m),
   assuranceAuthority |-> AssuranceOf]

Eligible(m) == Opens(m) /\ AssessDeployment(FactsOf(m)) = "conditionally-eligible"
----------------------------------------------------------------------------
CeremonyTypeOK ==
  /\ made = None \/ made \in Makings
  /\ workspace \in {None, GenRecord, CeremonyRecord("local-only")}
  /\ \A m \in Media : made # None => FactsOf(m) \in Facts
  /\ copy \in [Media -> [body : Bodies \cup {None}, pos : 0 .. 1]]
  /\ sidecar \subseteq Media /\ job \in [Media -> {None, "accept", "withdraw"}]
  /\ {attested, settled} \subseteq Ordinary .. Withdrawn /\ marked \in 0 .. 1

(* MAXIMUM-ASSURANCE.md: editing the pair's files "changes nothing the     *)
(* evaluator trusts", and a withdrawal "survives deleting or corrupting    *)
(* withdrawal.json, and survives restoring an older provenance.json". The  *)
(* strongest label is shown for a pair the ceremony made, with a hand-off  *)
(* both assertions were given for, that nobody was told is withdrawn, and  *)
(* on a store that is not behind one that was used. The telling that does  *)
(* not count is one the code makes too early: a withdraw that failed before*)
(* the TPM moved leaves its rung prepared, the next one says "already      *)
(* withdrawn" of it (ceremony.ts:1003-1015) and settles nothing, and the   *)
(* state file put back then takes the withdrawal away.                     *)
EligibleIsEarned ==
  \A m \in Media : Eligible(m) =>
    /\ made.by = "cli-ceremony" /\ attested = HandoffAccepted /\ ~withdrawn
    /\ \A n \in Media : copy[n].pos <= copy[m].pos

(* As long as ceremony create has not ended well the workspace holds the   *)
(* pair; when it has, two separate media do, unless one was destroyed or   *)
(* used since ("destroying the only good copy over it would be absurd").   *)
AGoodCopyStays ==
  maker # "idle" =>
    \/ workspace # None
    \/ /\ maker = "done" /\ ~oneMedium
       /\ \A m \in Media : copy[m].body \in {"whole", "destroyed"}
=============================================================================
