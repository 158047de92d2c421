------------------------------- MODULE Copies -------------------------------
(***************************************************************************)
(* One pad on several installations, and the envelopes between them:       *)
(* src/browser/ui/role.ts, and export-pair, import-pair, burn, open,       *)
(* retire and destroy of src/browser/engine/verbs.ts as far as they decide *)
(* which copy may use which half. Every copy holds both halves; the engine *)
(* burns the half of the role the page names, and the page takes the role  *)
(* from how the copy came here. What one store does about crashes is       *)
(* BrowserStore's; here a verb is one step and the channel is the matter:  *)
(* envelopes stay on the wire for ever, to be opened late, twice, out of   *)
(* order or never.                                                         *)
(***************************************************************************)
EXTENDS Integers, FiniteSets, Sequences

CONSTANTS
  Maker,        \* the installation that generates the pad
  Recipient,    \* the one installation its pad file is given to
  PadRecords,   \* authentication records of a half
  PadBytes,     \* encryption bytes of a half
  Ahead,        \* maxAuthLookahead
  MessageSizes, \* ciphertext lengths that occur
  MaxSaves,     \* bound on the pad files saved
  MaxRetires    \* bound on the times a copy is told to retire

ASSUME CopiesNumbers ==
  /\ PadRecords \in Nat /\ PadBytes \in Nat /\ Ahead \in Nat
  /\ MaxSaves \in Nat /\ MaxRetires \in Nat
  /\ MessageSizes \subseteq Nat \ {0}

ASSUME TwoInstallations == Maker # Recipient

VARIABLES
  holding,   \* holding[d]: how the pad came to d and its counters, Absent or Gone
  stored,    \* stored[d]: the role in d's localStorage, or NoRole
  files,     \* the pad files saved, by the counters inside
  wire,      \* every envelope ever emitted
  recSent,   \* recSent[h][s]: the envelopes made with record s
  padSent,   \* padSent[h][o]: the envelopes made with pad byte o
  released,  \* released[h]: the envelopes of half h that were opened, in order
  retires

copiesVars == <<holding, stored, files, wire, recSent, padSent, released, retires>>

Installations == {Maker, Recipient}
PairHalves == {"A->B", "B->A"}
AuthRecords == 0 .. PadRecords - 1
PadOffsets == 0 .. PadBytes - 1
NoRole == "no role"
Absent == [origin |-> "absent"]
Gone == [origin |-> "destroyed"]

(* How a pad can have come, the counters of its halves, an envelope.       *)
Origins == {"generated-here", "imported", "unknown"}
HalfCounters == [PairHalves -> [seq : 0 .. PadRecords, off : 0 .. PadBytes]]
Envelopes == [half : PairHalves, seq : AuthRecords, start : PadOffsets,
              len : MessageSizes, from : Installations]

Held(d) == holding[d] \notin {Absent, Gone}

CopiesInit ==
  /\ holding = [d \in Installations |-> Absent]
  /\ stored = [d \in Installations |-> NoRole]
  /\ files = {} /\ wire = {}
  /\ recSent = [h \in PairHalves |-> [s \in AuthRecords |-> 0]]
  /\ padSent = [h \in PairHalves |-> [o \in PadOffsets |-> 0]]
  /\ released = [h \in PairHalves |-> <<>>] /\ retires = 0
----------------------------------------------------------------------------
(* Whose half is it.                                                       *)

RoleFromOrigin(origin) ==
  IF origin = "generated-here" THEN "A"
  ELSE IF origin = "imported" THEN "B" ELSE NoRole

(* Mutant: the stored role, and Alice's where there is none.               *)
ResolveRoleOrAlice(d) ==
  IF stored[d] # NoRole THEN stored[d] ELSE "A"

(* The origin first; the stored role only where it cannot say; no default. *)
ResolveRole(d) ==
  LET role == RoleFromOrigin(holding[d].origin) IN
  IF role # NoRole THEN role ELSE stored[d]

SendDirection(role) == IF role = "A" THEN "A->B" ELSE "B->A"
ReceiveDirection(role) == IF role = "A" THEN "B->A" ELSE "A->B"

(* A copy acquired with the role the page writes down: localStorage may    *)
(* refuse it. A gen cut off before pair.json, and a copy made before       *)
(* origins were recorded, have an origin nobody knows.                     *)
Acquired(d, origin, role, counters) ==
  /\ holding' = [holding EXCEPT ![d] = [origin |-> origin, at |-> counters]]
  /\ \E r \in {role, NoRole} : stored' = [stored EXCEPT ![d] = r]

Generate ==
  /\ holding[Maker] = Absent
  /\ \E origin \in {"generated-here", "unknown"} :
       Acquired(Maker, origin, "A", [h \in PairHalves |-> [seq |-> 0, off |-> 0]])
  /\ UNCHANGED <<files, wire, recSent, padSent, released, retires>>

(* export-pair: a copy that was imported is not passed on; a second save   *)
(* is allowed, and each has the counters of its moment.                    *)
SavePadFile(d) ==
  /\ Held(d) /\ holding[d].origin # "imported" /\ Cardinality(files) < MaxSaves
  /\ files' = files \cup {holding[d].at}
  /\ UNCHANGED <<holding, stored, wire, recSent, padSent, released, retires>>

(* Mutant: a pad destroyed here may be added again.                        *)
AddOverTombstone(d) ==
  /\ holding[d] \in {Absent, Gone}
  /\ \E at \in files, origin \in {"imported", "unknown"} : Acquired(d, origin, "B", at)
  /\ UNCHANGED <<files, wire, recSent, padSent, released, retires>>

(* import-pair: neither over a copy that is here nor over a tombstone.     *)
AddPadFile(d) ==
  /\ holding[d] = Absent
  /\ \E at \in files, origin \in {"imported", "unknown"} : Acquired(d, origin, "B", at)
  /\ UNCHANGED <<files, wire, recSent, padSent, released, retires>>

(* Site data cleared, a private window: the pad stays, the role is lost.   *)
ForgetRole(d) ==
  /\ stored[d] # NoRole /\ stored' = [stored EXCEPT ![d] = NoRole]
  /\ UNCHANGED <<holding, files, wire, recSent, padSent, released, retires>>

DestroyCopy(d) ==
  /\ Held(d) /\ holding' = [holding EXCEPT ![d] = Gone]
  /\ UNCHANGED <<stored, files, wire, recSent, padSent, released, retires>>
----------------------------------------------------------------------------
MovedTo(d, h, seq, off) ==
  holding' = [holding EXCEPT ![d].at[h] = [seq |-> seq, off |-> off]]

(* burn, with the half of the role.                                        *)
Send(d, len) ==
  LET h == SendDirection(ResolveRole(d))  at == holding[d].at[h] IN
  /\ Held(d) /\ ResolveRole(d) # NoRole
  /\ at.seq < PadRecords /\ at.off + len <= PadBytes
  /\ MovedTo(d, h, at.seq + 1, at.off + len)
  /\ wire' = wire \cup
       {[half |-> h, seq |-> at.seq, start |-> at.off, len |-> len, from |-> d]}
  /\ recSent' = [recSent EXCEPT ![h][at.seq] = @ + 1]
  /\ padSent' = [padSent EXCEPT ![h] = [o \in PadOffsets |->
       IF at.off <= o /\ o < at.off + len THEN @[o] + 1 ELSE @[o]]]
  /\ UNCHANGED <<stored, files, released, retires>>

(* Mutant: the last record opened may be opened once more.                 *)
OpenableAgain(at, e) ==
  /\ at.seq <= e.seq + 1 /\ e.seq < PadRecords /\ e.seq < at.seq + Ahead
  /\ at.off <= e.start + e.len /\ e.start + e.len <= PadBytes

(* O1: the window of the authentication records, the offset, the capacity. *)
Openable(at, e) ==
  /\ at.seq <= e.seq /\ e.seq < PadRecords /\ e.seq < at.seq + Ahead
  /\ at.off <= e.start /\ e.start + e.len <= PadBytes

(* open, with the other half: what lies below the record is given up.      *)
OpenOn(d, e) ==
  LET h == ReceiveDirection(ResolveRole(d)) IN
  /\ Held(d) /\ ResolveRole(d) # NoRole /\ e.half = h
  /\ Openable(holding[d].at[h], e)
  /\ MovedTo(d, h, e.seq + 1, e.start + e.len)
  /\ released' = [released EXCEPT ![h] = Append(@, e)]
  /\ UNCHANGED <<stored, files, wire, recSent, padSent, retires>>

(* retire takes either half of either copy.                                *)
Retire(d, h, through, off) ==
  LET at == holding[d].at[h] IN
  /\ Held(d) /\ at.seq <= through /\ at.off <= off
  /\ retires < MaxRetires /\ retires' = retires + 1
  /\ MovedTo(d, h, through + 1, off)
  /\ UNCHANGED <<stored, files, wire, recSent, padSent, released>>
----------------------------------------------------------------------------
CopiesNext ==
  \/ Generate
  \/ \E d \in Installations :
       \/ SavePadFile(d) \/ AddPadFile(d) \/ ForgetRole(d) \/ DestroyCopy(d)
       \/ \E len \in MessageSizes : Send(d, len)
       \/ \E e \in wire : OpenOn(d, e)
       \/ \E h \in PairHalves, through \in AuthRecords, off \in 0 .. PadBytes :
            Retire(d, h, through, off)

CopiesSpec == CopiesInit /\ [][CopiesNext]_copiesVars
----------------------------------------------------------------------------
CopiesTypeOK ==
  /\ holding \in [Installations -> {Absent, Gone} \cup [origin : Origins, at : HalfCounters]]
  /\ stored \in [Installations -> {"A", "B", NoRole}]
  /\ files \subseteq HalfCounters /\ wire \subseteq Envelopes
  /\ recSent \in [PairHalves -> [AuthRecords -> Nat]]
  /\ padSent \in [PairHalves -> [PadOffsets -> Nat]]
  /\ released \in [PairHalves -> Seq(Envelopes)] /\ retires \in 0 .. MaxRetires

(* Whatever is lost, repeated or late, and whatever the browser profile    *)
(* forgets: everything opened was sent by the other installation, each     *)
(* envelope is opened once, and the envelopes of a half are opened in the  *)
(* order they were sent in (role.ts, open's O1).                           *)
ReadAsWritten ==
  \A h \in PairHalves :
    /\ \A i, j \in DOMAIN released[h] :
         i < j => /\ released[h][i].seq < released[h][j].seq
                  /\ released[h][i].start + released[h][i].len <= released[h][j].start
    /\ \A i \in DOMAIN released[h] :
         released[h][i].from = IF h = "A->B" THEN Maker ELSE Recipient

(* The copies together are one pad: no record and no byte of a half makes  *)
(* two envelopes, on whichever installation (OneTimePad).                  *)
Pad == INSTANCE OneTimePad WITH
  Dirs <- PairHalves, Records <- AuthRecords, Offsets <- PadOffsets,
  recUse <- recSent, padUse <- padSent
CopiesPromise == Pad!Spec
=============================================================================
