----------------------------- MODULE SealedSend -----------------------------
(***************************************************************************)
(* How a pad leaves an installation: sealed to a receive request, or saved *)
(* as a file (src/browser/engine/spt-verbs.ts sealImpl, handoff.ts,        *)
(* request-claim.ts, spt-confirmed.ts; exportImpl of verbs.ts). A seal     *)
(* binds the request to the pad, makes one package, stages it with its     *)
(* confirmation value, and only then writes handoff.json, the record that  *)
(* commits; the bytes are handed over after that. Every write may be cut   *)
(* off and every tab may be closed between two of them.                    *)
(*                                                                         *)
(* A package is the pad and the request it was made for, a number that no  *)
(* other encapsulation has, and whether the pad was unused when its six    *)
(* files were read. A record is readable or not; its spelling, hashes and  *)
(* time stamps are left out. A confirmation that expires, or that another  *)
(* replaces unreadably, lapses: a step of its own.                         *)
(***************************************************************************)
EXTENDS BrowserInstall, Naturals

CONSTANTS
  Requests,  \* receive requests, by requestHash
  Nonces     \* what tells two encapsulations apart

VARIABLES
  confirmed,    \* requests whose spt/confirmed/<r>.json reads and is in time
  claim,        \* claim[r]: spt/claims/<r>.json
  handoff,      \* handoff[p]: <p>/handoff.json
  payload,      \* payload[p]: <p>/handoff/package.tps2
  confirmBytes, \* confirmBytes[p]: <p>/handoff/confirm.bin, by its package
  sending,      \* sending[t]: the seal or export tab t is in
  released,     \* packages that were handed to the operator
  exported      \* pads whose container was

sendVars == <<confirmed, claim, handoff, payload, confirmBytes, sending,
              released, exported>>

Packages == [pad : Pads, req : Requests, nonce : Nonces, genesis : BOOLEAN]

(* What readHandoffState finds. A record that cannot be read is not        *)
(* absence: the pad is spent.                                              *)
Absent     == [mode |-> "absent"]
Physical   == [mode |-> "physical"]
Unreadable == [mode |-> "unreadable"]
SealedAs(x) == [mode |-> "sealed", pkg |-> x]
Markers    == {Absent, Physical, Unreadable} \cup {SealedAs(x) : x \in Packages}

Idle == [at |-> "idle"]
SealSteps == {"gated", "claimed", "staging", "payload", "confirm", "marked"}
Sends ==
  {Idle} \cup [at : SealSteps, pad : Pads, req : Requests, pkg : Packages \cup {None}]
         \cup [at : {"export", "exportable"}, pad : Pads]

(* A claim on the requests of `lost' was cut off earlier.                  *)
SendInit(lost) ==
  /\ confirmed = {}
  /\ claim = [r \in Requests |-> IF r \in lost THEN Torn ELSE None]
  /\ handoff = [p \in Pads |-> Absent]
  /\ payload = [p \in Pads |-> None] /\ confirmBytes = [p \in Pads |-> None]
  /\ sending = [t \in Tabs |-> Idle]
  /\ released = {} /\ exported = {}

SendTypeOK ==
  /\ confirmed \subseteq Requests
  /\ claim \in [Requests -> Pads \cup {None, Torn}]
  /\ handoff \in [Pads -> Markers]
  /\ payload \in [Pads -> Packages \cup {None, Torn}]
  /\ confirmBytes \in [Pads -> Packages \cup {None, Torn}]
  /\ sending \in [Tabs -> Sends]
  /\ released \subseteq Packages /\ exported \subseteq Pads

Goes(t, at) == sending' = [sending EXCEPT ![t].at = at]

(* The call returns or throws; its locks, pad outermost, are freed.        *)
EndSend(t) == sending' = [sending EXCEPT ![t] = Idle] /\ Unlock(t)

(* spt-send:<requestHash> is held from the second check to the end.        *)
SendLockFree(r) ==
  \A t \in Tabs : sending[t].at \in SealSteps \ {"gated"} => sending[t].req # r
----------------------------------------------------------------------------
(* The review and the twelve words: confirmRequestImpl writes the record,  *)
(* whatever record there was.                                              *)
ConfirmRequest(r) ==
  /\ r \notin confirmed /\ confirmed' = confirmed \cup {r}
  /\ UNCHANGED <<installVars, claim, handoff, payload, confirmBytes, sending,
                 released, exported>>

ConfirmationLapses(r) ==
  /\ r \in confirmed /\ confirmed' = confirmed \ {r}
  /\ UNCHANGED <<installVars, claim, handoff, payload, confirmBytes, sending,
                 released, exported>>

(* loadCommittedSealedHandoff: both files are the ones the record names.   *)
Recoverable(p) ==
  /\ handoff[p].mode = "sealed"
  /\ payload[p] = handoff[p].pkg /\ confirmBytes[p] = handoff[p].pkg

ReshareDestroyed(t, p, r) ==
  /\ sending[t] = Idle /\ padLock[p] = None
  /\ Recoverable(p) /\ handoff[p].pkg.req = r
  /\ released' = released \cup {payload[p]}
  /\ UNCHANGED <<installVars, confirmed, claim, handoff, payload, confirmBytes,
                 sending, exported>>

(* A pad already sealed to this very request: the package itself again,    *)
(* whether or not the pad could be sealed now.                             *)
Reshare(t, p, r) ==
  /\ sending[t] = Idle /\ padLock[p] = None /\ ~destroyed[p]
  /\ Recoverable(p) /\ handoff[p].pkg.req = r
  /\ released' = released \cup {payload[p]}
  /\ UNCHANGED <<installVars, confirmed, claim, handoff, payload, confirmBytes,
                 sending, exported>>

(* The pad lock is taken; the record is absent; the pad may be sealed.     *)
BeginSeal(t, p, r) ==
  /\ sending[t] = Idle /\ Lock(t, p)
  /\ ~destroyed[p] /\ handoff[p] = Absent /\ PadSealable(p)
  /\ sending' = [sending EXCEPT ![t] = [at |-> "gated", pad |-> p, req |-> r, pkg |-> None]]
  /\ UNCHANGED <<pair, origin, used, destroyed, confirmed, claim, handoff, payload,
                 confirmBytes, released, exported>>

ClaimByTheLatest(r, p, o) ==
  CASE claim[r] # Torn /\ o = "landed" -> claim' = [claim EXCEPT ![r] = p]
    [] claim[r] # Torn /\ o = "torn"   -> claim' = [claim EXCEPT ![r] = Torn]
    [] OTHER -> UNCHANGED claim

(* claimRequestForPair once both locks are held: a request that is bound   *)
(* stays bound, to this pad or to none.                                    *)
ClaimWritten(r, p, o) ==
  CASE claim[r] = p  -> UNCHANGED claim
    [] claim[r] = None /\ o = "landed"  -> claim' = [claim EXCEPT ![r] = p]
    [] claim[r] = None /\ o = "torn"    -> claim' = [claim EXCEPT ![r] = Torn]
    [] OTHER -> UNCHANGED claim

ClaimRequest(t) ==
  LET p == sending[t].pad  r == sending[t].req IN
  /\ sending[t].at = "gated" /\ SendLockFree(r)
  /\ IF handoff[p] = Absent /\ r \in confirmed
       THEN \E o \in Outcomes :
              /\ ClaimWritten(r, p, o)
              /\ IF claim'[r] = p THEN Goes(t, "claimed") /\ UNCHANGED padLock
                                  ELSE EndSend(t)
       ELSE EndSend(t) /\ UNCHANGED claim
  /\ UNCHANGED <<pair, origin, used, destroyed, confirmed, handoff, payload,
                 confirmBytes, released, exported>>

(* An encapsulation is like no other: not like one handed over, one a     *)
(* record names, or one a tab still holds.                                 *)
Fresh(x) ==
  /\ x \notin released
  /\ \A p \in Pads : handoff[p] # SealedAs(x)
  /\ \A t \in Tabs : sending[t].at \in SealSteps => sending[t].pkg # x

(* buildLiveCourierContainer and sealPayloadV1, then the first checks of   *)
(* commitSealedHandoff: no record, the request bound to this pad. What an  *)
(* earlier attempt staged was never handed over, and goes.                 *)
Encapsulate(t) ==
  LET p == sending[t].pad  r == sending[t].req IN
  /\ sending[t].at = "claimed"
  /\ IF handoff[p] = Absent /\ claim[r] = p
       THEN /\ \E n \in Nonces :
                 LET x == [pad |-> p, req |-> r, nonce |-> n, genesis |-> ~used[p]] IN
                 /\ Fresh(x)
                 /\ sending' = [sending EXCEPT ![t].at = "staging", ![t].pkg = x]
            /\ payload' = [payload EXCEPT ![p] = None]
            /\ confirmBytes' = [confirmBytes EXCEPT ![p] = None]
            /\ UNCHANGED padLock
       ELSE EndSend(t) /\ UNCHANGED <<payload, confirmBytes>>
  /\ UNCHANGED <<pair, origin, used, destroyed, confirmed, claim, handoff,
                 released, exported>>

(* A staged file is read back, and the seal goes on only if it is whole.   *)
Stage(t, file, o, next) ==
  LET p == sending[t].pad IN
  CASE o = "landed"  -> /\ file' = [file EXCEPT ![p] = sending[t].pkg]
                        /\ Goes(t, next) /\ UNCHANGED padLock
    [] o = "torn"    -> file' = [file EXCEPT ![p] = Torn] /\ EndSend(t)
    [] o = "nothing" -> UNCHANGED file /\ EndSend(t)

StagePackage(t) ==
  /\ sending[t].at = "staging"
  /\ \E o \in Outcomes : Stage(t, payload, o, "payload")
  /\ UNCHANGED <<pair, origin, used, destroyed, confirmed, claim, handoff,
                 confirmBytes, released, exported>>

StageConfirmation(t) ==
  /\ sending[t].at = "payload"
  /\ \E o \in Outcomes : Stage(t, confirmBytes, o, "confirm")
  /\ UNCHANGED <<pair, origin, used, destroyed, confirmed, claim, handoff,
                 payload, released, exported>>

MarkerNotReadBack(t, p, marker, o, next) ==
  /\ handoff' = [handoff EXCEPT ![p] =
       CASE o = "landed" -> marker [] o = "torn" -> Unreadable [] OTHER -> @]
  /\ Goes(t, next) /\ UNCHANGED padLock

(* writeAndVerifyMarker: a record that is there and cannot be read spends  *)
(* the pad; one that never landed leaves it as it was.                     *)
MarkerWritten(t, p, marker, o, next) ==
  CASE o = "landed"  -> /\ handoff' = [handoff EXCEPT ![p] = marker]
                        /\ Goes(t, next) /\ UNCHANGED padLock
    [] o = "torn"    -> handoff' = [handoff EXCEPT ![p] = Unreadable] /\ EndSend(t)
    [] o = "nothing" -> UNCHANGED handoff /\ EndSend(t)

WriteSealedMarker(t) ==
  /\ sending[t].at = "confirm"
  /\ \E o \in Outcomes :
       MarkerWritten(t, sending[t].pad, SealedAs(sending[t].pkg), o, "marked")
  /\ UNCHANGED <<pair, origin, used, destroyed, confirmed, claim, payload,
                 confirmBytes, released, exported>>

(* What was committed is loaded again, and a copy of it is the reply.      *)
ReleasePackage(t) ==
  LET p == sending[t].pad IN
  /\ sending[t].at = "marked"
  /\ released' = IF Recoverable(p) THEN released \cup {payload[p]} ELSE released
  /\ EndSend(t)
  /\ UNCHANGED <<pair, origin, used, destroyed, confirmed, claim, handoff, payload,
                 confirmBytes, exported>>
----------------------------------------------------------------------------
BeginExportUnlocked(t, p) ==
  /\ sending[t] = Idle /\ PadExportable(p) /\ handoff[p] = Absent
  /\ sending' = [sending EXCEPT ![t] = [at |-> "export", pad |-> p]]
  /\ UNCHANGED <<installVars, confirmed, claim, handoff, payload, confirmBytes,
                 released, exported>>

(* export-pair. Under a physical record the container is packed again.     *)
ReExport(t, p) ==
  /\ sending[t] = Idle /\ padLock[p] = None /\ PadExportable(p)
  /\ handoff[p] = Physical
  /\ exported' = exported \cup {p}
  /\ UNCHANGED <<installVars, confirmed, claim, handoff, payload, confirmBytes,
                 sending, released>>

BeginExport(t, p) ==
  /\ sending[t] = Idle /\ Lock(t, p) /\ PadExportable(p)
  /\ handoff[p] = Absent
  /\ sending' = [sending EXCEPT ![t] = [at |-> "export", pad |-> p]]
  /\ UNCHANGED <<pair, origin, used, destroyed, confirmed, claim, handoff, payload,
                 confirmBytes, released, exported>>

WritePhysicalMarker(t) ==
  /\ sending[t].at = "export"
  /\ \E o \in Outcomes : MarkerWritten(t, sending[t].pad, Physical, o, "exportable")
  /\ UNCHANGED <<pair, origin, used, destroyed, confirmed, claim, payload,
                 confirmBytes, released, exported>>

ReleaseContainer(t) ==
  /\ sending[t].at = "exportable"
  /\ exported' = exported \cup {sending[t].pad}
  /\ EndSend(t)
  /\ UNCHANGED <<pair, origin, used, destroyed, confirmed, claim, handoff, payload,
                 confirmBytes, released>>
----------------------------------------------------------------------------
SendStep(t) ==
  \/ ClaimRequest(t) \/ Encapsulate(t) \/ StagePackage(t) \/ StageConfirmation(t)
  \/ WriteSealedMarker(t) \/ ReleasePackage(t)
  \/ WritePhysicalMarker(t) \/ ReleaseContainer(t)

SendCall(t) ==
  \/ \E p \in Pads, r \in Requests : Reshare(t, p, r) \/ BeginSeal(t, p, r)
  \/ \E p \in Pads : ReExport(t, p) \/ BeginExport(t, p)

SendNext ==
  \/ \E t \in Tabs : SendStep(t) \/ SendCall(t)
  \/ \E r \in Requests : ConfirmRequest(r) \/ ConfirmationLapses(r)

(* Closing a tab ends its call and frees its locks.                        *)
SendTabClosed(t) == EndSend(t) /\ UNCHANGED
  <<pair, origin, used, destroyed, confirmed, claim, handoff, payload, confirmBytes,
    released, exported>>
=============================================================================
