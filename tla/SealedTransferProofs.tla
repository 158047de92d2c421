------------------------- MODULE SealedTransferProofs ------------------------
(***************************************************************************)
(* Proofs about SealedTransfer, for any tabs, pads, requests and packages, *)
(* for any number of calls, torn writes and closed tabs, and from every    *)
(* state InitAfter names; and about Screens, the page of one tab, for any  *)
(* number of sessions and of hash changes. The two share nothing.          *)
(***************************************************************************)
EXTENDS SealedTransfer, Screens, TLAPS

Unsealed == {"gated", "claimed", "staging", "payload", "confirm"}
Made == {"staging", "payload", "confirm", "marked"}
PackageSteps == {"opening", "opened", "saving", "locked", "checked", "consumed",
                 "importing", "rejecting"}
Saving == {"checked", "consumed", "importing"}

(* A tab is in one call, and a call works on a pad under the pad's lock.   *)
HoldsLock(t) ==
  /\ sending[t] = Idle \/ receiving[t] = Rest
  /\ sending[t].at # "idle" => padLock[sending[t].pad] = t
  /\ receiving[t].at \in Saving => padLock[receiving[t].pkg.pad] = t
  /\ receiving[t].at = "file" => padLock[receiving[t].pad] = t

(* The pad a tab is sending has not been used, destroyed or handed off     *)
(* since the gate, and its request is bound to it.                         *)
SendsUnspent(t) ==
  /\ sending[t].at # "idle" => ~destroyed[sending[t].pad] /\ pair[sending[t].pad] = "live"
  /\ sending[t].at \in SealSteps =>
       ~used[sending[t].pad] /\ origin[sending[t].pad] = "generated-here"
  /\ sending[t].at \in Unsealed \cup {"export"} => handoff[sending[t].pad] = Absent
  /\ sending[t].at \in Made \cup {"claimed"} => claim[sending[t].req] = sending[t].pad
  /\ sending[t].at \in Made =>
       /\ sending[t].pkg \in Packages /\ sending[t].pkg.genesis
       /\ sending[t].pkg.pad = sending[t].pad /\ sending[t].pkg.req = sending[t].req
  /\ sending[t].at \in {"export", "exportable"} => origin[sending[t].pad] # "imported"
  /\ sending[t].at = "exportable" => handoff[sending[t].pad] = Physical

(* An import is announced before it is committed, what comes in through a  *)
(* request has consumed it, and calls and sessions keep a package with its *)
(* own request.                                                            *)
ImportsAnnounced(t) ==
  /\ receiving[t].at = "importing" => pair[receiving[t].pkg.pad] = "importing"
  /\ receiving[t].at = "file" => pair[receiving[t].pad] = "importing"
  /\ receiving[t].at \in {"consumed", "importing"} =>
       /\ consumed[receiving[t].req] \in Records
       /\ consumed[receiving[t].req].pad = receiving[t].pkg.pad

Matches(t) ==
  /\ receiving[t].at \in PackageSteps => receiving[t].req = receiving[t].pkg.req
  /\ session[t] # None => session[t].req = session[t].pkg.req

CallsInv == \A t \in Tabs : HoldsLock(t) /\ SendsUnspent(t) /\ ImportsAnnounced(t)
MatchInv == \A t \in Tabs : Matches(t)

(* Nothing is imported over a pad that was made here or has left; a record *)
(* says which package there is, and its request is bound to the pad.       *)
PadsInv ==
  \A p \in Pads :
    /\ destroyed[p] => pair[p] = "absent"
    /\ origin[p] = "generated-here" => pair[p] = "live" \/ destroyed[p]
    /\ p \in exported => (pair[p] = "live" \/ destroyed[p]) /\ origin[p] # "imported"
    /\ handoff[p].mode = "sealed" =>
         /\ handoff[p].pkg.pad = p /\ claim[handoff[p].pkg.req] = p
         /\ handoff[p].pkg.genesis /\ origin[p] = "generated-here"

(* What was handed over is what its pad's record names.                    *)
ReleasedInv == \A k \in released : handoff[k.pad] = SealedAs(k)

TransferInv == TypeOK /\ CallsInv /\ MatchInv /\ PadsInv /\ ReleasedInv /\ OneEnding
-----------------------------------------------------------------------------
(* The shapes of the calls.                                                *)

ExportSteps == {"export", "exportable"}
SealRecord == [at : SealSteps, pad : Pads, req : Requests, pkg : Packages \cup {None}]
ExportRecord == [at : ExportSteps, pad : Pads]
PackageRecord == [at : PackageSteps, req : OwnRequests, pkg : Parcels]
FileRecord == [at : {"file"}, pad : Pads]

LEMMA SendParts ==
  ASSUME SendTypeOK, NEW t \in Tabs
  PROVE  /\ sending[t] = Idle \/ sending[t] \in SealRecord \/ sending[t] \in ExportRecord
         /\ sending[t].at = "idle" <=> sending[t] = Idle
         /\ sending[t].at \in SealSteps <=> sending[t] \in SealRecord
         /\ sending[t].at \in ExportSteps <=> sending[t] \in ExportRecord
         /\ sending[t].at # "idle" => sending[t].pad \in Pads
         /\ sending[t].at \in SealSteps =>
              sending[t].req \in Requests /\ sending[t].pkg \in Packages \cup {None}
<1>1. sending[t] = Idle \/ sending[t] \in SealRecord \/ sending[t] \in ExportRecord
  BY DEF SendTypeOK, Sends, SealRecord, ExportRecord, ExportSteps
<1>2. CASE sending[t] = Idle
  BY <1>2 DEF Idle, SealSteps, ExportSteps, SealRecord, ExportRecord
<1>3. CASE sending[t] \in SealRecord
  BY <1>3 DEF Idle, SealSteps, ExportSteps, SealRecord, ExportRecord
<1>4. CASE sending[t] \in ExportRecord
  BY <1>4 DEF Idle, SealSteps, ExportSteps, SealRecord, ExportRecord
<1> QED
  BY <1>1, <1>2, <1>3, <1>4

LEMMA ReceiveParts ==
  ASSUME ReceiveTypeOK, NEW t \in Tabs
  PROVE  /\ receiving[t] = Rest \/ receiving[t] \in PackageRecord \/ receiving[t] \in FileRecord
         /\ receiving[t].at = "rest" <=> receiving[t] = Rest
         /\ receiving[t].at \in PackageSteps <=> receiving[t] \in PackageRecord
         /\ receiving[t].at = "file" <=> receiving[t] \in FileRecord
         /\ receiving[t].at = "file" => receiving[t].pad \in Pads
         /\ receiving[t].at \in PackageSteps =>
              /\ receiving[t].req \in OwnRequests /\ receiving[t].pkg \in Parcels
              /\ receiving[t].pkg.pad \in Pads
<1>1. receiving[t] = Rest \/ receiving[t] \in PackageRecord \/ receiving[t] \in FileRecord
  BY DEF ReceiveTypeOK, Receipts, PackageRecord, FileRecord, PackageSteps
<1>2. \A x \in Parcels : x.pad \in Pads
  BY ParcelsArePackages DEF Packages
<1>3. CASE receiving[t] = Rest
  BY <1>3 DEF Rest, PackageSteps, PackageRecord, FileRecord
<1>4. CASE receiving[t] \in PackageRecord
  BY <1>2, <1>4 DEF Rest, PackageSteps, PackageRecord, FileRecord
<1>5. CASE receiving[t] \in FileRecord
  BY <1>5 DEF Rest, PackageSteps, PackageRecord, FileRecord
<1> QED
  BY <1>1, <1>3, <1>4, <1>5

LEMMA IdleAndRest == /\ Idle \in Sends /\ Idle.at = "idle" /\ Rest \in Receipts /\ Rest.at = "rest"
                     /\ SealRecord \subseteq Sends /\ ExportRecord \subseteq Sends
                     /\ PackageRecord \subseteq Receipts /\ FileRecord \subseteq Receipts
BY DEF Idle, Rest, Sends, Receipts, SealRecord, ExportRecord, ExportSteps, PackageRecord,
   FileRecord, PackageSteps
-----------------------------------------------------------------------------
(* What a step of a tab does to the calls and the locks.                   *)

TabMoves(t) ==
  /\ sending' \in [Tabs -> Sends] /\ receiving' \in [Tabs -> Receipts]
  /\ padLock' \in [Pads -> Tabs \cup {None}]
  /\ \A u \in Tabs : u # t => sending'[u] = sending[u] /\ receiving'[u] = receiving[u]
  /\ \A p \in Pads : padLock[p] \notin {None, t} => padLock'[p] = padLock[p]

LEMMA TabUnlocks ==
  ASSUME InstallTypeOK, NEW t \in Tabs, Unlock(t)
  PROVE  /\ padLock' \in [Pads -> Tabs \cup {None}]
         /\ \A p \in Pads : padLock[p] \notin {None, t} => padLock'[p] = padLock[p]
BY DEF InstallTypeOK, Unlock

LEMMA TabLocks ==
  ASSUME InstallTypeOK, NEW t \in Tabs, NEW p \in Pads, Lock(t, p)
  PROVE  /\ padLock' \in [Pads -> Tabs \cup {None}]
         /\ padLock'[p] = t
         /\ \A q \in Pads : padLock[q] \notin {None, t} => padLock'[q] = padLock[q]
BY DEF InstallTypeOK, Lock

LEMMA SendBecomes ==
  ASSUME SendTypeOK, NEW t \in Tabs, NEW v \in Sends, sending' = [sending EXCEPT ![t] = v]
  PROVE  /\ sending' \in [Tabs -> Sends] /\ sending'[t] = v
         /\ \A u \in Tabs : u # t => sending'[u] = sending[u]
BY DEF SendTypeOK

LEMMA ReceiveBecomes ==
  ASSUME ReceiveTypeOK, NEW t \in Tabs, NEW v \in Receipts, receiving' = [receiving EXCEPT ![t] = v]
  PROVE  /\ receiving' \in [Tabs -> Receipts] /\ receiving'[t] = v
         /\ \A u \in Tabs : u # t => receiving'[u] = receiving[u]
BY DEF ReceiveTypeOK

LEMMA SendEnds ==
  ASSUME TypeOK, NEW t \in Tabs, EndSend(t), UNCHANGED receiveVars
  PROVE  TabMoves(t) /\ sending'[t] = Idle
<1>1. sending' = [sending EXCEPT ![t] = Idle] /\ Unlock(t) /\ receiving' = receiving
  BY DEF EndSend, receiveVars
<1> QED
  BY <1>1, IdleAndRest, SendBecomes, TabUnlocks DEF TabMoves, TypeOK, ReceiveTypeOK

LEMMA SendGoes ==
  ASSUME TypeOK, NEW t \in Tabs, NEW at, Goes(t, at), UNCHANGED padLock, UNCHANGED receiveVars,
         \/ sending[t].at \in SealSteps /\ at \in SealSteps
         \/ sending[t].at \in ExportSteps /\ at \in ExportSteps
  PROVE  /\ TabMoves(t) /\ sending'[t].at = at /\ sending'[t].pad = sending[t].pad
         /\ at \in SealSteps =>
              sending'[t].req = sending[t].req /\ sending'[t].pkg = sending[t].pkg
<1>1. sending' = [sending EXCEPT ![t] = [sending[t] EXCEPT !.at = at]] /\ receiving' = receiving
  BY DEF Goes, receiveVars
<1> DEFINE v == [sending[t] EXCEPT !.at = at]
<1>2. /\ v \in Sends /\ v.at = at /\ v.pad = sending[t].pad
      /\ at \in SealSteps => v.req = sending[t].req /\ v.pkg = sending[t].pkg
  <2>1. CASE sending[t].at \in SealSteps /\ at \in SealSteps
    <3>1. sending[t] \in SealRecord
      BY <2>1, SendParts DEF TypeOK
    <3>2. v \in SealRecord
      BY <2>1, <3>1 DEF SealRecord
    <3>3. v.at = at /\ v.pad = sending[t].pad /\ v.req = sending[t].req /\ v.pkg = sending[t].pkg
      BY <3>1 DEF SealRecord
    <3> QED
      BY <3>2, <3>3, IdleAndRest
  <2>2. CASE sending[t].at \in ExportSteps /\ at \in ExportSteps
    <3>1. sending[t] \in ExportRecord
      BY <2>2, SendParts DEF TypeOK
    <3>2. v \in ExportRecord /\ v.at = at /\ v.pad = sending[t].pad
      BY <2>2, <3>1 DEF ExportRecord
    <3> QED
      BY <2>2, <3>2, IdleAndRest DEF ExportSteps, SealSteps
  <2> QED
    BY <2>1, <2>2
<1> HIDE DEF v
<1>3. sending' = [sending EXCEPT ![t] = v]
  BY <1>1 DEF v
<1>4. /\ padLock' \in [Pads -> Tabs \cup {None}] /\ padLock' = padLock
      /\ receiving' \in [Tabs -> Receipts]
  BY <1>1 DEF TypeOK, InstallTypeOK, ReceiveTypeOK
<1>5. /\ sending' \in [Tabs -> Sends] /\ sending'[t] = v
      /\ \A u \in Tabs : u # t => sending'[u] = sending[u]
  BY <1>2, <1>3, SendBecomes DEF TypeOK
<1> QED
  BY <1>1, <1>2, <1>4, <1>5 DEF TabMoves

LEMMA ReceiptEnds ==
  ASSUME TypeOK, NEW t \in Tabs, EndReceipt(t), UNCHANGED sendVars
  PROVE  /\ TabMoves(t) /\ receiving'[t] = Rest
         /\ reqLock' \in [OwnRequests -> Tabs \cup {None}]
<1>1. /\ receiving' = [receiving EXCEPT ![t] = Rest] /\ Unlock(t) /\ sending' = sending
      /\ UnlockRequest(t)
  BY DEF EndReceipt, sendVars
<1> QED
  BY <1>1, IdleAndRest, ReceiveBecomes, TabUnlocks
     DEF TabMoves, TypeOK, SendTypeOK, UnlockRequest, ReceiveTypeOK

LEMMA ReceiptBecomes ==
  ASSUME TypeOK, NEW t \in Tabs, NEW v \in Receipts, receiving' = [receiving EXCEPT ![t] = v],
         \/ padLock' = padLock
         \/ \E p \in Pads : Lock(t, p),
         UNCHANGED sendVars
  PROVE  TabMoves(t) /\ receiving'[t] = v
<1>1. sending' = sending
  BY DEF sendVars
<1>2. /\ padLock' \in [Pads -> Tabs \cup {None}]
      /\ \A q \in Pads : padLock[q] \notin {None, t} => padLock'[q] = padLock[q]
  BY TabLocks DEF TypeOK, InstallTypeOK
<1> QED
  BY <1>1, <1>2, ReceiveBecomes DEF TabMoves, TypeOK, SendTypeOK

LEMMA ReceiptProceeds ==
  ASSUME TypeOK, NEW t \in Tabs, NEW at \in PackageSteps, Proceeds(t, at),
         receiving[t].at \in PackageSteps,
         \/ padLock' = padLock
         \/ \E p \in Pads : Lock(t, p),
         UNCHANGED sendVars
  PROVE  /\ TabMoves(t) /\ receiving'[t].at = at
         /\ receiving'[t].req = receiving[t].req /\ receiving'[t].pkg = receiving[t].pkg
<1>1. receiving' = [receiving EXCEPT ![t] = [receiving[t] EXCEPT !.at = at]]
  BY DEF Proceeds
<1>2. receiving[t] \in PackageRecord
  BY ReceiveParts DEF TypeOK
<1> DEFINE v == [receiving[t] EXCEPT !.at = at]
<1>3. /\ v \in PackageRecord /\ v.at = at /\ v.req = receiving[t].req
      /\ v.pkg = receiving[t].pkg
  BY <1>2 DEF PackageRecord
<1> HIDE DEF v
<1>4. receiving' = [receiving EXCEPT ![t] = v] /\ v \in Receipts
  BY <1>1, <1>3, IdleAndRest DEF v
<1> QED
  BY <1>3, <1>4, ReceiptBecomes
-----------------------------------------------------------------------------
(* The steps of a seal and of an export, one by one.                       *)

PadsAsWere == UNCHANGED <<pair, origin, used, destroyed>>
FilesAsWere == UNCHANGED <<confirmed, claim, handoff, payload, confirmBytes, exported>>

LEMMA ShareMoves ==
  ASSUME TypeOK, NEW t \in Tabs, NEW p \in Pads, NEW r \in Requests, Reshare(t, p, r),
         UNCHANGED receiveVars
  PROVE  /\ TabMoves(t) /\ sending' = sending /\ UNCHANGED padLock
         /\ PadsAsWere /\ FilesAsWere
         /\ Recoverable(p) /\ released' = released \cup {payload[p]} /\ ~destroyed[p]
BY DEF Reshare, PadsAsWere, FilesAsWere, installVars, receiveVars, TabMoves, TypeOK, SendTypeOK,
   ReceiveTypeOK, InstallTypeOK

LEMMA ReExportMoves ==
  ASSUME TypeOK, NEW t \in Tabs, NEW p \in Pads, ReExport(t, p), UNCHANGED receiveVars
  PROVE  /\ TabMoves(t) /\ sending' = sending /\ UNCHANGED padLock
         /\ PadsAsWere /\ UNCHANGED <<confirmed, claim, handoff, payload, confirmBytes, released>>
         /\ handoff[p] = Physical /\ ActivePair(p) /\ origin[p] # "imported"
         /\ exported' = exported \cup {p}
BY DEF ReExport, PadExportable, PadsAsWere, installVars, receiveVars, TabMoves, TypeOK,
   SendTypeOK, ReceiveTypeOK, InstallTypeOK

LEMMA BeginSealMoves ==
  ASSUME TypeOK, NEW t \in Tabs, NEW p \in Pads, NEW r \in Requests, BeginSeal(t, p, r),
         UNCHANGED receiveVars
  PROVE  /\ TabMoves(t) /\ PadsAsWere /\ FilesAsWere /\ released' = released
         /\ sending[t] = Idle /\ sending'[t].at = "gated" /\ sending'[t].pad = p /\ padLock'[p] = t
         /\ handoff[p] = Absent /\ PadSealable(p)
<1> DEFINE v == [at |-> "gated", pad |-> p, req |-> r, pkg |-> None]
<1>1. v \in SealRecord /\ v.at = "gated" /\ v.pad = p
  BY DEF SealRecord, SealSteps
<1>2. /\ sending[t] = Idle /\ Lock(t, p) /\ sending' = [sending EXCEPT ![t] = v]
      /\ receiving' = receiving
      /\ handoff[p] = Absent /\ PadSealable(p)
      /\ PadsAsWere /\ FilesAsWere /\ released' = released
  BY DEF BeginSeal, PadsAsWere, FilesAsWere, receiveVars
<1> HIDE DEF v
<1>3. v \in Sends
  BY <1>1, IdleAndRest
<1>4. TabMoves(t) /\ sending'[t] = v
  BY <1>2, <1>3, SendBecomes, TabLocks DEF TabMoves, TypeOK, ReceiveTypeOK
<1> QED
  BY <1>1, <1>2, <1>4, TabLocks DEF TypeOK

LEMMA BeginExportMoves ==
  ASSUME TypeOK, NEW t \in Tabs, NEW p \in Pads, BeginExport(t, p), UNCHANGED receiveVars
  PROVE  /\ TabMoves(t) /\ PadsAsWere /\ FilesAsWere /\ released' = released
         /\ sending[t] = Idle /\ sending'[t].at = "export" /\ sending'[t].pad = p
         /\ padLock'[p] = t
         /\ handoff[p] = Absent /\ PadExportable(p)
<1> DEFINE v == [at |-> "export", pad |-> p]
<1>1. v \in ExportRecord /\ v.at = "export" /\ v.pad = p
  BY DEF ExportRecord, ExportSteps
<1>2. /\ sending[t] = Idle /\ Lock(t, p) /\ sending' = [sending EXCEPT ![t] = v]
      /\ receiving' = receiving
      /\ handoff[p] = Absent /\ PadExportable(p)
      /\ PadsAsWere /\ FilesAsWere /\ released' = released
  BY DEF BeginExport, PadsAsWere, FilesAsWere, receiveVars
<1> HIDE DEF v
<1>3. v \in Sends
  BY <1>1, IdleAndRest
<1>4. TabMoves(t) /\ sending'[t] = v
  BY <1>2, <1>3, SendBecomes, TabLocks DEF TabMoves, TypeOK, ReceiveTypeOK
<1> QED
  BY <1>1, <1>2, <1>4, TabLocks DEF TypeOK

LEMMA ClaimMoves ==
  ASSUME TypeOK, NEW t \in Tabs, ClaimRequest(t), UNCHANGED receiveVars
  PROVE  /\ TabMoves(t) /\ PadsAsWere
         /\ UNCHANGED <<confirmed, handoff, payload, confirmBytes, exported, released>>
         /\ sending[t].at = "gated" /\ claim' \in [Requests -> Pads \cup {None, Torn}]
         /\ \A r \in Requests : claim[r] \in Pads => claim'[r] = claim[r]
         /\ \/ sending'[t] = Idle
            \/ /\ UNCHANGED padLock /\ sending'[t].at = "claimed"
               /\ sending'[t].pad = sending[t].pad /\ sending'[t].req = sending[t].req
               /\ claim'[sending[t].req] = sending[t].pad
<1> DEFINE p == sending[t].pad
           r == sending[t].req
<1>1. /\ sending[t].at = "gated" /\ PadsAsWere
      /\ UNCHANGED <<confirmed, handoff, payload, confirmBytes, exported, released>>
  BY DEF ClaimRequest, PadsAsWere
<1>2. /\ sending[t].at \in SealSteps /\ "claimed" \in SealSteps /\ p \in Pads /\ r \in Requests
      /\ claim \in [Requests -> Pads \cup {None, Torn}]
  BY <1>1, SendParts DEF TypeOK, SealSteps, SendTypeOK
<1>3. \/ EndSend(t)
      \/ claim'[r] = p /\ Goes(t, "claimed") /\ UNCHANGED padLock
  BY DEF ClaimRequest
<1>4. claim' = claim \/ (claim[r] = None /\ claim' = [claim EXCEPT ![r] = p])
                     \/ (claim[r] = None /\ claim' = [claim EXCEPT ![r] = Torn])
  BY DEF ClaimRequest, ClaimWritten
<1> HIDE DEF p, r
<1>5. /\ claim' \in [Requests -> Pads \cup {None, Torn}]
      /\ \A q \in Requests : claim[q] \in Pads => claim'[q] = claim[q]
  BY <1>2, <1>4, NamesDiffer
<1>6. CASE EndSend(t)
  BY <1>1, <1>5, <1>6, SendEnds
<1>7. CASE claim'[r] = p /\ Goes(t, "claimed") /\ UNCHANGED padLock
  BY <1>1, <1>2, <1>5, <1>7, SendGoes DEF p, r
<1> QED
  BY <1>3, <1>6, <1>7

LEMMA EncapsulateMoves ==
  ASSUME TypeOK, NEW t \in Tabs, Encapsulate(t), UNCHANGED receiveVars
  PROVE  /\ TabMoves(t) /\ PadsAsWere
         /\ UNCHANGED <<confirmed, claim, handoff, exported, released>>
         /\ sending[t].at = "claimed"
         /\ payload' \in [Pads -> Packages \cup {None, Torn}]
         /\ confirmBytes' \in [Pads -> Packages \cup {None, Torn}]
         /\ \/ sending'[t] = Idle
            \/ /\ UNCHANGED padLock /\ sending'[t].at = "staging"
               /\ sending'[t].pad = sending[t].pad /\ sending'[t].req = sending[t].req
               /\ sending'[t].pkg \in Packages /\ sending'[t].pkg.pad = sending[t].pad
               /\ sending'[t].pkg.req = sending[t].req
               /\ sending'[t].pkg.genesis = ~used[sending[t].pad]
<1> DEFINE p == sending[t].pad
           r == sending[t].req
<1>1. /\ sending[t].at = "claimed" /\ PadsAsWere
      /\ UNCHANGED <<confirmed, claim, handoff, exported, released>>
  BY DEF Encapsulate, PadsAsWere
<1>2. /\ sending[t] \in SealRecord /\ p \in Pads /\ r \in Requests
      /\ used[p] \in BOOLEAN
  BY <1>1, SendParts DEF TypeOK, SealSteps, InstallTypeOK
<1>3. /\ payload' = payload \/ payload' = [payload EXCEPT ![p] = None]
      /\ confirmBytes' = confirmBytes \/ confirmBytes' = [confirmBytes EXCEPT ![p] = None]
  BY DEF Encapsulate
<1>4. /\ payload' \in [Pads -> Packages \cup {None, Torn}]
      /\ confirmBytes' \in [Pads -> Packages \cup {None, Torn}]
  BY <1>2, <1>3 DEF TypeOK, SendTypeOK
<1>5. CASE EndSend(t)
  BY <1>1, <1>4, <1>5, SendEnds
<1>6. ASSUME NEW n \in Nonces, NEW x, x = [pad |-> p, req |-> r, nonce |-> n, genesis |-> ~used[p]],
             sending' = [sending EXCEPT ![t].at = "staging", ![t].pkg = x], UNCHANGED padLock
      PROVE  /\ TabMoves(t) /\ sending'[t].at = "staging" /\ sending'[t].pad = p
             /\ sending'[t].req = r /\ sending'[t].pkg = x /\ x \in Packages
             /\ x.pad = p /\ x.req = r /\ x.genesis = ~used[p]
  <2> DEFINE v == [sending[t] EXCEPT !.at = "staging", !.pkg = x]
  <2>1. x \in Packages /\ x.pad = p /\ x.req = r /\ x.genesis = ~used[p]
    BY <1>2, <1>6 DEF Packages
  <2>2. /\ v \in SealRecord /\ v.at = "staging" /\ v.pad = p /\ v.req = r /\ v.pkg = x
    BY <1>2, <2>1 DEF SealRecord, SealSteps
  <2>3. sending' = [sending EXCEPT ![t] = v]
    BY <1>2, <1>6 DEF SealRecord
  <2> HIDE DEF v, p, r
  <2>4. v \in Sends
    BY <2>2, IdleAndRest
  <2>5. receiving' = receiving /\ padLock' = padLock
    BY <1>6 DEF receiveVars
  <2>6. TabMoves(t) /\ sending'[t] = v
    BY <2>3, <2>4, <2>5, SendBecomes DEF TabMoves, TypeOK, ReceiveTypeOK, InstallTypeOK
  <2> QED
    BY <2>1, <2>2, <2>6
<1>7. \/ EndSend(t)
      \/ /\ \E n \in Nonces :
              LET x == [pad |-> p, req |-> r, nonce |-> n, genesis |-> ~used[p]] IN
              sending' = [sending EXCEPT ![t].at = "staging", ![t].pkg = x]
         /\ UNCHANGED padLock
  BY DEF Encapsulate
<1>8. CASE /\ \E n \in Nonces :
                LET x == [pad |-> p, req |-> r, nonce |-> n, genesis |-> ~used[p]] IN
                sending' = [sending EXCEPT ![t].at = "staging", ![t].pkg = x]
           /\ UNCHANGED padLock
  <2>1. PICK n \in Nonces :
          sending' = [sending EXCEPT ![t].at = "staging",
            ![t].pkg = [pad |-> p, req |-> r, nonce |-> n, genesis |-> ~used[p]]]
    BY <1>8
  <2> DEFINE x == [pad |-> p, req |-> r, nonce |-> n, genesis |-> ~used[p]]
  <2>2. /\ TabMoves(t) /\ sending'[t].at = "staging" /\ sending'[t].pad = p
        /\ sending'[t].req = r /\ sending'[t].pkg = x /\ x \in Packages
        /\ x.pad = p /\ x.req = r /\ x.genesis = ~used[p]
    BY <1>6, <1>8, <2>1
  <2> HIDE DEF x
  <2> QED
    BY <1>1, <1>4, <1>8, <2>2
<1> QED
  BY <1>5, <1>7, <1>8, <1>1, <1>4

(* A file of the staging area is written, or the seal ends.                *)
LEMMA StageMoves ==
  ASSUME TypeOK, NEW t \in Tabs, StagePackage(t) \/ StageConfirmation(t), UNCHANGED receiveVars
  PROVE  /\ TabMoves(t) /\ PadsAsWere
         /\ UNCHANGED <<confirmed, claim, handoff, exported, released>>
         /\ sending[t].at \in {"staging", "payload"}
         /\ sending[t].pkg \in Packages => /\ payload' \in [Pads -> Packages \cup {None, Torn}]
                                           /\ confirmBytes' \in [Pads -> Packages \cup {None, Torn}]
         /\ \/ sending'[t] = Idle
            \/ /\ UNCHANGED padLock /\ sending'[t].at \in {"payload", "confirm"}
               /\ sending'[t].pad = sending[t].pad /\ sending'[t].req = sending[t].req
               /\ sending'[t].pkg = sending[t].pkg
<1>1. /\ PadsAsWere /\ UNCHANGED <<confirmed, claim, handoff, exported, released>>
      /\ sending[t].at \in {"staging", "payload"}
  BY DEF StagePackage, StageConfirmation, PadsAsWere
<1>2. sending[t].at \in SealSteps /\ sending[t].pad \in Pads
  BY <1>1, SendParts DEF TypeOK, SealSteps
<1>3. \/ EndSend(t)
      \/ \E at \in {"payload", "confirm"} : Goes(t, at) /\ UNCHANGED padLock
  BY DEF StagePackage, StageConfirmation, Stage, Outcomes
<1>4. /\ payload' = payload \/ payload' = [payload EXCEPT ![sending[t].pad] = sending[t].pkg]
           \/ payload' = [payload EXCEPT ![sending[t].pad] = Torn]
      /\ confirmBytes' = confirmBytes
           \/ confirmBytes' = [confirmBytes EXCEPT ![sending[t].pad] = sending[t].pkg]
           \/ confirmBytes' = [confirmBytes EXCEPT ![sending[t].pad] = Torn]
  BY DEF StagePackage, StageConfirmation, Stage, Outcomes
<1>5. sending[t].pkg \in Packages => /\ payload' \in [Pads -> Packages \cup {None, Torn}]
                                     /\ confirmBytes' \in [Pads -> Packages \cup {None, Torn}]
  BY <1>2, <1>4 DEF TypeOK, SendTypeOK
<1>6. CASE EndSend(t)
  BY <1>1, <1>5, <1>6, SendEnds
<1>7. ASSUME NEW at \in {"payload", "confirm"}, Goes(t, at), UNCHANGED padLock
      PROVE  /\ TabMoves(t) /\ sending'[t].at = at
             /\ sending'[t].pad = sending[t].pad /\ sending'[t].req = sending[t].req
             /\ sending'[t].pkg = sending[t].pkg
  BY <1>2, <1>7, SendGoes DEF SealSteps
<1> QED
  BY <1>1, <1>3, <1>5, <1>6, <1>7

(* The record that commits: there, unreadable, or not there and the call   *)
(* over.                                                                   *)
LEMMA MarkMoves ==
  ASSUME TypeOK, NEW t \in Tabs, WriteSealedMarker(t) \/ WritePhysicalMarker(t),
         UNCHANGED receiveVars
  PROVE  /\ TabMoves(t) /\ PadsAsWere
         /\ UNCHANGED <<confirmed, claim, payload, confirmBytes, exported, released>>
         /\ sending[t].at \in {"confirm", "export"} /\ sending[t].pad \in Pads
         /\ \/ sending'[t] = Idle /\ handoff' = handoff
            \/ sending'[t] = Idle /\ handoff' = [handoff EXCEPT ![sending[t].pad] = Unreadable]
            \/ /\ UNCHANGED padLock /\ sending'[t].pad = sending[t].pad
               /\ sending[t].at = "confirm" /\ sending'[t].at = "marked"
               /\ sending'[t].req = sending[t].req /\ sending'[t].pkg = sending[t].pkg
               /\ handoff' = [handoff EXCEPT ![sending[t].pad] = SealedAs(sending[t].pkg)]
            \/ /\ UNCHANGED padLock /\ sending'[t].pad = sending[t].pad
               /\ sending[t].at = "export" /\ sending'[t].at = "exportable"
               /\ handoff' = [handoff EXCEPT ![sending[t].pad] = Physical]
<1>1. /\ PadsAsWere /\ UNCHANGED <<confirmed, claim, payload, confirmBytes, exported, released>>
      /\ sending[t].at \in {"confirm", "export"}
  BY DEF WriteSealedMarker, WritePhysicalMarker, PadsAsWere
<1>2. /\ sending[t].at = "confirm" => sending[t].at \in SealSteps
      /\ sending[t].at = "export" => sending[t].at \in ExportSteps
      /\ sending[t].pad \in Pads
  BY <1>1, SendParts DEF TypeOK, SealSteps, ExportSteps
<1>3. \/ EndSend(t) /\ handoff' = handoff
      \/ EndSend(t) /\ handoff' = [handoff EXCEPT ![sending[t].pad] = Unreadable]
      \/ /\ sending[t].at = "confirm" /\ Goes(t, "marked") /\ UNCHANGED padLock
         /\ handoff' = [handoff EXCEPT ![sending[t].pad] = SealedAs(sending[t].pkg)]
      \/ /\ sending[t].at = "export" /\ Goes(t, "exportable") /\ UNCHANGED padLock
         /\ handoff' = [handoff EXCEPT ![sending[t].pad] = Physical]
  BY DEF WriteSealedMarker, WritePhysicalMarker, MarkerWritten, Outcomes
<1>4. CASE /\ EndSend(t)
           /\ \/ handoff' = handoff
              \/ handoff' = [handoff EXCEPT ![sending[t].pad] = Unreadable]
  BY <1>1, <1>2, <1>4, SendEnds
<1>5. CASE sending[t].at = "confirm" /\ Goes(t, "marked") /\ UNCHANGED padLock
             /\ handoff' = [handoff EXCEPT ![sending[t].pad] = SealedAs(sending[t].pkg)]
  BY <1>1, <1>2, <1>5, SendGoes DEF SealSteps
<1>6. CASE sending[t].at = "export" /\ Goes(t, "exportable") /\ UNCHANGED padLock
             /\ handoff' = [handoff EXCEPT ![sending[t].pad] = Physical]
  BY <1>1, <1>2, <1>6, SendGoes DEF ExportSteps
<1> QED
  BY <1>3, <1>4, <1>5, <1>6

LEMMA ReleaseMoves ==
  ASSUME TypeOK, NEW t \in Tabs, ReleasePackage(t) \/ ReleaseContainer(t), UNCHANGED receiveVars
  PROVE  /\ TabMoves(t) /\ PadsAsWere /\ sending'[t] = Idle
         /\ UNCHANGED <<confirmed, claim, handoff, payload, confirmBytes>>
         /\ sending[t].at \in {"marked", "exportable"} /\ sending[t].pad \in Pads
         /\ \/ released' = released /\ exported' = exported
            \/ /\ sending[t].at = "marked" /\ Recoverable(sending[t].pad)
               /\ released' = released \cup {payload[sending[t].pad]} /\ exported' = exported
            \/ /\ sending[t].at = "exportable" /\ exported' = exported \cup {sending[t].pad}
               /\ released' = released
<1>1. /\ PadsAsWere /\ UNCHANGED <<confirmed, claim, handoff, payload, confirmBytes>>
      /\ sending[t].at \in {"marked", "exportable"} /\ EndSend(t)
      /\ \/ released' = released /\ exported' = exported
         \/ /\ sending[t].at = "marked" /\ Recoverable(sending[t].pad)
            /\ released' = released \cup {payload[sending[t].pad]} /\ exported' = exported
         \/ /\ sending[t].at = "exportable" /\ exported' = exported \cup {sending[t].pad}
            /\ released' = released
  BY DEF ReleasePackage, ReleaseContainer, PadsAsWere
<1> QED
  BY <1>1, SendEnds, SendParts DEF TypeOK
-----------------------------------------------------------------------------
(* The steps of an opening, a save and an import, one by one.              *)

(* Only what stands at no end can be ended.                                *)
LEMMA PendingIsOpen ==
  ASSUME NEW r, NEW late, StateOf(r, late) \in {"pending", "expired-pending"}
  PROVE  cancelled[r] = None /\ consumed[r] = None
BY DEF StateOf

CancelMoves ==
  /\ cancelled' \in [OwnRequests -> Reasons \cup {None, Torn}]
  /\ \A r \in OwnRequests :
       \/ cancelled'[r] = cancelled[r]
       \/ cancelled[r] = None /\ consumed[r] = None
  /\ \/ cancelled' = cancelled
     \/ \E r \in OwnRequests, v \in Reasons \cup {Torn} :
          /\ cancelled[r] = None /\ consumed[r] = None
          /\ cancelled' = [cancelled EXCEPT ![r] = v]

LEMMA CancelledMoves ==
  ASSUME ReceiveTypeOK, NEW r \in OwnRequests, NEW reason \in Reasons,
         NEW o \in Outcomes, CancelWritten(r, reason, o)
  PROVE  CancelMoves
<1>1. cancelled \in [OwnRequests -> Reasons \cup {None, Torn}]
  BY DEF ReceiveTypeOK
<1>2. CASE StateOf(r, expired[r]) \in {"pending", "expired-pending"} /\ o \in Outcomes
  <2>1. cancelled[r] = None /\ consumed[r] = None
    BY <1>2, PendingIsOpen
  <2>2. cancelled' = cancelled \/ cancelled' = [cancelled EXCEPT ![r] = reason]
          \/ cancelled' = [cancelled EXCEPT ![r] = Torn]
    BY <1>2 DEF CancelWritten, Outcomes
  <2> QED
    BY <1>1, <2>1, <2>2 DEF CancelMoves
<1>3. CASE StateOf(r, expired[r]) \notin {"pending", "expired-pending"}
  BY <1>1, <1>3 DEF CancelWritten, CancelMoves
<1> QED
  BY <1>1, <1>2, <1>3 DEF CancelWritten, CancelMoves

SessionTypes ==
  /\ session \in [Tabs -> Sessions \cup {None}]
  /\ lease \in [OwnRequests -> Tabs \cup {None}]
  /\ reqLock \in [OwnRequests -> Tabs \cup {None}]

LEMMA SessionEnded ==
  ASSUME ReceiveTypeOK, NEW t \in Tabs, EndSession(t)
  PROVE  /\ session' \in [Tabs -> Sessions \cup {None}]
         /\ lease' \in [OwnRequests -> Tabs \cup {None}]
BY DEF ReceiveTypeOK, EndSession

(* A call begins that changes no file: an opening, a rejection, a save.    *)
LEMMA BeginMoves ==
  ASSUME TypeOK, NEW t \in Tabs,
         BeginReject(t) \/ BeginSave(t) \/ \E x \in AtHand : BeginOpen(t, x),
         UNCHANGED sendVars
  PROVE  /\ TabMoves(t) /\ UNCHANGED installVars /\ SessionTypes'
         /\ UNCHANGED <<request, expired, cancelled, consumed, arrived>>
         /\ receiving'[t].at \in {"opening", "rejecting", "saving"}
<1>1. UNCHANGED installVars /\ UNCHANGED <<request, expired, cancelled, consumed, reqLock, arrived>>
  BY DEF BeginReject, BeginSave, BeginOpen
<1>2. padLock' = padLock
  BY <1>1 DEF installVars
<1>3. session' = session /\ reqLock' = reqLock
  BY DEF BeginReject, BeginSave, BeginOpen
<1>4. \A x \in Parcels : x.req \in OwnRequests
  BY ParcelsArePackages
<1>5. ASSUME NEW at \in {"opening", "rejecting", "saving"}, NEW r \in OwnRequests,
             NEW x \in Parcels,
             receiving' = [receiving EXCEPT ![t] = [at |-> at, req |-> r, pkg |-> x]]
      PROVE  TabMoves(t) /\ receiving'[t].at = at
  <2> DEFINE v == [at |-> at, req |-> r, pkg |-> x]
  <2>1. v \in PackageRecord /\ v.at = at
    BY DEF PackageRecord, PackageSteps
  <2> HIDE DEF v
  <2>2. receiving' = [receiving EXCEPT ![t] = v] /\ v \in Receipts
    BY <1>5, <2>1, IdleAndRest DEF v
  <2> QED
    BY <1>2, <2>1, <2>2, ReceiptBecomes
<1>6. CASE BeginReject(t) \/ BeginSave(t)
  <2>1. session[t] \in Sessions
    BY <1>6 DEF BeginReject, BeginSave, TypeOK, ReceiveTypeOK
  <2>2. session[t].req \in OwnRequests /\ session[t].pkg \in Parcels
    BY <2>1 DEF Sessions
  <2>3. SessionTypes'
    BY <1>3, <1>6 DEF BeginReject, BeginSave, SessionTypes, TypeOK, ReceiveTypeOK
  <2> QED
    BY <1>1, <1>5, <1>6, <2>2, <2>3 DEF BeginReject, BeginSave
<1>7. CASE \E x \in AtHand : BeginOpen(t, x)
  <2>1. PICK x \in Parcels : BeginOpen(t, x)
    BY <1>7 DEF AtHand, Foreign
  <2>2. SessionTypes'
    BY <1>3, <1>4, <2>1 DEF BeginOpen, SessionTypes, TypeOK, ReceiveTypeOK
  <2> QED
    BY <1>1, <1>4, <1>5, <2>1, <2>2 DEF BeginOpen
<1> QED
  BY <1>6, <1>7

LEMMA AbandonMoves ==
  ASSUME TypeOK, NEW t \in Tabs, Abandon(t), UNCHANGED sendVars
  PROVE  /\ TabMoves(t) /\ UNCHANGED installVars /\ receiving' = receiving /\ SessionTypes'
         /\ UNCHANGED <<request, expired, cancelled, consumed, arrived>>
BY SessionEnded DEF Abandon, TabMoves, TypeOK, SendTypeOK, ReceiveTypeOK, InstallTypeOK, sendVars,
   installVars, SessionTypes

(* The calls that take no pad lock: the key is used, a session made, a     *)
(* package rejected, a save finds its session or does not.                 *)
LEMMA SessionMoves ==
  ASSUME TypeOK, NEW t \in Tabs, UseKey(t) \/ OpenSession(t) \/ Reject(t) \/ ResolveSession(t),
         UNCHANGED sendVars
  PROVE  /\ TabMoves(t) /\ UNCHANGED installVars /\ SessionTypes' /\ CancelMoves
         /\ UNCHANGED <<request, expired, consumed, arrived>>
         /\ receiving'[t].at \in {"rest", "opened", "locked"}
<1> DEFINE r == receiving[t].req
<1>1. receiving[t].at \in {"opening", "opened", "rejecting", "saving"}
  BY DEF UseKey, OpenSession, Reject, ResolveSession
<1>2. receiving[t].at \in PackageSteps /\ r \in OwnRequests /\ receiving[t].pkg \in Parcels
  BY <1>1, ReceiveParts DEF PackageSteps, TypeOK
<1>3. UNCHANGED installVars /\ UNCHANGED <<request, expired, consumed, arrived>>
  BY DEF UseKey, OpenSession, Reject, ResolveSession
<1>4. padLock' = padLock
  BY <1>3 DEF installVars
<1>5. CancelMoves
  <2>1. \/ cancelled' = cancelled
        \/ \E o \in Outcomes : CancelWritten(r, "expired", o) \/ CancelWritten(r, "rejected", o)
    BY DEF UseKey, OpenSession, Reject, ResolveSession
  <2>2. {"expired", "rejected"} \subseteq Reasons
    BY DEF Reasons
  <2>3. cancelled' = cancelled => CancelMoves
    BY DEF CancelMoves, TypeOK, ReceiveTypeOK
  <2> QED
    BY <1>2, <2>1, <2>2, <2>3, CancelledMoves DEF TypeOK
<1>6. /\ session \in [Tabs -> Sessions \cup {None}]
      /\ lease \in [OwnRequests -> Tabs \cup {None}]
      /\ reqLock \in [OwnRequests -> Tabs \cup {None}]
  BY DEF TypeOK, ReceiveTypeOK
<1>7. reqLock' \in [OwnRequests -> Tabs \cup {None}]
  <2>1. reqLock' = reqLock \/ reqLock' = [reqLock EXCEPT ![r] = t]
    BY DEF UseKey, OpenSession, Reject, ResolveSession, LockRequest
  <2> QED
    BY <1>6, <2>1
<1>8. /\ session' \in [Tabs -> Sessions \cup {None}]
      /\ lease' \in [OwnRequests -> Tabs \cup {None}]
  <2>1. CASE EndSession(t)
    BY <2>1, SessionEnded DEF TypeOK
  <2>2. CASE OpenSession(t)
    <3>1. receiving[t].pkg.req \in OwnRequests
      BY <1>2, ParcelsArePackages
    <3>2. [req |-> receiving[t].pkg.req, pkg |-> receiving[t].pkg] \in Sessions
      BY <1>2, <3>1 DEF Sessions
    <3> QED
      BY <1>6, <2>2, <3>2 DEF OpenSession
  <2>3. CASE UseKey(t)
    BY <1>6, <2>3 DEF UseKey
  <2>4. CASE session' = session /\ lease' = lease
    BY <1>6, <2>4
  <2>5. Reject(t) \/ ResolveSession(t) => EndSession(t) \/ (session' = session /\ lease' = lease)
    BY DEF Reject, ResolveSession
  <2> QED
    BY <2>1, <2>2, <2>3, <2>4, <2>5
<1>9. TabMoves(t) /\ receiving'[t].at \in {"rest", "opened", "locked"}
  <2>1. \/ receiving' = [receiving EXCEPT ![t] = Rest]
        \/ \E at \in {"opened", "locked"} : Proceeds(t, at)
    BY DEF UseKey, OpenSession, Reject, ResolveSession
  <2>2. CASE receiving' = [receiving EXCEPT ![t] = Rest]
    BY <1>4, <2>2, IdleAndRest, ReceiptBecomes
  <2>3. CASE \E at \in {"opened", "locked"} : Proceeds(t, at)
    BY <1>2, <1>4, <2>3, ReceiptProceeds DEF PackageSteps
  <2> QED
    BY <2>1, <2>2, <2>3
<1> QED
  BY <1>3, <1>5, <1>7, <1>8, <1>9 DEF SessionTypes

LEMMA CheckMoves ==
  ASSUME TypeOK, NEW t \in Tabs, CheckPad(t), UNCHANGED sendVars
  PROVE  /\ TabMoves(t) /\ PadsAsWere /\ SessionTypes'
         /\ UNCHANGED <<request, expired, cancelled, consumed, arrived>>
         /\ \/ receiving'[t].at = "rest"
            \/ /\ receiving'[t].at = "checked" /\ receiving'[t].pkg = receiving[t].pkg
               /\ padLock'[receiving[t].pkg.pad] = t
<1> DEFINE p == receiving[t].pkg.pad
<1>1. /\ PadsAsWere /\ receiving[t].at = "locked" /\ session' = session /\ lease' = lease
      /\ UNCHANGED <<request, expired, cancelled, consumed, arrived>>
  BY DEF CheckPad, PadsAsWere
<1>2. receiving[t].at \in PackageSteps /\ p \in Pads /\ "checked" \in PackageSteps
  BY <1>1, ReceiveParts DEF PackageSteps, TypeOK
<1>3. EndReceipt(t) \/ (Lock(t, p) /\ Proceeds(t, "checked") /\ reqLock' = reqLock)
  BY DEF CheckPad
<1> HIDE DEF p
<1>4. CASE EndReceipt(t)
  BY <1>1, <1>4, ReceiptEnds, IdleAndRest DEF SessionTypes, TypeOK, ReceiveTypeOK
<1>5. CASE Lock(t, p) /\ Proceeds(t, "checked") /\ reqLock' = reqLock
  <2>1. /\ TabMoves(t) /\ receiving'[t].at = "checked" /\ receiving'[t].pkg = receiving[t].pkg
    BY <1>2, <1>5, ReceiptProceeds
  <2>2. padLock'[p] = t
    BY <1>2, <1>5, TabLocks DEF TypeOK
  <2>3. SessionTypes'
    BY <1>1, <1>5 DEF SessionTypes, TypeOK, ReceiveTypeOK
  <2> QED
    BY <1>1, <2>1, <2>2, <2>3 DEF p
<1> QED
  BY <1>3, <1>4, <1>5

ConsumeMoves ==
  /\ consumed' \in [OwnRequests -> Records \cup {None, Torn}]
  /\ \A r \in OwnRequests :
       consumed'[r] = consumed[r] \/ (cancelled[r] = None /\ consumed[r] = None)
  /\ \/ consumed' = consumed
     \/ \E r \in OwnRequests, v \in Records \cup {Torn} :
          /\ cancelled[r] = None /\ consumed[r] = None
          /\ consumed' = [consumed EXCEPT ![r] = v]

LEMMA ConsumeStep ==
  ASSUME TypeOK, NEW t \in Tabs, Consume(t), UNCHANGED sendVars
  PROVE  /\ TabMoves(t) /\ PadsAsWere /\ SessionTypes'
         /\ UNCHANGED <<request, expired, cancelled, arrived>>
         /\ receiving[t].at = "checked"
         /\ ConsumeMoves
         /\ \/ receiving'[t].at = "rest"
            \/ /\ UNCHANGED padLock /\ receiving'[t].at = "consumed"
               /\ receiving'[t].req = receiving[t].req /\ receiving'[t].pkg = receiving[t].pkg
               /\ consumed'[receiving[t].req] \in Records
               /\ consumed'[receiving[t].req].pad = receiving[t].pkg.pad
<1> DEFINE r == receiving[t].req
           x == receiving[t].pkg
           record == [pad |-> x.pad, pkg |-> IF session[t] = None THEN None ELSE x]
<1>1. /\ PadsAsWere /\ receiving[t].at = "checked"
      /\ UNCHANGED <<request, expired, cancelled, arrived>>
  BY DEF Consume, PadsAsWere
<1>2. /\ receiving[t].at \in PackageSteps /\ r \in OwnRequests /\ x \in Parcels /\ x.pad \in Pads
      /\ "consumed" \in PackageSteps
  BY <1>1, ReceiveParts DEF PackageSteps, TypeOK
<1>3. record \in Records /\ record.pad = x.pad
  BY <1>2 DEF Records
<1>4. /\ consumed \in [OwnRequests -> Records \cup {None, Torn}]
      /\ session \in [Tabs -> Sessions \cup {None}]
      /\ lease \in [OwnRequests -> Tabs \cup {None}]
      /\ reqLock \in [OwnRequests -> Tabs \cup {None}]
  BY DEF TypeOK, ReceiveTypeOK
<1>5. \/ /\ StateOf(r, FALSE) = "pending" /\ consumed' = [consumed EXCEPT ![r] = record]
         /\ Proceeds(t, "consumed") /\ UNCHANGED <<reqLock, padLock, session, lease>>
      \/ /\ StateOf(r, FALSE) = "pending" /\ consumed' = [consumed EXCEPT ![r] = Torn]
         /\ EndReceipt(t) /\ EndSession(t)
      \/ EndReceipt(t) /\ UNCHANGED <<consumed, session, lease>>
  BY DEF Consume, Outcomes
<1>6. StateOf(r, FALSE) = "pending" => cancelled[r] = None /\ consumed[r] = None
  BY DEF StateOf
<1> HIDE DEF record
<1>7. CASE /\ StateOf(r, FALSE) = "pending" /\ consumed' = [consumed EXCEPT ![r] = record]
           /\ Proceeds(t, "consumed") /\ UNCHANGED <<reqLock, padLock, session, lease>>
  <2>1. /\ TabMoves(t) /\ receiving'[t].at = "consumed"
        /\ receiving'[t].req = r /\ receiving'[t].pkg = x
    BY <1>2, <1>7, ReceiptProceeds
  <2>2. SessionTypes'
    BY <1>4, <1>7 DEF SessionTypes
  <2>3. /\ consumed' \in [OwnRequests -> Records \cup {None, Torn}] /\ consumed'[r] = record
        /\ \A q \in OwnRequests : consumed'[q] = consumed[q]
                                    \/ (cancelled[q] = None /\ consumed[q] = None)
    BY <1>2, <1>3, <1>4, <1>6, <1>7
  <2>4. ConsumeMoves
    BY <1>2, <1>3, <1>6, <1>7, <2>3 DEF ConsumeMoves
  <2> QED
    BY <1>1, <1>3, <1>7, <2>1, <2>2, <2>3, <2>4
<1>8. CASE /\ StateOf(r, FALSE) = "pending" /\ consumed' = [consumed EXCEPT ![r] = Torn]
           /\ EndReceipt(t) /\ EndSession(t)
  <2>1. /\ consumed' \in [OwnRequests -> Records \cup {None, Torn}]
        /\ \A q \in OwnRequests : consumed'[q] = consumed[q]
                                    \/ (cancelled[q] = None /\ consumed[q] = None)
    BY <1>2, <1>4, <1>6, <1>8
  <2>2. TabMoves(t) /\ receiving'[t].at = "rest" /\ SessionTypes'
    BY <1>8, ReceiptEnds, SessionEnded, IdleAndRest DEF SessionTypes, TypeOK
  <2>3. ConsumeMoves
    BY <1>2, <1>6, <1>8, <2>1 DEF ConsumeMoves
  <2> QED
    BY <1>1, <2>2, <2>3
<1>9. CASE EndReceipt(t) /\ UNCHANGED <<consumed, session, lease>>
  <2>1. TabMoves(t) /\ receiving'[t].at = "rest" /\ SessionTypes'
    BY <1>4, <1>9, ReceiptEnds, IdleAndRest DEF SessionTypes
  <2>2. ConsumeMoves
    BY <1>4, <1>9 DEF ConsumeMoves
  <2> QED
    BY <1>1, <1>9, <2>1, <2>2
<1> QED
  BY <1>5, <1>7, <1>8, <1>9

(* An import begins or is given up.                                        *)
LEMMA ImportMoves ==
  ASSUME TypeOK, NEW t \in Tabs, ImportBegins(t), UNCHANGED sendVars
  PROVE  /\ TabMoves(t) /\ SessionTypes' /\ receiving[t].at = "consumed"
         /\ UNCHANGED <<request, expired, cancelled, consumed, arrived, used, destroyed>>
         /\ \/ receiving'[t].at = "rest" /\ PadsAsWere
            \/ /\ UNCHANGED padLock /\ receiving'[t].at = "importing"
               /\ receiving'[t].req = receiving[t].req /\ receiving'[t].pkg = receiving[t].pkg
               /\ BeginImport(receiving[t].pkg.pad)
<1> DEFINE p == receiving[t].pkg.pad
<1>1. /\ receiving[t].at = "consumed" /\ UNCHANGED <<request, expired, cancelled, consumed, arrived>>
  BY DEF ImportBegins
<1>2. receiving[t].at \in PackageSteps /\ "importing" \in PackageSteps
  BY <1>1 DEF PackageSteps
<1>3. \/ BeginImport(p) /\ Proceeds(t, "importing") /\ UNCHANGED <<padLock, reqLock, session, lease>>
      \/ EndReceipt(t) /\ EndSession(t) /\ PadsAsWere
  BY DEF ImportBegins, PadsAsWere
<1> HIDE DEF p
<1>4. CASE BeginImport(p) /\ Proceeds(t, "importing") /\ UNCHANGED <<padLock, reqLock, session, lease>>
  <2>1. /\ TabMoves(t) /\ receiving'[t].at = "importing"
        /\ receiving'[t].req = receiving[t].req /\ receiving'[t].pkg = receiving[t].pkg
    BY <1>2, <1>4, ReceiptProceeds
  <2>2. SessionTypes'
    BY <1>4 DEF SessionTypes, TypeOK, ReceiveTypeOK
  <2>3. UNCHANGED <<used, destroyed>>
    BY <1>4 DEF BeginImport
  <2> QED
    BY <1>1, <1>4, <2>1, <2>2, <2>3 DEF p
<1>5. CASE EndReceipt(t) /\ EndSession(t) /\ PadsAsWere
  <2>1. TabMoves(t) /\ receiving'[t].at = "rest" /\ SessionTypes'
    BY <1>5, ReceiptEnds, SessionEnded, IdleAndRest DEF SessionTypes, TypeOK
  <2> QED
    BY <1>1, <1>5, <2>1 DEF PadsAsWere
<1> QED
  BY <1>3, <1>4, <1>5

LEMMA ImportedMoves ==
  ASSUME TypeOK, NEW t \in Tabs, ImportCommits(t), UNCHANGED sendVars
  PROVE  /\ TabMoves(t) /\ SessionTypes' /\ receiving[t].at = "importing"
         /\ UNCHANGED <<request, expired, cancelled, consumed>>
         /\ receiving'[t].at = "rest"
         /\ \/ PadsAsWere /\ arrived' = arrived
            \/ /\ CommitImport(receiving[t].pkg.pad)
               /\ arrived' = arrived \cup {[req |-> receiving[t].pkg.req, pkg |-> receiving[t].pkg]}
<1>1. /\ receiving[t].at = "importing" /\ UNCHANGED <<request, expired, cancelled, consumed>>
      /\ EndReceipt(t) /\ EndSession(t)
      /\ \/ PadsAsWere /\ arrived' = arrived
         \/ /\ CommitImport(receiving[t].pkg.pad)
            /\ arrived' = arrived \cup {[req |-> receiving[t].pkg.req, pkg |-> receiving[t].pkg]}
  BY DEF ImportCommits, PadsAsWere
<1>2. TabMoves(t) /\ receiving'[t].at = "rest" /\ SessionTypes'
  BY <1>1, ReceiptEnds, SessionEnded, IdleAndRest DEF SessionTypes, TypeOK
<1> QED
  BY <1>1, <1>2

LEMMA BeginFileMoves ==
  ASSUME TypeOK, NEW t \in Tabs, NEW p \in Pads, BeginFileImport(t, p), UNCHANGED sendVars
  PROVE  /\ TabMoves(t) /\ SessionTypes' /\ BeginImport(p) /\ padLock'[p] = t /\ padLock[p] = None
         /\ UNCHANGED <<request, expired, cancelled, consumed, arrived, used, destroyed>>
         /\ receiving'[t].at = "file" /\ receiving'[t].pad = p
<1> DEFINE v == [at |-> "file", pad |-> p]
<1>1. v \in FileRecord /\ v.at = "file" /\ v.pad = p
  BY DEF FileRecord
<1>2. /\ Lock(t, p) /\ BeginImport(p) /\ receiving' = [receiving EXCEPT ![t] = v]
      /\ UNCHANGED <<request, expired, cancelled, consumed, session, lease, reqLock, arrived>>
  BY DEF BeginFileImport
<1> HIDE DEF v
<1>3. v \in Receipts
  BY <1>1, IdleAndRest
<1>4. TabMoves(t) /\ receiving'[t] = v
  BY <1>2, <1>3, ReceiptBecomes
<1>5. padLock'[p] = t /\ padLock[p] = None
  BY <1>2, TabLocks DEF Lock, TypeOK
<1> QED
  BY <1>1, <1>2, <1>4, <1>5 DEF SessionTypes, TypeOK, ReceiveTypeOK, BeginImport

LEMMA FileMoves ==
  ASSUME TypeOK, NEW t \in Tabs, CommitFileImport(t), UNCHANGED sendVars
  PROVE  /\ TabMoves(t) /\ SessionTypes' /\ receiving[t].at = "file" /\ receiving'[t].at = "rest"
         /\ UNCHANGED <<request, expired, cancelled, consumed, arrived>>
         /\ PadsAsWere \/ CommitImport(receiving[t].pad)
<1>1. /\ receiving[t].at = "file" /\ EndReceipt(t)
      /\ PadsAsWere \/ CommitImport(receiving[t].pad)
      /\ UNCHANGED <<request, expired, cancelled, consumed, session, lease, arrived>>
  BY DEF CommitFileImport, PadsAsWere
<1>2. TabMoves(t) /\ receiving'[t].at = "rest" /\ reqLock' \in [OwnRequests -> Tabs \cup {None}]
  BY <1>1, ReceiptEnds, IdleAndRest
<1> QED
  BY <1>1, <1>2 DEF SessionTypes, TypeOK, ReceiveTypeOK

LEMMA TabClosesMoves ==
  ASSUME TypeOK, NEW t \in Tabs, TabCloses(t)
  PROVE  /\ TabMoves(t) /\ SessionTypes' /\ PadsAsWere /\ FilesAsWere /\ released' = released
         /\ UNCHANGED <<request, expired, cancelled, consumed, arrived>>
         /\ sending'[t] = Idle /\ receiving'[t].at = "rest"
<1>1. /\ sending' = [sending EXCEPT ![t] = Idle] /\ receiving' = [receiving EXCEPT ![t] = Rest]
      /\ Unlock(t) /\ UnlockRequest(t) /\ EndSession(t) /\ PadsAsWere /\ FilesAsWere
      /\ released' = released /\ UNCHANGED <<request, expired, cancelled, consumed, arrived>>
  BY DEF TabCloses, SendTabClosed, ReceiveTabClosed, EndSend, EndReceipt, PadsAsWere, FilesAsWere
<1>2. reqLock' \in [OwnRequests -> Tabs \cup {None}]
  BY <1>1 DEF UnlockRequest, TypeOK, ReceiveTypeOK
<1>3. TabMoves(t) /\ sending'[t] = Idle /\ receiving'[t] = Rest
  BY <1>1, IdleAndRest, SendBecomes, ReceiveBecomes, TabUnlocks DEF TabMoves, TypeOK
<1> QED
  BY <1>1, <1>2, <1>3, SessionEnded, IdleAndRest DEF SessionTypes, TypeOK
-----------------------------------------------------------------------------
(* What one step leaves to everybody else. A step of no tab is one of None,*)
(* which holds no lock.                                                    *)

Spares(t) ==
  /\ \A p \in Pads : padLock[p] \notin {None, t} =>
       /\ pair'[p] = pair[p] /\ origin'[p] = origin[p] /\ used'[p] = used[p]
       /\ destroyed'[p] = destroyed[p] /\ handoff'[p] = handoff[p]
  /\ \A r \in Requests : claim[r] \in Pads => claim'[r] = claim[r]
  /\ \A r \in OwnRequests : consumed[r] \in Records => consumed'[r] = consumed[r]

OwnCall(t) == HoldsLock(t) /\ SendsUnspent(t) /\ ImportsAnnounced(t)

(* Every other tab goes on where it was: its pads are locked by it, its    *)
(* request is claimed or consumed for good.                                *)
LEMMA OthersGoOn ==
  ASSUME TypeOK, CallsInv, NEW t \in Tabs \cup {None}, TabMoves(t), Spares(t),
         NEW u \in Tabs, u # t
  PROVE  OwnCall(u)'
<1>1. sending'[u] = sending[u] /\ receiving'[u] = receiving[u]
  BY DEF TabMoves
<1>2. u # None
  BY NamesDiffer
<1>3. HoldsLock(u) /\ SendsUnspent(u) /\ ImportsAnnounced(u)
  BY DEF CallsInv
<1>4. HoldsLock(u)'
  <2>1. sending[u].at # "idle" => sending[u].pad \in Pads
    BY SendParts DEF TypeOK
  <2>2. /\ receiving[u].at \in Saving => receiving[u].pkg.pad \in Pads
        /\ receiving[u].at = "file" => receiving[u].pad \in Pads
    BY ReceiveParts DEF TypeOK, Saving, PackageSteps
  <2>3. \A p \in Pads : padLock[p] = u => padLock'[p] = u
    BY <1>2 DEF TabMoves
  <2> QED
    BY <1>1, <1>3, <2>1, <2>2, <2>3 DEF HoldsLock
<1>5. SendsUnspent(u)'
  <2>1. /\ sending[u].at # "idle" => sending[u].pad \in Pads
        /\ sending[u].at \in SealSteps => sending[u].req \in Requests
    BY SendParts DEF TypeOK
  <2>2. sending[u].at # "idle" =>
          LET p == sending[u].pad IN
          /\ pair'[p] = pair[p] /\ origin'[p] = origin[p] /\ used'[p] = used[p]
          /\ destroyed'[p] = destroyed[p] /\ handoff'[p] = handoff[p]
    BY <1>2, <1>3, <2>1 DEF HoldsLock, Spares
  <2>3. sending[u].at \in Made \cup {"claimed"} => claim'[sending[u].req] = claim[sending[u].req]
    BY <1>3, <2>1 DEF SendsUnspent, Spares, Made, SealSteps
  <2> QED
    BY <1>1, <1>3, <2>2, <2>3 DEF SendsUnspent, SealSteps, Unsealed, Made
<1>6. ImportsAnnounced(u)'
  <2>1. /\ receiving[u].at \in Saving =>
             receiving[u].pkg.pad \in Pads /\ receiving[u].req \in OwnRequests
        /\ receiving[u].at = "file" => receiving[u].pad \in Pads
    BY ReceiveParts DEF TypeOK, Saving, PackageSteps
  <2>2. /\ receiving[u].at \in Saving => pair'[receiving[u].pkg.pad] = pair[receiving[u].pkg.pad]
        /\ receiving[u].at = "file" => pair'[receiving[u].pad] = pair[receiving[u].pad]
    BY <1>2, <1>3, <2>1 DEF HoldsLock, Spares
  <2>3. receiving[u].at \in {"consumed", "importing"} =>
          consumed'[receiving[u].req] = consumed[receiving[u].req]
    BY <1>3, <2>1 DEF ImportsAnnounced, Spares, Saving
  <2> QED
    BY <1>1, <1>3, <2>2, <2>3 DEF ImportsAnnounced, Saving
<1> QED
  BY <1>4, <1>5, <1>6 DEF OwnCall

LEMMA CallsKept ==
  ASSUME TypeOK, CallsInv, NEW t \in Tabs \cup {None}, TabMoves(t), Spares(t),
         t \in Tabs => OwnCall(t)'
  PROVE  CallsInv'
BY OthersGoOn DEF CallsInv, OwnCall

(* A tab in no call, or in one with no pad yet, promises nothing.          *)
LEMMA RestingCall ==
  ASSUME NEW t, sending'[t] = Idle,
         receiving'[t].at \in {"rest", "opening", "opened", "rejecting", "saving", "locked"}
  PROVE  OwnCall(t)'
BY DEF OwnCall, HoldsLock, SendsUnspent, ImportsAnnounced, Idle, Saving, SealSteps, Unsealed, Made

LEMMA PadsKept ==
  ASSUME TypeOK, PadsInv, PadsAsWere, handoff' = handoff, exported' = exported,
         \A r \in Requests : claim[r] \in Pads => claim'[r] = claim[r]
  PROVE  PadsInv'
<1> SUFFICES ASSUME NEW p \in Pads, handoff[p].mode = "sealed"
             PROVE  claim'[handoff[p].pkg.req] = p
  BY DEF PadsInv, PadsAsWere
<1>1. handoff[p] \in Markers
  BY DEF TypeOK, SendTypeOK
<1>2. handoff[p].pkg \in Packages
  BY <1>1 DEF Markers, Absent, Physical, Unreadable, SealedAs
<1>3. handoff[p].pkg.req \in Requests
  BY <1>2 DEF Packages
<1> QED
  BY <1>3 DEF PadsInv

LEMMA EndingKept ==
  ASSUME OneEnding, arrived' = arrived, cancelled' = cancelled, consumed' = consumed
  PROVE  OneEnding'
BY DEF OneEnding

LEMMA RecoverableIs ==
  ASSUME TypeOK, PadsInv, NEW p \in Pads, Recoverable(p)
  PROVE  payload[p] \in Packages /\ payload[p].pad = p /\ handoff[p] = SealedAs(payload[p])
<1>1. handoff[p] \in Markers /\ handoff[p].mode = "sealed" /\ payload[p] = handoff[p].pkg
  BY DEF TypeOK, SendTypeOK, Recoverable
<1>2. handoff[p].pkg \in Packages /\ handoff[p] = SealedAs(handoff[p].pkg)
  BY <1>1 DEF Markers, Absent, Physical, Unreadable, SealedAs
<1>3. handoff[p].pkg.pad = p
  BY <1>1 DEF PadsInv
<1> QED
  BY <1>1, <1>2, <1>3

LEMMA MarkersAre ==
  /\ Absent \in Markers /\ Physical \in Markers /\ Unreadable \in Markers
  /\ Absent.mode = "absent" /\ Physical.mode = "physical" /\ Unreadable.mode = "unreadable"
  /\ \A x \in Packages : SealedAs(x) \in Markers
  /\ \A x : SealedAs(x).mode = "sealed" /\ SealedAs(x).pkg = x
BY DEF Markers, Absent, Physical, Unreadable, SealedAs
-----------------------------------------------------------------------------
(* The invariant through the steps that send.                              *)

ClaimsStay == \A r \in Requests : claim[r] \in Pads => claim'[r] = claim[r]

(* What they all leave: the pads, the receiving side, the pads of others.  *)
LEMMA SendSide ==
  ASSUME TransferInv, NEW t \in Tabs, TabMoves(t), PadsAsWere, UNCHANGED receiveVars, ClaimsStay,
         \A p \in Pads : padLock[p] \notin {None, t} => handoff'[p] = handoff[p]
  PROVE  InstallTypeOK' /\ ReceiveTypeOK' /\ MatchInv' /\ OneEnding' /\ Spares(t)
<1>1. InstallTypeOK'
  BY DEF TransferInv, TypeOK, InstallTypeOK, TabMoves, PadsAsWere
<1>2. ReceiveTypeOK'
  BY DEF TransferInv, TypeOK, ReceiveTypeOK, receiveVars
<1>3. MatchInv'
  BY DEF TransferInv, MatchInv, Matches, receiveVars
<1>4. OneEnding'
  BY EndingKept DEF TransferInv, receiveVars
<1>5. Spares(t)
  BY DEF Spares, PadsAsWere, ClaimsStay, receiveVars
<1> QED
  BY <1>1, <1>2, <1>3, <1>4, <1>5

LEMMA SendingTabRests ==
  ASSUME TransferInv, NEW t \in Tabs, sending[t].at # "idle"
  PROVE  receiving[t] = Rest
BY DEF TransferInv, CallsInv, HoldsLock, Idle

(* A step of the sending side that writes no record and hands nothing over.*)
LEMMA QuietSend ==
  ASSUME TransferInv, NEW t \in Tabs, TabMoves(t), PadsAsWere, UNCHANGED receiveVars, ClaimsStay,
         UNCHANGED <<confirmed, handoff, exported, released>>,
         claim' \in [Requests -> Pads \cup {None, Torn}],
         payload' \in [Pads -> Packages \cup {None, Torn}],
         confirmBytes' \in [Pads -> Packages \cup {None, Torn}],
         OwnCall(t)'
  PROVE  TransferInv'
<1>1. InstallTypeOK' /\ ReceiveTypeOK' /\ MatchInv' /\ OneEnding' /\ Spares(t)
  BY SendSide
<1>2. SendTypeOK'
  BY DEF TransferInv, TypeOK, SendTypeOK, TabMoves
<1>3. CallsInv'
  BY <1>1, CallsKept DEF TransferInv
<1>4. PadsInv'
  BY PadsKept DEF TransferInv, ClaimsStay
<1>5. ReleasedInv'
  BY DEF TransferInv, ReleasedInv
<1> QED
  BY <1>1, <1>2, <1>3, <1>4, <1>5 DEF TransferInv, TypeOK

LEMMA ReshareKeeps ==
  ASSUME TransferInv, NEW t \in Tabs, NEW p \in Pads, NEW r \in Requests, Reshare(t, p, r),
         UNCHANGED receiveVars
  PROVE  TransferInv'
<1>1. /\ TabMoves(t) /\ sending' = sending /\ UNCHANGED padLock /\ PadsAsWere /\ FilesAsWere
      /\ Recoverable(p) /\ released' = released \cup {payload[p]}
  BY ShareMoves DEF TransferInv
<1>2. payload[p] \in Packages /\ payload[p].pad = p /\ handoff[p] = SealedAs(payload[p])
  BY <1>1, RecoverableIs DEF TransferInv
<1>3. InstallTypeOK' /\ ReceiveTypeOK' /\ MatchInv' /\ OneEnding' /\ Spares(t)
  BY <1>1, SendSide DEF FilesAsWere, ClaimsStay
<1>4. SendTypeOK'
  BY <1>1, <1>2 DEF TransferInv, TypeOK, SendTypeOK, FilesAsWere
<1>5. CallsInv'
  BY <1>1 DEF TransferInv, CallsInv, HoldsLock, SendsUnspent, ImportsAnnounced, FilesAsWere,
              PadsAsWere, receiveVars
<1>6. PadsInv'
  BY <1>1, PadsKept DEF TransferInv, FilesAsWere
<1>7. ReleasedInv'
  BY <1>1, <1>2 DEF TransferInv, ReleasedInv, FilesAsWere
<1> QED
  BY <1>3, <1>4, <1>5, <1>6, <1>7 DEF TransferInv, TypeOK

LEMMA ReExportKeeps ==
  ASSUME TransferInv, NEW t \in Tabs, NEW p \in Pads, ReExport(t, p), UNCHANGED receiveVars
  PROVE  TransferInv'
<1>1. /\ TabMoves(t) /\ sending' = sending /\ UNCHANGED padLock /\ PadsAsWere
      /\ UNCHANGED <<confirmed, claim, handoff, payload, confirmBytes, released>>
      /\ ActivePair(p) /\ origin[p] # "imported" /\ exported' = exported \cup {p}
  BY ReExportMoves DEF TransferInv
<1>2. InstallTypeOK' /\ ReceiveTypeOK' /\ MatchInv' /\ OneEnding'
  BY <1>1, SendSide DEF ClaimsStay
<1>3. SendTypeOK'
  BY <1>1 DEF TransferInv, TypeOK, SendTypeOK
<1>4. CallsInv'
  BY <1>1 DEF TransferInv, CallsInv, HoldsLock, SendsUnspent, ImportsAnnounced, PadsAsWere, receiveVars
<1>5. PadsInv'
  BY <1>1 DEF TransferInv, PadsInv, PadsAsWere, ActivePair
<1>6. ReleasedInv'
  BY <1>1 DEF TransferInv, ReleasedInv
<1> QED
  BY <1>2, <1>3, <1>4, <1>5, <1>6 DEF TransferInv, TypeOK

LEMMA BeginSealKeeps ==
  ASSUME TransferInv, NEW t \in Tabs, NEW p \in Pads, NEW r \in Requests, BeginSeal(t, p, r),
         receiving[t] = Rest, UNCHANGED receiveVars
  PROVE  TransferInv'
<1>1. /\ TabMoves(t) /\ PadsAsWere /\ FilesAsWere /\ released' = released
      /\ sending'[t].at = "gated" /\ sending'[t].pad = p /\ padLock'[p] = t
      /\ handoff[p] = Absent /\ PadSealable(p)
  BY BeginSealMoves DEF TransferInv
<1>2. receiving'[t] = Rest /\ Rest.at = "rest"
  BY IdleAndRest DEF receiveVars
<1>3. OwnCall(t)'
  BY <1>1, <1>2 DEF OwnCall, HoldsLock, SendsUnspent, ImportsAnnounced, PadSealable, ActivePair,
                    PadsAsWere, FilesAsWere, Saving, Made, Unsealed, SealSteps
<1> QED
  BY <1>1, <1>3, QuietSend DEF FilesAsWere, ClaimsStay, TransferInv, TypeOK, SendTypeOK

LEMMA BeginExportKeeps ==
  ASSUME TransferInv, NEW t \in Tabs, NEW p \in Pads, BeginExport(t, p),
         receiving[t] = Rest, UNCHANGED receiveVars
  PROVE  TransferInv'
<1>1. /\ TabMoves(t) /\ PadsAsWere /\ FilesAsWere /\ released' = released
      /\ sending'[t].at = "export" /\ sending'[t].pad = p /\ padLock'[p] = t
      /\ handoff[p] = Absent /\ PadExportable(p)
  BY BeginExportMoves DEF TransferInv
<1>2. receiving'[t] = Rest /\ Rest.at = "rest"
  BY IdleAndRest DEF receiveVars
<1>3. OwnCall(t)'
  BY <1>1, <1>2 DEF OwnCall, HoldsLock, SendsUnspent, ImportsAnnounced, PadExportable, ActivePair,
                    PadsAsWere, FilesAsWere, Saving, Made, Unsealed, SealSteps
<1> QED
  BY <1>1, <1>3, QuietSend DEF FilesAsWere, ClaimsStay, TransferInv, TypeOK, SendTypeOK

(* How a seal goes on: the pad, its lock and its record stay as they were. *)
LEMMA SealGoesOn ==
  ASSUME TransferInv, NEW t \in Tabs, sending[t].at \in {"gated", "claimed", "staging", "payload"},
         PadsAsWere, UNCHANGED padLock, UNCHANGED receiveVars, handoff' = handoff,
         sending'[t].at \in Made \cup {"claimed"}, sending'[t].at # "marked",
         sending'[t].pad = sending[t].pad,
         claim'[sending'[t].req] = sending'[t].pad,
         sending'[t].at \in Made =>
           /\ sending'[t].pkg \in Packages /\ sending'[t].pkg.genesis
           /\ sending'[t].pkg.pad = sending'[t].pad /\ sending'[t].pkg.req = sending'[t].req
  PROVE  OwnCall(t)'
<1>1. receiving'[t] = Rest /\ Rest.at = "rest"
  BY SendingTabRests, IdleAndRest DEF receiveVars
<1>2. HoldsLock(t) /\ SendsUnspent(t)
  BY DEF TransferInv, CallsInv
<1>3. HoldsLock(t)'
  BY <1>1, <1>2 DEF HoldsLock, Saving
<1>4. ImportsAnnounced(t)'
  BY <1>1 DEF ImportsAnnounced
<1>5. SendsUnspent(t)'
  BY <1>2 DEF SendsUnspent, Unsealed, Made, SealSteps, PadsAsWere
<1> QED
  BY <1>3, <1>4, <1>5 DEF OwnCall

LEMMA ClaimKeeps ==
  ASSUME TransferInv, NEW t \in Tabs, ClaimRequest(t), UNCHANGED receiveVars
  PROVE  TransferInv'
<1>1. /\ TabMoves(t) /\ PadsAsWere
      /\ UNCHANGED <<confirmed, handoff, payload, confirmBytes, exported, released>>
      /\ sending[t].at = "gated" /\ claim' \in [Requests -> Pads \cup {None, Torn}]
      /\ \A r \in Requests : claim[r] \in Pads => claim'[r] = claim[r]
      /\ \/ sending'[t] = Idle
         \/ /\ UNCHANGED padLock /\ sending'[t].at = "claimed"
            /\ sending'[t].pad = sending[t].pad /\ sending'[t].req = sending[t].req
            /\ claim'[sending[t].req] = sending[t].pad
  BY ClaimMoves DEF TransferInv
<1>2. receiving'[t] = Rest /\ Rest.at = "rest"
  BY <1>1, SendingTabRests, IdleAndRest DEF receiveVars
<1>3. sending'[t] = Idle => OwnCall(t)'
  BY <1>2, RestingCall
<1>4. OwnCall(t)'
  BY <1>1, <1>3, SealGoesOn DEF Made
<1> QED
  BY <1>1, <1>4, QuietSend DEF ClaimsStay, TransferInv, TypeOK, SendTypeOK

LEMMA EncapsulateKeeps ==
  ASSUME TransferInv, NEW t \in Tabs, Encapsulate(t), UNCHANGED receiveVars
  PROVE  TransferInv'
<1>1. /\ TabMoves(t) /\ PadsAsWere
      /\ UNCHANGED <<confirmed, claim, handoff, exported, released>>
      /\ sending[t].at = "claimed"
      /\ payload' \in [Pads -> Packages \cup {None, Torn}]
      /\ confirmBytes' \in [Pads -> Packages \cup {None, Torn}]
      /\ \/ sending'[t] = Idle
         \/ /\ UNCHANGED padLock /\ sending'[t].at = "staging"
            /\ sending'[t].pad = sending[t].pad /\ sending'[t].req = sending[t].req
            /\ sending'[t].pkg \in Packages /\ sending'[t].pkg.pad = sending[t].pad
            /\ sending'[t].pkg.req = sending[t].req
            /\ sending'[t].pkg.genesis = ~used[sending[t].pad]
  BY EncapsulateMoves DEF TransferInv
<1>2. receiving'[t] = Rest /\ Rest.at = "rest"
  BY <1>1, SendingTabRests, IdleAndRest DEF receiveVars
<1>3. sending'[t] = Idle => OwnCall(t)'
  BY <1>2, RestingCall
<1>4. ~used[sending[t].pad] /\ claim[sending[t].req] = sending[t].pad
  BY <1>1 DEF TransferInv, CallsInv, SendsUnspent, SealSteps
<1>5. OwnCall(t)'
  BY <1>1, <1>3, <1>4, SealGoesOn DEF Made
<1> QED
  BY <1>1, <1>5, QuietSend DEF ClaimsStay, TransferInv, TypeOK, SendTypeOK

LEMMA StageKeeps ==
  ASSUME TransferInv, NEW t \in Tabs, StagePackage(t) \/ StageConfirmation(t), UNCHANGED receiveVars
  PROVE  TransferInv'
<1>1. /\ TabMoves(t) /\ PadsAsWere
      /\ UNCHANGED <<confirmed, claim, handoff, exported, released>>
      /\ sending[t].at \in {"staging", "payload"}
      /\ sending[t].pkg \in Packages => /\ payload' \in [Pads -> Packages \cup {None, Torn}]
                                        /\ confirmBytes' \in [Pads -> Packages \cup {None, Torn}]
      /\ \/ sending'[t] = Idle
         \/ /\ UNCHANGED padLock /\ sending'[t].at \in {"payload", "confirm"}
            /\ sending'[t].pad = sending[t].pad /\ sending'[t].req = sending[t].req
            /\ sending'[t].pkg = sending[t].pkg
  BY StageMoves DEF TransferInv
<1>2. receiving'[t] = Rest /\ Rest.at = "rest"
  BY <1>1, SendingTabRests, IdleAndRest DEF receiveVars
<1>3. sending'[t] = Idle => OwnCall(t)'
  BY <1>2, RestingCall
<1>4. /\ claim[sending[t].req] = sending[t].pad /\ sending[t].pkg \in Packages
      /\ sending[t].pkg.genesis /\ sending[t].pkg.pad = sending[t].pad
      /\ sending[t].pkg.req = sending[t].req
  BY <1>1 DEF TransferInv, CallsInv, SendsUnspent, Made
<1>5. OwnCall(t)'
  BY <1>1, <1>3, <1>4, SealGoesOn DEF Made
<1> QED
  BY <1>1, <1>4, <1>5, QuietSend DEF ClaimsStay, TransferInv, TypeOK, SendTypeOK

LEMMA MarkKeeps ==
  ASSUME TransferInv, NEW t \in Tabs, WriteSealedMarker(t) \/ WritePhysicalMarker(t),
         UNCHANGED receiveVars
  PROVE  TransferInv'
<1> DEFINE p == sending[t].pad
           x == sending[t].pkg
<1>1. /\ TabMoves(t) /\ PadsAsWere
      /\ UNCHANGED <<confirmed, claim, payload, confirmBytes, exported, released>>
      /\ sending[t].at \in {"confirm", "export"} /\ p \in Pads
      /\ \/ sending'[t] = Idle /\ handoff' = handoff
         \/ sending'[t] = Idle /\ handoff' = [handoff EXCEPT ![p] = Unreadable]
         \/ /\ UNCHANGED padLock /\ sending'[t].pad = p
            /\ sending[t].at = "confirm" /\ sending'[t].at = "marked"
            /\ sending'[t].req = sending[t].req /\ sending'[t].pkg = x
            /\ handoff' = [handoff EXCEPT ![p] = SealedAs(x)]
         \/ /\ UNCHANGED padLock /\ sending'[t].pad = p
            /\ sending[t].at = "export" /\ sending'[t].at = "exportable"
            /\ handoff' = [handoff EXCEPT ![p] = Physical]
  BY MarkMoves DEF TransferInv
<1>2. receiving'[t] = Rest /\ Rest.at = "rest"
  BY <1>1, SendingTabRests, IdleAndRest DEF receiveVars
<1>3. /\ padLock[p] = t /\ handoff[p] = Absent /\ ~destroyed[p] /\ pair[p] = "live"
      /\ sending[t].at = "confirm" =>
           /\ ~used[p] /\ origin[p] = "generated-here" /\ claim[sending[t].req] = p
           /\ x \in Packages /\ x.genesis /\ x.pad = p /\ x.req = sending[t].req
      /\ sending[t].at = "export" => origin[p] # "imported"
  BY <1>1 DEF TransferInv, CallsInv, HoldsLock, SendsUnspent, Unsealed, Made, SealSteps
<1>4. handoff \in [Pads -> Markers]
  BY DEF TransferInv, TypeOK, SendTypeOK
<1> HIDE DEF p, x
<1>5. \E m \in Markers :
        /\ handoff' = [handoff EXCEPT ![p] = m]
        /\ m.mode = "sealed" => m = SealedAs(x) /\ sending[t].at = "confirm"
        /\ sending'[t] # Idle => \/ /\ m = SealedAs(x) /\ sending[t].at = "confirm"
                                    /\ sending'[t].at = "marked" /\ sending'[t].pkg = x
                                    /\ sending'[t].req = sending[t].req
                                 \/ /\ m = Physical /\ sending[t].at = "export"
                                    /\ sending'[t].at = "exportable"
        /\ sending'[t] # Idle => UNCHANGED padLock /\ sending'[t].pad = p
  <2>1. CASE sending'[t] = Idle /\ handoff' = handoff
    <3>1. handoff' = [handoff EXCEPT ![p] = Absent]
      BY <1>3, <1>4, <2>1
    <3> QED
      BY <2>1, <3>1, MarkersAre
  <2>2. CASE sending'[t] = Idle /\ handoff' = [handoff EXCEPT ![p] = Unreadable]
    BY <2>2, MarkersAre
  <2>3. CASE /\ UNCHANGED padLock /\ sending'[t].pad = p
             /\ sending[t].at = "confirm" /\ sending'[t].at = "marked"
             /\ sending'[t].req = sending[t].req /\ sending'[t].pkg = x
             /\ handoff' = [handoff EXCEPT ![p] = SealedAs(x)]
    BY <1>3, <2>3, MarkersAre
  <2>4. CASE /\ UNCHANGED padLock /\ sending'[t].pad = p
             /\ sending[t].at = "export" /\ sending'[t].at = "exportable"
             /\ handoff' = [handoff EXCEPT ![p] = Physical]
    BY <2>4, MarkersAre
  <2> QED
    BY <1>1, <2>1, <2>2, <2>3, <2>4
<1>6. PICK m \in Markers :
        /\ handoff' = [handoff EXCEPT ![p] = m]
        /\ m.mode = "sealed" => m = SealedAs(x) /\ sending[t].at = "confirm"
        /\ sending'[t] # Idle => \/ /\ m = SealedAs(x) /\ sending[t].at = "confirm"
                                    /\ sending'[t].at = "marked" /\ sending'[t].pkg = x
                                    /\ sending'[t].req = sending[t].req
                                 \/ /\ m = Physical /\ sending[t].at = "export"
                                    /\ sending'[t].at = "exportable"
        /\ sending'[t] # Idle => UNCHANGED padLock /\ sending'[t].pad = p
  BY <1>5
<1>7. /\ handoff' \in [Pads -> Markers] /\ handoff'[p] = m
      /\ \A q \in Pads : q # p => handoff'[q] = handoff[q]
  BY <1>1, <1>4, <1>6
<1>8. InstallTypeOK' /\ ReceiveTypeOK' /\ MatchInv' /\ OneEnding' /\ Spares(t)
  <2>1. \A q \in Pads : padLock[q] \notin {None, t} => handoff'[q] = handoff[q]
    BY <1>3, <1>7
  <2> QED
    BY <1>1, <2>1, SendSide DEF ClaimsStay
<1>9. SendTypeOK'
  BY <1>1, <1>7 DEF TransferInv, TypeOK, SendTypeOK, TabMoves
<1>10. OwnCall(t)'
  <2>1. CASE sending'[t] = Idle
    BY <1>2, <2>1, RestingCall
  <2>2. CASE sending'[t] # Idle
    <3>1. HoldsLock(t)'
      BY <1>2, <1>3, <1>6, <2>2 DEF HoldsLock, Saving
    <3>2. ImportsAnnounced(t)'
      BY <1>2 DEF ImportsAnnounced
    <3>3. SendsUnspent(t)'
      BY <1>1, <1>3, <1>6, <1>7, <2>2 DEF SendsUnspent, Unsealed, Made, SealSteps, PadsAsWere
    <3> QED
      BY <3>1, <3>2, <3>3 DEF OwnCall
  <2> QED
    BY <2>1, <2>2
<1>11. CallsInv'
  BY <1>1, <1>8, <1>10, CallsKept DEF TransferInv
<1>12. PadsInv'
  <2> SUFFICES ASSUME NEW q \in Pads, handoff'[q].mode = "sealed"
               PROVE  /\ handoff'[q].pkg.pad = q /\ claim[handoff'[q].pkg.req] = q
                      /\ handoff'[q].pkg.genesis /\ origin[q] = "generated-here"
    BY <1>1 DEF TransferInv, PadsInv, PadsAsWere
  <2>1. CASE q = p
    BY <1>3, <1>6, <1>7, <2>1, MarkersAre
  <2>2. CASE q # p
    BY <1>7, <2>2 DEF TransferInv, PadsInv
  <2> QED
    BY <2>1, <2>2
<1>13. ReleasedInv'
  <2> SUFFICES ASSUME NEW k \in released
               PROVE  handoff'[k.pad] = SealedAs(k)
    BY <1>1 DEF ReleasedInv
  <2>1. handoff[k.pad] = SealedAs(k) /\ k.pad \in Pads
    BY DEF TransferInv, ReleasedInv, TypeOK, SendTypeOK, Packages
  <2>2. k.pad # p
    BY <1>3, <2>1, MarkersAre
  <2> QED
    BY <1>7, <2>1, <2>2
<1> QED
  BY <1>8, <1>9, <1>11, <1>12, <1>13 DEF TransferInv, TypeOK

LEMMA ReleaseKeeps ==
  ASSUME TransferInv, NEW t \in Tabs, ReleasePackage(t) \/ ReleaseContainer(t),
         UNCHANGED receiveVars
  PROVE  TransferInv'
<1> DEFINE p == sending[t].pad
<1>1. /\ TabMoves(t) /\ PadsAsWere /\ sending'[t] = Idle
      /\ UNCHANGED <<confirmed, claim, handoff, payload, confirmBytes>>
      /\ sending[t].at \in {"marked", "exportable"} /\ p \in Pads
      /\ \/ released' = released /\ exported' = exported
         \/ /\ sending[t].at = "marked" /\ Recoverable(p)
            /\ released' = released \cup {payload[p]} /\ exported' = exported
         \/ /\ sending[t].at = "exportable" /\ exported' = exported \cup {p}
            /\ released' = released
  BY ReleaseMoves DEF TransferInv
<1>2. receiving'[t] = Rest /\ Rest.at = "rest"
  BY <1>1, SendingTabRests, IdleAndRest DEF receiveVars
<1>3. /\ pair[p] = "live"
      /\ sending[t].at = "exportable" => origin[p] # "imported"
  BY <1>1 DEF TransferInv, CallsInv, SendsUnspent
<1> HIDE DEF p
<1>4. Recoverable(p) => /\ payload[p] \in Packages /\ payload[p].pad = p
                        /\ handoff[p] = SealedAs(payload[p])
  BY <1>1, RecoverableIs DEF TransferInv
<1>5. InstallTypeOK' /\ ReceiveTypeOK' /\ MatchInv' /\ OneEnding' /\ Spares(t)
  BY <1>1, SendSide DEF ClaimsStay
<1>6. SendTypeOK'
  BY <1>1, <1>4 DEF TransferInv, TypeOK, SendTypeOK, TabMoves
<1>7. CallsInv'
  BY <1>1, <1>2, <1>5, RestingCall, CallsKept DEF TransferInv
<1>8. PadsInv'
  BY <1>1, <1>3 DEF TransferInv, PadsInv, PadsAsWere
<1>9. ReleasedInv'
  BY <1>1, <1>4 DEF TransferInv, ReleasedInv
<1> QED
  BY <1>5, <1>6, <1>7, <1>8, <1>9 DEF TransferInv, TypeOK
-----------------------------------------------------------------------------
(* The invariant through the steps that receive.                           *)

LEMMA SessionsMatch ==
  ASSUME TransferInv, NEW t \in Tabs, ReceiveStep(t) \/ ReceiveCall(t) \/ Abandon(t)
  PROVE  MatchInv'
<1>1. /\ receiving \in [Tabs -> Receipts] /\ session \in [Tabs -> Sessions \cup {None}]
      /\ Matches(t) /\ \A u \in Tabs : Matches(u)
  BY DEF TransferInv, TypeOK, ReceiveTypeOK, MatchInv
<1>2. \/ session' = session \/ session' = [session EXCEPT ![t] = None]
      \/ /\ receiving[t].at = "opened"
         /\ session' = [session EXCEPT ![t] = [req |-> receiving[t].pkg.req, pkg |-> receiving[t].pkg]]
  <2>1. CASE Abandon(t)
    BY <2>1 DEF Abandon, EndSession
  <2>2. CASE ReceiveCall(t)
    BY <2>2 DEF ReceiveCall, BeginOpen, BeginReject, BeginSave, BeginFileImport
  <2>3. CASE ReceiveStep(t)
    <3>1. CASE OpenSession(t)
      BY <3>1 DEF OpenSession
    <3>2. CASE Reject(t) \/ ResolveSession(t)
      BY <3>2 DEF Reject, ResolveSession, EndSession
    <3>3. CASE Consume(t)
      BY <3>3 DEF Consume, EndSession, Outcomes
    <3>4. CASE UseKey(t) \/ CheckPad(t) \/ ImportBegins(t) \/ ImportCommits(t) \/ CommitFileImport(t)
      BY <3>4 DEF UseKey, CheckPad, ImportBegins, ImportCommits, CommitFileImport, EndSession
    <3> QED
      BY <2>3, <3>1, <3>2, <3>3, <3>4 DEF ReceiveStep
  <2> QED
    BY <2>1, <2>2, <2>3
<1>3. \A u \in Tabs : session'[u] # None => session'[u].req = session'[u].pkg.req
  BY <1>1, <1>2 DEF Matches
<1>4. \/ receiving' = receiving \/ receiving' = [receiving EXCEPT ![t] = Rest]
      \/ \E at \in PackageSteps : receiving[t].at \in PackageSteps /\ Proceeds(t, at)
      \/ \E x \in AtHand, at \in PackageSteps :
           receiving' = [receiving EXCEPT ![t] = [at |-> at, req |-> x.req, pkg |-> x]]
      \/ \E at \in PackageSteps : /\ session[t] # None
           /\ receiving' = [receiving EXCEPT ![t] = [at |-> at, req |-> session[t].req, pkg |-> session[t].pkg]]
      \/ \E p \in Pads : receiving' = [receiving EXCEPT ![t] = [at |-> "file", pad |-> p]]
  <2>1. CASE Abandon(t)
    BY <2>1 DEF Abandon
  <2>2. CASE ReceiveCall(t)
    BY <2>2 DEF ReceiveCall, BeginOpen, BeginReject, BeginSave, BeginFileImport, PackageSteps
  <2>3. CASE ReceiveStep(t)
    <3>1. CASE UseKey(t)
      BY <3>1 DEF UseKey, PackageSteps
    <3>2. CASE OpenSession(t) \/ Reject(t) \/ ImportCommits(t) \/ CommitFileImport(t)
      BY <3>2 DEF OpenSession, Reject, ImportCommits, CommitFileImport, EndReceipt
    <3>3. CASE ResolveSession(t)
      BY <3>3 DEF ResolveSession, PackageSteps
    <3>4. CASE CheckPad(t)
      BY <3>4 DEF CheckPad, EndReceipt, PackageSteps
    <3>5. CASE Consume(t)
      BY <3>5 DEF Consume, EndReceipt, PackageSteps, Outcomes
    <3>6. CASE ImportBegins(t)
      BY <3>6 DEF ImportBegins, EndReceipt, PackageSteps
    <3> QED
      BY <2>3, <3>1, <3>2, <3>3, <3>4, <3>5, <3>6 DEF ReceiveStep
  <2> QED
    BY <2>1, <2>2, <2>3
<1>5. \A u \in Tabs : receiving'[u].at \in PackageSteps => receiving'[u].req = receiving'[u].pkg.req
  <2>1. ASSUME NEW at \in PackageSteps, receiving[t].at \in PackageSteps, Proceeds(t, at)
        PROVE  /\ \A u \in Tabs : u # t => receiving'[u] = receiving[u]
               /\ receiving'[t].req = receiving[t].req /\ receiving'[t].pkg = receiving[t].pkg
    <3>1. receiving[t] \in PackageRecord
      BY <2>1, ReceiveParts DEF TransferInv, TypeOK
    <3> QED
      BY <1>1, <2>1, <3>1 DEF Proceeds, PackageRecord
  <2>2. Rest.at \notin PackageSteps /\ \A p : [at |-> "file", pad |-> p].at \notin PackageSteps
    BY DEF Rest, PackageSteps
  <2>3. ASSUME NEW v, receiving' = [receiving EXCEPT ![t] = v],
               v.at \in PackageSteps => v.req = v.pkg.req
        PROVE  \A u \in Tabs : receiving'[u].at \in PackageSteps => receiving'[u].req = receiving'[u].pkg.req
    BY <1>1, <2>3 DEF Matches
  <2>4. CASE \E at \in PackageSteps : receiving[t].at \in PackageSteps /\ Proceeds(t, at)
    BY <1>1, <2>1, <2>4 DEF Matches
  <2>5. CASE receiving' = receiving \/ receiving' = [receiving EXCEPT ![t] = Rest]
    BY <1>1, <2>2, <2>3, <2>5 DEF Matches
  <2>6. CASE \E x \in AtHand, at \in PackageSteps :
               receiving' = [receiving EXCEPT ![t] = [at |-> at, req |-> x.req, pkg |-> x]]
    BY <2>3, <2>6
  <2>7. CASE \E at \in PackageSteps : /\ session[t] # None
               /\ receiving' = [receiving EXCEPT ![t] = [at |-> at, req |-> session[t].req, pkg |-> session[t].pkg]]
    BY <1>1, <2>3, <2>7 DEF Matches
  <2>8. CASE \E p \in Pads : receiving' = [receiving EXCEPT ![t] = [at |-> "file", pad |-> p]]
    BY <2>2, <2>3, <2>8
  <2> QED
    BY <1>4, <2>4, <2>5, <2>6, <2>7, <2>8
<1> QED
  BY <1>3, <1>5 DEF MatchInv, Matches

(* What the steps that receive leave: everything of the sending side.      *)
LEMMA ReceiveSide ==
  ASSUME TransferInv, NEW t \in Tabs, TabMoves(t), UNCHANGED sendVars, SessionTypes',
         UNCHANGED <<request, expired>>, arrived' \subseteq Sessions,
         cancelled' \in [OwnRequests -> Reasons \cup {None, Torn}],
         consumed' \in [OwnRequests -> Records \cup {None, Torn}]
  PROVE  SendTypeOK' /\ ReceiveTypeOK' /\ ReleasedInv'
BY DEF TransferInv, TypeOK, SendTypeOK, ReceiveTypeOK, ReleasedInv, sendVars, TabMoves, SessionTypes

LEMMA EndsStay ==
  ASSUME TransferInv,
         \/ CancelMoves /\ consumed' = consumed
         \/ ConsumeMoves /\ cancelled' = cancelled
  PROVE  /\ \A r \in OwnRequests : cancelled'[r] = None \/ consumed'[r] = None
         /\ \A r \in OwnRequests : consumed[r] \in Records => consumed'[r] = consumed[r]
         /\ cancelled' \in [OwnRequests -> Reasons \cup {None, Torn}]
         /\ consumed' \in [OwnRequests -> Records \cup {None, Torn}]
         /\ \A k \in arrived : consumed'[k.req] \in Records /\ consumed'[k.req].pad = k.pkg.pad
<1>1. None \notin Records
  BY NamesDiffer
<1>2. /\ cancelled \in [OwnRequests -> Reasons \cup {None, Torn}]
      /\ consumed \in [OwnRequests -> Records \cup {None, Torn}]
      /\ \A k \in arrived : k.req \in OwnRequests
  BY DEF TransferInv, TypeOK, ReceiveTypeOK, Sessions
<1>3. \A r \in OwnRequests : consumed[r] \in Records => consumed'[r] = consumed[r]
  BY <1>1 DEF ConsumeMoves
<1>4. \A k \in arrived : consumed'[k.req] \in Records /\ consumed'[k.req].pad = k.pkg.pad
  BY <1>2, <1>3 DEF TransferInv, OneEnding
<1>5. \A r \in OwnRequests : cancelled'[r] = None \/ consumed'[r] = None
  BY DEF TransferInv, OneEnding, CancelMoves, ConsumeMoves
<1> QED
  BY <1>2, <1>3, <1>4, <1>5 DEF CancelMoves, ConsumeMoves

LEMMA QuietReceive ==
  ASSUME TransferInv, NEW t \in Tabs, TabMoves(t), UNCHANGED sendVars, SessionTypes', PadsAsWere,
         UNCHANGED <<request, expired, arrived>>, MatchInv',
         \/ CancelMoves /\ consumed' = consumed
         \/ ConsumeMoves /\ cancelled' = cancelled,
         OwnCall(t)'
  PROVE  TransferInv'
<1>1. /\ \A r \in OwnRequests : cancelled'[r] = None \/ consumed'[r] = None
      /\ \A r \in OwnRequests : consumed[r] \in Records => consumed'[r] = consumed[r]
      /\ cancelled' \in [OwnRequests -> Reasons \cup {None, Torn}]
      /\ consumed' \in [OwnRequests -> Records \cup {None, Torn}]
      /\ \A k \in arrived : consumed'[k.req] \in Records /\ consumed'[k.req].pad = k.pkg.pad
  BY EndsStay
<1>2. SendTypeOK' /\ ReceiveTypeOK' /\ ReleasedInv'
  BY <1>1, ReceiveSide DEF TransferInv, TypeOK, ReceiveTypeOK
<1>3. InstallTypeOK'
  BY DEF TransferInv, TypeOK, InstallTypeOK, TabMoves, PadsAsWere
<1>4. Spares(t)
  BY <1>1 DEF Spares, PadsAsWere, sendVars
<1>5. CallsInv'
  BY <1>4, CallsKept DEF TransferInv
<1>6. PadsInv'
  BY PadsKept DEF TransferInv, sendVars
<1>7. OneEnding'
  BY <1>1 DEF OneEnding
<1> QED
  BY <1>2, <1>3, <1>5, <1>6, <1>7 DEF TransferInv, TypeOK

LEMMA ReceivingTabIdles ==
  ASSUME TransferInv, NEW t \in Tabs, receiving[t].at # "rest"
  PROVE  sending[t] = Idle
BY IdleAndRest DEF TransferInv, CallsInv, HoldsLock

LEMMA EndsAsTheyWere ==
  ASSUME TransferInv, cancelled' = cancelled
  PROVE  CancelMoves
BY DEF CancelMoves, TransferInv, TypeOK, ReceiveTypeOK

LEMMA BeginKeeps ==
  ASSUME TransferInv, NEW t \in Tabs, sending[t] = Idle,
         BeginReject(t) \/ BeginSave(t) \/ \E x \in AtHand : BeginOpen(t, x),
         UNCHANGED sendVars
  PROVE  TransferInv'
<1>1. /\ TabMoves(t) /\ UNCHANGED installVars /\ SessionTypes'
      /\ UNCHANGED <<request, expired, cancelled, consumed, arrived>>
      /\ receiving'[t].at \in {"opening", "rejecting", "saving"}
  BY BeginMoves DEF TransferInv
<1>2. OwnCall(t)'
  BY <1>1, RestingCall DEF sendVars
<1>3. MatchInv'
  BY SessionsMatch DEF ReceiveCall
<1> QED
  BY <1>1, <1>2, <1>3, EndsAsTheyWere, QuietReceive DEF PadsAsWere, installVars

LEMMA AbandonKeeps ==
  ASSUME TransferInv, NEW t \in Tabs, Abandon(t), UNCHANGED sendVars
  PROVE  TransferInv'
<1>1. /\ TabMoves(t) /\ UNCHANGED installVars /\ receiving' = receiving /\ SessionTypes'
      /\ UNCHANGED <<request, expired, cancelled, consumed, arrived>>
  BY AbandonMoves DEF TransferInv
<1>2. OwnCall(t)'
  BY <1>1 DEF TransferInv, CallsInv, OwnCall, HoldsLock, SendsUnspent, ImportsAnnounced, sendVars, installVars
<1>3. MatchInv'
  BY SessionsMatch
<1> QED
  BY <1>1, <1>2, <1>3, EndsAsTheyWere, QuietReceive DEF PadsAsWere, installVars

LEMMA SessionKeeps ==
  ASSUME TransferInv, NEW t \in Tabs, UseKey(t) \/ OpenSession(t) \/ Reject(t) \/ ResolveSession(t),
         UNCHANGED sendVars
  PROVE  TransferInv'
<1>1. /\ TabMoves(t) /\ UNCHANGED installVars /\ SessionTypes' /\ CancelMoves
      /\ UNCHANGED <<request, expired, consumed, arrived>>
      /\ receiving'[t].at \in {"rest", "opened", "locked"}
  BY SessionMoves DEF TransferInv
<1>2. receiving[t].at # "rest"
  BY DEF UseKey, OpenSession, Reject, ResolveSession
<1>3. OwnCall(t)'
  BY <1>1, <1>2, ReceivingTabIdles, RestingCall DEF sendVars
<1>4. MatchInv'
  BY SessionsMatch DEF ReceiveStep
<1> QED
  BY <1>1, <1>3, <1>4, QuietReceive DEF PadsAsWere, installVars

LEMMA CheckKeeps ==
  ASSUME TransferInv, NEW t \in Tabs, CheckPad(t), UNCHANGED sendVars
  PROVE  TransferInv'
<1>1. /\ TabMoves(t) /\ PadsAsWere /\ SessionTypes'
      /\ UNCHANGED <<request, expired, cancelled, consumed, arrived>>
      /\ \/ receiving'[t].at = "rest"
         \/ /\ receiving'[t].at = "checked" /\ receiving'[t].pkg = receiving[t].pkg
            /\ padLock'[receiving[t].pkg.pad] = t
  BY CheckMoves DEF TransferInv
<1>2. sending'[t] = Idle
  BY ReceivingTabIdles DEF CheckPad, sendVars
<1>3. OwnCall(t)'
  BY <1>1, <1>2 DEF OwnCall, HoldsLock, SendsUnspent, ImportsAnnounced, Idle, Saving, SealSteps,
                    Unsealed, Made
<1>4. MatchInv'
  BY SessionsMatch DEF ReceiveStep
<1> QED
  BY <1>1, <1>3, <1>4, EndsAsTheyWere, QuietReceive

LEMMA ConsumeKeeps ==
  ASSUME TransferInv, NEW t \in Tabs, Consume(t), UNCHANGED sendVars
  PROVE  TransferInv'
<1>1. /\ TabMoves(t) /\ PadsAsWere /\ SessionTypes' /\ ConsumeMoves
      /\ UNCHANGED <<request, expired, cancelled, arrived>> /\ receiving[t].at = "checked"
      /\ \/ receiving'[t].at = "rest"
         \/ /\ UNCHANGED padLock /\ receiving'[t].at = "consumed"
            /\ receiving'[t].req = receiving[t].req /\ receiving'[t].pkg = receiving[t].pkg
            /\ consumed'[receiving[t].req] \in Records
            /\ consumed'[receiving[t].req].pad = receiving[t].pkg.pad
  BY ConsumeStep DEF TransferInv
<1>2. sending'[t] = Idle /\ padLock[receiving[t].pkg.pad] = t
  BY <1>1, ReceivingTabIdles DEF sendVars, TransferInv, CallsInv, HoldsLock, Saving
<1>3. OwnCall(t)'
  BY <1>1, <1>2 DEF OwnCall, HoldsLock, SendsUnspent, ImportsAnnounced, Idle, Saving, SealSteps,
                    Unsealed, Made
<1>4. MatchInv'
  BY SessionsMatch DEF ReceiveStep
<1> QED
  BY <1>1, <1>3, <1>4, QuietReceive

(* Nothing that left, and nothing made here and still there, is imported   *)
(* over.                                                                   *)
LEMMA ImportBegun ==
  ASSUME TransferInv, NEW p \in Pads, BeginImport(p), UNCHANGED sendVars,
         padLock' \in [Pads -> Tabs \cup {None}]
  PROVE  /\ PadsInv' /\ InstallTypeOK' /\ pair'[p] = "importing"
         /\ \A q \in Pads : q # p => /\ pair'[q] = pair[q] /\ origin'[q] = origin[q]
                                     /\ used'[q] = used[q] /\ destroyed'[q] = destroyed[q]
<1>1. /\ ~destroyed[p] /\ pair[p] # "live" /\ pair' = [pair EXCEPT ![p] = "importing"]
      /\ origin' = [origin EXCEPT ![p] = "unknown"] /\ used' = used /\ destroyed' = destroyed
  BY DEF BeginImport, PadImportable
<1>2. /\ pair \in [Pads -> {"absent", "importing", "live"}]
      /\ origin \in [Pads -> {"generated-here", "imported", "unknown"}]
  BY DEF TransferInv, TypeOK, InstallTypeOK
<1>3. /\ pair'[p] = "importing" /\ origin'[p] = "unknown"
      /\ \A q \in Pads : q # p => pair'[q] = pair[q] /\ origin'[q] = origin[q]
  BY <1>1, <1>2
<1>4. p \notin exported /\ handoff[p].mode # "sealed"
  BY <1>1 DEF TransferInv, PadsInv
<1>5. PadsInv'
  <2> SUFFICES ASSUME NEW q \in Pads
               PROVE  /\ destroyed'[q] => pair'[q] = "absent"
                      /\ origin'[q] = "generated-here" => pair'[q] = "live" \/ destroyed'[q]
                      /\ q \in exported =>
                           (pair'[q] = "live" \/ destroyed'[q]) /\ origin'[q] # "imported"
                      /\ handoff[q].mode = "sealed" =>
                           /\ handoff[q].pkg.pad = q /\ claim[handoff[q].pkg.req] = q
                           /\ handoff[q].pkg.genesis /\ origin'[q] = "generated-here"
    BY DEF PadsInv, sendVars
  <2>1. CASE q = p
    BY <1>1, <1>3, <1>4, <2>1
  <2>2. CASE q # p
    BY <1>1, <1>3, <2>2 DEF TransferInv, PadsInv
  <2> QED
    BY <2>1, <2>2
<1>6. InstallTypeOK'
  BY <1>1, <1>2 DEF TransferInv, TypeOK, InstallTypeOK
<1> QED
  BY <1>1, <1>3, <1>5, <1>6

LEMMA ImportCommitted ==
  ASSUME TransferInv, NEW p \in Pads, pair[p] = "importing", CommitImport(p), UNCHANGED sendVars,
         padLock' \in [Pads -> Tabs \cup {None}]
  PROVE  /\ PadsInv' /\ InstallTypeOK'
         /\ \A q \in Pads : q # p => /\ pair'[q] = pair[q] /\ origin'[q] = origin[q]
                                     /\ used'[q] = used[q] /\ destroyed'[q] = destroyed[q]
<1>1. /\ pair' = [pair EXCEPT ![p] = "live"] /\ origin' = [origin EXCEPT ![p] = "imported"]
      /\ used' = used /\ destroyed' = destroyed
  BY DEF CommitImport
<1>2. /\ pair \in [Pads -> {"absent", "importing", "live"}]
      /\ origin \in [Pads -> {"generated-here", "imported", "unknown"}]
  BY DEF TransferInv, TypeOK, InstallTypeOK
<1>3. /\ pair'[p] = "live" /\ origin'[p] = "imported"
      /\ \A q \in Pads : q # p => pair'[q] = pair[q] /\ origin'[q] = origin[q]
  BY <1>1, <1>2
<1>4. ~destroyed[p] /\ p \notin exported /\ handoff[p].mode # "sealed"
  BY DEF TransferInv, PadsInv
<1>5. PadsInv'
  <2> SUFFICES ASSUME NEW q \in Pads
               PROVE  /\ destroyed'[q] => pair'[q] = "absent"
                      /\ origin'[q] = "generated-here" => pair'[q] = "live" \/ destroyed'[q]
                      /\ q \in exported =>
                           (pair'[q] = "live" \/ destroyed'[q]) /\ origin'[q] # "imported"
                      /\ handoff[q].mode = "sealed" =>
                           /\ handoff[q].pkg.pad = q /\ claim[handoff[q].pkg.req] = q
                           /\ handoff[q].pkg.genesis /\ origin'[q] = "generated-here"
    BY DEF PadsInv, sendVars
  <2>1. CASE q = p
    BY <1>1, <1>3, <1>4, <2>1
  <2>2. CASE q # p
    BY <1>1, <1>3, <2>2 DEF TransferInv, PadsInv
  <2> QED
    BY <2>1, <2>2
<1>6. InstallTypeOK'
  BY <1>1, <1>2 DEF TransferInv, TypeOK, InstallTypeOK
<1> QED
  BY <1>1, <1>3, <1>5, <1>6

(* A step that works on one pad under its lock, and ends no request.       *)
LEMMA OnePadReceive ==
  ASSUME TransferInv, NEW t \in Tabs, TabMoves(t), UNCHANGED sendVars, SessionTypes',
         UNCHANGED <<request, expired, cancelled, consumed>>, arrived' \subseteq Sessions,
         \A k \in arrived' : consumed[k.req] \in Records /\ consumed[k.req].pad = k.pkg.pad,
         NEW p \in Pads, padLock[p] \in {None, t},
         \A q \in Pads : q # p => /\ pair'[q] = pair[q] /\ origin'[q] = origin[q]
                                  /\ used'[q] = used[q] /\ destroyed'[q] = destroyed[q],
         PadsInv', InstallTypeOK', MatchInv', OwnCall(t)'
  PROVE  TransferInv'
<1>1. SendTypeOK' /\ ReceiveTypeOK' /\ ReleasedInv'
  BY ReceiveSide DEF TransferInv, TypeOK, ReceiveTypeOK
<1>2. Spares(t)
  BY DEF Spares, sendVars
<1>3. CallsInv'
  BY <1>2, CallsKept DEF TransferInv
<1>4. OneEnding'
  BY DEF TransferInv, OneEnding
<1> QED
  BY <1>1, <1>3, <1>4 DEF TransferInv, TypeOK

LEMMA ImportKeeps ==
  ASSUME TransferInv, NEW t \in Tabs, ImportBegins(t), UNCHANGED sendVars
  PROVE  TransferInv'
<1> DEFINE p == receiving[t].pkg.pad
<1>1. /\ TabMoves(t) /\ SessionTypes' /\ receiving[t].at = "consumed"
      /\ UNCHANGED <<request, expired, cancelled, consumed, arrived, used, destroyed>>
      /\ \/ receiving'[t].at = "rest" /\ PadsAsWere
         \/ /\ UNCHANGED padLock /\ receiving'[t].at = "importing"
            /\ receiving'[t].req = receiving[t].req /\ receiving'[t].pkg = receiving[t].pkg
            /\ BeginImport(p)
  BY ImportMoves DEF TransferInv
<1>2. sending'[t] = Idle
  BY <1>1, ReceivingTabIdles DEF sendVars
<1>3. MatchInv'
  BY SessionsMatch DEF ReceiveStep
<1>4. /\ p \in Pads /\ padLock[p] = t
      /\ consumed[receiving[t].req] \in Records /\ consumed[receiving[t].req].pad = p
  BY <1>1, ReceiveParts DEF TransferInv, TypeOK, CallsInv, HoldsLock, ImportsAnnounced, Saving, PackageSteps
<1>5. CASE receiving'[t].at = "rest" /\ PadsAsWere
  <2>1. OwnCall(t)'
    BY <1>2, <1>5, RestingCall
  <2> QED
    BY <1>1, <1>3, <1>5, <2>1, EndsAsTheyWere, QuietReceive
<1>6. CASE /\ UNCHANGED padLock /\ receiving'[t].at = "importing"
           /\ receiving'[t].req = receiving[t].req /\ receiving'[t].pkg = receiving[t].pkg
           /\ BeginImport(p)
  <2>1. padLock' \in [Pads -> Tabs \cup {None}]
    BY <1>1 DEF TabMoves
  <2>2. /\ PadsInv' /\ InstallTypeOK' /\ pair'[p] = "importing"
        /\ \A q \in Pads : q # p => /\ pair'[q] = pair[q] /\ origin'[q] = origin[q]
                                    /\ used'[q] = used[q] /\ destroyed'[q] = destroyed[q]
    BY <1>4, <1>6, <2>1, ImportBegun
  <2>3. OwnCall(t)'
    BY <1>1, <1>2, <1>4, <1>6, <2>2
       DEF OwnCall, HoldsLock, SendsUnspent, ImportsAnnounced, Idle, Saving, SealSteps, Unsealed, Made
  <2>4. /\ arrived' \subseteq Sessions
        /\ \A k \in arrived' : consumed[k.req] \in Records /\ consumed[k.req].pad = k.pkg.pad
    BY <1>1 DEF TransferInv, OneEnding, TypeOK, ReceiveTypeOK
  <2> HIDE DEF p
  <2> QED
    BY <1>1, <1>3, <1>4, <2>2, <2>3, <2>4, OnePadReceive
<1> QED
  BY <1>1, <1>5, <1>6

LEMMA ImportedKeeps ==
  ASSUME TransferInv, NEW t \in Tabs, ImportCommits(t), UNCHANGED sendVars
  PROVE  TransferInv'
<1> DEFINE x == receiving[t].pkg
           k == [req |-> x.req, pkg |-> x]
<1>1. /\ TabMoves(t) /\ SessionTypes' /\ receiving[t].at = "importing"
      /\ UNCHANGED <<request, expired, cancelled, consumed>>
      /\ receiving'[t].at = "rest"
      /\ \/ PadsAsWere /\ arrived' = arrived
         \/ CommitImport(x.pad) /\ arrived' = arrived \cup {k}
  BY ImportedMoves DEF TransferInv
<1>2. sending'[t] = Idle
  BY <1>1, ReceivingTabIdles DEF sendVars
<1>3. MatchInv' /\ OwnCall(t)'
  BY <1>1, <1>2, SessionsMatch, RestingCall DEF ReceiveStep
<1>4. /\ x.pad \in Pads /\ padLock[x.pad] = t /\ pair[x.pad] = "importing"
      /\ receiving[t].req \in OwnRequests /\ x \in Parcels /\ x.req = receiving[t].req
      /\ consumed[x.req] \in Records /\ consumed[x.req].pad = x.pad
  BY <1>1, ReceiveParts DEF TransferInv, TypeOK, CallsInv, HoldsLock, ImportsAnnounced, Saving,
                            PackageSteps, MatchInv, Matches
<1>5. k \in Sessions /\ k.req = x.req /\ k.pkg = x
  BY <1>4 DEF Sessions
<1> HIDE DEF k, x
<1>6. CASE PadsAsWere /\ arrived' = arrived
  BY <1>1, <1>3, <1>6, EndsAsTheyWere, QuietReceive
<1>7. CASE CommitImport(x.pad) /\ arrived' = arrived \cup {k}
  <2>1. padLock' \in [Pads -> Tabs \cup {None}]
    BY <1>1 DEF TabMoves
  <2>2. /\ PadsInv' /\ InstallTypeOK'
        /\ \A q \in Pads : q # x.pad => /\ pair'[q] = pair[q] /\ origin'[q] = origin[q]
                                        /\ used'[q] = used[q] /\ destroyed'[q] = destroyed[q]
    BY <1>4, <1>7, <2>1, ImportCommitted
  <2>3. /\ arrived' \subseteq Sessions
        /\ \A j \in arrived' : consumed[j.req] \in Records /\ consumed[j.req].pad = j.pkg.pad
    BY <1>4, <1>5, <1>7 DEF TransferInv, OneEnding, TypeOK, ReceiveTypeOK
  <2> DEFINE q == x.pad
  <2> HIDE DEF q
  <2>4. q \in Pads /\ padLock[q] \in {None, t} /\ q = x.pad
    BY <1>4 DEF q
  <2> QED
    BY <1>1, <1>3, <2>2, <2>3, <2>4, OnePadReceive
<1> QED
  BY <1>1, <1>6, <1>7

LEMMA BeginFileKeeps ==
  ASSUME TransferInv, NEW t \in Tabs, sending[t] = Idle, NEW p \in Pads \ Generated,
         BeginFileImport(t, p), UNCHANGED sendVars
  PROVE  TransferInv'
<1>1. /\ TabMoves(t) /\ SessionTypes' /\ BeginImport(p) /\ padLock'[p] = t /\ padLock[p] = None
      /\ UNCHANGED <<request, expired, cancelled, consumed, arrived, used, destroyed>>
      /\ receiving'[t].at = "file" /\ receiving'[t].pad = p
  BY BeginFileMoves DEF TransferInv
<1>2. padLock' \in [Pads -> Tabs \cup {None}]
  BY <1>1 DEF TabMoves
<1>3. /\ PadsInv' /\ InstallTypeOK' /\ pair'[p] = "importing"
      /\ \A q \in Pads : q # p => /\ pair'[q] = pair[q] /\ origin'[q] = origin[q]
                                  /\ used'[q] = used[q] /\ destroyed'[q] = destroyed[q]
  BY <1>1, <1>2, ImportBegun
<1>4. OwnCall(t)'
  BY <1>1, <1>3 DEF OwnCall, HoldsLock, SendsUnspent, ImportsAnnounced, Idle, Saving, SealSteps,
                    Unsealed, Made, sendVars
<1>5. MatchInv'
  BY SessionsMatch DEF ReceiveCall
<1>6. /\ arrived' \subseteq Sessions
      /\ \A k \in arrived' : consumed[k.req] \in Records /\ consumed[k.req].pad = k.pkg.pad
  BY <1>1 DEF TransferInv, OneEnding, TypeOK, ReceiveTypeOK
<1> QED
  BY <1>1, <1>3, <1>4, <1>5, <1>6, OnePadReceive

LEMMA FileKeeps ==
  ASSUME TransferInv, NEW t \in Tabs, CommitFileImport(t), UNCHANGED sendVars
  PROVE  TransferInv'
<1> DEFINE p == receiving[t].pad
<1>1. /\ TabMoves(t) /\ SessionTypes' /\ receiving[t].at = "file" /\ receiving'[t].at = "rest"
      /\ UNCHANGED <<request, expired, cancelled, consumed, arrived>>
      /\ PadsAsWere \/ CommitImport(p)
  BY FileMoves DEF TransferInv
<1>2. sending'[t] = Idle
  BY <1>1, ReceivingTabIdles DEF sendVars
<1>3. MatchInv' /\ OwnCall(t)'
  BY <1>1, <1>2, SessionsMatch, RestingCall DEF ReceiveStep
<1>4. p \in Pads /\ padLock[p] = t /\ pair[p] = "importing"
  BY <1>1, ReceiveParts DEF TransferInv, TypeOK, CallsInv, HoldsLock, ImportsAnnounced
<1> HIDE DEF p
<1>5. CASE PadsAsWere
  BY <1>1, <1>3, <1>5, EndsAsTheyWere, QuietReceive
<1>6. CASE CommitImport(p)
  <2>1. padLock' \in [Pads -> Tabs \cup {None}]
    BY <1>1 DEF TabMoves
  <2>2. /\ PadsInv' /\ InstallTypeOK'
        /\ \A q \in Pads : q # p => /\ pair'[q] = pair[q] /\ origin'[q] = origin[q]
                                    /\ used'[q] = used[q] /\ destroyed'[q] = destroyed[q]
    BY <1>4, <1>6, <2>1, ImportCommitted
  <2>3. /\ arrived' \subseteq Sessions
        /\ \A k \in arrived' : consumed[k.req] \in Records /\ consumed[k.req].pad = k.pkg.pad
    BY <1>1 DEF TransferInv, OneEnding, TypeOK, ReceiveTypeOK
  <2> QED
    BY <1>1, <1>3, <1>4, <2>2, <2>3, OnePadReceive
<1> QED
  BY <1>1, <1>5, <1>6
-----------------------------------------------------------------------------
(* The invariant through the steps of no call.                             *)

LEMMA TabClosesKeeps ==
  ASSUME TransferInv, NEW t \in Tabs, TabCloses(t)
  PROVE  TransferInv'
<1>1. /\ TabMoves(t) /\ SessionTypes' /\ PadsAsWere /\ FilesAsWere /\ released' = released
      /\ UNCHANGED <<request, expired, cancelled, consumed, arrived>>
      /\ sending'[t] = Idle /\ receiving'[t].at = "rest"
  BY TabClosesMoves DEF TransferInv
<1>2. InstallTypeOK' /\ SendTypeOK' /\ ReceiveTypeOK'
  BY <1>1 DEF TransferInv, TypeOK, InstallTypeOK, SendTypeOK, ReceiveTypeOK, TabMoves, PadsAsWere,
              FilesAsWere, SessionTypes
<1>3. Spares(t) /\ OwnCall(t)'
  BY <1>1, RestingCall DEF Spares, PadsAsWere, FilesAsWere
<1>4. CallsInv'
  BY <1>1, <1>3, CallsKept DEF TransferInv
<1>5. MatchInv'
  <2>1. \A u \in Tabs : u # t => receiving'[u] = receiving[u]
    BY <1>1 DEF TabMoves
  <2>2. \A u \in Tabs : session'[u] = session[u] \/ session'[u] = None
    BY DEF TabCloses, ReceiveTabClosed, EndSession, TransferInv, TypeOK, ReceiveTypeOK
  <2> QED
    BY <1>1, <2>1, <2>2 DEF TransferInv, MatchInv, Matches, PackageSteps
<1>6. PadsInv' /\ ReleasedInv' /\ OneEnding'
  BY <1>1, PadsKept, EndingKept DEF TransferInv, ReleasedInv, FilesAsWere
<1> QED
  BY <1>2, <1>4, <1>5, <1>6 DEF TransferInv, TypeOK

(* A pad is used or destroyed while nobody holds its lock.                 *)
LEMMA InstallKeeps ==
  ASSUME TransferInv, NEW p \in Pads, UsePad(p) \/ DestroyPad(p), UNCHANGED <<sendVars, receiveVars>>
  PROVE  TransferInv'
<1>1. /\ padLock[p] = None /\ padLock' = padLock /\ origin' = origin
      /\ \/ pair' = pair /\ destroyed' = destroyed /\ used' = [used EXCEPT ![p] = TRUE]
         \/ /\ used' = used /\ pair' = [pair EXCEPT ![p] = "absent"]
            /\ destroyed' = [destroyed EXCEPT ![p] = TRUE]
  BY DEF UsePad, DestroyPad
<1>2. /\ pair \in [Pads -> {"absent", "importing", "live"}] /\ used \in [Pads -> BOOLEAN]
      /\ destroyed \in [Pads -> BOOLEAN] /\ padLock \in [Pads -> Tabs \cup {None}]
      /\ sending \in [Tabs -> Sends] /\ receiving \in [Tabs -> Receipts]
  BY DEF TransferInv, TypeOK, InstallTypeOK, SendTypeOK, ReceiveTypeOK
<1>3. InstallTypeOK'
  BY <1>1, <1>2 DEF TransferInv, TypeOK, InstallTypeOK
<1>4. /\ SendTypeOK' /\ ReceiveTypeOK' /\ MatchInv' /\ ReleasedInv' /\ OneEnding'
      /\ sending' = sending /\ receiving' = receiving
  BY DEF TransferInv, TypeOK, SendTypeOK, ReceiveTypeOK, MatchInv, Matches, ReleasedInv, OneEnding,
         sendVars, receiveVars
<1>5. TabMoves(None)
  BY <1>1, <1>2, <1>4 DEF TabMoves
<1>6. \A q \in Pads : q # p =>
        pair'[q] = pair[q] /\ used'[q] = used[q] /\ destroyed'[q] = destroyed[q]
  BY <1>1, <1>2
<1>7. Spares(None)
  BY <1>1, <1>6 DEF Spares, sendVars, receiveVars
<1>8. CallsInv'
  BY <1>5, <1>7, CallsKept, NamesDiffer DEF TransferInv
<1>9. (destroyed'[p] /\ pair'[p] = "absent") \/ (destroyed'[p] = destroyed[p] /\ pair'[p] = pair[p])
  BY <1>1, <1>2
<1>10. PadsInv'
  <2> SUFFICES ASSUME NEW q \in Pads
               PROVE  /\ destroyed'[q] => pair'[q] = "absent"
                      /\ origin[q] = "generated-here" => pair'[q] = "live" \/ destroyed'[q]
                      /\ q \in exported =>
                           (pair'[q] = "live" \/ destroyed'[q]) /\ origin[q] # "imported"
                      /\ handoff[q].mode = "sealed" =>
                           /\ handoff[q].pkg.pad = q /\ claim[handoff[q].pkg.req] = q
                           /\ handoff[q].pkg.genesis /\ origin[q] = "generated-here"
    BY <1>1 DEF PadsInv, sendVars
  <2> QED
    BY <1>6, <1>9 DEF TransferInv, PadsInv
<1> QED
  BY <1>3, <1>4, <1>8, <1>10 DEF TransferInv, TypeOK

LEMMA ConfirmationKeeps ==
  ASSUME TransferInv, NEW r \in Requests, ConfirmRequest(r) \/ ConfirmationLapses(r),
         UNCHANGED receiveVars
  PROVE  TransferInv'
<1>1. /\ UNCHANGED installVars /\ confirmed' \subseteq Requests
      /\ UNCHANGED <<claim, handoff, payload, confirmBytes, sending, released, exported>>
  BY DEF ConfirmRequest, ConfirmationLapses, TransferInv, TypeOK, SendTypeOK
<1> QED
  BY <1>1 DEF TransferInv, TypeOK, InstallTypeOK, SendTypeOK, ReceiveTypeOK, CallsInv, HoldsLock,
    SendsUnspent, ImportsAnnounced, MatchInv, Matches, PadsInv, ReleasedInv, OneEnding, installVars,
    receiveVars

LEMMA RequestKeeps ==
  ASSUME TransferInv, NEW r \in OwnRequests, CreateRequest(r) \/ Expire(r) \/ CancelRequest(r),
         UNCHANGED sendVars
  PROVE  TransferInv'
<1>1. /\ UNCHANGED installVars /\ UNCHANGED <<consumed, session, lease, reqLock, receiving, arrived>>
      /\ request' \in [OwnRequests -> {"empty", "residue", "stored"}]
      /\ expired' \in [OwnRequests -> BOOLEAN]
  BY DEF CreateRequest, Expire, CancelRequest, TransferInv, TypeOK, ReceiveTypeOK
<1>2. CancelMoves
  <2>1. CASE CancelRequest(r)
    <3>1. \E reason \in Reasons, o \in Outcomes : CancelWritten(r, reason, o)
      BY <2>1 DEF CancelRequest, Reasons
    <3> QED
      BY <3>1, CancelledMoves DEF TransferInv, TypeOK
  <2>2. CASE CreateRequest(r) \/ Expire(r)
    BY <2>2, EndsAsTheyWere DEF CreateRequest, Expire
  <2> QED
    BY <2>1, <2>2
<1>3. /\ \A q \in OwnRequests : cancelled'[q] = None \/ consumed'[q] = None
      /\ cancelled' \in [OwnRequests -> Reasons \cup {None, Torn}]
      /\ \A k \in arrived : consumed'[k.req] \in Records /\ consumed'[k.req].pad = k.pkg.pad
  BY <1>1, <1>2, EndsStay
<1>4. InstallTypeOK' /\ SendTypeOK' /\ ReceiveTypeOK'
  BY <1>1, <1>3 DEF TransferInv, TypeOK, InstallTypeOK, SendTypeOK, ReceiveTypeOK, installVars, sendVars
<1>5. CallsInv' /\ MatchInv' /\ PadsInv' /\ ReleasedInv'
  BY <1>1 DEF TransferInv, CallsInv, HoldsLock, SendsUnspent, ImportsAnnounced, MatchInv, Matches,
              PadsInv, ReleasedInv, installVars, sendVars
<1>6. OneEnding'
  BY <1>1, <1>3 DEF OneEnding
<1> QED
  BY <1>4, <1>5, <1>6 DEF TransferInv, TypeOK
-----------------------------------------------------------------------------
LEMMA StartsWell ==
  ASSUME NEW gone, NEW lost, NEW residue, InitAfter(gone, lost, residue)
  PROVE  TransferInv
<1>1. InstallTypeOK
  BY DEF InitAfter, InstallInit, InstallTypeOK
<1>2. SendTypeOK
  BY IdleAndRest, MarkersAre DEF InitAfter, SendInit, SendTypeOK
<1>3. ReceiveTypeOK
  BY IdleAndRest DEF InitAfter, ReceiveInit, ReceiveTypeOK
<1>4. \A t \in Tabs : sending[t] = Idle /\ receiving[t] = Rest /\ session[t] = None
  BY DEF InitAfter, SendInit, ReceiveInit
<1>5. CallsInv /\ MatchInv
  BY <1>4 DEF CallsInv, HoldsLock, SendsUnspent, ImportsAnnounced, MatchInv, Matches, Idle, Rest,
              Saving, SealSteps, Unsealed, Made, PackageSteps
<1>6. PadsInv
  BY MarkersAre DEF InitAfter, InstallInit, SendInit, PadsInv
<1>7. ReleasedInv /\ OneEnding
  BY DEF InitAfter, SendInit, ReceiveInit, ReleasedInv, OneEnding
<1> QED
  BY <1>1, <1>2, <1>3, <1>5, <1>6, <1>7 DEF TransferInv, TypeOK

LEMMA SendStepKeeps ==
  ASSUME TransferInv, NEW t \in Tabs, SendingStep(t)
  PROVE  TransferInv'
BY ClaimKeeps, EncapsulateKeeps, StageKeeps, MarkKeeps, ReleaseKeeps DEF SendingStep, SendStep

LEMMA ReceiveStepKeeps ==
  ASSUME TransferInv, NEW t \in Tabs, ReceivingStep(t)
  PROVE  TransferInv'
BY SessionKeeps, CheckKeeps, ConsumeKeeps, ImportKeeps, ImportedKeeps, FileKeeps
   DEF ReceivingStep, ReceiveStep

LEMMA CallKeeps ==
  ASSUME TransferInv, NEW t \in Tabs,
         \/ receiving[t] = Rest /\ SendCall(t) /\ UNCHANGED receiveVars
         \/ sending[t] = Idle /\ ReceiveCall(t) /\ UNCHANGED sendVars
  PROVE  TransferInv'
<1>1. CASE receiving[t] = Rest /\ SendCall(t) /\ UNCHANGED receiveVars
  BY <1>1, ReshareKeeps, BeginSealKeeps, ReExportKeeps, BeginExportKeeps DEF SendCall
<1>2. CASE sending[t] = Idle /\ ReceiveCall(t) /\ UNCHANGED sendVars
  BY <1>2, BeginKeeps, BeginFileKeeps DEF ReceiveCall
<1> QED
  BY <1>1, <1>2

LEMMA NextKeeps ==
  ASSUME TransferInv, [Next]_vars
  PROVE  TransferInv'
<1>1. CASE InstallStep /\ UNCHANGED <<sendVars, receiveVars>>
  BY <1>1, InstallKeeps DEF InstallStep
<1>2. CASE \E r \in Requests : (ConfirmRequest(r) \/ ConfirmationLapses(r)) /\ UNCHANGED receiveVars
  BY <1>2, ConfirmationKeeps
<1>3. CASE \E r \in OwnRequests :
             (CreateRequest(r) \/ Expire(r) \/ CancelRequest(r)) /\ UNCHANGED sendVars
  BY <1>3, RequestKeeps
<1>4. ASSUME NEW t \in Tabs,
             \/ receiving[t] = Rest /\ SendCall(t) /\ UNCHANGED receiveVars
             \/ sending[t] = Idle /\ ReceiveCall(t) /\ UNCHANGED sendVars
             \/ Abandon(t) /\ UNCHANGED sendVars
             \/ SendingStep(t) \/ ReceivingStep(t) \/ TabCloses(t)
      PROVE  TransferInv'
  BY <1>4, CallKeeps, AbandonKeeps, SendStepKeeps, ReceiveStepKeeps, TabClosesKeeps
<1>5. CASE UNCHANGED vars
  BY <1>5 DEF vars, installVars, sendVars, receiveVars, TransferInv, TypeOK, InstallTypeOK, SendTypeOK,
    ReceiveTypeOK, CallsInv, HoldsLock, SendsUnspent, ImportsAnnounced, MatchInv, Matches, PadsInv,
    ReleasedInv, OneEnding
<1> QED
  BY <1>1, <1>2, <1>3, <1>4, <1>5 DEF Next
-----------------------------------------------------------------------------
(* OneHandoff, step by step: what the records, the tombstones and the      *)
(* packages handed over say in its terms.                                  *)

Route == [p \in Pads |->
  CASE handoff[p].mode = "absent"     -> None
    [] handoff[p].mode = "physical"   -> "file"
    [] handoff[p].mode = "unreadable" -> "lost"
    [] OTHER -> handoff[p].pkg.req]
Gone == {p \in Pads : destroyed[p]}
Left == {x.pad : x \in released} \cup exported
Answer == [r \in OwnRequests |->
  CASE consumed[r] \in Records -> consumed[r].pad
    [] cancelled[r] # None \/ consumed[r] = Torn -> "over"
    [] OTHER -> None]

LEMMA AbstractCommit ==
  ASSUME NEW p \in Pads, NEW w \in {"file", "lost"} \cup Requests,
         Route[p] = None, p \notin Gone, w \in Requests => \A q \in Pads : Route[q] # w,
         Route' = [Route EXCEPT ![p] = w], UNCHANGED <<Gone, Left, Answer>>
  PROVE  Abstract!Next
<1>1. Abstract!Commit(p)
  BY DEF Abstract!Commit, Route, Gone, Left, Answer
<1> QED
  BY <1>1 DEF Abstract!Next

LEMMA AbstractHandOver ==
  ASSUME NEW p \in Pads, Route[p] \in {"file"} \cup Requests, p \notin Gone,
         Left' = Left \cup {p}, UNCHANGED <<Route, Gone, Answer>>
  PROVE  Abstract!Next
<1>1. Abstract!HandOver(p)
  BY DEF Abstract!HandOver, Route, Gone, Left, Answer
<1> QED
  BY <1>1 DEF Abstract!Next

LEMMA AbstractDestroy ==
  ASSUME NEW p \in Pads, Gone' = Gone \cup {p}, UNCHANGED <<Route, Left, Answer>>
  PROVE  Abstract!Next
<1>1. Abstract!Destroy(p)
  BY DEF Abstract!Destroy, Route, Gone, Left, Answer
<1> QED
  BY <1>1 DEF Abstract!Next

LEMMA AbstractEnd ==
  ASSUME NEW r \in OwnRequests, NEW a \in {"over"} \cup Pads, Answer[r] = None,
         Answer' = [Answer EXCEPT ![r] = a], UNCHANGED <<Route, Gone, Left>>
  PROVE  Abstract!Next
<1>1. Abstract!EndRequest(r)
  BY DEF Abstract!EndRequest, Route, Gone, Left, Answer
<1> QED
  BY <1>1 DEF Abstract!Next

LEMMA AbstractStutter ==
  ASSUME UNCHANGED <<Route, Gone, Left, Answer>>
  PROVE  UNCHANGED Abstract!vars
BY DEF Abstract!vars, Route, Gone, Left, Answer

LEMMA RouteIsAll == /\ Route = [p \in Pads |-> Route[p]]
                    /\ Route' = [p \in Pads |-> Route'[p]]
BY DEF Route

LEMMA AnswerIsAll == /\ Answer = [r \in OwnRequests |-> Answer[r]]
                     /\ Answer' = [r \in OwnRequests |-> Answer'[r]]
BY DEF Answer

LEMMA SameAnswers ==
  ASSUME UNCHANGED <<cancelled, consumed>>
  PROVE  Answer' = Answer
BY DEF Answer

LEMMA RouteOf ==
  ASSUME NEW p \in Pads
  PROVE  /\ handoff[p] = Absent => Route[p] = None
         /\ handoff[p] = Physical => Route[p] = "file"
         /\ \A x : handoff[p] = SealedAs(x) => Route[p] = x.req
         /\ handoff[p].mode = "sealed" => Route[p] = handoff[p].pkg.req
BY MarkersAre DEF Route

(* A request that is the route of a pad is bound to it.                    *)
LEMMA RoutesAreClaims ==
  ASSUME TransferInv, NEW p \in Pads, Route[p] \in Requests
  PROVE  claim[Route[p]] = p
<1>1. handoff[p].mode = "sealed" /\ Route[p] = handoff[p].pkg.req
  <2>1. /\ handoff[p] \in Markers /\ None \notin Requests /\ "file" \notin Requests
        /\ "lost" \notin Requests
    BY NamesDiffer DEF TransferInv, TypeOK, SendTypeOK
  <2>2. handoff[p].mode \in {"absent", "physical", "unreadable", "sealed"}
    BY <2>1, MarkersAre DEF Markers
  <2> QED
    BY <2>1, <2>2 DEF Route
<1> QED
  BY <1>1 DEF TransferInv, PadsInv

LEMMA MarkCommits ==
  ASSUME TransferInv, NEW t \in Tabs, WriteSealedMarker(t) \/ WritePhysicalMarker(t),
         UNCHANGED receiveVars
  PROVE  [Abstract!Next]_(Abstract!vars)
<1> DEFINE p == sending[t].pad
           x == sending[t].pkg
<1>1. /\ PadsAsWere /\ UNCHANGED <<exported, released>> /\ p \in Pads
      /\ sending[t].at \in {"confirm", "export"}
      /\ \/ handoff' = handoff
         \/ handoff' = [handoff EXCEPT ![p] = Unreadable]
         \/ sending[t].at = "confirm" /\ handoff' = [handoff EXCEPT ![p] = SealedAs(x)]
         \/ handoff' = [handoff EXCEPT ![p] = Physical]
  BY MarkMoves DEF TransferInv
<1>2. /\ handoff[p] = Absent /\ ~destroyed[p]
      /\ sending[t].at = "confirm" =>
           /\ x \in Packages /\ x.req = sending[t].req /\ claim[sending[t].req] = p
  BY <1>1 DEF TransferInv, CallsInv, SendsUnspent, Unsealed, Made
<1>3. handoff \in [Pads -> Markers]
  BY DEF TransferInv, TypeOK, SendTypeOK
<1> HIDE DEF p, x
<1>4. UNCHANGED <<Gone, Left, Answer>>
  BY <1>1, SameAnswers DEF Gone, Left, PadsAsWere, receiveVars
<1>5. Route[p] = None /\ p \notin Gone
  BY <1>1, <1>2, RouteOf DEF Gone
<1>6. ASSUME NEW m, handoff' = [handoff EXCEPT ![p] = m],
             NEW w \in {"file", "lost"} \cup Requests,
             w = CASE m.mode = "absent" -> None [] m.mode = "physical" -> "file"
                   [] m.mode = "unreadable" -> "lost" [] OTHER -> m.pkg.req,
             w \in Requests => \A q \in Pads : Route[q] # w
      PROVE  Abstract!Next
  <2>1. handoff'[p] = m /\ \A q \in Pads : q # p => handoff'[q] = handoff[q]
    BY <1>1, <1>3, <1>6
  <2>2. Route'[p] = w
    BY <1>1, <1>6, <2>1 DEF Route
  <2>3. \A q \in Pads : q # p => Route'[q] = Route[q]
    BY <2>1 DEF Route
  <2>4. Route' = [Route EXCEPT ![p] = w]
    BY <1>1, <2>2, <2>3, RouteIsAll
  <2> QED
    BY <1>1, <1>4, <1>5, <1>6, <2>4, AbstractCommit
<1>7. CASE handoff' = handoff
  <2>1. Route' = Route
    BY <1>7 DEF Route
  <2> QED
    BY <1>4, <2>1, AbstractStutter
<1>8. CASE handoff' = [handoff EXCEPT ![p] = Unreadable]
  BY <1>6, <1>8, MarkersAre, NamesDiffer
<1>9. CASE handoff' = [handoff EXCEPT ![p] = Physical]
  BY <1>6, <1>9, MarkersAre, NamesDiffer
<1>10. CASE sending[t].at = "confirm" /\ handoff' = [handoff EXCEPT ![p] = SealedAs(x)]
  <2>1. x.req \in Requests /\ claim[x.req] = p
    BY <1>2, <1>10 DEF Packages
  <2>2. \A q \in Pads : Route[q] # x.req
    BY <1>5, <2>1, RoutesAreClaims, NamesDiffer
  <2>3. SealedAs(x).mode = "sealed" /\ SealedAs(x).pkg = x
    BY MarkersAre
  <2> DEFINE m == SealedAs(x)
  <2> HIDE DEF m
  <2>4. x.req = CASE m.mode = "absent" -> None [] m.mode = "physical" -> "file"
                  [] m.mode = "unreadable" -> "lost" [] OTHER -> m.pkg.req
    BY <2>3 DEF m
  <2> QED
    BY <1>6, <1>10, <2>1, <2>2, <2>4 DEF m
<1> QED
  BY <1>1, <1>7, <1>8, <1>9, <1>10

LEMMA SameRoutes ==
  ASSUME UNCHANGED <<handoff, destroyed, cancelled, consumed>>
  PROVE  UNCHANGED <<Route, Gone, Answer>>
BY SameAnswers DEF Route, Gone

LEMMA PackageHandsOver ==
  ASSUME TransferInv, NEW p \in Pads, Recoverable(p), ~destroyed[p],
         released' = released \cup {payload[p]}, exported' = exported,
         UNCHANGED <<handoff, destroyed, cancelled, consumed>>
  PROVE  Abstract!Next
<1>1. payload[p] \in Packages /\ payload[p].pad = p /\ handoff[p] = SealedAs(payload[p])
  BY RecoverableIs DEF TransferInv
<1>2. Left' = Left \cup {p}
  BY <1>1 DEF Left
<1>3. Route[p] \in Requests
  BY <1>1, RouteOf DEF Packages
<1>4. p \notin Gone
  BY DEF Gone
<1> QED
  BY <1>2, <1>3, <1>4, SameRoutes, AbstractHandOver

LEMMA FileHandsOver ==
  ASSUME TransferInv, NEW p \in Pads, handoff[p] = Physical, ~destroyed[p],
         exported' = exported \cup {p}, released' = released,
         UNCHANGED <<handoff, destroyed, cancelled, consumed>>
  PROVE  Abstract!Next
<1>1. Left' = Left \cup {p}
  BY DEF Left
<1>2. Route[p] = "file" /\ p \notin Gone
  BY RouteOf DEF Gone
<1> QED
  BY <1>1, <1>2, SameRoutes, AbstractHandOver

LEMMA ReleaseHandsOver ==
  ASSUME TransferInv, NEW t \in Tabs, ReleasePackage(t) \/ ReleaseContainer(t),
         UNCHANGED receiveVars
  PROVE  [Abstract!Next]_(Abstract!vars)
<1> DEFINE p == sending[t].pad
<1>1. /\ UNCHANGED <<handoff, destroyed, cancelled, consumed>>
      /\ sending[t].at \in {"marked", "exportable"} /\ p \in Pads
      /\ \/ released' = released /\ exported' = exported
         \/ Recoverable(p) /\ released' = released \cup {payload[p]} /\ exported' = exported
         \/ /\ sending[t].at = "exportable" /\ exported' = exported \cup {p}
            /\ released' = released
  BY ReleaseMoves DEF TransferInv, PadsAsWere, receiveVars
<1>2. ~destroyed[p] /\ (sending[t].at = "exportable" => handoff[p] = Physical)
  BY <1>1 DEF TransferInv, CallsInv, SendsUnspent
<1> HIDE DEF p
<1>3. CASE released' = released /\ exported' = exported
  <2>1. Left' = Left
    BY <1>3 DEF Left
  <2> QED
    BY <1>1, <2>1, SameRoutes, AbstractStutter
<1> QED
  BY <1>1, <1>2, <1>3, PackageHandsOver, FileHandsOver

LEMMA EndIsOne ==
  ASSUME TransferInv, UNCHANGED <<handoff, destroyed, released, exported>>,
         \/ CancelMoves /\ consumed' = consumed
         \/ ConsumeMoves /\ cancelled' = cancelled
  PROVE  [Abstract!Next]_(Abstract!vars)
<1>1. UNCHANGED <<Route, Gone, Left>>
  BY DEF Route, Gone, Left
<1>2. /\ None \notin Records /\ Torn \notin Records /\ None # Torn
      /\ cancelled \in [OwnRequests -> Reasons \cup {None, Torn}]
      /\ consumed \in [OwnRequests -> Records \cup {None, Torn}]
      /\ \A v \in Records : v.pad \in Pads
  BY NamesDiffer DEF TransferInv, TypeOK, ReceiveTypeOK, Records
<1>3. CASE cancelled' = cancelled /\ consumed' = consumed
  BY <1>1, <1>3, SameAnswers, AbstractStutter
<1>4. ASSUME NEW r \in OwnRequests, NEW v, cancelled[r] = None, consumed[r] = None,
             \/ cancelled' = [cancelled EXCEPT ![r] = v] /\ consumed' = consumed /\ v # None
             \/ /\ consumed' = [consumed EXCEPT ![r] = v] /\ cancelled' = cancelled
                /\ v \in Records \cup {Torn}
      PROVE  Abstract!Next
  <2> DEFINE a == IF consumed'[r] \in Records THEN v.pad ELSE "over"
  <2>1. Answer[r] = None
    BY <1>2, <1>4 DEF Answer
  <2>2. /\ \A q \in OwnRequests : q # r => cancelled'[q] = cancelled[q] /\ consumed'[q] = consumed[q]
        /\ \/ cancelled'[r] = v /\ v # None /\ consumed'[r] = None
           \/ consumed'[r] = v /\ v \in Records \cup {Torn} /\ cancelled'[r] = None
    BY <1>2, <1>4
  <2>3. a \in {"over"} \cup Pads
    BY <1>2, <2>2
  <2>4. Answer'[r] = a
    <3>1. CASE consumed'[r] \in Records
      <4>1. consumed'[r] = v /\ cancelled'[r] = None /\ consumed'[r] # Torn
        BY <1>2, <2>2, <3>1
      <4>2. Answer'[r] = consumed'[r].pad
        BY <3>1, <4>1 DEF Answer
      <4> QED
        BY <3>1, <4>1, <4>2
    <3>2. CASE consumed'[r] \notin Records
      <4>1. cancelled'[r] # None \/ consumed'[r] = Torn
        BY <2>2, <3>2
      <4>2. Answer'[r] = "over"
        BY <3>2, <4>1 DEF Answer
      <4> QED
        BY <3>2, <4>2
    <3> QED
      BY <3>1, <3>2
  <2>5. \A q \in OwnRequests : q # r => Answer'[q] = Answer[q]
    BY <2>2 DEF Answer
  <2> HIDE DEF a
  <2>6. Answer' = [Answer EXCEPT ![r] = a]
    BY <2>4, <2>5, AnswerIsAll
  <2> QED
    BY <1>1, <2>1, <2>3, <2>6, AbstractEnd
<1>5. CASE CancelMoves /\ consumed' = consumed /\ cancelled' # cancelled
  <2>1. PICK r \in OwnRequests, v \in Reasons \cup {Torn} :
          /\ cancelled[r] = None /\ consumed[r] = None
          /\ cancelled' = [cancelled EXCEPT ![r] = v]
    BY <1>5 DEF CancelMoves
  <2>2. v # None
    BY <1>2, <1>5, <2>1
  <2> QED
    BY <1>4, <1>5, <2>1, <2>2
<1>6. CASE ConsumeMoves /\ cancelled' = cancelled /\ consumed' # consumed
  <2>1. PICK r \in OwnRequests, v \in Records \cup {Torn} :
          /\ cancelled[r] = None /\ consumed[r] = None
          /\ consumed' = [consumed EXCEPT ![r] = v]
    BY <1>6 DEF ConsumeMoves
  <2> QED
    BY <1>4, <1>6, <2>1
<1> QED
  BY <1>3, <1>5, <1>6

(* What no step of OneHandoff is about leaves its state alone.             *)
LEMMA SameState ==
  ASSUME UNCHANGED <<handoff, destroyed, released, exported, cancelled, consumed>>
  PROVE  UNCHANGED Abstract!vars
<1>1. Left' = Left
  BY DEF Left
<1> QED
  BY <1>1, SameRoutes, AbstractStutter

LEMMA SendStepMaps ==
  ASSUME TransferInv, NEW t \in Tabs, SendingStep(t)
  PROVE  [Abstract!Next]_(Abstract!vars)
<1>1. CASE ClaimRequest(t) \/ Encapsulate(t) \/ StagePackage(t) \/ StageConfirmation(t)
  BY <1>1, SameState DEF ClaimRequest, Encapsulate, StagePackage, StageConfirmation, SendingStep,
                         receiveVars
<1> QED
  BY <1>1, MarkCommits, ReleaseHandsOver DEF SendingStep, SendStep

LEMMA ReceiveStepMaps ==
  ASSUME TransferInv, NEW t \in Tabs, ReceivingStep(t)
  PROVE  [Abstract!Next]_(Abstract!vars)
<1>1. CASE UseKey(t) \/ OpenSession(t) \/ Reject(t) \/ ResolveSession(t)
  BY <1>1, SessionMoves, EndIsOne DEF TransferInv, ReceivingStep, sendVars, installVars
<1>2. CASE Consume(t)
  BY <1>2, ConsumeStep, EndIsOne DEF TransferInv, ReceivingStep, sendVars, PadsAsWere
<1>3. CASE CheckPad(t) \/ ImportBegins(t) \/ ImportCommits(t) \/ CommitFileImport(t)
  BY <1>3, SameState DEF CheckPad, ImportBegins, ImportCommits, CommitFileImport, BeginImport,
                         CommitImport, ReceivingStep, sendVars
<1> QED
  BY <1>1, <1>2, <1>3 DEF ReceivingStep, ReceiveStep

LEMMA CallMaps ==
  ASSUME TransferInv, NEW t \in Tabs,
         \/ receiving[t] = Rest /\ SendCall(t) /\ UNCHANGED receiveVars
         \/ sending[t] = Idle /\ ReceiveCall(t) /\ UNCHANGED sendVars
  PROVE  [Abstract!Next]_(Abstract!vars)
<1>1. ASSUME NEW p \in Pads, NEW r \in Requests, Reshare(t, p, r), UNCHANGED receiveVars
      PROVE  Abstract!Next
  BY <1>1, PackageHandsOver DEF Reshare, installVars, receiveVars
<1>2. ASSUME NEW p \in Pads, ReExport(t, p), UNCHANGED receiveVars
      PROVE  Abstract!Next
  BY <1>2, FileHandsOver DEF ReExport, PadExportable, ActivePair, installVars, receiveVars
<1>3. ASSUME NEW p \in Pads, UNCHANGED receiveVars,
             BeginExport(t, p) \/ \E r \in Requests : BeginSeal(t, p, r)
      PROVE  UNCHANGED Abstract!vars
  BY <1>3, SameState DEF BeginExport, BeginSeal, receiveVars
<1>4. ASSUME ReceiveCall(t), UNCHANGED sendVars
      PROVE  UNCHANGED Abstract!vars
  BY <1>4, SameState DEF ReceiveCall, BeginOpen, BeginReject, BeginSave, BeginFileImport, BeginImport,
                         installVars, sendVars
<1> QED
  BY <1>1, <1>2, <1>3, <1>4 DEF SendCall

LEMMA DestroyMaps ==
  ASSUME NEW p \in Pads, UsePad(p) \/ DestroyPad(p), UNCHANGED <<sendVars, receiveVars>>, TypeOK
  PROVE  [Abstract!Next]_(Abstract!vars)
<1>1. CASE UsePad(p)
  BY <1>1, SameState DEF UsePad, sendVars, receiveVars
<1>2. CASE DestroyPad(p)
  <2>1. destroyed' = [destroyed EXCEPT ![p] = TRUE] /\ destroyed \in [Pads -> BOOLEAN]
    BY <1>2 DEF DestroyPad, TypeOK, InstallTypeOK
  <2>2. Gone' = Gone \cup {p}
    BY <2>1 DEF Gone
  <2>3. UNCHANGED <<Route, Left, Answer>>
    BY DEF Route, Left, Answer, sendVars, receiveVars
  <2> QED
    BY <2>2, <2>3, AbstractDestroy
<1> QED
  BY <1>1, <1>2

LEMMA RequestMaps ==
  ASSUME TransferInv, NEW r \in OwnRequests, CreateRequest(r) \/ Expire(r) \/ CancelRequest(r),
         UNCHANGED sendVars
  PROVE  [Abstract!Next]_(Abstract!vars)
<1>1. CASE CreateRequest(r) \/ Expire(r)
  BY <1>1, SameState DEF CreateRequest, Expire, installVars, sendVars
<1>2. CASE CancelRequest(r)
  <2>1. \E reason \in Reasons, o \in Outcomes : CancelWritten(r, reason, o)
    BY <1>2 DEF CancelRequest, Reasons
  <2>2. CancelMoves
    BY <2>1, CancelledMoves DEF TransferInv, TypeOK
  <2> QED
    BY <1>2, <2>2, EndIsOne DEF CancelRequest, installVars, sendVars
<1> QED
  BY <1>1, <1>2

LEMMA NextMaps ==
  ASSUME TransferInv, [Next]_vars
  PROVE  [Abstract!Next]_(Abstract!vars)
<1>1. CASE InstallStep /\ UNCHANGED <<sendVars, receiveVars>>
  BY <1>1, DestroyMaps DEF InstallStep, TransferInv
<1>2. CASE \E r \in Requests : (ConfirmRequest(r) \/ ConfirmationLapses(r)) /\ UNCHANGED receiveVars
  BY <1>2, SameState DEF ConfirmRequest, ConfirmationLapses, installVars, receiveVars
<1>3. CASE \E r \in OwnRequests :
             (CreateRequest(r) \/ Expire(r) \/ CancelRequest(r)) /\ UNCHANGED sendVars
  BY <1>3, RequestMaps
<1>4. ASSUME NEW t \in Tabs, Abandon(t) /\ UNCHANGED sendVars
      PROVE  UNCHANGED Abstract!vars
  BY <1>4, SameState DEF Abandon, installVars, sendVars
<1>5. ASSUME NEW t \in Tabs, TabCloses(t)
      PROVE  UNCHANGED Abstract!vars
  BY <1>5, SameState DEF TabCloses, SendTabClosed, ReceiveTabClosed
<1>6. CASE UNCHANGED vars
  BY <1>6, SameState DEF vars, installVars, sendVars, receiveVars
<1>7. CASE \E t \in Tabs :
             \/ receiving[t] = Rest /\ SendCall(t) /\ UNCHANGED receiveVars
             \/ sending[t] = Idle /\ ReceiveCall(t) /\ UNCHANGED sendVars
             \/ SendingStep(t) \/ ReceivingStep(t)
  BY <1>7, CallMaps, SendStepMaps, ReceiveStepMaps
<1> QED
  BY <1>1, <1>2, <1>3, <1>4, <1>5, <1>6, <1>7 DEF Next

LEMMA StartsAbstractly ==
  ASSUME NEW gone, NEW lost, NEW residue, InitAfter(gone, lost, residue)
  PROVE  Abstract!Init
<1>1. /\ handoff = [p \in Pads |-> Absent] /\ released = {} /\ exported = {}
      /\ cancelled = [r \in OwnRequests |-> None] /\ consumed = [r \in OwnRequests |-> None]
  BY DEF InitAfter, SendInit, ReceiveInit
<1>2. Route = [p \in Pads |-> None]
  BY <1>1, MarkersAre DEF Route
<1>3. Gone \in SUBSET Pads /\ Left = {}
  BY <1>1 DEF Gone, Left
<1>4. Answer = [r \in OwnRequests |-> None]
  BY <1>1, NamesDiffer DEF Answer
<1> QED
  BY <1>2, <1>3, <1>4 DEF Abstract!Init, Route, Gone, Left, Answer
-----------------------------------------------------------------------------
(* The theorems, for an installation found in any of the states InitAfter  *)
(* names; Spec starts from one of them.                                    *)

THEOREM TransferInvariant ==
  ASSUME NEW CONSTANT gone, NEW CONSTANT lost, NEW CONSTANT residue
  PROVE  InitAfter(gone, lost, residue) /\ [][Next]_vars => []TransferInv
<1>1. InitAfter(gone, lost, residue) => TransferInv
  BY StartsWell
<1>2. TransferInv /\ [Next]_vars => TransferInv'
  BY NextKeeps
<1> QED
  BY <1>1, <1>2, PTL

(* What left is what its pad's record names, and the record names one      *)
(* package whose request is bound to the pad.                              *)
LEMMA InvariantMeans ==
  ASSUME TransferInv
  PROVE  OnePackage /\ FreshMaterialOnly /\ OneEnding
<1>1. \A k \in released : /\ k.pad \in Pads /\ handoff[k.pad] = SealedAs(k)
                          /\ claim[k.req] = k.pad /\ k.genesis /\ origin[k.pad] = "generated-here"
  <2> SUFFICES ASSUME NEW k \in released
               PROVE  /\ k.pad \in Pads /\ handoff[k.pad] = SealedAs(k) /\ claim[k.req] = k.pad
                      /\ k.genesis /\ origin[k.pad] = "generated-here"
    OBVIOUS
  <2>1. k.pad \in Pads /\ handoff[k.pad] = SealedAs(k)
    BY DEF TransferInv, TypeOK, SendTypeOK, ReleasedInv, Packages
  <2>2. handoff[k.pad].mode = "sealed" /\ handoff[k.pad].pkg = k
    BY <2>1, MarkersAre
  <2> QED
    BY <2>1, <2>2 DEF TransferInv, PadsInv
<1>2. \A k, l \in released : k.pad = l.pad => k = l
  BY <1>1, MarkersAre
<1>3. \A p \in exported : origin[p] # "imported"
  BY DEF TransferInv, TypeOK, SendTypeOK, PadsInv
<1> QED
  BY <1>1, <1>2, <1>3 DEF OnePackage, FreshMaterialOnly, TransferInv

(* Whatever seals are cut off, tried again or run in many tabs at once, no *)
(* pad and no request is in two packages that left (OnePackage).           *)
THEOREM OnePackageLeaves ==
  ASSUME NEW CONSTANT gone, NEW CONSTANT lost, NEW CONSTANT residue
  PROVE  InitAfter(gone, lost, residue) /\ [][Next]_vars => []OnePackage
BY TransferInvariant, InvariantMeans, PTL

(* What was sealed away was made here and never used before, and no pad    *)
(* that arrived is passed on (FreshMaterialOnly).                          *)
THEOREM OnlyFreshMaterialLeaves ==
  ASSUME NEW CONSTANT gone, NEW CONSTANT lost, NEW CONSTANT residue
  PROVE  InitAfter(gone, lost, residue) /\ [][Next]_vars => []FreshMaterialOnly
BY TransferInvariant, InvariantMeans, PTL

(* A request ends once, and brings in the pad it ended with or none        *)
(* (OneEnding).                                                            *)
THEOREM RequestsEndOnce ==
  ASSUME NEW CONSTANT gone, NEW CONSTANT lost, NEW CONSTANT residue
  PROVE  InitAfter(gone, lost, residue) /\ [][Next]_vars => []OneEnding
BY TransferInvariant, InvariantMeans, PTL

(* The files, locks and tabs of an installation implement OneHandoff: a    *)
(* pad has one route for ever, only what was committed leaves, a request   *)
(* ends once.                                                              *)
THEOREM TransferKeepsThePromise ==
  ASSUME NEW CONSTANT gone, NEW CONSTANT lost, NEW CONSTANT residue
  PROVE  InitAfter(gone, lost, residue) /\ [][Next]_vars => OnePromise
<1>1. InitAfter(gone, lost, residue) => Abstract!Init
  BY StartsAbstractly
<1>2. TransferInv /\ [Next]_vars => [Abstract!Next]_(Abstract!vars)
  BY NextMaps
<1> QED
  BY <1>1, <1>2, TransferInvariant, PTL DEF OnePromise, Abstract!Spec
-----------------------------------------------------------------------------
(* Locks. Whoever holds one is in the call that took it and works on what  *)
(* it protects: none is left behind.                                       *)

HoldsPad(t, p) ==
  \/ sending[t].at # "idle" /\ sending[t].pad = p
  \/ receiving[t].at \in Saving /\ receiving[t].pkg.pad = p
  \/ receiving[t].at = "file" /\ receiving[t].pad = p

HoldsRequest(t, r) ==
  receiving[t].at \in Saving \cup {"locked"} /\ receiving[t].req = r

LocksInv ==
  /\ \A p \in Pads : padLock[p] # None => HoldsPad(padLock[p], p)
  /\ \A r \in OwnRequests : reqLock[r] # None => HoldsRequest(reqLock[r], r)

(* A step of t takes no lock for another tab, and for itself none that its *)
(* call does not hold afterwards.                                          *)
LockSteps(t) ==
  /\ TabMoves(t)
  /\ \A p \in Pads : padLock'[p] # t => padLock'[p] \in {padLock[p], None}
  /\ \A r \in OwnRequests : reqLock'[r] # t => reqLock'[r] \in {reqLock[r], None}
OwnLocks(t) ==
  /\ \A p \in Pads : padLock[p] = t => HoldsPad(t, p)
  /\ \A r \in OwnRequests : reqLock[r] = t => HoldsRequest(t, r)

LEMMA LocksKept ==
  ASSUME TypeOK, LocksInv, NEW t \in Tabs, LockSteps(t), OwnLocks(t)'
  PROVE  LocksInv'
<1>1. ASSUME NEW u \in Tabs, u # t
      PROVE  sending'[u] = sending[u] /\ receiving'[u] = receiving[u]
  BY <1>1 DEF LockSteps, TabMoves
<1>2. ASSUME NEW p \in Pads, padLock'[p] # None
      PROVE  HoldsPad(padLock[p], p)'
  <2>1. CASE padLock'[p] = t
    BY <2>1 DEF OwnLocks, HoldsPad
  <2>2. CASE padLock'[p] # t
    <3>1. padLock'[p] = padLock[p] /\ padLock[p] \in Tabs /\ HoldsPad(padLock[p], p)
      BY <1>2, <2>2 DEF LockSteps, LocksInv, TypeOK, InstallTypeOK
    <3> QED
      BY <1>1, <2>2, <3>1 DEF HoldsPad
  <2> QED
    BY <2>1, <2>2
<1>3. ASSUME NEW r \in OwnRequests, reqLock'[r] # None
      PROVE  HoldsRequest(reqLock[r], r)'
  <2>1. CASE reqLock'[r] = t
    BY <2>1 DEF OwnLocks, HoldsRequest
  <2>2. CASE reqLock'[r] # t
    <3>1. reqLock'[r] = reqLock[r] /\ reqLock[r] \in Tabs /\ HoldsRequest(reqLock[r], r)
      BY <1>3, <2>2 DEF LockSteps, LocksInv, TypeOK, ReceiveTypeOK
    <3> QED
      BY <1>1, <2>2, <3>1 DEF HoldsRequest
  <2> QED
    BY <2>1, <2>2
<1> QED
  BY <1>2, <1>3 DEF LocksInv

LEMMA LocksStay ==
  ASSUME LocksInv, UNCHANGED <<sending, receiving, padLock, reqLock>>
  PROVE  LocksInv'
BY DEF LocksInv, HoldsPad, HoldsRequest

(* A tab that is in no call on a pad, or on a request, holds no such lock. *)
LEMMA HoldsNothing ==
  ASSUME TypeOK, LocksInv, NEW t \in Tabs
  PROVE  /\ sending[t] = Idle /\ receiving[t].at \notin Saving \cup {"file"}
              => \A p \in Pads : padLock[p] # t
         /\ receiving[t].at \notin Saving \cup {"locked"}
              => \A r \in OwnRequests : reqLock[r] # t
<1>1. t # None
  BY NamesDiffer
<1>2. Idle.at = "idle"
  BY IdleAndRest
<1> QED
  BY <1>1, <1>2 DEF LocksInv, HoldsPad, HoldsRequest

LEMMA UnlocksPads ==
  ASSUME TypeOK, NEW t \in Tabs, Unlock(t)
  PROVE  \A p \in Pads : padLock'[p] # t /\ padLock'[p] \in {padLock[p], None}
BY NamesDiffer DEF Unlock

LEMMA UnlocksRequests ==
  ASSUME TypeOK, NEW t \in Tabs, UnlockRequest(t)
  PROVE  \A r \in OwnRequests : reqLock'[r] # t /\ reqLock'[r] \in {reqLock[r], None}
BY NamesDiffer DEF UnlockRequest

(* A seal or an export goes on under the lock it has, or ends and frees it.*)
LEMMA SendGoesOnOrEnds ==
  ASSUME TypeOK, NEW t \in Tabs, SendStep(t), UNCHANGED receiveVars
  PROVE  /\ sending[t].at # "idle"
         /\ \/ EndSend(t)
            \/ /\ UNCHANGED padLock /\ TabMoves(t)
               /\ sending'[t].at # "idle" /\ sending'[t].pad = sending[t].pad
<1>1. ASSUME ClaimRequest(t) \/ StagePackage(t) \/ StageConfirmation(t) \/ WriteSealedMarker(t)
      PROVE  /\ sending[t].at \in SealSteps
             /\ EndSend(t) \/ \E at \in SealSteps : Goes(t, at) /\ UNCHANGED padLock
  BY <1>1 DEF ClaimRequest, StagePackage, StageConfirmation, WriteSealedMarker, Stage,
     MarkerWritten, Outcomes, SealSteps
<1>2. ASSUME WritePhysicalMarker(t)
      PROVE  /\ sending[t].at \in ExportSteps
             /\ EndSend(t) \/ (Goes(t, "exportable") /\ UNCHANGED padLock)
  BY <1>2 DEF WritePhysicalMarker, MarkerWritten, Outcomes, ExportSteps
<1>3. ASSUME ReleasePackage(t) \/ ReleaseContainer(t)
      PROVE  sending[t].at \in {"marked", "exportable"} /\ EndSend(t)
  BY <1>3 DEF ReleasePackage, ReleaseContainer
<1>4. ASSUME Encapsulate(t), ~EndSend(t)
      PROVE  /\ UNCHANGED padLock /\ TabMoves(t)
             /\ sending'[t].at # "idle" /\ sending'[t].pad = sending[t].pad
  <2>1. sending[t].at = "claimed" /\ TabMoves(t)
    BY <1>4, EncapsulateMoves
  <2>2. /\ UNCHANGED padLock
        /\ \E x : sending' = [sending EXCEPT ![t].at = "staging", ![t].pkg = x]
    BY <1>4 DEF Encapsulate
  <2>3. sending[t] \in SealRecord /\ sending \in [Tabs -> Sends]
    BY <2>1, SendParts DEF TypeOK, SealSteps, SendTypeOK
  <2>4. sending'[t].at = "staging" /\ sending'[t].pad = sending[t].pad
    BY <2>2, <2>3 DEF SealRecord
  <2> QED
    BY <2>1, <2>2, <2>4
<1>5. {"claimed", "marked"} \subseteq SealSteps /\ "exportable" \in ExportSteps
      /\ "idle" \notin SealSteps \cup ExportSteps
  BY DEF SealSteps, ExportSteps
<1>6. Encapsulate(t) => sending[t].at = "claimed"
  BY DEF Encapsulate
<1> QED
  BY <1>1, <1>2, <1>3, <1>4, <1>5, <1>6, SendGoes DEF SendStep

LEMMA SendKeepsLocks ==
  ASSUME TransferInv, LocksInv, NEW t \in Tabs, SendStep(t), UNCHANGED receiveVars
  PROVE  LocksInv'
<1>1. TypeOK /\ receiving' = receiving /\ reqLock' = reqLock
  BY DEF TransferInv, receiveVars
<1>2. sending[t].at # "idle" /\ receiving[t] = Rest
  BY <1>1, SendGoesOnOrEnds, IdleAndRest DEF TransferInv, CallsInv, HoldsLock
<1>3. \A r \in OwnRequests : reqLock[r] # t
  BY <1>1, <1>2, HoldsNothing, IdleAndRest DEF Saving
<1>4. CASE EndSend(t)
  BY <1>1, <1>3, <1>4, SendEnds, UnlocksPads, LocksKept DEF EndSend, LockSteps, OwnLocks
<1>5. CASE /\ UNCHANGED padLock /\ TabMoves(t)
           /\ sending'[t].at # "idle" /\ sending'[t].pad = sending[t].pad
  <2>1. \A p \in Pads : padLock'[p] = t => HoldsPad(t, p)'
    BY <1>1, <1>2, <1>5, NamesDiffer, IdleAndRest DEF LocksInv, HoldsPad, Saving
  <2> QED
    BY <1>1, <1>3, <1>5, <2>1, LocksKept DEF LockSteps, OwnLocks
<1> QED
  BY <1>1, <1>4, <1>5, SendGoesOnOrEnds

(* A step that takes one pad lock, for the call it begins or goes on with. *)
LEMMA TakesPad ==
  ASSUME TypeOK, LocksInv, NEW t \in Tabs, NEW p \in Pads, Lock(t, p), TabMoves(t),
         sending[t] = Idle, receiving[t].at \notin Saving \cup {"file"},
         HoldsPad(t, p)', reqLock' = reqLock,
         \A r \in OwnRequests : reqLock[r] = t => HoldsRequest(t, r)'
  PROVE  LocksInv'
<1>1. \A q \in Pads : padLock[q] # t
  BY HoldsNothing
<1>2. padLock' = [padLock EXCEPT ![p] = t] /\ padLock \in [Pads -> Tabs \cup {None}]
  BY DEF Lock, TypeOK, InstallTypeOK
<1>3. \A q \in Pads : padLock'[q] = t => q = p
  BY <1>1, <1>2
<1>4. LockSteps(t)
  BY <1>2 DEF LockSteps
<1>5. OwnLocks(t)'
  BY <1>3 DEF OwnLocks
<1> QED
  BY <1>4, <1>5, LocksKept

LEMMA CallKeepsLocks ==
  ASSUME TransferInv, LocksInv, NEW t \in Tabs,
         \/ receiving[t] = Rest /\ SendCall(t) /\ UNCHANGED receiveVars
         \/ sending[t] = Idle /\ ReceiveCall(t) /\ UNCHANGED sendVars
  PROVE  LocksInv'
<1>1. TypeOK /\ Rest.at = "rest"
  BY IdleAndRest DEF TransferInv
<1>2. CASE /\ receiving[t] = Rest /\ UNCHANGED receiveVars
           /\ \E p \in Pads : \/ \E r \in Requests : BeginSeal(t, p, r)
                              \/ BeginExport(t, p)
  <2>1. PICK p \in Pads : (\E r \in Requests : BeginSeal(t, p, r)) \/ BeginExport(t, p)
    BY <1>2
  <2>2. sending[t] = Idle /\ Lock(t, p)
    BY <2>1 DEF BeginSeal, BeginExport
  <2>3. TabMoves(t) /\ sending'[t].at \in {"gated", "export"} /\ sending'[t].pad = p
    BY <1>1, <1>2, <2>1, BeginSealMoves, BeginExportMoves
  <2>4. reqLock' = reqLock /\ \A r \in OwnRequests : reqLock[r] # t
    BY <1>1, <1>2, HoldsNothing DEF receiveVars, Saving
  <2> QED
    BY <1>1, <1>2, <2>2, <2>3, <2>4, TakesPad DEF HoldsPad, Saving
<1>3. CASE /\ receiving[t] = Rest /\ UNCHANGED receiveVars
           /\ \E p \in Pads : ReExport(t, p) \/ \E r \in Requests : Reshare(t, p, r)
  <2>1. UNCHANGED <<sending, receiving, padLock, reqLock>>
    BY <1>3 DEF ReExport, Reshare, receiveVars, installVars
  <2> QED
    BY <2>1, LocksStay
<1>4. CASE sending[t] = Idle /\ UNCHANGED sendVars /\ \E p \in Pads : BeginFileImport(t, p)
  <2>1. PICK p \in Pads : BeginFileImport(t, p)
    BY <1>4
  <2>2. receiving[t] = Rest /\ Lock(t, p) /\ reqLock' = reqLock
    BY <2>1 DEF BeginFileImport
  <2>3. TabMoves(t) /\ receiving'[t].at = "file" /\ receiving'[t].pad = p
    BY <1>1, <1>4, <2>1, BeginFileMoves
  <2>4. \A r \in OwnRequests : reqLock[r] # t
    BY <1>1, <2>2, HoldsNothing DEF Saving
  <2> QED
    BY <1>1, <1>4, <2>2, <2>3, <2>4, TakesPad DEF HoldsPad, Saving
<1>5. CASE /\ sending[t] = Idle /\ UNCHANGED sendVars
           /\ BeginReject(t) \/ BeginSave(t) \/ \E x \in AtHand : BeginOpen(t, x)
  <2>1. receiving[t] = Rest /\ reqLock' = reqLock /\ padLock' = padLock
    BY <1>5 DEF BeginReject, BeginSave, BeginOpen, installVars
  <2>2. (\A p \in Pads : padLock[p] # t) /\ (\A r \in OwnRequests : reqLock[r] # t)
    BY <1>1, <1>5, <2>1, HoldsNothing DEF Saving
  <2> QED
    BY <1>1, <1>5, <2>1, <2>2, BeginMoves, LocksKept DEF LockSteps, OwnLocks
<1> QED
  BY <1>2, <1>3, <1>4, <1>5 DEF SendCall, ReceiveCall

(* A call that receives: it waits for the request lock, takes it, takes    *)
(* the pad lock inside it, works under both, and ends without any.         *)
LEMMA ReceiptEndsUnlocked ==
  ASSUME TypeOK, LocksInv, NEW t \in Tabs, EndReceipt(t), UNCHANGED sendVars
  PROVE  LocksInv'
<1>1. TabMoves(t) /\ Unlock(t) /\ UnlockRequest(t)
  BY ReceiptEnds DEF EndReceipt
<1>2. LockSteps(t) /\ OwnLocks(t)'
  BY <1>1, UnlocksPads, UnlocksRequests DEF LockSteps, OwnLocks
<1> QED
  BY <1>2, LocksKept

LEMMA SavingGoesOn ==
  ASSUME TypeOK, LocksInv, NEW t \in Tabs, NEW at \in Saving, receiving[t].at \in Saving,
         Proceeds(t, at), UNCHANGED <<padLock, reqLock>>, UNCHANGED sendVars
  PROVE  LocksInv'
<1>1. at \in PackageSteps /\ receiving[t].at \in PackageSteps /\ receiving[t].at # "file"
  BY DEF Saving, PackageSteps
<1>2. /\ TabMoves(t) /\ receiving'[t].at = at /\ sending' = sending
      /\ receiving'[t].req = receiving[t].req /\ receiving'[t].pkg = receiving[t].pkg
  BY <1>1, ReceiptProceeds DEF sendVars
<1>3. OwnLocks(t)'
  BY <1>1, <1>2, NamesDiffer DEF OwnLocks, LocksInv, HoldsPad, HoldsRequest
<1> QED
  BY <1>2, <1>3, LocksKept DEF LockSteps

LEMMA WaitsUnlocked ==
  ASSUME TransferInv, LocksInv, NEW t \in Tabs,
         UseKey(t) \/ OpenSession(t) \/ Reject(t) \/ ResolveSession(t), UNCHANGED sendVars
  PROVE  LocksInv'
<1> DEFINE r == receiving[t].req
<1>1. TypeOK /\ TabMoves(t) /\ padLock' = padLock /\ sending' = sending
  BY SessionMoves DEF TransferInv, installVars, sendVars
<1>2. receiving[t].at \in {"opening", "opened", "rejecting", "saving"}
  BY DEF UseKey, OpenSession, Reject, ResolveSession
<1>3. receiving[t].at \in PackageSteps /\ r \in OwnRequests
  BY <1>1, <1>2, ReceiveParts DEF PackageSteps, TypeOK
<1>4. receiving[t] # Rest
  BY <1>2, IdleAndRest
<1>5. sending[t] = Idle
  BY <1>4 DEF TransferInv, CallsInv, HoldsLock
<1>6. (\A p \in Pads : padLock[p] # t) /\ (\A q \in OwnRequests : reqLock[q] # t)
  BY <1>1, <1>2, <1>5, HoldsNothing DEF Saving
<1>7. CASE reqLock' = reqLock
  BY <1>1, <1>6, <1>7, LocksKept DEF LockSteps, OwnLocks
<1>8. CASE Proceeds(t, "locked") /\ LockRequest(t, r)
  <2>1. reqLock' = [reqLock EXCEPT ![r] = t] /\ reqLock \in [OwnRequests -> Tabs \cup {None}]
    BY <1>1, <1>8 DEF LockRequest, TypeOK, ReceiveTypeOK
  <2>2. receiving'[t].at = "locked" /\ receiving'[t].req = r
    BY <1>1, <1>3, <1>8, ReceiptProceeds DEF PackageSteps
  <2>3. \A q \in OwnRequests : /\ reqLock'[q] = t => q = r
                               /\ reqLock'[q] # t => reqLock'[q] = reqLock[q]
    BY <1>3, <1>6, <2>1
  <2> HIDE DEF r
  <2>4. OwnLocks(t)'
    BY <1>1, <1>6, <2>2, <2>3 DEF OwnLocks, HoldsRequest
  <2> QED
    BY <1>1, <2>3, <2>4, LocksKept DEF LockSteps
<1> QED
  BY <1>7, <1>8 DEF UseKey, OpenSession, Reject, ResolveSession

LEMMA CheckKeepsLocks ==
  ASSUME TransferInv, LocksInv, NEW t \in Tabs, CheckPad(t), UNCHANGED sendVars
  PROVE  LocksInv'
<1>1. TypeOK /\ receiving[t].at = "locked"
  BY DEF TransferInv, CheckPad
<1>2. receiving[t].at \in PackageSteps /\ "checked" \in PackageSteps
  BY <1>1 DEF PackageSteps
<1>3. PICK p \in Pads : p = receiving[t].pkg.pad
  BY <1>1, <1>2, ReceiveParts DEF TypeOK
<1>4. sending[t] = Idle
  BY <1>1, IdleAndRest DEF TransferInv, CallsInv, HoldsLock
<1>5. EndReceipt(t) \/ (Lock(t, p) /\ Proceeds(t, "checked") /\ reqLock' = reqLock)
  BY <1>3 DEF CheckPad
<1>6. CASE Lock(t, p) /\ Proceeds(t, "checked") /\ reqLock' = reqLock
  <2>1. /\ TabMoves(t) /\ receiving'[t].at = "checked"
        /\ receiving'[t].req = receiving[t].req /\ receiving'[t].pkg = receiving[t].pkg
    BY <1>1, <1>2, <1>6, ReceiptProceeds
  <2>2. HoldsPad(t, p)'
    BY <1>3, <2>1 DEF HoldsPad, Saving
  <2>3. \A r \in OwnRequests : reqLock[r] = t => HoldsRequest(t, r)'
    BY <2>1, NamesDiffer DEF LocksInv, HoldsRequest, Saving
  <2>4. receiving[t].at \notin Saving \cup {"file"}
    BY <1>1 DEF Saving
  <2> QED
    BY <1>1, <1>4, <1>6, <2>1, <2>2, <2>3, <2>4, TakesPad
<1> QED
  BY <1>1, <1>5, <1>6, ReceiptEndsUnlocked

LEMMA ReceiveKeepsLocks ==
  ASSUME TransferInv, LocksInv, NEW t \in Tabs, ReceiveStep(t), UNCHANGED sendVars
  PROVE  LocksInv'
<1>1. TypeOK
  BY DEF TransferInv
<1>2. CASE Consume(t)
  <2>1. /\ receiving[t].at \in Saving /\ "consumed" \in Saving
        /\ EndReceipt(t) \/ (Proceeds(t, "consumed") /\ UNCHANGED <<padLock, reqLock>>)
    BY <1>2 DEF Consume, Outcomes, Saving
  <2> QED
    BY <1>1, <2>1, SavingGoesOn, ReceiptEndsUnlocked
<1>3. CASE ImportBegins(t)
  <2>1. /\ receiving[t].at \in Saving /\ "importing" \in Saving
        /\ EndReceipt(t) \/ (Proceeds(t, "importing") /\ UNCHANGED <<padLock, reqLock>>)
    BY <1>3 DEF ImportBegins, Saving
  <2> QED
    BY <1>1, <2>1, SavingGoesOn, ReceiptEndsUnlocked
<1>4. CASE ImportCommits(t) \/ CommitFileImport(t)
  BY <1>1, <1>4, ReceiptEndsUnlocked DEF ImportCommits, CommitFileImport
<1> QED
  BY <1>2, <1>3, <1>4, WaitsUnlocked, CheckKeepsLocks DEF ReceiveStep

LEMMA ClosedTabUnlocks ==
  ASSUME TransferInv, LocksInv, NEW t \in Tabs, TabCloses(t)
  PROVE  LocksInv'
<1>1. TypeOK /\ Unlock(t) /\ UnlockRequest(t)
  BY DEF TransferInv, TabCloses, SendTabClosed, ReceiveTabClosed, EndReceipt
<1> QED
  BY <1>1, TabClosesMoves, UnlocksPads, UnlocksRequests, LocksKept DEF LockSteps, OwnLocks

LEMMA NextKeepsLocks ==
  ASSUME TransferInv, LocksInv, [Next]_vars
  PROVE  LocksInv'
<1>1. CASE InstallStep /\ UNCHANGED <<sendVars, receiveVars>>
  BY <1>1, LocksStay DEF InstallStep, UsePad, DestroyPad, sendVars, receiveVars
<1>2. CASE \E r \in Requests : (ConfirmRequest(r) \/ ConfirmationLapses(r)) /\ UNCHANGED receiveVars
  BY <1>2, LocksStay DEF ConfirmRequest, ConfirmationLapses, installVars, receiveVars
<1>3. CASE \E r \in OwnRequests :
             (CreateRequest(r) \/ Expire(r) \/ CancelRequest(r)) /\ UNCHANGED sendVars
  BY <1>3, LocksStay DEF CreateRequest, Expire, CancelRequest, installVars, sendVars
<1>4. CASE \E t \in Tabs : Abandon(t) /\ UNCHANGED sendVars
  BY <1>4, LocksStay DEF Abandon, installVars, sendVars
<1>5. ASSUME NEW t \in Tabs,
             \/ receiving[t] = Rest /\ SendCall(t) /\ UNCHANGED receiveVars
             \/ sending[t] = Idle /\ ReceiveCall(t) /\ UNCHANGED sendVars
             \/ SendingStep(t) \/ ReceivingStep(t) \/ TabCloses(t)
      PROVE  LocksInv'
  BY <1>5, CallKeepsLocks, SendKeepsLocks, ReceiveKeepsLocks, ClosedTabUnlocks
     DEF SendingStep, ReceivingStep
<1>6. CASE UNCHANGED vars
  BY <1>6, LocksStay DEF vars, installVars, sendVars, receiveVars
<1> QED
  BY <1>1, <1>2, <1>3, <1>4, <1>5, <1>6 DEF Next

(* The locks are taken in one order. Who has the send lock waits for       *)
(* nothing; who has a pad's lock waits for the send lock or for nothing;   *)
(* who has a request's lock waits for a pad's or for nothing.              *)
LEMMA NobodyWaitsInACircle ==
  ASSUME TransferInv, LocksInv
  PROVE  SomeCallProceeds
<1> SUFFICES ASSUME NEW t \in Tabs, InCall(t), \A u \in Tabs : InCall(u) => Waits(u)
             PROVE  FALSE
  BY DEF SomeCallProceeds
<1>1. TypeOK /\ Idle.at = "idle" /\ Rest.at = "rest"
  BY IdleAndRest DEF TransferInv
<1>2. \A u \in Tabs : sending[u] = Idle \/ receiving[u] = Rest
  BY DEF TransferInv, CallsInv, HoldsLock
<1>3. ASSUME NEW u \in Tabs, sending[u] # Idle
      PROVE  sending[u].at = "gated" /\ ~SendLockFree(sending[u].req)
  BY <1>1, <1>2, <1>3 DEF InCall, Waits
<1>4. \A u \in Tabs : sending[u] = Idle
  <2> SUFFICES ASSUME NEW u \in Tabs, sending[u] # Idle
               PROVE  FALSE
    OBVIOUS
  <2>1. PICK v \in Tabs : sending[v].at \in SealSteps \ {"gated"}
    BY <1>3 DEF SendLockFree
  <2>2. sending[v] # Idle
    BY <1>1, <2>1 DEF SealSteps
  <2> QED
    BY <1>3, <2>1, <2>2
<1>5. ASSUME NEW u \in Tabs, receiving[u] # Rest
      PROVE  \/ /\ receiving[u].at \in {"opening", "rejecting", "saving"}
                /\ reqLock[receiving[u].req] # None
             \/ receiving[u].at = "locked" /\ padLock[receiving[u].pkg.pad] # None
  BY <1>1, <1>4, <1>5 DEF InCall, Waits
<1>6. \A p \in Pads : padLock[p] = None
  <2> SUFFICES ASSUME NEW p \in Pads, padLock[p] # None
               PROVE  FALSE
    OBVIOUS
  <2>1. padLock[p] \in Tabs /\ HoldsPad(padLock[p], p)
    BY <1>1 DEF TypeOK, InstallTypeOK, LocksInv
  <2>2. receiving[padLock[p]].at \in Saving \cup {"file"}
    BY <1>1, <1>4, <2>1 DEF HoldsPad
  <2> QED
    BY <1>1, <1>5, <2>1, <2>2 DEF Saving
<1>7. \A u \in Tabs : receiving[u].at # "locked"
  BY <1>1, <1>5, <1>6, ReceiveParts DEF TypeOK, PackageSteps
<1>8. \A r \in OwnRequests : reqLock[r] = None
  <2> SUFFICES ASSUME NEW r \in OwnRequests, reqLock[r] # None
               PROVE  FALSE
    OBVIOUS
  <2>1. reqLock[r] \in Tabs /\ HoldsRequest(reqLock[r], r)
    BY <1>1 DEF TypeOK, ReceiveTypeOK, LocksInv
  <2> QED
    BY <1>1, <1>5, <1>7, <2>1 DEF HoldsRequest, Saving
<1>9. receiving[t] = Rest
  BY <1>1, <1>5, <1>7, <1>8, ReceiveParts DEF TypeOK, PackageSteps
<1> QED
  BY <1>4, <1>9 DEF InCall

(* While some tab is in a call, some tab's call waits for nothing          *)
(* (SomeCallProceeds): however many tabs send and receive at once, their   *)
(* locks are never waited for in a circle and never left behind.           *)
THEOREM NoCircularWait ==
  ASSUME NEW CONSTANT gone, NEW CONSTANT lost, NEW CONSTANT residue
  PROVE  InitAfter(gone, lost, residue) /\ [][Next]_vars => []SomeCallProceeds
<1>1. InitAfter(gone, lost, residue) => LocksInv
  BY DEF InitAfter, InstallInit, ReceiveInit, LocksInv
<1>2. TransferInv /\ LocksInv /\ [Next]_vars => LocksInv'
  BY NextKeepsLocks
<1>3. TransferInv /\ LocksInv => SomeCallProceeds
  BY NobodyWaitsInACircle
<1> QED
  BY <1>1, <1>2, <1>3, TransferInvariant, PTL

(* Every record, lock and call keeps the shape the code gives it, whatever *)
(* is torn, repeated or closed (TypeOK).                                   *)
THEOREM TransferTypesAreKept ==
  ASSUME NEW CONSTANT gone, NEW CONSTANT lost, NEW CONSTANT residue
  PROVE  InitAfter(gone, lost, residue) /\ [][Next]_vars => []TypeOK
<1>1. TransferInv => TypeOK
  BY DEF TransferInv
<1> QED
  BY <1>1, TransferInvariant, PTL
-----------------------------------------------------------------------------
(***************************************************************************)
(* The page around a receive session: Screens. In whatever order calls,    *)
(* replies, clicks and hash changes come in, it keeps in sight every       *)
(* session the worker holds.                                               *)
(***************************************************************************)

(* A session that was not opened yet is nowhere in the page.               *)
UnopenedIsNowhere ==
  \A s \in unopened :
    /\ s \notin live /\ displayed # s /\ pending # s /\ s \notin leaving
    /\ \A m \in replies : m.s # s
    /\ \A c \in calls : c.s = s => c.op = "open"

(* A session is opened once: its call stands only before, its reply comes  *)
(* once, and before any screen of it.                                      *)
OpenedOnce ==
  /\ \A c \in calls : c.op = "open" => c.s \in unopened
  /\ \A m \in replies : m.op = "open" =>
       /\ m.s \notin leaving /\ pending # m.s
       /\ m.result # "done" => m.s \notin live
  /\ \A m, n \in replies : m.op = "open" /\ n.op = "open" /\ m.s = n.s => m = n

(* What a reply says of the worker's session stays true.                   *)
RepliesAreTrue ==
  \A m \in replies :
    /\ m.op = "later" \/ (m.op \in {"commit", "reject"} /\ m.result = "done") => m.s \notin live
    /\ m.op = "commit" /\ m.result = "refused" => m.s \notin live \/ m.s \in refusedFree

(* A screen that has nothing left to do has no session to end, but for the *)
(* one whose save was refused at no cost.                                  *)
SettledIsDone ==
  \A s \in settled \cap live : Call("later", s) \in calls \/ s \in refusedFree

(* A session that is shown will be told when its screen is left.           *)
ShownIsGuarded == displayed \in Transfers => displayed \in leaving

(* NobodyForgetsASession without the screen that is displayed.             *)
Guarded(s) ==
  \/ Call("abandon", s) \in calls \/ Call("later", s) \in calls
  \/ \E m \in replies : m.op = "open" /\ m.s = s
  \/ s \in Waiting /\ hash = "receive-confirm"
  \/ s \in leaving \ settled
LiveIsGuarded == \A s \in live : Guarded(s) \/ s \in refusedFree \cup skipped

ScreensInv ==
  /\ ScreensTypeOK /\ UnopenedIsNowhere /\ OpenedOnce /\ RepliesAreTrue
  /\ SettledIsDone /\ ShownIsGuarded /\ LiveIsGuarded

(* What a navigation may take for settled.                                 *)
DoneFits(done) ==
  /\ settled \subseteq done /\ done \subseteq leaving
  /\ \A s \in done \cap live : Call("later", s) \in calls \/ s \in refusedFree

(* The session that a navigation leads to: the one that was pending, or one*)
(* whose reply has just been taken.                                        *)
LeadsTo(h, p) ==
  /\ h \in Routes /\ p \in Transfers \cup {None}
  /\ \/ p = pending
     \/ /\ h = "receive-confirm" /\ p \in Transfers /\ p \notin unopened
        /\ \A m \in replies' : m.op = "open" => m.s # p

(* A reply that is taken was not the last trace of a session, or the page  *)
(* goes to its screen.                                                     *)
Takes(h, p) ==
  /\ replies' \subseteq replies
  /\ \A m \in replies \ replies' : m.op = "open" =>
       m.s \notin live \/ (h = "receive-confirm" /\ p = m.s /\ p \notin leaving)

(* So is a screen that waits for its event.                                *)
Overtakes(h, p) ==
  /\ skipped \subseteq skipped'
  /\ \A s \in Waiting : hash = "receive-confirm" =>
       s \in skipped' \/ (h = "receive-confirm" /\ p = s)
-----------------------------------------------------------------------------
LEMMA CallFields ==
  /\ \A op, s : Call(op, s).op = op /\ Call(op, s).s = s
  /\ \A op1, s1, op2, s2 : Call(op1, s1) = Call(op2, s2) <=> op1 = op2 /\ s1 = s2
BY DEF Call

LEMMA SessionNames ==
  /\ None \notin Transfers
  /\ \A d \in PlainScreens : d \notin Transfers
BY SessionsAreNoScreens

LEMMA SettledFits == ScreensInv => DoneFits(settled)
BY DEF ScreensInv, ScreensTypeOK, SettledIsDone, DoneFits

LEMMA RenderKeeps ==
  ASSUME ScreensInv, NEW h, NEW p, NEW done, Render(h, p, done),
         DoneFits(done), LeadsTo(h, p), Takes(h, p), Overtakes(h, p),
         hash' \in Routes, events' \in 0 .. MaxEvents, UNCHANGED workerState
  PROVE  ScreensInv'
<1>. USE DEF ScreensInv
<1>1. /\ calls' = calls \cup {Call("abandon", s) : s \in leaving \ done} /\ settled' = {}
      /\ UNCHANGED <<live, unopened, refusedFree>>
  BY DEF Render, LeaveScreens, workerState
<1>2. \/ /\ h = "receive-confirm" /\ p # None
         /\ displayed' = p /\ leaving' = {p} /\ pending' = p /\ loading' = loading
      \/ /\ ~(h = "receive-confirm" /\ p # None)
         /\ displayed' \in {"loading", "receive-online"} /\ leaving' = {} /\ pending' = None
         /\ loading' = (loading \/ h = "elsewhere")
  BY DEF Render
<1>3. leaving \subseteq Transfers /\ unopened \subseteq Transfers /\ live \subseteq Transfers
  BY DEF ScreensTypeOK
<1>4. \A c \in calls' : c \in calls \/ (c.op = "abandon" /\ c.s \in leaving)
  BY <1>1, CallFields
<1>5. p \in Transfers => p \notin unopened /\ \A m \in replies' : m.op = "open" => m.s # p
  BY DEF LeadsTo, Takes, UnopenedIsNowhere, OpenedOnce
<1>6. p \in Transfers \cup {None} /\ replies' \subseteq replies
  BY DEF LeadsTo, Takes
<1>7. ScreensTypeOK'
  <2>1. calls' \subseteq [op : Operations, s : Transfers]
    BY <1>1, <1>3 DEF ScreensTypeOK, Call, Operations
  <2>2. loading' \in BOOLEAN
    BY <1>2 DEF ScreensTypeOK
  <2> QED
    BY <1>1, <1>2, <1>3, <1>6, <2>1, <2>2, SessionNames DEF ScreensTypeOK, PlainScreens
<1>8. UnopenedIsNowhere'
  BY <1>1, <1>2, <1>3, <1>4, <1>5, <1>6, SessionNames DEF UnopenedIsNowhere, PlainScreens
<1>9. OpenedOnce'
  BY <1>1, <1>2, <1>3, <1>4, <1>5, <1>6, SessionNames DEF OpenedOnce, ScreensTypeOK, PageReplies
<1>10. RepliesAreTrue' /\ SettledIsDone' /\ ShownIsGuarded'
  BY <1>1, <1>2, <1>6, SessionNames
  DEF RepliesAreTrue, SettledIsDone, ShownIsGuarded, PlainScreens
<1>11. LiveIsGuarded'
  <2>1. SUFFICES ASSUME NEW s \in live, s \notin refusedFree \cup skipped'
                 PROVE  Guarded(s)'
    BY <1>1 DEF LiveIsGuarded
  <2>2. Guarded(s)
    BY <2>1 DEF LiveIsGuarded, Overtakes
  <2>3. CASE Call("abandon", s) \in calls \/ Call("later", s) \in calls
    BY <1>1, <2>3 DEF Guarded
  <2>4. CASE h = "receive-confirm" /\ p = s
    BY <1>1, <1>2, <1>3, <2>1, <2>4, SessionNames DEF Guarded
  <2>5. CASE \E m \in replies : m.op = "open" /\ m.s = s
    BY <2>1, <2>4, <2>5 DEF Guarded, Takes
  <2>6. CASE s \in Waiting /\ hash = "receive-confirm"
    BY <2>1, <2>4, <2>6 DEF Overtakes
  <2>7. CASE s \in leaving \ settled
    <3>1. s \in done => Call("later", s) \in calls
      BY <2>1 DEF DoneFits
    <3>2. s \notin done => Call("abandon", s) \in calls'
      BY <1>1, <2>7
    <3> QED
      BY <1>1, <3>1, <3>2 DEF Guarded
  <2> QED
    BY <2>2, <2>3, <2>5, <2>6, <2>7 DEF Guarded
<1> QED
  BY <1>7, <1>8, <1>9, <1>10, <1>11

LEMMA AssignHashKeeps ==
  ASSUME ScreensInv, NEW h, NEW p, NEW done, AssignHash(h, p), settled' = done,
         DoneFits(done), LeadsTo(h, p), Takes(h, p), Overtakes(h, p), UNCHANGED workerState
  PROVE  ScreensInv'
<1>. USE DEF ScreensInv
<1>1. /\ hash # h /\ hash' = h /\ pending' = p /\ events' = events + 1 /\ events < MaxEvents
      /\ UNCHANGED <<displayed, loading, leaving, calls, live, unopened, refusedFree>>
  BY DEF AssignHash, workerState
<1>2. p \in Transfers \cup {None} /\ h \in Routes /\ replies' \subseteq replies
  BY DEF LeadsTo, Takes
<1>3. p \in Transfers => p \notin unopened /\ \A m \in replies' : m.op = "open" => m.s # p
  BY DEF LeadsTo, Takes, UnopenedIsNowhere, OpenedOnce
<1>4. events' \in 1 .. MaxEvents
  BY <1>1, ScreenBounds DEF ScreensTypeOK
<1>5. ScreensTypeOK'
  BY <1>1, <1>2, <1>4 DEF ScreensTypeOK, DoneFits
<1>6. unopened \subseteq Transfers
  BY DEF ScreensTypeOK
<1>7. UnopenedIsNowhere' /\ RepliesAreTrue' /\ ShownIsGuarded' /\ SettledIsDone'
  BY <1>1, <1>2, <1>3, <1>6, SessionNames
  DEF UnopenedIsNowhere, RepliesAreTrue, ShownIsGuarded, SettledIsDone, DoneFits
<1>8. OpenedOnce'
  BY <1>1, <1>2, <1>3, SessionNames DEF OpenedOnce, ScreensTypeOK, PageReplies
<1>9. LiveIsGuarded'
  <2>1. SUFFICES ASSUME NEW s \in live, s \notin refusedFree \cup skipped'
                 PROVE  Guarded(s)'
    BY <1>1 DEF LiveIsGuarded
  <2>2. Guarded(s) /\ s \in Transfers
    BY <2>1 DEF LiveIsGuarded, Overtakes, ScreensTypeOK
  <2>3. CASE Call("abandon", s) \in calls \/ Call("later", s) \in calls
    BY <1>1, <2>3 DEF Guarded
  <2>4. CASE h = "receive-confirm" /\ p = s /\ p \notin leaving
    <3>1. s \in Waiting'
      BY <1>1, <1>4, <2>2, <2>4, SessionNames DEF Waiting
    <3> QED
      BY <1>1, <2>4, <3>1 DEF Guarded
  <2>5. CASE \E m \in replies : m.op = "open" /\ m.s = s
    BY <2>1, <2>4, <2>5 DEF Guarded, Takes
  <2>6. CASE s \in Waiting /\ hash = "receive-confirm"
    BY <1>1, <2>1, <2>6 DEF Overtakes
  <2>7. CASE s \in leaving \ settled
    <3>1. s \in done => Call("later", s) \in calls
      BY <2>1 DEF DoneFits
    <3> QED
      BY <1>1, <2>7, <3>1 DEF Guarded
  <2> QED
    BY <2>2, <2>3, <2>5, <2>6, <2>7 DEF Guarded
<1> QED
  BY <1>5, <1>7, <1>8, <1>9

LEMMA NavigateKeeps ==
  ASSUME ScreensInv, NEW h, NEW p, NEW done, Navigate(h, p, done),
         DoneFits(done), LeadsTo(h, p), Takes(h, p), UNCHANGED workerState
  PROVE  ScreensInv'
<1>1. Overtakes(h, p)
  BY DEF Navigate, Overtakes
<1>2. CASE Render(h, p, done) /\ UNCHANGED <<hash, events>>
  BY <1>1, <1>2, RenderKeeps DEF ScreensInv, ScreensTypeOK
<1>3. CASE AssignHash(h, p) /\ settled' = done
  BY <1>1, <1>3, AssignHashKeeps
<1> QED
  BY <1>2, <1>3 DEF Navigate

LEMMA HashChangeKeeps == ASSUME ScreensInv, HashChange PROVE ScreensInv'
<1>1. /\ Render(hash, pending, settled) /\ events > 0 /\ events' = events - 1
      /\ UNCHANGED <<hash, live, unopened, refusedFree, replies, skipped>>
  BY DEF HashChange, workerState
<1>2. DoneFits(settled)
  BY SettledFits
<1>3. LeadsTo(hash, pending) /\ Takes(hash, pending)
  BY <1>1 DEF LeadsTo, Takes, ScreensInv, ScreensTypeOK
<1>4. Overtakes(hash, pending)
  BY <1>1 DEF Overtakes, Waiting
<1>5. hash' \in Routes /\ events' \in 0 .. MaxEvents
  BY <1>1, ScreenBounds DEF ScreensInv, ScreensTypeOK
<1> QED
  BY <1>1, <1>2, <1>3, <1>4, <1>5, RenderKeeps DEF HashChange

LEMMA BrowserGoesKeeps ==
  ASSUME ScreensInv, NEW h \in Routes, BrowserGoes(h) PROVE ScreensInv'
<1>1. /\ AssignHash(h, pending) /\ skipped' = skipped \cup Waiting
      /\ settled' = settled /\ replies' = replies
  BY DEF BrowserGoes
<1>2. DoneFits(settled) /\ LeadsTo(h, pending) /\ Takes(h, pending) /\ Overtakes(h, pending)
  BY <1>1, SettledFits DEF LeadsTo, Takes, Overtakes, ScreensInv, ScreensTypeOK
<1> QED
  BY <1>1, <1>2, AssignHashKeeps DEF BrowserGoes

LEMMA LinkKeeps == ASSUME ScreensInv, NEW h \in Routes, Link(h) PROVE ScreensInv'
<1>1. DoneFits(settled) /\ LeadsTo(h, pending) /\ Takes(h, pending)
  BY SettledFits DEF Link, LeadsTo, Takes, ScreensInv, ScreensTypeOK
<1> QED
  BY <1>1, NavigateKeeps DEF Link

LEMMA MountKeeps == ASSUME ScreensInv, MountElsewhere PROVE ScreensInv'
<1>1. /\ displayed' = "elsewhere" /\ loading' \in BOOLEAN /\ "elsewhere" \in PlainScreens
      /\ UNCHANGED <<hash, events, pending, leaving, settled, calls, live, unopened, refusedFree,
                     replies, skipped>>
  BY DEF MountElsewhere, workerState, PlainScreens
<1>. USE DEF ScreensInv
<1>2. ScreensTypeOK'
  BY <1>1 DEF ScreensTypeOK
<1>3. UnopenedIsNowhere' /\ ShownIsGuarded'
  BY <1>1, SessionNames DEF UnopenedIsNowhere, ShownIsGuarded, ScreensTypeOK
<1>4. OpenedOnce' /\ RepliesAreTrue' /\ SettledIsDone'
  BY <1>1 DEF OpenedOnce, RepliesAreTrue, SettledIsDone
<1>5. LiveIsGuarded'
  BY <1>1 DEF LiveIsGuarded, Guarded, Waiting
<1> QED
  BY <1>2, <1>3, <1>4, <1>5

LEMMA ChooseFileKeeps ==
  ASSUME ScreensInv, NEW s \in Transfers, ChooseFile(s) PROVE ScreensInv'
<1>1. /\ s \in unopened /\ calls' = calls \cup {Call("open", s)}
      /\ UNCHANGED <<hash, events, pending, displayed, loading, leaving, settled, live, unopened,
                     refusedFree, replies, skipped>>
  BY DEF ChooseFile, pageState, workerState
<1>. USE DEF ScreensInv
<1>2. ScreensTypeOK'
  BY <1>1 DEF ScreensTypeOK, Call, Operations
<1>3. UnopenedIsNowhere' /\ OpenedOnce'
  BY <1>1, CallFields DEF UnopenedIsNowhere, OpenedOnce
<1>4. RepliesAreTrue' /\ SettledIsDone' /\ ShownIsGuarded'
  BY <1>1 DEF RepliesAreTrue, SettledIsDone, ShownIsGuarded
<1>5. LiveIsGuarded'
  BY <1>1 DEF LiveIsGuarded, Guarded, Waiting
<1> QED
  BY <1>2, <1>3, <1>4, <1>5

LEMMA PressKeeps ==
  ASSUME ScreensInv, NEW s \in Transfers, NEW op \in {"commit", "reject", "later"}, Press(s, op)
  PROVE  ScreensInv'
<1>. USE DEF ScreensInv
<1>1. /\ displayed = s /\ calls' = calls \cup {Call(op, s)}
      /\ settled' = settled \cup IF op = "later" THEN {s} ELSE {}
      /\ UNCHANGED <<hash, events, pending, displayed, loading, leaving, live, unopened,
                     refusedFree, replies, skipped>>
  BY DEF Press, workerState
<1>2. s \in leaving /\ s \notin unopened
  BY <1>1 DEF ShownIsGuarded, UnopenedIsNowhere
<1>3. ScreensTypeOK'
  BY <1>1, <1>2 DEF ScreensTypeOK, Call, Operations
<1>4. UnopenedIsNowhere' /\ OpenedOnce'
  BY <1>1, <1>2, CallFields DEF UnopenedIsNowhere, OpenedOnce
<1>5. RepliesAreTrue' /\ SettledIsDone' /\ ShownIsGuarded'
  BY <1>1 DEF RepliesAreTrue, SettledIsDone, ShownIsGuarded
<1>6. LiveIsGuarded'
  BY <1>1 DEF LiveIsGuarded, Guarded, Waiting
<1> QED
  BY <1>3, <1>4, <1>5, <1>6
(* A call other than open is answered: sessions may end, the reply says    *)
(* what became of its own, and a call that was to end it has ended it.     *)
LEMMA AnswerKeeps ==
  ASSUME ScreensInv, NEW c \in calls, NEW result \in Results, c.op # "open",
         Answered(c, result), unopened' = unopened, live' \subseteq live,
         \A s \in live' : s \in refusedFree => s \in refusedFree',
         c.op \in {"abandon", "later"} \/ (c.op \in {"commit", "reject"} /\ result = "done")
           => c.s \notin live',
         c.op = "commit" /\ result = "refused" => c.s \notin live' \/ c.s \in refusedFree'
  PROVE  ScreensInv'
<1>. USE DEF ScreensInv
<1>1. /\ calls' = calls \ {c}
      /\ UNCHANGED <<hash, events, pending, displayed, loading, leaving, settled, skipped>>
  BY DEF Answered, pageState
<1>2. c.op \in Operations /\ c.s \in Transfers /\ c.s \notin unopened
  BY DEF ScreensTypeOK, UnopenedIsNowhere
<1>. DEFINE r == [op |-> c.op, s |-> c.s, result |-> result]
<1>3. r \in PageReplies /\ r.op = c.op /\ r.s = c.s /\ r.result = result
  BY <1>2 DEF PageReplies
<1>4. replies' \subseteq replies \cup {r} /\ replies \subseteq replies'
  BY DEF Answered
<1>. HIDE DEF r
<1>5. ScreensTypeOK'
  BY <1>1, <1>3, <1>4 DEF ScreensTypeOK
<1>6. UnopenedIsNowhere'
  BY <1>1, <1>2, <1>3, <1>4 DEF UnopenedIsNowhere
<1>7. OpenedOnce'
  BY <1>1, <1>3, <1>4 DEF OpenedOnce
<1>8. RepliesAreTrue'
  BY <1>3, <1>4 DEF RepliesAreTrue
<1>9. \A s \in live', op \in {"abandon", "later"} : Call(op, s) \in calls => Call(op, s) \in calls'
  BY <1>1, CallFields
<1>10. SettledIsDone' /\ ShownIsGuarded'
  BY <1>1, <1>9 DEF SettledIsDone, ShownIsGuarded
<1>11. LiveIsGuarded'
  BY <1>1, <1>4, <1>9 DEF LiveIsGuarded, Guarded, Waiting
<1> QED
  BY <1>5, <1>6, <1>7, <1>8, <1>10, <1>11

LEMMA OpenSealedKeeps == ASSUME ScreensInv, NEW c \in calls, OpenSealed(c) PROVE ScreensInv'
<1>. USE DEF ScreensInv
<1>1. PICK result \in Results :
        /\ Answered(c, result)
        /\ live' = IF result = "done" THEN live \cup {c.s} ELSE live
        /\ result # "done" => c.s \notin live'
  BY DEF OpenSealed, Results, OpenedOnce, UnopenedIsNowhere
<1>2. /\ calls' = calls \ {c} /\ unopened' = unopened \ {c.s} /\ c.op = "open"
      /\ UNCHANGED <<hash, events, pending, displayed, loading, leaving, settled, skipped,
                     refusedFree>>
  BY <1>1 DEF Answered, pageState, OpenSealed
<1>3. c.op \in Operations /\ c.s \in Transfers /\ c.s \in unopened
  BY <1>2 DEF ScreensTypeOK, OpenedOnce
<1>. DEFINE r == [op |-> c.op, s |-> c.s, result |-> result]
<1>4. r \in PageReplies /\ r.op = "open" /\ r.s = c.s /\ r.result = result
  BY <1>2, <1>3 DEF PageReplies
<1>5. replies' = replies \cup {r}
  BY <1>1, <1>2 DEF Answered
<1>. HIDE DEF r
<1>6. live' \subseteq live \cup {c.s}
  BY <1>1
<1>7. /\ c.s \notin live /\ displayed # c.s /\ pending # c.s /\ c.s \notin leaving
      /\ \A m \in replies : m.s # c.s
      /\ \A d \in calls : d.s = c.s => d.op = "open"
  BY <1>3 DEF UnopenedIsNowhere
<1>8. \A d \in calls : d.op = "open" /\ d.s = c.s => d = c
  BY <1>2 DEF ScreensTypeOK
<1>9. ScreensTypeOK'
  BY <1>2, <1>3, <1>4, <1>5, <1>6 DEF ScreensTypeOK
<1>10. UnopenedIsNowhere'
  BY <1>2, <1>4, <1>5, <1>6 DEF UnopenedIsNowhere
<1>11. OpenedOnce'
  <2>1. \A d \in calls' : d.op = "open" => d.s \in unopened'
    BY <1>2, <1>8 DEF OpenedOnce
  <2>2. \A m \in replies' : m.op = "open" => m.s \notin leaving' /\ pending' # m.s
    BY <1>2, <1>4, <1>5, <1>7 DEF OpenedOnce
  <2>3. \A m \in replies' : m.op = "open" /\ m.result # "done" => m.s \notin live'
    BY <1>1, <1>4, <1>5, <1>6, <1>7 DEF OpenedOnce
  <2>4. \A m, n \in replies' : m.op = "open" /\ n.op = "open" /\ m.s = n.s => m = n
    BY <1>4, <1>5, <1>7 DEF OpenedOnce
  <2> QED
    BY <2>1, <2>2, <2>3, <2>4 DEF OpenedOnce
<1>12. RepliesAreTrue'
  BY <1>2, <1>4, <1>5, <1>6, <1>7 DEF RepliesAreTrue
<1>13. \A s, op : op # "open" /\ Call(op, s) \in calls => Call(op, s) \in calls'
  BY <1>2, CallFields
<1>14. SettledIsDone' /\ ShownIsGuarded'
  BY <1>2, <1>6, <1>7, <1>13 DEF SettledIsDone, ShownIsGuarded, ScreensTypeOK
<1>15. LiveIsGuarded'
  BY <1>2, <1>4, <1>5, <1>6, <1>13 DEF LiveIsGuarded, Guarded, Waiting
<1> QED
  BY <1>9, <1>10, <1>11, <1>12, <1>14, <1>15

LEMMA WorkerKeeps ==
  ASSUME ScreensInv, NEW c \in calls,
         OpenSealed(c) \/ CommitReceive(c) \/ RejectTransfer(c) \/ AbandonSession(c)
  PROVE  ScreensInv'
<1>1. CASE OpenSealed(c)
  BY <1>1, OpenSealedKeeps
<1>2. CASE CommitReceive(c)
  <2>1. PICK result \in Results :
          /\ Answered(c, result) /\ live' \subseteq live
          /\ \A s \in live' : s \in refusedFree => s \in refusedFree'
          /\ result = "done" => c.s \notin live'
          /\ result = "refused" => c.s \notin live' \/ c.s \in refusedFree'
    <3>1. CASE SessionEnds(c.s) /\ \E result \in Results : Answered(c, result)
      BY <3>1 DEF SessionEnds
    <3>2. CASE Answered(c, "error") /\ UNCHANGED <<live, refusedFree>>
      BY <3>2 DEF Results
    <3>3. CASE c.s \in live /\ Answered(c, "refused") /\ UNCHANGED live
               /\ refusedFree' = refusedFree \cup {c.s}
      BY <3>3 DEF Results
    <3> QED
      BY <1>2, <3>1, <3>2, <3>3 DEF CommitReceive
  <2> QED
    BY <1>2, <2>1, AnswerKeeps DEF CommitReceive
<1>3. CASE RejectTransfer(c)
  <2>1. PICK result \in Results :
          /\ Answered(c, result) /\ live' \subseteq live
          /\ \A s \in live' : s \in refusedFree => s \in refusedFree'
          /\ result = "done" => c.s \notin live'
    BY <1>3 DEF RejectTransfer, SessionEnds, Results
  <2> QED
    BY <1>3, <2>1, AnswerKeeps DEF RejectTransfer
<1>4. CASE AbandonSession(c)
  BY <1>4, AnswerKeeps DEF AbandonSession, SessionEnds, Results
<1> QED
  BY <1>1, <1>2, <1>3, <1>4

(* A reply that leads nowhere settles at most its own screen.              *)
LEMMA SettlesKeeps ==
  ASSUME ScreensInv, NEW done, settled' = done, DoneFits(done), Takes("elsewhere", pending),
         displayed' \in {displayed, "rejected"},
         UNCHANGED <<hash, events, pending, loading, leaving, calls, skipped, workerState>>
  PROVE  ScreensInv'
<1>. USE DEF ScreensInv
<1>1. UNCHANGED <<live, unopened, refusedFree>> /\ replies' \subseteq replies
  BY DEF workerState, Takes
<1>2. "rejected" \in PlainScreens
  BY DEF PlainScreens
<1>3. ScreensTypeOK'
  BY <1>1, <1>2 DEF ScreensTypeOK, DoneFits
<1>4. UnopenedIsNowhere' /\ ShownIsGuarded'
  BY <1>1, <1>2, SessionNames DEF UnopenedIsNowhere, ShownIsGuarded, ScreensTypeOK
<1>5. OpenedOnce' /\ RepliesAreTrue' /\ SettledIsDone'
  BY <1>1 DEF OpenedOnce, RepliesAreTrue, SettledIsDone, DoneFits
<1>6. LiveIsGuarded'
  <2>1. SUFFICES ASSUME NEW s \in live, s \notin refusedFree \cup skipped
                 PROVE  Guarded(s)'
    BY <1>1 DEF LiveIsGuarded
  <2>2. Guarded(s)
    BY <2>1 DEF LiveIsGuarded
  <2>3. \A m \in replies : m.op = "open" /\ m.s = s => m \in replies'
    BY <2>1 DEF Takes
  <2>4. s \in leaving \ settled =>
          s \in leaving' \ settled' \/ Call("later", s) \in calls
    BY <2>1 DEF DoneFits
  <2> QED
    BY <2>2, <2>3, <2>4 DEF Guarded, Waiting
<1> QED
  BY <1>3, <1>4, <1>5, <1>6

LEMMA ReplyKeeps == ASSUME ScreensInv, NEW m \in replies, ReplyArrives(m) PROVE ScreensInv'
<1>1. /\ Handle(m) /\ replies' = replies \ {m} /\ UNCHANGED workerState
      /\ m.op \in Operations /\ m.s \in Transfers
  BY DEF ReplyArrives, ScreensInv, ScreensTypeOK, PageReplies
<1>2. m.op = "open" /\ m.result # "done" => m.s \notin live
  BY DEF ScreensInv, OpenedOnce
<1>3. ~(m.op = "open" /\ m.result = "done") => \A h : Takes(h, pending)
  BY <1>1, <1>2 DEF Takes
<1>4. \A h \in Routes : LeadsTo(h, pending)
  BY DEF LeadsTo, ScreensInv, ScreensTypeOK
<1>5. m.s \notin live \/ m.s \in refusedFree => DoneFits(Settled(m))
  BY SettledFits DEF DoneFits, Settled
<1>6. /\ m.op = "later" \/ (m.op \in {"commit", "reject"} /\ m.result = "done") => m.s \notin live
      /\ m.op = "commit" /\ m.result = "refused" => m.s \notin live \/ m.s \in refusedFree
  BY DEF ScreensInv, RepliesAreTrue
<1>7. {"elsewhere", "receive-online", "receive-confirm"} \subseteq Routes
  BY DEF Routes
<1>8. CASE m.op = "open" /\ m.result = "done"
  <2>1. Navigate("receive-confirm", m.s, settled)
    BY <1>1, <1>8 DEF Handle
  <2>2. LeadsTo("receive-confirm", m.s)
    BY <1>1, <1>7, <1>8 DEF LeadsTo, ScreensInv, UnopenedIsNowhere, OpenedOnce
  <2>3. Takes("receive-confirm", m.s)
    BY <1>1, <1>8 DEF Takes, ScreensInv, OpenedOnce
  <2> QED
    BY <1>1, <2>1, <2>2, <2>3, SettledFits, NavigateKeeps
<1>9. CASE m.op = "commit" /\ m.result = "done"
  <2>1. Navigate("elsewhere", pending, Settled(m))
    BY <1>1, <1>9 DEF Handle
  <2> QED
    BY <1>1, <1>3, <1>4, <1>5, <1>6, <1>7, <1>9, <2>1, NavigateKeeps
<1>10. CASE m.op = "later"
  <2>1. Navigate("receive-online", pending, Settled(m))
    BY <1>1, <1>10 DEF Handle
  <2> QED
    BY <1>1, <1>3, <1>4, <1>5, <1>6, <1>7, <1>10, <2>1, NavigateKeeps
<1>11. CASE m.op = "commit" /\ m.result = "refused"
  <2>1. OnlySettles(Settled(m))
    BY <1>1, <1>11 DEF Handle
  <2> QED
    BY <1>1, <1>3, <1>5, <1>6, <1>11, <2>1, SettlesKeeps DEF OnlySettles
<1>12. CASE m.op = "reject" /\ m.result = "done"
  <2>1. /\ displayed' = "rejected" /\ settled' = Settled(m)
        /\ UNCHANGED <<hash, events, pending, loading, leaving, calls, skipped>>
    BY <1>1, <1>12 DEF Handle
  <2> QED
    BY <1>1, <1>3, <1>5, <1>6, <1>12, <2>1, SettlesKeeps
<1>13. CASE /\ ~(m.op \in {"open", "commit", "reject"} /\ m.result = "done")
            /\ ~(m.op = "commit" /\ m.result = "refused") /\ m.op # "later"
  <2>1. OnlySettles(settled)
    BY <1>1, <1>13 DEF Handle
  <2> QED
    BY <1>1, <1>3, <1>13, <2>1, SettledFits, SettlesKeeps DEF OnlySettles
<1> QED
  BY <1>8, <1>9, <1>10, <1>11, <1>12, <1>13
-----------------------------------------------------------------------------
LEMMA ScreensInitially == ScreensInit => ScreensInv
<1>. SUFFICES ASSUME ScreensInit PROVE ScreensInv
  OBVIOUS
<1>. USE DEF ScreensInit
<1>1. ScreensTypeOK
  <2>1. hash \in Routes /\ events \in 0 .. MaxEvents
    BY ScreenBounds DEF Routes
  <2>2. loading \in BOOLEAN
    OBVIOUS
  <2> QED
    BY <2>1, <2>2 DEF ScreensTypeOK, PlainScreens
<1>2. "elsewhere" \notin Transfers /\ None \notin Transfers
  BY SessionNames DEF PlainScreens
<1>3. UnopenedIsNowhere /\ ShownIsGuarded
  BY <1>2 DEF UnopenedIsNowhere, ShownIsGuarded
<1>4. OpenedOnce /\ RepliesAreTrue /\ SettledIsDone /\ LiveIsGuarded
  BY DEF OpenedOnce, RepliesAreTrue, SettledIsDone, LiveIsGuarded
<1> QED
  BY <1>1, <1>3, <1>4 DEF ScreensInv

LEMMA ScreensStep == ScreensInv /\ [ScreensNext]_screensVars => ScreensInv'
<1>. SUFFICES ASSUME ScreensInv, [ScreensNext]_screensVars PROVE ScreensInv'
  OBVIOUS
<1>1. CASE HashChange
  BY <1>1, HashChangeKeeps
<1>2. CASE MountElsewhere
  BY <1>2, MountKeeps
<1>3. CASE \E h \in Routes : BrowserGoes(h) \/ Link(h)
  BY <1>3, BrowserGoesKeeps, LinkKeeps
<1>4. CASE \E s \in Transfers :
             ChooseFile(s) \/ \E op \in {"commit", "reject", "later"} : Press(s, op)
  BY <1>4, ChooseFileKeeps, PressKeeps
<1>5. CASE \E c \in calls :
             OpenSealed(c) \/ CommitReceive(c) \/ RejectTransfer(c) \/ AbandonSession(c)
  BY <1>5, WorkerKeeps
<1>6. CASE \E m \in replies : ReplyArrives(m)
  BY <1>6, ReplyKeeps
<1>7. CASE UNCHANGED screensVars
  <2>1. UNCHANGED <<hash, events, pending, displayed, loading, leaving, settled, live, calls,
                    replies, unopened, refusedFree, skipped>>
    BY <1>7 DEF screensVars
  <2> QED
    BY <2>1 DEF ScreensInv, ScreensTypeOK, UnopenedIsNowhere, OpenedOnce, RepliesAreTrue,
       SettledIsDone, ShownIsGuarded, LiveIsGuarded, Guarded, Waiting
<1> QED
  BY <1>1, <1>2, <1>3, <1>4, <1>5, <1>6, <1>7 DEF ScreensNext

LEMMA ScreensInvariant == ScreensSpec => []ScreensInv
BY ScreensInitially, ScreensStep, PTL DEF ScreensSpec

(* The page's variables keep their shape, whatever order calls, replies,   *)
(* clicks and hash changes come in.                                        *)
THEOREM ScreenTypesAreKept == ScreensSpec => []ScreensTypeOK
BY ScreensInvariant, PTL DEF ScreensInv

(* NobodyForgetsASession for every number of sessions and of hash changes  *)
(* that wait: a session the worker holds is one the page will still end or *)
(* decide, or it is of one of the two kinds the property names.            *)
THEOREM SessionsStayInSight == ScreensSpec => []NobodyForgetsASession
<1>1. ScreensInv => NobodyForgetsASession
  BY DEF ScreensInv, LiveIsGuarded, Guarded, NobodyForgetsASession, InSight
<1> QED
  BY <1>1, ScreensInvariant, PTL
=============================================================================
