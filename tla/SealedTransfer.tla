--------------------------- MODULE SealedTransfer ---------------------------
(***************************************************************************)
(* Both halves of Sealed Pad Transfer in one installation: the pads it     *)
(* seals or saves as files (SealedSend), the pads it receives              *)
(* (SealedReceive), and the one lock per pad they share                    *)
(* (BrowserInstall). What others send is any package of a foreign pad made *)
(* for a request of this installation, as often and in whatever order; what*)
(* this installation released for its own requests comes back the same way.*)
(***************************************************************************)
EXTENDS SealedSend, SealedReceive

vars == <<installVars, sendVars, receiveVars>>

ASSUME RequestsAreRequests == OwnRequests \subseteq Requests
ASSUME ParcelsArePackages ==
  /\ Parcels = {x \in Packages : x.req \in OwnRequests} /\ Forged \subseteq Parcels

(* A file that is absent or torn is none that was written, and no request  *)
(* is named like another route of a pad.                                   *)
ASSUME NamesDiffer ==
  /\ None # Torn /\ None \notin Tabs /\ {None, Torn} \cap (Pads \cup Records) = {}
  /\ {None, "file", "lost"} \cap Requests = {}

(* The packages that can be at hand.                                       *)
Foreign == {x \in Parcels : x.pad \notin Generated \cup Legacy}
AtHand  == Foreign \cup (released \cap Parcels)

InitAfter(gone, lost, residue) ==
  InstallInit(gone) /\ SendInit(lost) /\ ReceiveInit(residue)
Init == InitAfter({}, {}, {})

ReceiveCall(t) ==
  \/ \E x \in AtHand : BeginOpen(t, x)
  \/ BeginReject(t) \/ BeginSave(t)
  \/ \E p \in Pads \ Generated : BeginFileImport(t, p)

InstallStep == \E p \in Pads : UsePad(p) \/ DestroyPad(p)

SendingStep(t)   == SendStep(t) /\ UNCHANGED receiveVars
ReceivingStep(t) == ReceiveStep(t) /\ UNCHANGED sendVars
TabCloses(t) ==
  /\ sending[t] # Idle \/ receiving[t] # Rest \/ session[t] # None
  /\ SendTabClosed(t) /\ ReceiveTabClosed(t)

Next ==
  \/ InstallStep /\ UNCHANGED <<sendVars, receiveVars>>
  \/ \E r \in Requests :
       (ConfirmRequest(r) \/ ConfirmationLapses(r)) /\ UNCHANGED receiveVars
  \/ \E r \in OwnRequests :
       (CreateRequest(r) \/ Expire(r) \/ CancelRequest(r)) /\ UNCHANGED sendVars
  \/ \E t \in Tabs :
       \/ receiving[t] = Rest /\ SendCall(t) /\ UNCHANGED receiveVars
       \/ sending[t] = Idle /\ ReceiveCall(t) /\ UNCHANGED sendVars
       \/ Abandon(t) /\ UNCHANGED sendVars
       \/ SendingStep(t) \/ ReceivingStep(t) \/ TabCloses(t)

Spec == Init /\ [][Next]_vars
----------------------------------------------------------------------------
(* Every record, lock and call has the shape the code gives it.            *)
TypeOK == InstallTypeOK /\ SendTypeOK /\ ReceiveTypeOK

(* Among all the packages ever handed over, no pad is there twice and no   *)
(* request is there twice: one request, one pad, one package, whatever     *)
(* seals were cut off, tried again or run in two tabs at once (handoff.ts, *)
(* request-claim.ts).                                                      *)
OnePackage ==
  \A k, l \in released : k.req = l.req \/ k.pad = l.pad => k = l

(* What is in a package that left is a pad no key was ever taken from, and *)
(* one made here: a pad that arrived is never passed on sealed, nor saved  *)
(* again as a file (requirePadSealable, requirePadExportable).             *)
FreshMaterialOnly ==
  /\ \A k \in released : k.genesis /\ origin[k.pad] = "generated-here"
  /\ \A p \in exported : origin[p] # "imported"

(* A request is never both cancelled and consumed, though either ends it   *)
(* by a file of its own (spt-receiver-state.ts). No pad arrives through it *)
(* before that file is on disk, and no two pads arrive through one request *)
(* (commitReceiveImpl: consume, then import).                              *)
OneEnding ==
  /\ \A r \in OwnRequests : cancelled[r] = None \/ consumed[r] = None
  /\ \A k \in arrived : consumed[k.req] \in Records /\ consumed[k.req].pad = k.pkg.pad

(* What a call may have to wait for: the send lock of a request after the  *)
(* pad lock, a request's lock, the pad lock after a request's. The lease   *)
(* is taken or the call refuses.                                           *)
InCall(t) == sending[t] # Idle \/ receiving[t] # Rest
Waits(t) ==
  \/ sending[t].at = "gated" /\ ~SendLockFree(sending[t].req)
  \/ receiving[t].at \in {"opening", "rejecting", "saving"}
       /\ reqLock[receiving[t].req] # None
  \/ receiving[t].at = "locked" /\ padLock[receiving[t].pkg.pad] # None

(* While some tab is in a call, some tab's call waits for nothing: the pad *)
(* lock, the send lock and the request lock are never waited for in a      *)
(* circle, and none is left behind by a call that ended or a closed tab.   *)
SomeCallProceeds ==
  (\E t \in Tabs : InCall(t)) => \E t \in Tabs : InCall(t) /\ ~Waits(t)

(* Locks are all a call ever stops for: it has a step unless it waits, and *)
(* none while it does.                                                     *)
OnlyLocksStop ==
  \A t \in Tabs : InCall(t) =>
    (~Waits(t) <=> ENABLED SendingStep(t) \/ ENABLED ReceivingStep(t))

(* What the comment of abandonImpl says: leaving before the pad is saved   *)
(* leaves the request as it was. A request is then consumed only while     *)
(* some tab has a session of it.                                           *)
AbandonedStaysPending ==
  [][\A r \in OwnRequests : consumed'[r] # consumed[r] =>
       \E t \in Tabs : session[t] # None /\ session[t].req = r]_vars

(* Files, locks and tabs keep the promise OneHandoff states without them:  *)
(* a pad has one route for ever, only what was committed leaves, a request *)
(* ends once and brings in the pad it ended with.                          *)
Abstract == INSTANCE OneHandoff WITH
  route <- [p \in Pads |->
    CASE handoff[p].mode = "absent"     -> None
      [] handoff[p].mode = "physical"   -> "file"
      [] handoff[p].mode = "unreadable" -> "lost"
      [] OTHER -> handoff[p].pkg.req],
  gone <- {p \in Pads : destroyed[p]},
  left <- {x.pad : x \in released} \cup exported,
  answer <- [r \in OwnRequests |->
    CASE consumed[r] \in Records -> consumed[r].pad
      [] cancelled[r] # None \/ consumed[r] = Torn -> "over"
      [] OTHER -> None]
OnePromise == Abstract!Spec
=============================================================================
