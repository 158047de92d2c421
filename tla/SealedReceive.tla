---------------------------- MODULE SealedReceive ----------------------------
(***************************************************************************)
(* How a pad arrives at an installation: through a receive request and a   *)
(* sealed package, or as a file (src/browser/engine/spt-receiver-state.ts, *)
(* the receiver half of spt-verbs.ts, spt-runtime.ts; importImpl of        *)
(* verbs.ts). A request is four files: dk.bin and request.json make it,    *)
(* cancelled.json or consumed.json end it by existing. A package is opened *)
(* into a session that only its tab has and that one tab at a time may     *)
(* have for a request; saving the pad consumes the request first and       *)
(* imports second.                                                         *)
(*                                                                         *)
(* A tab runs one call at a time, except that leaving the page ends its    *)
(* session at once, whatever call is running. Locks are the sets of tabs   *)
(* inside them; the clock is whether a request's seven days are over.      *)
(***************************************************************************)
EXTENDS BrowserInstall

CONSTANTS
  OwnRequests,  \* the requests this installation may create
  Parcels,      \* the packages that may reach it: records with pad and req
  Forged        \* those whose eight words will not match the sender's

VARIABLES
  request,   \* request[r]: "empty", "residue" of a creation, "stored"
  expired,   \* expired[r]: expiresAt has passed
  cancelled, \* cancelled[r]: cancelled.json, by its reason
  consumed,  \* consumed[r]: consumed.json, by its pairId and packageIdentity
  session,   \* session[t]: the session the tab's worker holds
  lease,     \* lease[r]: the tab that holds spt-recv:<requestId>
  reqLock,   \* reqLock[r]: the tab inside spt-req:<requestId>
  receiving, \* receiving[t]: the call the tab is in
  arrived    \* what was imported, by the request it came through

receiveVars == <<request, expired, cancelled, consumed, session, lease, reqLock,
                 receiving, arrived>>

Reasons == {"operator", "expired", "rejected"}
Records == [pad : Pads, pkg : Parcels \cup {None}]
Sessions == [req : OwnRequests, pkg : Parcels]
Rest == [at |-> "rest"]
Receipts ==
  {Rest} \cup [at : {"opening", "opened", "saving", "locked", "checked", "consumed",
                     "importing", "rejecting"}, req : OwnRequests, pkg : Parcels]
         \cup [at : {"file"}, pad : Pads]

(* The creation of the requests of `residue' was cut off earlier.          *)
ReceiveInit(residue) ==
  /\ request = [r \in OwnRequests |-> IF r \in residue THEN "residue" ELSE "empty"]
  /\ expired = [r \in OwnRequests |-> FALSE]
  /\ cancelled = [r \in OwnRequests |-> None]
  /\ consumed = [r \in OwnRequests |-> None]
  /\ session = [t \in Tabs |-> None]
  /\ lease = [r \in OwnRequests |-> None]
  /\ reqLock = [r \in OwnRequests |-> None]
  /\ receiving = [t \in Tabs |-> Rest]
  /\ arrived = {}

ReceiveTypeOK ==
  /\ request \in [OwnRequests -> {"empty", "residue", "stored"}]
  /\ expired \in [OwnRequests -> BOOLEAN]
  /\ cancelled \in [OwnRequests -> Reasons \cup {None, Torn}]
  /\ consumed \in [OwnRequests -> Records \cup {None, Torn}]
  /\ session \in [Tabs -> Sessions \cup {None}]
  /\ lease \in [OwnRequests -> Tabs \cup {None}]
  /\ reqLock \in [OwnRequests -> Tabs \cup {None}]
  /\ receiving \in [Tabs -> Receipts]
  /\ arrived \subseteq Sessions

StateOfReadable(r, late) ==
  CASE cancelled[r] \in Reasons /\ consumed[r] \in Records -> "terminal-inconsistent"
    [] cancelled[r] \in Reasons -> "cancelled"
    [] consumed[r] \in Records  -> "consumed"
    [] request[r] = "empty"   -> "absent"
    [] request[r] = "residue" -> "unusable"
    [] OTHER -> IF late THEN "expired-pending" ELSE "pending"

(* readReceiverState: the markers decide before the key is looked at, and  *)
(* one that cannot be read is still an end.                                *)
StateOf(r, late) ==
  CASE cancelled[r] # None /\ consumed[r] # None -> "terminal-inconsistent"
    [] Torn \in {cancelled[r], consumed[r]}       -> "terminal-unreadable"
    [] cancelled[r] # None -> "cancelled"
    [] consumed[r] # None  -> "consumed"
    [] request[r] = "empty"   -> "absent"
    [] request[r] = "residue" -> "unusable"
    [] OTHER -> IF late THEN "expired-pending" ELSE "pending"

Proceeds(t, at) == receiving' = [receiving EXCEPT ![t].at = at]
LockRequest(t, r) == reqLock[r] = None /\ reqLock' = [reqLock EXCEPT ![r] = t]
UnlockRequest(t) ==
  reqLock' = [r \in OwnRequests |-> IF reqLock[r] = t THEN None ELSE reqLock[r]]

(* endSession: the plaintext is wiped, the session forgotten, the lease    *)
(* released.                                                               *)
EndSession(t) ==
  /\ session' = [session EXCEPT ![t] = None]
  /\ lease' = [r \in OwnRequests |-> IF lease[r] = t THEN None ELSE lease[r]]

EndReceiptLocked(t) ==
  /\ receiving' = [receiving EXCEPT ![t] = Rest]
  /\ UnlockRequest(t) /\ UNCHANGED padLock

(* The call is over and its locks are free, pad innermost.                 *)
EndReceipt(t) ==
  /\ receiving' = [receiving EXCEPT ![t] = Rest]
  /\ UnlockRequest(t) /\ Unlock(t)
----------------------------------------------------------------------------
(* The key first, request.json last: what is cut off in between is never   *)
(* published and its id never used again.                                  *)
CreateRequest(r) ==
  /\ request[r] = "empty" /\ reqLock[r] = None
  /\ \E made \in {"stored", "residue"} : request' = [request EXCEPT ![r] = made]
  /\ UNCHANGED <<installVars, expired, cancelled, consumed, session, lease, reqLock,
                 receiving, arrived>>

Expire(r) ==
  /\ request[r] = "stored" /\ ~expired[r]
  /\ expired' = [expired EXCEPT ![r] = TRUE]
  /\ UNCHANGED <<installVars, request, cancelled, consumed, session, lease, reqLock,
                 receiving, arrived>>

(* cancelPendingReceiveRequest: the first reason stands; an expired        *)
(* request is ended as expired and by no other reason.                     *)
CancelWritten(r, reason, o) ==
  IF \/ StateOf(r, expired[r]) = "pending"
     \/ StateOf(r, expired[r]) = "expired-pending" /\ reason = "expired"
    THEN CASE o = "landed"  -> cancelled' = [cancelled EXCEPT ![r] = reason]
           [] o = "torn"    -> cancelled' = [cancelled EXCEPT ![r] = Torn]
           [] o = "nothing" -> UNCHANGED cancelled
    ELSE UNCHANGED cancelled

(* What cancelPendingReceiveRequest returns is an end, one it wrote or one *)
(* that was there; over any other end, and when nothing landed, it throws. *)
Ended(r) == StateOf(r, expired[r]) = "cancelled" \/ cancelled'[r] # cancelled[r]

CancelRequest(r) ==
  /\ reqLock[r] = None /\ StateOf(r, expired[r]) \in {"pending", "expired-pending"}
  /\ \E o \in Outcomes :
       CancelWritten(r, IF StateOf(r, expired[r]) = "expired-pending" THEN "expired"
                                                                     ELSE "operator", o)
  /\ UNCHANGED <<installVars, request, expired, consumed, session, lease, reqLock,
                 receiving, arrived>>
----------------------------------------------------------------------------
(* spt-open-sealed. The lease is taken or the call refuses: it never waits *)
(* for one.                                                                *)
BeginOpen(t, x) ==
  /\ receiving[t] = Rest /\ session[t] = None
  /\ lease[x.req] = None /\ lease' = [lease EXCEPT ![x.req] = t]
  /\ receiving' = [receiving EXCEPT ![t] = [at |-> "opening", req |-> x.req, pkg |-> x]]
  /\ UNCHANGED <<installVars, request, expired, cancelled, consumed, session, reqLock,
                 arrived>>

(* Under the request lock and by the time it is then: only a pending       *)
(* request gives its key to be used. An expired one is ended.              *)
UseKey(t) ==
  LET r == receiving[t].req IN
  /\ receiving[t].at = "opening" /\ reqLock[r] = None
  /\ IF StateOf(r, expired[r]) = "pending"
       THEN Proceeds(t, "opened") /\ UNCHANGED <<cancelled, lease>>
       ELSE /\ receiving' = [receiving EXCEPT ![t] = Rest]
            /\ lease' = [lease EXCEPT ![r] = None]
            /\ \E o \in Outcomes : CancelWritten(r, "expired", o)
  /\ UNCHANGED <<installVars, request, expired, consumed, session, reqLock, arrived>>

(* The pad inside could be imported now, and a session is made of it.      *)
OpenSession(t) ==
  LET x == receiving[t].pkg IN
  /\ receiving[t].at = "opened"
  /\ receiving' = [receiving EXCEPT ![t] = Rest]
  /\ IF PadImportable(x.pad)
       THEN session' = [session EXCEPT ![t] = [req |-> x.req, pkg |-> x]] /\ UNCHANGED lease
       ELSE lease' = [lease EXCEPT ![x.req] = None] /\ UNCHANGED session
  /\ UNCHANGED <<installVars, request, expired, cancelled, consumed, reqLock, arrived>>

(* spt-abandon, also what leaving the page sends: it waits for no lock and *)
(* for no other call of the tab.                                           *)
Abandon(t) ==
  /\ session[t] # None
  /\ EndSession(t)
  /\ UNCHANGED <<installVars, request, expired, cancelled, consumed, reqLock, receiving,
                 arrived>>
----------------------------------------------------------------------------
(* spt-reject, when the words do not match: the session stays if nothing   *)
(* was recorded, or what was there already is another end than a cancel.   *)
BeginReject(t) ==
  /\ receiving[t] = Rest /\ session[t] # None
  /\ receiving' = [receiving EXCEPT
       ![t] = [at |-> "rejecting", req |-> session[t].req, pkg |-> session[t].pkg]]
  /\ UNCHANGED <<installVars, request, expired, cancelled, consumed, session, lease,
                 reqLock, arrived>>

Reject(t) ==
  LET r == receiving[t].req IN
  /\ receiving[t].at = "rejecting" /\ reqLock[r] = None
  /\ \E o \in Outcomes : CancelWritten(r, "rejected", o)
  /\ IF Ended(r) THEN EndSession(t) ELSE UNCHANGED <<session, lease>>
  /\ receiving' = [receiving EXCEPT ![t] = Rest]
  /\ UNCHANGED <<installVars, request, expired, consumed, reqLock, arrived>>
----------------------------------------------------------------------------
(* spt-commit-receive, when the words match.                               *)
BeginSave(t) ==
  /\ receiving[t] = Rest /\ session[t] # None /\ session[t].pkg \notin Forged
  /\ receiving' = [receiving EXCEPT
       ![t] = [at |-> "saving", req |-> session[t].req, pkg |-> session[t].pkg]]
  /\ UNCHANGED <<installVars, request, expired, cancelled, consumed, session, lease,
                 reqLock, arrived>>

(* The request lock, and then the session once more, for it may have ended *)
(* in the wait; the state by the clock of this moment.                     *)
ResolveSession(t) ==
  LET r == receiving[t].req IN
  /\ receiving[t].at = "saving" /\ reqLock[r] = None
  /\ CASE session[t] = None ->
            /\ receiving' = [receiving EXCEPT ![t] = Rest]
            /\ UNCHANGED <<cancelled, session, lease, reqLock>>
       [] session[t] # None /\ StateOf(r, expired[r]) = "pending" ->
            /\ Proceeds(t, "locked") /\ LockRequest(t, r)
            /\ UNCHANGED <<cancelled, session, lease>>
       [] OTHER ->
            /\ receiving' = [receiving EXCEPT ![t] = Rest]
            /\ \E o \in Outcomes : CancelWritten(r, "expired", o)
            /\ IF StateOf(r, expired[r]) = "expired-pending" /\ ~Ended(r)
                 THEN UNCHANGED <<session, lease>>
                 ELSE EndSession(t)
            /\ UNCHANGED reqLock
  /\ UNCHANGED <<installVars, request, expired, consumed, arrived>>

(* The pad lock, inside the request lock; the pad checked again. A wiped   *)
(* plaintext does not unpack. Refusing here costs nothing.                 *)
CheckPad(t) ==
  LET p == receiving[t].pkg.pad IN
  /\ receiving[t].at = "locked" /\ padLock[p] = None
  /\ IF PadImportable(p) /\ session[t] # None
       THEN Lock(t, p) /\ Proceeds(t, "checked") /\ UNCHANGED reqLock
       ELSE EndReceipt(t)
  /\ UNCHANGED <<pair, origin, used, destroyed, request, expired, cancelled, consumed,
                 session, lease, arrived>>

ConsumeUnchecked(t) ==
  LET r == receiving[t].req IN
  /\ receiving[t].at = "checked"
  /\ \E o \in Outcomes :
       consumed' = [consumed EXCEPT ![r] =
         CASE o = "landed" -> [pad |-> receiving[t].pkg.pad, pkg |-> receiving[t].pkg]
           [] o = "torn" -> Torn
           [] OTHER -> @]
  /\ Proceeds(t, "consumed")
  /\ UNCHANGED <<installVars, reqLock, session, lease, request, expired, cancelled,
                 arrived>>

(* consumePendingReceiveRequest, by the clock of ResolveSession. The       *)
(* package's identity is read from the session when the record is built.   *)
Consume(t) ==
  LET r == receiving[t].req  x == receiving[t].pkg
      identity == IF session[t] = None THEN None ELSE x IN
  /\ receiving[t].at = "checked"
  /\ IF StateOf(r, FALSE) = "pending"
       THEN \E o \in Outcomes :
         CASE o = "landed" ->
                /\ consumed' = [consumed EXCEPT ![r] = [pad |-> x.pad, pkg |-> identity]]
                /\ Proceeds(t, "consumed") /\ UNCHANGED <<reqLock, padLock, session, lease>>
           [] o = "torn" ->
                /\ consumed' = [consumed EXCEPT ![r] = Torn]
                /\ EndReceipt(t) /\ EndSession(t)
           [] o = "nothing" -> EndReceipt(t) /\ UNCHANGED <<consumed, session, lease>>
       ELSE EndReceipt(t) /\ UNCHANGED <<consumed, session, lease>>
  /\ UNCHANGED <<pair, origin, used, destroyed, request, expired, cancelled, arrived>>

(* From here a failure is a loss: the request stays consumed.              *)
ImportBegins(t) ==
  LET p == receiving[t].pkg.pad IN
  /\ receiving[t].at = "consumed"
  /\ \/ BeginImport(p) /\ Proceeds(t, "importing")
        /\ UNCHANGED <<padLock, reqLock, session, lease>>
     \/ EndReceipt(t) /\ EndSession(t) /\ UNCHANGED <<pair, origin, used, destroyed>>
  /\ UNCHANGED <<request, expired, cancelled, consumed, arrived>>

ImportCommits(t) ==
  LET x == receiving[t].pkg IN
  /\ receiving[t].at = "importing"
  /\ EndReceipt(t) /\ EndSession(t)
  /\ \/ CommitImport(x.pad) /\ arrived' = arrived \cup {[req |-> x.req, pkg |-> x]}
     \/ UNCHANGED <<pair, origin, used, destroyed, arrived>>
  /\ UNCHANGED <<request, expired, cancelled, consumed>>
----------------------------------------------------------------------------
(* import-pair, a pad that came as a file.                                 *)
BeginFileImport(t, p) ==
  /\ receiving[t] = Rest /\ Lock(t, p) /\ BeginImport(p)
  /\ receiving' = [receiving EXCEPT ![t] = [at |-> "file", pad |-> p]]
  /\ UNCHANGED <<request, expired, cancelled, consumed, session, lease, reqLock, arrived>>

CommitFileImport(t) ==
  /\ receiving[t].at = "file" /\ EndReceipt(t)
  /\ CommitImport(receiving[t].pad) \/ UNCHANGED <<pair, origin, used, destroyed>>
  /\ UNCHANGED <<request, expired, cancelled, consumed, session, lease, arrived>>
----------------------------------------------------------------------------
ReceiveStep(t) ==
  \/ UseKey(t) \/ OpenSession(t) \/ Reject(t) \/ ResolveSession(t) \/ CheckPad(t)
  \/ Consume(t) \/ ImportBegins(t) \/ ImportCommits(t) \/ CommitFileImport(t)

(* Closing a tab ends its call and its session; the browser frees what it  *)
(* held.                                                                   *)
ReceiveTabClosed(t) ==
  /\ EndReceipt(t) /\ EndSession(t)
  /\ UNCHANGED <<pair, origin, used, destroyed, request, expired, cancelled, consumed,
                 arrived>>
=============================================================================
