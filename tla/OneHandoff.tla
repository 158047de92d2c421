----------------------------- MODULE OneHandoff -----------------------------
(***************************************************************************)
(* What the Browser Edition promises about pads that change hands, with    *)
(* none of the files, locks and tabs that keep the promise: a pad leaves   *)
(* once and by one route (the head comment of                              *)
(* src/browser/engine/handoff.ts), a request is answered with one pad      *)
(* (request-claim.ts) and brings in one pad or none (spt-receiver-state.ts,*)
(* consume before import). What is lost stays lost. SealedTransfer         *)
(* implements it.                                                          *)
(***************************************************************************)
CONSTANTS Pads, Requests, OwnRequests, None

VARIABLES
  route,   \* route[p]: None, "file", the request it is sealed to, or "lost"
  gone,    \* pads that were destroyed
  left,    \* pads whose bytes were handed to the operator
  answer   \* answer[r], for requests made here: None, "over", or the pad due

vars == <<route, gone, left, answer>>

Init ==
  /\ route = [p \in Pads |-> None] /\ gone \in SUBSET Pads /\ left = {}
  /\ answer = [r \in OwnRequests |-> None]

(* A request is the route of one pad.                                      *)
Commit(p) ==
  /\ route[p] = None /\ p \notin gone
  /\ \E w \in {"file", "lost"} \cup Requests :
       /\ w \in Requests => \A q \in Pads : route[q] # w
       /\ route' = [route EXCEPT ![p] = w]
  /\ UNCHANGED <<gone, left, answer>>

HandOver(p) ==
  /\ route[p] \in {"file"} \cup Requests /\ p \notin gone
  /\ left' = left \cup {p}
  /\ UNCHANGED <<route, gone, answer>>

Destroy(p) == gone' = gone \cup {p} /\ UNCHANGED <<route, left, answer>>

(* A request ends once: over, or with the one pad it may bring in.         *)
EndRequest(r) ==
  /\ answer[r] = None
  /\ \E a \in {"over"} \cup Pads : answer' = [answer EXCEPT ![r] = a]
  /\ UNCHANGED <<route, gone, left>>

Next ==
  \/ \E p \in Pads : Commit(p) \/ HandOver(p) \/ Destroy(p)
  \/ \E r \in OwnRequests : EndRequest(r)

Spec == Init /\ [][Next]_vars
=============================================================================
