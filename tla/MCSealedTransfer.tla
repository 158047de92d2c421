-------------------------- MODULE MCSealedTransfer --------------------------
(***************************************************************************)
(* Three pads, two made here; two requests, one of them our own. Every     *)
(* behaviour at once is more than can be enumerated, so an installation is *)
(* found in one of three states it can have reached: with one pad to send  *)
(* and two requests it may serve, with two pads to send and one request    *)
(* both may serve, and with a pad to receive and two requests to pass it   *)
(* on to. Beside it, with nothing in common, the page of one tab           *)
(* (Screens): the part chosen in the first state takes all the steps.      *)
(***************************************************************************)
EXTENDS SealedTransfer, Screens, TLC

CONSTANTS p1, p2, p3, ours, theirs

VARIABLE part

MCParcels == {k \in Packages : k.req \in OwnRequests}
MCForged == {k \in MCParcels : k.pad \notin Generated /\ k.nonce = 2}
TabSymmetry == Permutations(Tabs)

MCInit ==
  /\ ScreensInit
  /\ \/ /\ part = "transfer"
        /\ \/ InitAfter({p2, p3}, {}, {ours})
           \/ InitAfter({p3}, {ours}, {ours})
           \/ InitAfter({p1, p2}, {}, {})
     \/ part = "page" /\ Init

MCNext ==
  /\ UNCHANGED part
  /\ \/ part = "transfer" /\ Next /\ UNCHANGED screensVars
     \/ part = "page" /\ ScreensNext /\ UNCHANGED vars

MCSpec == MCInit /\ [][MCNext]_<<part, vars, screensVars>>

(* The variables of the part that runs keep their types, and a call of a   *)
(* tab stops for locks and for nothing else.                               *)
TransferSound == IF part = "transfer" THEN TypeOK /\ OnlyLocksStop ELSE ScreensTypeOK
=============================================================================
