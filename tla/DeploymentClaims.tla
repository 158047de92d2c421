-------------------------- MODULE DeploymentClaims --------------------------
(***************************************************************************)
(* The one evaluator of a deployment: a pure function from recorded facts  *)
(* to what may be said (src/claims/shannon-deployment.ts), and the facts   *)
(* the Browser Edition gives it (src/browser/engine/verbs.ts). Ceremony    *)
(* gives it those of the command line.                                     *)
(***************************************************************************)

Healths == {"healthy", "unreachable", "regressed", "inconsistent", "unsupported"}
Rollbacks ==
  [kind : {"none", "unknown", "browser-local"}]
    \cup [kind : {"separate-state-file", "platform-monotonic"}, health : Healths]

Facts ==
  [creation : {"browser-generated", "cli-gen", "cli-ceremony", "imported", "unknown"},
   source : {"software-csprng", "external-declared", "unknown"},
   delivery : {"local-only", "physical-private-operator-asserted", "sealed-tps2",
               "raw-import-unknown", "unknown"},
   sealedAncestor : {"yes", "no", "unknown"},
   ceremonyPremises : {"accepted", "absent", "withdrawn", "unknown"},
   storage : {"native", "browser-opfs", "unknown"},
   rollback : Rollbacks,
   assuranceAuthority : {"unavailable", "untrusted-authority", "ordinary",
                         "ceremony-created", "handoff-accepted", "withdrawn",
                         "inconsistent"}]

ProvenanceContradicts(f) ==
  \/ f.source = "software-csprng" \/ f.delivery = "sealed-tps2" \/ f.sealedAncestor = "yes"
  \/ f.storage = "browser-opfs" \/ f.ceremonyPremises = "withdrawn" \/ f.creation = "cli-gen"

(* A positive sign of rollback, in a class that has one.                   *)
RollbackContradicts(f) ==
  /\ f.rollback.kind \in {"separate-state-file", "platform-monotonic"}
  /\ f.rollback.health \in {"regressed", "inconsistent"}

KnownContradiction(f) ==
  \/ ProvenanceContradicts(f) \/ RollbackContradicts(f)
  \/ f.assuranceAuthority \in {"untrusted-authority", "withdrawn", "inconsistent"}

MaximalExceptRollback(f) ==
  /\ f.creation = "cli-ceremony" /\ f.source = "external-declared"
  /\ f.delivery = "physical-private-operator-asserted" /\ f.sealedAncestor = "no"
  /\ f.ceremonyPremises = "accepted" /\ f.storage = "native"

(* Mutant: what the pair's own record claims is enough.                    *)
StrongestByRecord(f) ==
  /\ MaximalExceptRollback(f)
  /\ f.rollback = [kind |-> "platform-monotonic", health |-> "healthy"]

StrongestPath(f) ==
  /\ MaximalExceptRollback(f)
  /\ f.rollback = [kind |-> "platform-monotonic", health |-> "healthy"]
  /\ f.assuranceAuthority = "handoff-accepted"

AssessDeployment(f) ==
  IF KnownContradiction(f) THEN "not-eligible"
  ELSE IF StrongestPath(f) THEN "conditionally-eligible" ELSE "insufficient-evidence"
----------------------------------------------------------------------------
(* deriveDeployment: a browser pad from its recorded origin, whether a     *)
(* receive marker names it, and its witness.                               *)
BrowserFacts(origin, arrivedSealed, witness) ==
  [creation |-> CASE origin = "generated-here" -> "browser-generated"
                  [] origin = "imported" -> "imported" [] OTHER -> "unknown",
   source |-> IF origin = "generated-here" THEN "software-csprng" ELSE "unknown",
   delivery |-> CASE origin = "generated-here" -> "local-only"
                  [] origin = "imported" /\ arrivedSealed -> "sealed-tps2"
                  [] origin = "imported" -> "raw-import-unknown" [] OTHER -> "unknown",
   sealedAncestor |-> CASE origin = "generated-here" -> "no"
                  [] origin = "imported" -> IF arrivedSealed THEN "yes" ELSE "no"
                  [] OTHER -> "unknown",
   ceremonyPremises |-> "absent",
   storage |-> "browser-opfs",
   rollback |-> [kind |-> IF witness = "browser-local-witness" THEN "browser-local" ELSE "none"],
   assuranceAuthority |-> "unavailable"]
=============================================================================
