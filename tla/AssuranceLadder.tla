-------------------------- MODULE AssuranceLadder ---------------------------
(***************************************************************************)
(* The rungs a pair stands on in the platform authority                    *)
(* (src/cli/v2/platform-witness.ts, assuranceAdvanceOk).                   *)
(***************************************************************************)
EXTENDS Naturals

Ordinary == 0
CeremonyCreated == 1
HandoffAccepted == 2
Withdrawn == 3

(* Mutant: any move.                                                       *)
AssuranceAnyMove(from, to) == from # to

(* One rung up at a time; withdrawn from anywhere, and nothing after it.   *)
AssuranceAdvanceOk(from, to) ==
  from < Withdrawn /\ (to = Withdrawn \/ to = from + 1)
=============================================================================
