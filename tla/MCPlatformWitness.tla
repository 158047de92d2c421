------------------------- MODULE MCPlatformWitness --------------------------
EXTENDS PlatformWitness

CONSTANTS keptPair, otherPair

MCPairs == {keptPair, otherPair}

(* One pair is made by a ceremony and withdrawn; both are used.            *)
MCLevels == [p \in MCPairs |-> IF p = keptPair THEN {1, 3} ELSE {}]

MCBudget ==
  [crash |-> 1, restore |-> 1, putBack |-> 1, pin |-> 1, init |-> 1, copy |-> 1, any |-> 2]

(* An interrupted transition, and the file put back twice.                 *)
MCBudgetPrepared ==
  [crash |-> 1, restore |-> 0, putBack |-> 2, pin |-> 0, init |-> 0, copy |-> 2, any |-> 3]
=============================================================================
