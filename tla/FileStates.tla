----------------------------- MODULE FileStates -----------------------------
(* What a file may be besides what a program wrote into it.                *)
CONSTANTS
  None,  \* it is not there
  Torn   \* it is there and does not parse
=============================================================================
