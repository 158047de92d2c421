----------------------------- MODULE OneTimePad -----------------------------
(***************************************************************************)
(* What one copy of a TruePad pair promises about its pad material, with   *)
(* no file, journal, lock or witness in sight: an authentication record    *)
(* and the pad bytes of its window produce at most one output (an envelope *)
(* emitted or a plaintext released), and the outputs of a direction climb: *)
(* no output is ever made from material at or below an earlier one.        *)
(* Material may be lost without an output; it is never used twice.         *)
(***************************************************************************)
EXTENDS Naturals

CONSTANTS
  Dirs,      \* the directions of the pair
  Records,   \* the authentication records of a direction, numbers
  Offsets    \* the pad bytes of a direction, numbers

VARIABLES
  recUse,    \* recUse[d][s]: the outputs made with record s
  padUse     \* padUse[d][o]: the outputs made with pad byte o

otpVars == <<recUse, padUse>>

Init ==
  /\ recUse = [d \in Dirs |-> [s \in Records |-> 0]]
  /\ padUse = [d \in Dirs |-> [o \in Offsets |-> 0]]

(* One output of direction d from record s and the pad bytes in window:    *)
(* everything at or above them is still unused.                            *)
UseRecord(d, s) ==
  /\ recUse' = [recUse EXCEPT ![d][s] = @ + 1]
  /\ \A r \in Records : r >= s => recUse[d][r] = 0

UseWindow(d, window) ==
  /\ \A w \in window, o \in Offsets : o >= w => padUse[d][o] = 0
  /\ padUse' = [padUse EXCEPT ![d] =
                  [o \in Offsets |-> @[o] + (IF o \in window THEN 1 ELSE 0)]]

Next ==
  \E d \in Dirs, s \in Records :
    UseRecord(d, s) /\ \E window \in SUBSET Offsets : UseWindow(d, window)

Spec == Init /\ [][Next]_otpVars
=============================================================================
