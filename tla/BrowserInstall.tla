--------------------------- MODULE BrowserInstall ---------------------------
(***************************************************************************)
(* One installation of the Browser Edition, seen from the hand-off of its  *)
(* pads: which pads it holds, where they came from, whether they have been *)
(* used or destroyed, and who holds a pad's lock (the gates of             *)
(* src/browser/engine/verbs.ts and withLock of opfs-vfs.ts). SealedSend    *)
(* and SealedReceive add what each side of a transfer keeps; both work on  *)
(* the pads of this module, under the one lock each pad has.               *)
(*                                                                         *)
(* A tab is a page with its engine worker. What is in a pad's six files is *)
(* BrowserPad's; here a pad is absent, being imported, or live.            *)
(***************************************************************************)
EXTENDS FileStates

CONSTANTS
  Tabs,       \* the tabs that are open on this origin
  Pads,       \* pad ids
  Generated,  \* pads gen made here
  Legacy      \* pads whose pair.json does not say where they came from

VARIABLES
  pair,       \* pair[p]: "absent", "importing" (importing.json is there), "live"
  origin,     \* origin[p]: what pair.json says, "unknown" when it does not
  used,       \* used[p]: some counter of the pad has left genesis
  destroyed,  \* destroyed[p]: destroyed.json exists
  padLock     \* padLock[p]: the tab inside vfs.withLock(pairId)

installVars == <<pair, origin, used, destroyed, padLock>>

(* How a write of a file may end: landed, cut off where there is no atomic *)
(* rename, or nothing written. A tab closed during the write leaves the    *)
(* same three.                                                             *)
Outcomes == {"landed", "torn", "nothing"}

InstallTypeOK ==
  /\ pair \in [Pads -> {"absent", "importing", "live"}]
  /\ origin \in [Pads -> {"generated-here", "imported", "unknown"}]
  /\ used \in [Pads -> BOOLEAN]
  /\ destroyed \in [Pads -> BOOLEAN]
  /\ padLock \in [Pads -> Tabs \cup {None}]

(* The pads of `gone' were destroyed earlier.                              *)
InstallInit(gone) ==
  /\ pair = [p \in Pads |->
       IF p \in (Generated \cup Legacy) \ gone THEN "live" ELSE "absent"]
  /\ origin = [p \in Pads |-> IF p \in Generated THEN "generated-here" ELSE "unknown"]
  /\ used = [p \in Pads |-> FALSE]
  /\ destroyed = [p \in Pads |-> p \in gone]
  /\ padLock = [p \in Pads |-> None]

Lock(t, p)   == padLock[p] = None /\ padLock' = [padLock EXCEPT ![p] = t]
Unlock(t)    == padLock' = [p \in Pads |-> IF padLock[p] = t THEN None ELSE padLock[p]]
----------------------------------------------------------------------------
(* The gates.                                                              *)
ActivePair(p) == ~destroyed[p] /\ pair[p] = "live"

(* requirePadSealable: made here, and never used in either direction.      *)
PadSealable(p) == ActivePair(p) /\ origin[p] = "generated-here" /\ ~used[p]

(* export-pair asks less: not a pad that arrived from someone else.        *)
PadExportable(p) == ActivePair(p) /\ origin[p] # "imported"

(* requireImportable: no tombstone and no committed pair of that id.       *)
PadImportable(p) == ~destroyed[p] /\ pair[p] # "live"
----------------------------------------------------------------------------
UsePadUnlocked(p) ==
  /\ ActivePair(p) /\ ~used[p]
  /\ used' = [used EXCEPT ![p] = TRUE]
  /\ UNCHANGED <<pair, origin, destroyed, padLock>>

(* Burn or open, as much of it as the gates see: a counter moves.          *)
UsePad(p) ==
  /\ padLock[p] = None /\ ActivePair(p) /\ ~used[p]
  /\ used' = [used EXCEPT ![p] = TRUE]
  /\ UNCHANGED <<pair, origin, destroyed, padLock>>

(* Destroy: the tombstone, then the six files. Once the tombstone is there *)
(* no gate asks for the files, so the two are one step here; hand-off      *)
(* records, payloads and pair.json stay.                                   *)
DestroyPad(p) ==
  /\ padLock[p] = None /\ pair[p] # "absent" /\ ~destroyed[p]
  /\ destroyed' = [destroyed EXCEPT ![p] = TRUE]
  /\ pair' = [pair EXCEPT ![p] = "absent"]
  /\ UNCHANGED <<origin, used, padLock>>

CommitImportUnknown(p) ==
  /\ pair' = [pair EXCEPT ![p] = "live"]
  /\ origin' = [origin EXCEPT ![p] = "received"]
  /\ UNCHANGED <<used, destroyed>>

(* importContainerUnderPairLock, in two steps a closed tab can part: what  *)
(* an earlier import left is discarded and importing.json is written; the  *)
(* files, the witness and pair.json follow, and removing importing.json    *)
(* commits.                                                                *)
BeginImport(p) ==
  /\ PadImportable(p)
  /\ pair' = [pair EXCEPT ![p] = "importing"]
  /\ origin' = [origin EXCEPT ![p] = "unknown"]
  /\ UNCHANGED <<used, destroyed>>

CommitImport(p) ==
  /\ pair' = [pair EXCEPT ![p] = "live"]
  /\ origin' = [origin EXCEPT ![p] = "imported"]
  /\ UNCHANGED <<used, destroyed>>
=============================================================================
