---------------------------- MODULE MCComponents ----------------------------
(***************************************************************************)
(* Components that share nothing, checked side by side: the part chosen in *)
(* the first state takes all the steps, the others keep their first state. *)
(***************************************************************************)
EXTENDS BrowserStore, MCBrowserPair, MCPlatformWitness, Ceremony, PagePad,
        Copies, MCAlgorithms

VARIABLE part

MCTrials == [crash |-> 1, replace |-> 2, pin |-> 2, any |-> 2]

MCInit ==
  /\ part \in {"store", "pair", "platform", "ceremony", "page", "copies", "algorithms"}
  /\ StoreInit /\ PairInit /\ PlatformInit /\ CeremonyInit /\ PageInit
  /\ CopiesInit /\ AlgorithmsInit

MCNext ==
  /\ UNCHANGED part
  /\ part # "store" => UNCHANGED storeVars
  /\ part # "pair" => UNCHANGED pairVars
  /\ part # "platform" => UNCHANGED platformVars
  /\ part # "ceremony" => UNCHANGED ceremonyVars
  /\ part # "page" => UNCHANGED pageVars
  /\ part # "copies" => UNCHANGED copiesVars
  /\ part # "algorithms" => UNCHANGED asked
  /\ \/ part = "store" /\ StoreNext
     \/ part = "pair" /\ PairNext
     \/ part = "platform" /\ PlatformNext
     \/ part = "ceremony" /\ CeremonyNext
     \/ part = "page" /\ PageNext
     \/ part = "copies" /\ CopiesNext
     \/ part = "algorithms" /\ Ask

MCSpec ==
  MCInit
    /\ [][MCNext]_<<part, storeVars, pairVars, platformVars, ceremonyVars, pageVars,
                    copiesVars, asked>>

(* The variables of the part that runs keep their types.                   *)
ComponentsTypeOK ==
  CASE part = "store" -> StoreTypeOK
    [] part = "pair" -> PairTypeOK
    [] part = "ceremony" -> CeremonyTypeOK
    [] part = "page" -> PageTypeOK
    [] part = "copies" -> CopiesTypeOK
    [] OTHER -> TRUE

(* The browser's pad store and the v1 pad directory each keep the promise  *)
(* of OneTimePad: no symbol and no record of a pad is put to use twice,    *)
(* whatever write was cut short and whatever older files were put back,    *)
(* with the one exception that PagePromise names: a half of the v1 pad     *)
(* whose pad.json is put back after the line with its last mark was        *)
(* removed, as the refusal asks, and before another mark is written.       *)
EveryStoreIsAPad == BrowserPromise /\ PagePromise
=============================================================================
