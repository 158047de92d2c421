-------------------------- MODULE ComponentsProofs --------------------------
(***************************************************************************)
(* What is proved of the browser's pad store, the pairs of a profile, the  *)
(* ceremony, the v1 pad directory and the copies of a pad each on its own  *)
(* holds of them side by side, for every value of the constants: whatever  *)
(* part takes the steps, each keeps its specification.                     *)
(***************************************************************************)
EXTENDS MCComponents, BrowserStoreProofs, CommandLineProofs, TLAPS

(* Each part takes its own steps or none.                                  *)
LEMMA EachPartTakesItsSteps ==
  ASSUME MCNext
  PROVE  /\ [StoreNext]_storeVars
         /\ [PairNext]_pairVars
         /\ [CeremonyNext]_ceremonyVars
         /\ [PageNext]_pageVars
         /\ [CopiesNext]_copiesVars
BY DEF MCNext

LEMMA EachPartRests ==
  ASSUME UNCHANGED <<part, storeVars, pairVars, platformVars, ceremonyVars, pageVars,
                     copiesVars, asked>>
  PROVE  /\ UNCHANGED storeVars
         /\ UNCHANGED pairVars
         /\ UNCHANGED ceremonyVars
         /\ UNCHANGED pageVars
         /\ UNCHANGED copiesVars
OBVIOUS

(* Side by side, the pad store of a profile (src/browser/engine/store.ts), *)
(* its pairs (pair-store.ts), the ceremony (src/cli/v2/ceremony.ts), the   *)
(* v1 pad directory (src/cli/store.ts) and the copies of a pad each behave *)
(* as specified.                                                           *)
THEOREM PartsKeepTheirSpecifications ==
  MCSpec => StoreSpec /\ PairSpec /\ CeremonySpec /\ PageSpec /\ CopiesSpec
<1>1. MCInit => StoreInit /\ PairInit /\ CeremonyInit /\ PageInit /\ CopiesInit
  BY DEF MCInit
<1>2. [MCNext]_<<part, storeVars, pairVars, platformVars, ceremonyVars, pageVars, copiesVars, asked>>
        => /\ [StoreNext]_storeVars
           /\ [PairNext]_pairVars
           /\ [CeremonyNext]_ceremonyVars
           /\ [PageNext]_pageVars
           /\ [CopiesNext]_copiesVars
  BY EachPartTakesItsSteps, EachPartRests
<1> QED
  BY <1>1, <1>2, PTL DEF MCSpec, StoreSpec, PairSpec, CeremonySpec, PageSpec, CopiesSpec

(* Whichever part runs, its files, screens and records keep the shapes the *)
(* code gives them.                                                        *)
THEOREM ComponentsKeepTheirTypes == MCSpec => []ComponentsTypeOK
<1>1. StoreTypeOK /\ PairTypeOK /\ CeremonyTypeOK /\ PageTypeOK /\ CopiesTypeOK => ComponentsTypeOK
  BY DEF ComponentsTypeOK
<1> QED
  BY <1>1, PartsKeepTheirSpecifications, ShapeIsKept, PairTypesAreKept, CeremonyTypesAreKept,
     PageTypesAreKept, CopiesTypeCorrect, PTL

(* The browser's pad store and the v1 pad directory, side by side, never   *)
(* put a symbol or a record of a pad to use twice. A v1 half is excepted   *)
(* when its pad.json was put back while the mark of an output was lost to  *)
(* a line that got two marks (PagePad's exposed).                          *)
THEOREM EveryStoreKeepsThePromise == MCSpec => EveryStoreIsAPad
BY PartsKeepTheirSpecifications, BrowserKeepsThePromise, PagesKeepThePromise, PTL
   DEF EveryStoreIsAPad
=============================================================================
