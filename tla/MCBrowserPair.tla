--------------------------- MODULE MCBrowserPair ----------------------------
EXTENDS BrowserPair

(* Bundles of this pad, by the counters of their halves: as it was made,   *)
(* used in one direction, and one that does not pass validation.           *)
MCBundles ==
  {[h \in Halves |-> 0], [h \in Halves |-> 1],
   [h \in Halves |-> IF h = "a-to-b" THEN 1 ELSE 0]}
MCDefective == {[h \in Halves |-> 1]}
=============================================================================
