------------------------------ MODULE PagePad -------------------------------
(***************************************************************************)
(* The v1 tool's pad directory: two halves, each a pad.json that holds the *)
(* surviving symbols and a marks.log that holds, apart from it, how far    *)
(* the pad was burned (src/cli/store.ts, truepad-pad.ts, src/core/pad.ts,  *)
(* cipher-otp.ts).                                                         *)
(*                                                                         *)
(* The surviving symbols are those from nextOffset on, so a pad.json is    *)
(* that number. The content of messages and of the pad is left out, and so *)
(* are label, mode and role, whose mismatch is refused before anything     *)
(* changes.                                                                *)
(***************************************************************************)
EXTENDS FileStates, Integers, SequencesExt

CONSTANTS
  Sides,       \* the directions of the pair
  FirstSide,   \* the half gen writes first
  PadSize,     \* the symbols of a half
  MaxLines,    \* bound: the lines of a marks.log when a verb begins
  MaxBreaks,   \* bound: calls cut off by a crash or by a write that failed
  MaxOldPages  \* bound: pad.json files put back

ASSUME TwoSides == \E d \in Sides : Sides = {FirstSide, d} /\ d # FirstSide
ASSUME PagesAreNumbers == PadSize \in Nat /\ None \notin 0 .. PadSize

VARIABLES
  page,     \* page[d]: nextOffset of pad.json; None when it is not there
  marks,    \* marks[d]: the lines of marks.log: marks, Partial or Glued
  bare,     \* the halves whose last line has no newline
  glued,    \* history: halves where some line got two marks, and no mark has
            \* had one of its own since
  exposed,  \* history: halves whose pad.json was put back while they were so
  gate,     \* the directory's lock: "free", "held", or "stale" after a crash
  doing,    \* the verb that runs
  breaks, oldPages

(* What came out: an envelope printed, or a plaintext.                     *)
VARIABLES
  startUse, \* startUse[d][o]: the outputs whose first symbol is o
  symUse    \* symUse[d][o]: the outputs made with symbol o

disk == <<page, marks, bare, glued, exposed>>
pageVars == <<disk, gate, doing, breaks, oldPages, startUse, symUse>>

Partial == -1  \* a line that does not parse
Glued == -2    \* two records in one line
Symbols == 0 .. PadSize - 1
NoVerb == [op |-> "none", half |-> FirstSide, from |-> 0, len |-> 0, step |-> "none"]

PageInit ==
  /\ page = [d \in Sides |-> None] /\ marks = [d \in Sides |-> <<>>]
  /\ bare = {} /\ glued = {} /\ exposed = {} /\ gate = "free" /\ doing = NoVerb
  /\ breaks = 0 /\ oldPages = 0
  /\ startUse = [d \in Sides |-> [o \in Symbols |-> 0]]
  /\ symUse = [d \in Sides |-> [o \in Symbols |-> 0]]

Begins(op, d, from, len) ==
  /\ gate = "free" /\ gate' = "held" /\ Len(marks[d]) < MaxLines
  /\ doing' = [op |-> op, half |-> d, from |-> from, len |-> len, step |-> "page"]
  /\ UNCHANGED <<disk, breaks, oldPages, startUse, symUse>>
VerbEnds(g) == doing' = NoVerb /\ gate' = g
StepsTo(s) == doing' = [doing EXCEPT !.step = s] /\ UNCHANGED gate

(* readMarks: every line parses; the mark is the highest of them.          *)
MarksRead(d) == \A i \in DOMAIN marks[d] : marks[d][i] >= 0

(* Mutant: the pad file alone says how far it was burned.                  *)
LoadsAnyAge(d) == MarksRead(d)

(* loadPad.                                                                *)
PageLoads(d) ==
  MarksRead(d) /\ \A i \in DOMAIN marks[d] : page[d] >= marks[d][i]

PairWhole == \A d \in Sides : page[d] # None

GenPages == Begins("gen", FirstSide, 0, 0)

(* burn: from the pointer; consume refuses more than there is.             *)
Burn(d, len) ==
  /\ PairWhole /\ PageLoads(d) /\ page[d] + len <= PadSize
  /\ Begins("burn", d, page[d], len)

(* open: the window of the envelope, the symbols before it destroyed.      *)
Open(d, from, len) ==
  /\ PairWhole /\ PageLoads(d) /\ from >= page[d] /\ from + len <= PadSize
  /\ Begins("open", d, from, len)

(* gen finds a pad where it would write one.                               *)
GenRefused ==
  /\ doing.op = "gen" /\ doing.step = "page" /\ page[doing.half] # None
  /\ VerbEnds("free") /\ UNCHANGED <<disk, breaks, oldPages, startUse, symUse>>

(* writeFileDurably of pad.json: the rename is the change.                 *)
WritePage ==
  /\ doing.step = "page" /\ (doing.op = "gen" => page[doing.half] = None)
  /\ page' = [page EXCEPT ![doing.half] = doing.from + doing.len]
  /\ StepsTo("mark")
  /\ UNCHANGED <<marks, bare, glued, exposed, breaks, oldPages, startUse, symUse>>

(* A line appended to one without an end becomes one line with it.         *)
Appends(d, x) ==
  IF d \in bare
  THEN marks' = [marks EXCEPT ![d][Len(marks[d])] = Glued] /\ glued' = glued \cup {d}
  ELSE /\ marks' = [marks EXCEPT ![d] = Append(@, x)]
       /\ glued' = IF x = Partial THEN glued ELSE glued \ {d}

(* appendLineDurably of marks.log; gen goes on with the second half.       *)
AppendMark ==
  /\ doing.step = "mark"
  /\ Appends(doing.half, doing.from + doing.len)
  /\ bare' = bare \ {doing.half}
  /\ IF doing.op # "gen" THEN StepsTo("out")
     ELSE IF doing.half = FirstSide
     THEN /\ doing' = [doing EXCEPT !.half = CHOOSE d \in Sides : d # FirstSide,
                                    !.step = "page"]
          /\ UNCHANGED gate
     ELSE VerbEnds("free")
  /\ UNCHANGED <<page, exposed, breaks, oldPages, startUse, symUse>>

(* The envelope or the plaintext goes out. One of no symbols uses none.    *)
PageOut ==
  LET d == doing.half
      window == doing.from .. doing.from + doing.len - 1
  IN /\ doing.step = "out" /\ VerbEnds("free")
     /\ startUse' = [startUse EXCEPT ![d] =
          [o \in Symbols |-> @[o] + IF doing.len > 0 /\ o = doing.from THEN 1 ELSE 0]]
     /\ symUse' = [symUse EXCEPT ![d] =
          [o \in Symbols |-> @[o] + IF o \in window THEN 1 ELSE 0]]
     /\ UNCHANGED <<disk, breaks, oldPages>>

(* A crash, which leaves the lock, or a write that failed, which does not. *)
(* Of a line that was being appended nothing, a part, all but the newline  *)
(* or all of it is there.                                                  *)
CallCut ==
  /\ doing.step # "none" /\ breaks < MaxBreaks /\ breaks' = breaks + 1
  /\ \E g \in {"free", "stale"} : VerbEnds(g)
  /\ LET d == doing.half
         mark == doing.from + doing.len
     IN \/ UNCHANGED <<marks, bare, glued>>
        \/ /\ doing.step = "mark"
           /\ \/ Appends(d, Partial) /\ bare' = bare \cup {d}
              \/ Appends(d, mark) /\ bare' = bare \cup {d}
              \/ Appends(d, mark) /\ bare' = bare \ {d}
  /\ UNCHANGED <<page, exposed, oldPages, startUse, symUse>>

(* The operator: the lock file of a process that is gone, a half-pair gen  *)
(* did not complete, the malformed last line, as the messages say.         *)
RemoveStaleGate ==
  /\ gate = "stale" /\ gate' = "free"
  /\ UNCHANGED <<disk, doing, breaks, oldPages, startUse, symUse>>

RemoveHalfPair ==
  /\ gate = "free" /\ ~PairWhole /\ \E d \in Sides : page[d] # None
  /\ page' = [d \in Sides |-> None] /\ marks' = [d \in Sides |-> <<>>]
  /\ bare' = {} /\ glued' = {} /\ exposed' = {}
  /\ UNCHANGED <<gate, doing, breaks, oldPages, startUse, symUse>>

RemoveLastLine(d) ==
  /\ gate = "free" /\ marks[d] # <<>> /\ Last(marks[d]) < 0
  /\ marks' = [marks EXCEPT ![d] = Front(@)] /\ bare' = bare \ {d}
  /\ UNCHANGED <<page, glued, exposed, gate, doing, breaks, oldPages, startUse, symUse>>

(* An old pad.json put back.                                               *)
PutPageBack(d) ==
  /\ gate = "free" /\ oldPages < MaxOldPages /\ oldPages' = oldPages + 1
  /\ PairWhole /\ \E o \in 0 .. page[d] - 1 : page' = [page EXCEPT ![d] = o]
  /\ exposed' = IF d \in glued THEN exposed \cup {d} ELSE exposed
  /\ UNCHANGED <<marks, bare, glued, gate, doing, breaks, startUse, symUse>>

PageNext ==
  \/ GenPages \/ GenRefused \/ WritePage \/ AppendMark \/ PageOut \/ CallCut
  \/ RemoveStaleGate \/ RemoveHalfPair
  \/ \E d \in Sides :
       \/ \E len \in 0 .. PadSize : Burn(d, len)
       \/ \E from, len \in 0 .. PadSize : Open(d, from, len)
       \/ RemoveLastLine(d) \/ PutPageBack(d)
----------------------------------------------------------------------------
PageTypeOK ==
  /\ page \in [Sides -> {None} \cup 0 .. PadSize]
  /\ \A d \in Sides : \A i \in DOMAIN marks[d] :
       marks[d][i] \in Glued .. PadSize
  /\ bare \subseteq Sides /\ glued \subseteq Sides /\ exposed \subseteq Sides
  /\ gate \in {"free", "held", "stale"}
  /\ doing.half \in Sides /\ doing.from + doing.len \in 0 .. PadSize
  /\ gate = "held" <=> doing # NoVerb

(* The store's promise: a crash loses pad symbols and never reuses them,   *)
(* and a pad.json older than its marks is refused (OneTimePad; the record  *)
(* of an output is its first symbol). One history breaks it, against what  *)
(* store.ts:16-19 says: a line that got two marks is removed as the refusal*)
(* asks (store.ts:155-160), and with it the mark of an output; until the   *)
(* next mark is written, an old pad.json put back is loaded. Of a half put *)
(* back just then nothing is claimed; of every other all is.               *)
PageOtp == INSTANCE OneTimePad WITH
  Dirs <- Sides, Records <- Symbols, Offsets <- Symbols, recUse <- startUse, padUse <- symUse
ExposedOut == doing.step = "out" /\ doing.half \in exposed
PagePromise == PageOtp!Init /\ [][PageOtp!Next \/ ExposedOut]_<<startUse, symUse>>
=============================================================================
