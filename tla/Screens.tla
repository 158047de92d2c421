------------------------------ MODULE Screens ------------------------------
(***************************************************************************)
(* The page of the Browser Edition around a receive session: the router of *)
(* src/browser/main.ts and the confirmation screen of                      *)
(* src/browser/ui/receive-online.ts. The worker keeps an opened session    *)
(* and its lock on the request, shared with every tab, until the page      *)
(* commits, rejects or abandons it, so the page must not lose sight of one *)
(* whatever order calls, replies, clicks and hash changes come in. A hash  *)
(* change renders later, when its event is delivered, and by the hash of   *)
(* that moment. Of the other routes only what they do to a session counts: *)
(* they are "elsewhere", and mount when the engine has answered them, over *)
(* whatever is displayed by then.                                          *)
(***************************************************************************)
EXTENDS Naturals, FileStates

CONSTANTS
  Transfers,   \* the sessions that may be opened, each on a request of its own
  MaxEvents    \* bound on the hash changes not yet delivered

ASSUME ScreenBounds == MaxEvents \in Nat

(* What the page shows without a session.                                  *)
PlainScreens == {"elsewhere", "receive-online", "loading", "rejected"}
ASSUME SessionsAreNoScreens == Transfers \cap (PlainScreens \cup {None}) = {}

VARIABLES
  hash,      \* location.hash, by its route
  events,    \* hashchange events not yet delivered
  pending,   \* pendingSession
  displayed, \* what #app-main shows: a route, or the session of a confirm screen
  loading,   \* an elsewhere screen waits for the engine
  leaving,   \* the confirm screens whose leave handler is registered
  settled,   \* those of them with nothing left to do
  live,      \* the sessions the worker holds
  calls,     \* calls the worker has not answered
  replies,   \* replies the page has not seen
  unopened,  \* sessions not opened yet
  refusedFree, skipped  \* see NobodyForgetsASession

screensVars == <<hash, events, pending, displayed, loading, leaving, settled, live,
                 calls, replies, unopened, refusedFree, skipped>>
pageState == <<hash, events, pending, displayed, loading, leaving, settled>>
workerState == <<live, unopened, refusedFree>>

Routes == {"elsewhere", "receive-online", "receive-confirm"}
Call(op, s) == [op |-> op, s |-> s]
Operations == {"open", "commit", "reject", "later", "abandon"}
Results == {"done", "refused", "error"}
PageReplies == [op : Operations, s : Transfers, result : Results]

ScreensInit ==
  /\ hash = "elsewhere" /\ events = 0 /\ pending = None
  /\ displayed = "elsewhere" /\ loading = FALSE
  /\ leaving = {} /\ settled = {} /\ live = {} /\ calls = {} /\ replies = {}
  /\ unopened = Transfers /\ refusedFree = {} /\ skipped = {}
----------------------------------------------------------------------------
(* The router. done are the screens that are settled when it is called.    *)

(* Mutant: a screen that is left does nothing.                             *)
LeaveSilently(done) == UNCHANGED calls

(* runLeaveHandlers: each handler of a confirm screen abandons its session *)
(* unless the screen is settled.                                           *)
LeaveScreens(done) ==
  calls' = calls \cup {Call("abandon", s) : s \in leaving \ done}

(* render, by hash h and pendingSession p: a confirm route with no session *)
(* is receive-online; renderReceiveConfirm registers its handler at once.  *)
Render(h, p, done) ==
  /\ LeaveScreens(done) /\ settled' = {}
  /\ IF h = "receive-confirm" /\ p # None
       THEN /\ displayed' = p /\ leaving' = {p} /\ pending' = p
            /\ UNCHANGED loading
       ELSE /\ leaving' = {} /\ pending' = None
            /\ displayed' = IF h = "elsewhere" THEN "loading" ELSE "receive-online"
            /\ loading' = (loading \/ h = "elsewhere")

(* A session whose screen waits for an event that is still to come.        *)
Waiting == IF events > 0 THEN {pending} \ (leaving \cup {None}) ELSE {}

(* location.hash is assigned: the screen changes with the event.           *)
AssignHash(h, p) ==
  /\ hash # h /\ events < MaxEvents
  /\ hash' = h /\ pending' = p /\ events' = events + 1
  /\ UNCHANGED <<displayed, loading, leaving, calls>>

(* navigate: the hash is there already, or it is assigned. p is what       *)
(* pendingSession becomes, the session of a receive-confirm route.         *)
Navigate(h, p, done) ==
  /\ \/ hash = h /\ Render(h, p, done) /\ UNCHANGED <<hash, events>>
     \/ AssignHash(h, p) /\ settled' = done
  /\ skipped' = skipped \cup IF h = "receive-confirm" THEN Waiting \ {p} ELSE Waiting

HashChange ==
  /\ events > 0 /\ events' = events - 1
  /\ Render(hash, pending, settled)
  /\ UNCHANGED <<hash, workerState, replies, skipped>>

(* Back, forward, a link: the hash changes with no navigate.               *)
BrowserGoes(h) ==
  /\ AssignHash(h, pending) /\ skipped' = skipped \cup Waiting
  /\ UNCHANGED <<settled, workerState, replies>>

(* The page's own links, on every screen.                                  *)
Link(h) ==
  /\ h # "receive-confirm" /\ Navigate(h, pending, settled)
  /\ UNCHANGED <<workerState, replies>>

(* The engine answered an elsewhere screen: it mounts over what is there,  *)
(* and no leave handler runs.                                              *)
MountElsewhere ==
  /\ loading /\ loading' = FALSE /\ displayed' = "elsewhere"
  /\ UNCHANGED <<hash, events, pending, leaving, settled, calls, workerState, replies,
                 skipped>>
----------------------------------------------------------------------------
(* The buttons. setBusy: one call of a confirm screen at a time.           *)

Busy(s) ==
  \/ \E op \in {"commit", "reject", "later"} : Call(op, s) \in calls
  \/ \E m \in replies : m.s = s /\ m.op # "open"

ChooseFile(s) ==
  /\ displayed = "receive-online" /\ s \in unopened
  /\ calls' = calls \cup {Call("open", s)}
  /\ UNCHANGED <<pageState, workerState, replies, skipped>>

Press(s, op) ==
  /\ displayed = s /\ ~Busy(s)
  /\ calls' = calls \cup {Call(op, s)}
  /\ settled' = IF op = "later" THEN settled \cup {s} ELSE settled
  /\ UNCHANGED <<hash, events, pending, displayed, loading, leaving, workerState, replies,
                 skipped>>
----------------------------------------------------------------------------
(* The worker. Nobody waits for the reply to a leave handler's abandon.    *)

Answered(c, result) ==
  /\ calls' = calls \ {c}
  /\ replies' = IF c.op = "abandon" THEN replies
                ELSE replies \cup {[op |-> c.op, s |-> c.s, result |-> result]}
  /\ UNCHANGED <<pageState, skipped>>

SessionEnds(s) == live' = live \ {s} /\ refusedFree' = refusedFree \ {s}

OpenSealed(c) ==
  /\ c.op = "open" /\ unopened' = unopened \ {c.s} /\ UNCHANGED refusedFree
  /\ \/ live' = live \cup {c.s} /\ Answered(c, "done")
     \/ UNCHANGED live /\ Answered(c, "refused")

(* A save that is refused has ended the session, by expiry, a loss or the  *)
(* state of the request; or it cost nothing and keeps it, when the pad can *)
(* not be imported (requireImportable, unpackContainer); an error may have *)
(* come before or after.                                                   *)
CommitReceive(c) ==
  /\ c.op = "commit" /\ UNCHANGED unopened
  /\ \/ SessionEnds(c.s) /\ \E result \in Results : Answered(c, result)
     \/ Answered(c, "error") /\ UNCHANGED <<live, refusedFree>>
     \/ /\ c.s \in live /\ Answered(c, "refused") /\ UNCHANGED live
        /\ refusedFree' = refusedFree \cup {c.s}

(* A rejection that could not be recorded keeps the session.               *)
RejectTransfer(c) ==
  /\ c.op = "reject" /\ UNCHANGED unopened
  /\ \/ SessionEnds(c.s) /\ Answered(c, "done")
     \/ UNCHANGED <<live, refusedFree>> /\ Answered(c, "refused")

AbandonSession(c) ==
  /\ c.op \in {"abandon", "later"} /\ SessionEnds(c.s)
  /\ Answered(c, "done") /\ UNCHANGED unopened
----------------------------------------------------------------------------
(* What the page does with a reply, whatever it displays by then.          *)

Settled(m) == settled \cup ({m.s} \cap leaving)

OnlySettles(done) ==
  /\ settled' = done
  /\ UNCHANGED <<hash, events, pending, displayed, loading, leaving, calls, skipped>>

(* Mutant: every answer to a save or a rejection settles the screen.       *)
HandleSettling(m) ==
  CASE m.op = "open" /\ m.result = "done" -> Navigate("receive-confirm", m.s, settled)
    [] m.op = "commit" /\ m.result = "done" ->
         Navigate("elsewhere", pending, Settled(m))
    [] m.op = "later" -> Navigate("receive-online", pending, Settled(m))
    [] m.op \in {"commit", "reject"} -> OnlySettles(Settled(m))
    [] OTHER -> OnlySettles(settled)

(* A refused save settles the screen ("a loss is terminal"), an error does *)
(* not, nor does a refused rejection.                                      *)
Handle(m) ==
  CASE m.op = "open" /\ m.result = "done" -> Navigate("receive-confirm", m.s, settled)
    [] m.op = "commit" /\ m.result = "done" ->
         Navigate("elsewhere", pending, Settled(m))
    [] m.op = "commit" /\ m.result = "refused" -> OnlySettles(Settled(m))
    [] m.op = "later" -> Navigate("receive-online", pending, Settled(m))
    [] m.op = "reject" /\ m.result = "done" ->
         /\ displayed' = "rejected" /\ settled' = Settled(m)
         /\ UNCHANGED <<hash, events, pending, loading, leaving, calls, skipped>>
    [] OTHER -> OnlySettles(settled)

ReplyArrives(m) == Handle(m) /\ replies' = replies \ {m} /\ UNCHANGED workerState
----------------------------------------------------------------------------
ScreensNext ==
  \/ HashChange \/ MountElsewhere
  \/ \E h \in Routes : BrowserGoes(h) \/ Link(h)
  \/ \E s \in Transfers :
       ChooseFile(s) \/ \E op \in {"commit", "reject", "later"} : Press(s, op)
  \/ \E c \in calls :
       OpenSealed(c) \/ CommitReceive(c) \/ RejectTransfer(c) \/ AbandonSession(c)
  \/ \E m \in replies : ReplyArrives(m)

ScreensSpec == ScreensInit /\ [][ScreensNext]_screensVars
----------------------------------------------------------------------------
ScreensTypeOK ==
  /\ hash \in Routes /\ events \in 0 .. MaxEvents /\ pending \in Transfers \cup {None}
  /\ displayed \in PlainScreens \cup Transfers
  /\ loading \in BOOLEAN /\ leaving \subseteq Transfers /\ settled \subseteq leaving
  /\ live \subseteq Transfers /\ unopened \subseteq Transfers \ live
  /\ calls \subseteq [op : Operations, s : Transfers] /\ replies \subseteq PageReplies

(* Something in the page will still decide or end session s.               *)
InSight(s) ==
  \/ Call("abandon", s) \in calls \/ Call("later", s) \in calls
  \/ \E m \in replies : m.op = "open" /\ m.s = s
  \/ s \in Waiting /\ hash = "receive-confirm"
  \/ s \in leaving \ settled
  \/ displayed = s

(* "Leaving this screen any other way must release the worker's cross-tab  *)
(* lock" (receive-online.ts). A session nothing in the page will end is    *)
(* one of two kinds: its save was refused and cost nothing, for the screen *)
(* then counts as settled; or a second navigation overtook the event that  *)
(* was to bring its screen.                                                *)
NobodyForgetsASession ==
  \A s \in live : InSight(s) \/ s \in refusedFree \cup skipped
=============================================================================
