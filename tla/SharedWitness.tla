--------------------------- MODULE SharedWitness ---------------------------
(***************************************************************************)
(* One separate-state-file witness recording several pairs, advanced by    *)
(* the processes that hold those pairs' locks (src/cli/v2/witness.ts and   *)
(* its two touchpoints in truepad2.ts). The file is read, checked and      *)
(* replaced as a whole, under a lock file of its own that may be left      *)
(* behind by a crash.                                                      *)
(*                                                                         *)
(* A pair stands for one key of the file, with one process at a time: that *)
(* is what its pad lock gives (see PadStore). Its three counters move      *)
(* together and are compared and maximised one by one, so one position     *)
(* stands for them; 0 is no entry, since every advance writes a positive   *)
(* counter. The pair's own store may be restored to an earlier position,   *)
(* which is what the witness is there to notice.                           *)
(***************************************************************************)
EXTENDS Naturals, FiniteSets

CONSTANTS
  Pairs,            \* the pairs sharing the witness
  NoPair,           \* the witness lock is free
  Inits,            \* runs of `truepad2 witness init` on this path
  MaxPosition,      \* bound: commits of a pair
  MaxCrashes,       \* bound: crashes
  MaxRestores,      \* bound: restores of a pair's store
  MaxReplacements,  \* bound: the witness file replaced by an older copy, or lost
  MaxMistakes       \* bound: the lock of a live process removed by the operator

ASSUME PairsAreProper == NoPair \notin Pairs
ASSUME BoundsAreNatural ==
  /\ MaxPosition \in Nat /\ MaxCrashes \in Nat /\ MaxRestores \in Nat
  /\ MaxReplacements \in Nat /\ MaxMistakes \in Nat

VARIABLES
  there,    \* the witness file exists
  entry,    \* entry[p]: what it records for pair p
  lock,     \* the body of the lock file: the pair that made it
  phase,    \* phase[p]: how far p's verb has come
  advances, \* advances[p]: commits made by p's verb
  seen,     \* seen[p]: the counters read at preflight
  snap,     \* snap[p]: the whole file, captured at preflight
  mem,      \* mem[p]: the file as read under the lock
  store,    \* store[p]: the effective position of p's own store
  shown,    \* history: the highest position p made an output with
  again,    \* history: pairs that made an output at or below such a position
  waited,   \* history: waited[p], outputs lost behind the lock left behind
  matched,  \* processes that found their own body in the lock file, to unlink it
  robbed,   \* history: processes whose lock the operator removed while they ran
  late,     \* history: he once did that to a process that had found its body
  init,     \* init[i]: how far a run of init has come
  copies,   \* earlier contents of the file that were kept
  budget    \* what is left of each bound

files  == <<there, entry>>
locals == <<advances, seen, snap, mem>>
past   == <<shown, again>>
claims == <<matched, robbed, late>>
world  == <<init, copies, budget>>
vars   == <<files, lock, phase, locals, store, past, waited, claims, world>>

Nothing == [q \in Pairs |-> 0]
AtLeast(f, g) == \A q \in Pairs : f[q] >= g[q]

(* The phases in which a process believes it holds the witness lock.       *)
Holding == {"probing", "locked", "read", "written", "failed"}
(* The phases from the preflight's first read to the snapshot.             *)
Checking == {"counters", "probing", "probed"}
Phases == Checking \cup Holding
            \cup {"idle", "ready", "committed", "advanced"}
Holds(p) == phase[p] \in Holding

(* The lock file is there and the process that made it is not.             *)
LeftBehind == lock # NoPair /\ ~Holds(lock)

Init ==
  /\ there = FALSE /\ entry = Nothing
  /\ lock = NoPair
  /\ phase = [p \in Pairs |-> "idle"]
  /\ advances = Nothing /\ seen = Nothing
  /\ snap = [p \in Pairs |-> Nothing] /\ mem = [p \in Pairs |-> Nothing]
  /\ store = Nothing
  /\ shown = Nothing /\ again = {}
  /\ waited = Nothing /\ matched = {} /\ robbed = {} /\ late = FALSE
  /\ init = [i \in Inits |-> "waiting"]
  /\ copies = {}
  /\ budget = [crash |-> MaxCrashes, restore |-> MaxRestores,
               replace |-> MaxReplacements, mistake |-> MaxMistakes]

Reaches(p, next) == phase' = [phase EXCEPT ![p] = next]

(* The process believes it is out of the lock, or is gone.                 *)
Leaves(p) == matched' = matched \ {p} /\ robbed' = robbed \ {p} /\ UNCHANGED late

(* The process exits: its exit code and what it printed are elsewhere.     *)
Ends(p) ==
  /\ Reaches(p, "idle")
  /\ advances' = [advances EXCEPT ![p] = 0]
  /\ seen' = [seen EXCEPT ![p] = 0]
  /\ snap' = [snap EXCEPT ![p] = Nothing]
  /\ mem' = [mem EXCEPT ![p] = Nothing]
  /\ Leaves(p)

Acquired(p) == lock = NoPair /\ lock' = p

(* release, its first half: the lock file still has this process's body.   *)
ReadLockBody(p) ==
  /\ phase[p] \in {"probing", "written", "failed"} /\ p \notin matched
  /\ lock = p /\ matched' = matched \cup {p}
  /\ UNCHANGED <<files, lock, phase, locals, store, past, waited, robbed, late, world>>

(* Mutant: unlink whatever lock file is there.                             *)
ReleasedBlindly(p) == lock' = NoPair /\ waited' = Nothing

(* Its second half: after that, whatever lock file is there by now is      *)
(* unlinked. Another's body leaves it, and so does every failure.          *)
Released(p) ==
  \/ UNCHANGED <<lock, waited>>
  \/ p \in matched /\ lock' = NoPair /\ waited' = Nothing
----------------------------------------------------------------------------
(* witnessPreflight. A refusal here is free: nothing has been committed.   *)

(* readWitnessCounters; a missing file refuses witness-unreachable.        *)
ReadCounters(p) ==
  /\ phase[p] = "idle" /\ there /\ store[p] < MaxPosition
  /\ Reaches(p, "counters")
  /\ seen' = [seen EXCEPT ![p] = entry[p]]
  /\ UNCHANGED <<files, lock, advances, snap, mem, store, past, waited, claims, world>>

(* Mutant: no probe.                                                       *)
SkipProbe(p) ==
  /\ phase[p] = "counters" /\ Reaches(p, "probed")
  /\ UNCHANGED <<files, lock, locals, store, past, waited, claims, world>>

(* witnessLockProbe: the lock is taken and given back, or refuses `locked` *)
(* when it is held for longer than LOCK_PROBE_MS.                          *)
ProbeLock(p) ==
  /\ phase[p] = "counters" /\ Acquired(p)
  /\ Reaches(p, "probing")
  /\ UNCHANGED <<files, locals, store, past, waited, claims, world>>

RefuseLocked(p) ==
  /\ phase[p] = "counters" /\ lock # NoPair
  /\ Ends(p)
  /\ UNCHANGED <<files, lock, store, past, waited, world>>

(* Mutant: off by one.                                                     *)
FarBehind(p) == store[p] + 1 < seen[p]

(* A store behind its witness refuses witness-regressed.                   *)
Behind(p) == store[p] < seen[p]

EndProbe(p) ==
  /\ phase[p] = "probing" /\ Released(p)
  /\ IF Behind(p)
       THEN Ends(p)
       ELSE /\ Reaches(p, "probed")
            /\ Leaves(p)
            /\ UNCHANGED locals
  /\ UNCHANGED <<files, store, past, world>>

(* readWitnessSnapshot; a file gone by now refuses witness-unreachable.    *)
TakeSnapshot(p) ==
  /\ phase[p] = "probed"
  /\ IF there
       THEN /\ Reaches(p, "ready")
            /\ snap' = [snap EXCEPT ![p] = entry]
            /\ UNCHANGED <<advances, seen, mem, claims>>
       ELSE Ends(p)
  /\ UNCHANGED <<files, lock, store, past, waited, world>>
----------------------------------------------------------------------------
(* The durable commit, then witnessAdvance.                                *)

(* burn and retire commit once; open commits its attempt (O3), advances,   *)
(* and then its counters (O5), both with the one snapshot.                 *)
Commit(p) ==
  /\ \/ phase[p] = "ready"
     \/ phase[p] = "advanced" /\ advances[p] < 2
  /\ store[p] < MaxPosition
  /\ store' = [store EXCEPT ![p] = @ + 1]
  /\ advances' = [advances EXCEPT ![p] = @ + 1]
  /\ Reaches(p, "committed")
  /\ UNCHANGED <<files, lock, seen, snap, mem, past, waited, claims, world>>

(* A verb may still refuse after the preflight (no attempts left, no room).*)
RefuseReady(p) ==
  /\ phase[p] = "ready" /\ Ends(p)
  /\ UNCHANGED <<files, lock, store, past, waited, world>>

LockWitness(p) ==
  /\ phase[p] = "committed" /\ Acquired(p)
  /\ Reaches(p, "locked")
  /\ UNCHANGED <<files, locals, store, past, waited, claims, world>>

(* Mutant: only a live holder is given up on, a lock left behind is waited *)
(* for.                                                                    *)
WaitForTheDead(p) ==
  /\ phase[p] = "committed" /\ lock # NoPair /\ Holds(lock)
  /\ Ends(p)
  /\ UNCHANGED <<files, lock, store, past, waited, world>>

(* LOCK_WAIT_MS passes: the loss row, the output is withheld.              *)
LockTimeout(p) ==
  /\ phase[p] = "committed" /\ lock # NoPair
  /\ waited' = [waited EXCEPT ![p] = IF LeftBehind THEN @ + 1 ELSE @]
  /\ Ends(p)
  /\ UNCHANGED <<files, lock, store, past, world>>

(* Mutant: only the pair's own key is compared.                            *)
OwnRegressed(p) == entry[p] < snap[p][p]

(* regressionAgainst: nothing the snapshot held may be gone or lower now.  *)
Regressed(p) == ~AtLeast(entry, snap[p])

(* advanceLocked up to the snapshot check: a file that is gone is not made *)
(* anew, a file that went back is not written.                             *)
ReadWitness(p) ==
  /\ phase[p] = "locked"
  /\ IF there /\ ~Regressed(p)
       THEN /\ mem' = [mem EXCEPT ![p] = entry]
            /\ Reaches(p, "read")
       ELSE /\ Reaches(p, "failed")
            /\ UNCHANGED mem
  /\ UNCHANGED <<files, lock, advances, seen, snap, store, past, waited, claims, world>>

Higher(a, b) == IF a >= b THEN a ELSE b

(* Mutant: the snapshot is written back, not the file as read.             *)
WriteSnapshot(p) ==
  /\ phase[p] = "read"
  /\ there' = TRUE
  /\ entry' = [snap[p] EXCEPT ![p] = Higher(snap[p][p], store[p])]
  /\ Reaches(p, "written")
  /\ UNCHANGED <<lock, locals, store, past, waited, claims, world>>

(* The elementwise maximum for the pair's own key over the file as it was  *)
(* read, written durably by an atomic replace, which also makes a file.    *)
WriteWitness(p) ==
  /\ phase[p] = "read"
  /\ there' = TRUE
  /\ entry' = [mem[p] EXCEPT ![p] = Higher(mem[p][p], store[p])]
  /\ Reaches(p, "written")
  /\ UNCHANGED <<lock, locals, store, past, waited, claims, world>>

(* finally { release() }: then go on, or throw the loss row.               *)
ReleaseWitness(p) ==
  /\ phase[p] \in {"written", "failed"}
  /\ Released(p)
  /\ IF phase[p] = "written"
       THEN /\ Reaches(p, "advanced")
            /\ Leaves(p)
            /\ UNCHANGED locals
       ELSE Ends(p)
  /\ UNCHANGED <<files, store, past, world>>

(* Mutant: the output before the witness.                                  *)
ShowEarly(p) ==
  /\ phase[p] \in {"committed", "advanced"}
  /\ again' = IF store[p] > shown[p] THEN again ELSE again \cup {p}
  /\ shown' = [shown EXCEPT ![p] = Higher(@, store[p])]
  /\ Ends(p)
  /\ UNCHANGED <<files, lock, store, waited, world>>

(* The envelope or the plaintext leaves the process.                       *)
Show(p) ==
  /\ phase[p] = "advanced"
  /\ again' = IF store[p] > shown[p] THEN again ELSE again \cup {p}
  /\ shown' = [shown EXCEPT ![p] = Higher(@, store[p])]
  /\ Ends(p)
  /\ UNCHANGED <<files, lock, store, waited, world>>

(* auth-failed, record-frame-invalid, retire: nothing leaves.              *)
EndQuietly(p) ==
  /\ phase[p] = "advanced" /\ Ends(p)
  /\ UNCHANGED <<files, lock, store, past, waited, world>>

Step(p) ==
  \/ ProbeLock(p) \/ RefuseLocked(p) \/ ReadLockBody(p) \/ EndProbe(p) \/ TakeSnapshot(p)
  \/ Commit(p) \/ RefuseReady(p) \/ LockWitness(p) \/ LockTimeout(p)
  \/ ReadWitness(p) \/ WriteWitness(p) \/ ReleaseWitness(p)
  \/ Show(p) \/ EndQuietly(p)
----------------------------------------------------------------------------
(* initWitness reads the path and, if nothing is there, writes the empty   *)
(* witness. It does not take the lock. A file that is there is left alone. *)
CheckAbsent(i) ==
  /\ init[i] = "waiting" /\ ~there
  /\ init' = [init EXCEPT ![i] = "absent"]
  /\ UNCHANGED <<files, lock, phase, locals, store, past, waited, claims, copies, budget>>

WriteFresh(i) ==
  /\ init[i] = "absent"
  /\ there' = TRUE /\ entry' = Nothing
  /\ init' = [init EXCEPT ![i] = "done"]
  /\ UNCHANGED <<lock, phase, locals, store, past, waited, claims, copies, budget>>
----------------------------------------------------------------------------
(* What befalls them.                                                      *)

Spends(b) == budget[b] > 0 /\ budget' = [budget EXCEPT ![b] = @ - 1]

(* The process dies. Its lock file, if it holds one, stays.                *)
Crash(p) ==
  /\ phase[p] # "idle" /\ Spends("crash")
  /\ Ends(p)
  /\ UNCHANGED <<files, lock, store, past, waited, init, copies>>

(* The pair's directory comes back from an earlier backup; every position  *)
(* below the present one was once the store's.                             *)
RestoreStore(p) ==
  /\ phase[p] = "idle" /\ Spends("restore")
  /\ \E k \in 0 .. MaxPosition :
       k < store[p] /\ store' = [store EXCEPT ![p] = k]
  /\ UNCHANGED <<files, lock, phase, locals, past, waited, claims, init, copies>>

(* The operator confirms that nothing holds the witness and removes the    *)
(* lock file, as the refusal asks.                                         *)
RemoveStaleLock ==
  /\ LeftBehind
  /\ lock' = NoPair /\ waited' = Nothing
  /\ UNCHANGED <<files, phase, locals, store, past, claims, world>>

(* He is wrong: the process that made it is running.                       *)
RemoveLiveLock ==
  /\ lock # NoPair /\ Holds(lock) /\ Spends("mistake")
  /\ lock' = NoPair /\ robbed' = robbed \cup {lock} /\ late' = (late \/ lock \in matched)
  /\ UNCHANGED <<files, phase, locals, store, past, waited, matched, init, copies>>

KeepCopy ==
  /\ there /\ Cardinality(copies) < MaxReplacements
  /\ copies' = copies \cup {entry}
  /\ UNCHANGED <<files, lock, phase, locals, store, past, waited, claims, init, budget>>

(* The medium comes back with an older valid file, or with none.           *)
ReplaceWitness ==
  /\ Spends("replace")
  /\ \/ \E old \in copies : there' = TRUE /\ entry' = old
     \/ there' = FALSE /\ entry' = Nothing
  /\ UNCHANGED <<lock, phase, locals, store, past, waited, claims, init, copies>>
----------------------------------------------------------------------------
Next ==
  \/ \E p \in Pairs : ReadCounters(p) \/ Step(p) \/ Crash(p) \/ RestoreStore(p)
  \/ \E i \in Inits : CheckAbsent(i) \/ WriteFresh(i)
  \/ RemoveStaleLock \/ RemoveLiveLock \/ KeepCopy \/ ReplaceWitness

Spec == Init /\ [][Next]_vars

(* A verb is straight-line synchronous code with bounded waits: it goes on *)
(* until it ends or dies. Verbs start, crash and are repaired unfairly.    *)
FairSpec == Spec /\ \A p \in Pairs : WF_vars(Step(p))
----------------------------------------------------------------------------
TypeOK ==
  /\ there \in BOOLEAN /\ entry \in [Pairs -> Nat]
  /\ lock \in Pairs \cup {NoPair}
  /\ phase \in [Pairs -> Phases]
  /\ advances \in [Pairs -> Nat] /\ seen \in [Pairs -> Nat]
  /\ snap \in [Pairs -> [Pairs -> Nat]] /\ mem \in [Pairs -> [Pairs -> Nat]]
  /\ store \in [Pairs -> Nat]
  /\ shown \in [Pairs -> Nat] /\ again \subseteq Pairs
  /\ waited \in [Pairs -> Nat]
  /\ matched \subseteq Pairs /\ robbed \subseteq Pairs /\ late \in BOOLEAN
  /\ init \in [Inits -> {"waiting", "absent", "done"}]
  /\ copies \subseteq [Pairs -> Nat]
  /\ budget \in [{"crash", "restore", "replace", "mistake"} -> Nat]

(* No pair makes two outputs with one position, however its store is       *)
(* restored and whatever the pairs beside it do to the file they share.    *)
NothingShownTwice == again = {}

(* What left a process is in the witness, and stays there.                 *)
ShownIsWitnessed == AtLeast(entry, shown)

(* The lost update of the source's comment: no write of the shared file    *)
(* lowers the entry of any pair.                                           *)
EntriesNeverFall == [][AtLeast(entry', entry)]_vars

(* The processes that are in the file without its lock.                    *)
Unlocked == {p \in Pairs : Holds(p) /\ lock # p}

(* A lock removed under a live process is that process's misfortune only:  *)
(* its release does not unlock the one who holds the lock now. It can,     *)
(* when the removal falls between the reading of the body and the unlink,  *)
(* which are two calls (witness.ts:423-424); and the one it unlocks may be *)
(* between the two itself. Even so no mistake of the operator lets more    *)
(* than one process at a time into the file beside the holder.             *)
OthersStayLocked ==
  /\ ~late => \A p \in Pairs : Holds(p) /\ p \notin robbed => lock = p
  /\ Cardinality(Unlocked) <= MaxMistakes - budget["mistake"]

(* A lock left behind costs a pair at most the record in flight: the probe *)
(* refuses every later verb before it commits.                             *)
OneLossPerStaleLock == \A p \in Pairs : waited[p] <= 1

(* Whoever replaces the file meanwhile, a process never publishes a state  *)
(* below what it read at preflight, for its own pair or for another.       *)
KnowledgeKept ==
  [][\A p \in Pairs :
       phase[p] = "read" /\ phase'[p] = "written" => AtLeast(entry', snap[p])]_vars

(* Every verb ends, a lock left behind by a crash notwithstanding.         *)
VerbEnds == \A p \in Pairs : phase[p] # "idle" ~> phase[p] = "idle"
=============================================================================
