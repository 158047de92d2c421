---------------------------- MODULE WitnessProofs ---------------------------
(***************************************************************************)
(* Theorems about the two witnesses: SharedWitness, the state file that    *)
(* several pairs share, for any number of pairs and any bounds; and, from  *)
(* PlatformShape on, PlatformWitness, the counter of the platform, for     *)
(* every number of pairs and of places and every bound on what happens to  *)
(* them. What an operator does with copies is bounded by CopiesAreSettled  *)
(* where a theorem says so.                                                *)
(***************************************************************************)
EXTENDS SharedWitness, PlatformWitness, FiniteSetTheorems, TLAPS

LEMMA NothingType == Nothing \in [Pairs -> Nat] /\ \A q \in Pairs : Nothing[q] = 0
BY DEF Nothing

(* What the end of a process does to its locals.                           *)
LEMMA EndsType ==
  ASSUME TypeOK, NEW p \in Pairs, Ends(p)
  PROVE  /\ phase' \in [Pairs -> Phases]
         /\ advances' \in [Pairs -> Nat] /\ seen' \in [Pairs -> Nat]
         /\ snap' \in [Pairs -> [Pairs -> Nat]]
         /\ mem' \in [Pairs -> [Pairs -> Nat]]
         /\ matched' \subseteq Pairs /\ robbed' \subseteq Pairs /\ late' \in BOOLEAN
BY NothingType DEF TypeOK, Ends, Leaves, Reaches, Phases

LEMMA ReachesType ==
  ASSUME TypeOK, NEW p \in Pairs, NEW f \in Phases, Reaches(p, f)
  PROVE  phase' \in [Pairs -> Phases]
BY DEF TypeOK, Reaches

LEMMA SpendsType ==
  ASSUME TypeOK, NEW b \in {"crash", "restore", "replace", "mistake"}, Spends(b)
  PROVE  budget' \in [{"crash", "restore", "replace", "mistake"} -> Nat]
BY DEF TypeOK, Spends

(* Who writes the file, and who shows something.                           *)
LEMMA EntryWriters ==
  ASSUME [Next]_vars
  PROVE  \/ UNCHANGED <<there, entry>>
         \/ \E p \in Pairs : WriteWitness(p)
         \/ \E i \in Inits : WriteFresh(i)
         \/ ReplaceWitness
<1> USE DEF files, locals, past, claims, world
<1>1. ASSUME NEW p \in Pairs, Step(p), ~WriteWitness(p) PROVE UNCHANGED <<there, entry>>
  BY <1>1 DEF Step, ProbeLock, RefuseLocked, ReadLockBody, EndProbe, TakeSnapshot, Commit,
     RefuseReady, LockWitness, LockTimeout, ReadWitness, ReleaseWitness, Show,
     EndQuietly
<1> QED
  BY <1>1 DEF Next, ReadCounters, Crash, RestoreStore, CheckAbsent,
     RemoveStaleLock, RemoveLiveLock, KeepCopy, vars

LEMMA Showers ==
  ASSUME [Next]_vars
  PROVE  \/ UNCHANGED <<shown, again>>
         \/ \E p \in Pairs : Show(p)
<1> USE DEF files, locals, past, claims, world
<1>1. ASSUME NEW p \in Pairs, Step(p), ~Show(p) PROVE UNCHANGED <<shown, again>>
  BY <1>1 DEF Step, ProbeLock, RefuseLocked, ReadLockBody, EndProbe, TakeSnapshot, Commit,
     RefuseReady, LockWitness, LockTimeout, ReadWitness, WriteWitness,
     ReleaseWitness, EndQuietly
<1> QED
  BY <1>1 DEF Next, ReadCounters, Crash, RestoreStore, CheckAbsent, WriteFresh,
     RemoveStaleLock, RemoveLiveLock, KeepCopy, ReplaceWitness, vars

LEMMA Robbers ==
  ASSUME [Next]_vars
  PROVE  \/ robbed' \subseteq robbed /\ UNCHANGED late
         \/ RemoveLiveLock
<1> USE DEF files, locals, past, claims, world, Ends, Leaves
<1>1. ASSUME NEW p \in Pairs, Step(p) PROVE robbed' \subseteq robbed /\ UNCHANGED late
  BY <1>1 DEF Step, ProbeLock, RefuseLocked, ReadLockBody, EndProbe, TakeSnapshot, Commit,
     RefuseReady, LockWitness, LockTimeout, ReadWitness, WriteWitness,
     ReleaseWitness, Show, EndQuietly
<1> QED
  BY <1>1 DEF Next, ReadCounters, Crash, RestoreStore, CheckAbsent, WriteFresh,
     RemoveStaleLock, KeepCopy, ReplaceWitness, vars

(* Each variable keeps its type.                                           *)
THEOREM SharedTypeCorrect == Spec => []TypeOK
<1>1. ASSUME Init PROVE TypeOK
  <2>1. budget \in [{"crash", "restore", "replace", "mistake"} -> Nat]
    BY <1>1, BoundsAreNatural DEF Init
  <2>2. phase \in [Pairs -> Phases]
    BY <1>1 DEF Init, Phases
  <2>3. init \in [Inits -> {"waiting", "absent", "done"}]
    BY <1>1 DEF Init
  <2> QED
    BY <1>1, <2>1, <2>2, <2>3, NothingType DEF Init, TypeOK
<1>2. TypeOK /\ [Next]_vars => TypeOK'
  <2> SUFFICES ASSUME TypeOK, [Next]_vars PROVE TypeOK'
    OBVIOUS
  <2> USE DEF files, locals, past, claims, world
  <2>1. ASSUME NEW p \in Pairs, ReadCounters(p) PROVE TypeOK'
    BY <2>1, ReachesType DEF TypeOK, ReadCounters, Phases, Checking
  <2>2. ASSUME NEW p \in Pairs, ProbeLock(p) PROVE TypeOK'
    BY <2>2, ReachesType DEF TypeOK, ProbeLock, Acquired, Phases, Checking
  <2>3. ASSUME NEW p \in Pairs, RefuseLocked(p) PROVE TypeOK'
    BY <2>3, EndsType DEF TypeOK, RefuseLocked
  <2>4. ASSUME NEW p \in Pairs, EndProbe(p) PROVE TypeOK'
    BY <2>4, EndsType, ReachesType, NothingType DEF TypeOK, EndProbe, Released, Leaves, Phases, Checking
  <2>5. ASSUME NEW p \in Pairs, TakeSnapshot(p) PROVE TypeOK'
    BY <2>5, EndsType, ReachesType, ZenonT(40) DEF TypeOK, TakeSnapshot, Phases
  <2>6. ASSUME NEW p \in Pairs, Commit(p) PROVE TypeOK'
    BY <2>6, ReachesType DEF TypeOK, Commit, Phases
  <2>7. ASSUME NEW p \in Pairs, RefuseReady(p) PROVE TypeOK'
    BY <2>7, EndsType DEF TypeOK, RefuseReady
  <2>8. ASSUME NEW p \in Pairs, LockWitness(p) PROVE TypeOK'
    BY <2>8, ReachesType DEF TypeOK, LockWitness, Acquired, Phases, Holding
  <2>9. ASSUME NEW p \in Pairs, LockTimeout(p) PROVE TypeOK'
    BY <2>9, EndsType, SMTT(40) DEF TypeOK, LockTimeout
  <2>10. ASSUME NEW p \in Pairs, ReadWitness(p) PROVE TypeOK'
    <3>1. CASE there /\ ~Regressed(p)
      <4>1. phase' \in [Pairs -> Phases]
        BY <2>10, <3>1, ReachesType DEF ReadWitness, Phases, Holding
      <4>2. mem' \in [Pairs -> [Pairs -> Nat]]
        BY <2>10, <3>1 DEF TypeOK, ReadWitness
      <4> QED
        BY <2>10, <3>1, <4>1, <4>2 DEF TypeOK, ReadWitness
    <3>2. CASE ~(there /\ ~Regressed(p))
      BY <2>10, <3>2, ReachesType DEF TypeOK, ReadWitness, Phases, Holding
    <3> QED
      BY <3>1, <3>2
  <2>11. ASSUME NEW p \in Pairs, WriteWitness(p) PROVE TypeOK'
    BY <2>11, ReachesType DEF TypeOK, WriteWitness, Higher, Phases, Holding
  <2>12. ASSUME NEW p \in Pairs, ReleaseWitness(p) PROVE TypeOK'
    BY <2>12, EndsType, ReachesType, NothingType DEF TypeOK, ReleaseWitness, Released, Leaves, Phases
  <2>13. ASSUME NEW p \in Pairs, Show(p) PROVE TypeOK'
    BY <2>13, EndsType DEF TypeOK, Show, Higher
  <2>14. ASSUME NEW p \in Pairs, EndQuietly(p) PROVE TypeOK'
    BY <2>14, EndsType DEF TypeOK, EndQuietly
  <2>24. ASSUME NEW p \in Pairs, ReadLockBody(p) PROVE TypeOK'
    BY <2>24 DEF TypeOK, ReadLockBody
  <2>15. ASSUME NEW i \in Inits, CheckAbsent(i) PROVE TypeOK'
    BY <2>15 DEF TypeOK, CheckAbsent
  <2>16. ASSUME NEW i \in Inits, WriteFresh(i) PROVE TypeOK'
    BY <2>16, NothingType DEF TypeOK, WriteFresh
  <2>17. ASSUME NEW p \in Pairs, Crash(p) PROVE TypeOK'
    BY <2>17, EndsType, SpendsType DEF TypeOK, Crash
  <2>18. ASSUME NEW p \in Pairs, RestoreStore(p) PROVE TypeOK'
    BY <2>18, SpendsType DEF TypeOK, RestoreStore
  <2>19. CASE RemoveStaleLock
    BY <2>19, NothingType DEF TypeOK, RemoveStaleLock
  <2>20. CASE RemoveLiveLock
    BY <2>20, SpendsType DEF TypeOK, RemoveLiveLock
  <2>21. CASE KeepCopy
    BY <2>21 DEF TypeOK, KeepCopy
  <2>22. CASE ReplaceWitness
    BY <2>22, SpendsType, NothingType DEF TypeOK, ReplaceWitness
  <2>23. CASE UNCHANGED vars
    BY <2>23 DEF TypeOK, vars
  <2> QED
    BY <2>1, <2>2, <2>3, <2>4, <2>5, <2>6, <2>7, <2>8, <2>9, <2>10, <2>11, <2>12,
       <2>13, <2>14, <2>15, <2>16, <2>17, <2>18, <2>19, <2>20, <2>21, <2>22, <2>23, <2>24
       DEF Next, Step
<1> QED
  BY <1>1, <1>2, PTL DEF Spec
----------------------------------------------------------------------------
Mistakes == budget["mistake"]

(* A step that leaves the lock file as it is: processes may leave, none    *)
(* comes in.                                                               *)
LockStays ==
  /\ UNCHANGED <<lock, late, Mistakes>> /\ matched' \subseteq matched
  /\ \A p \in Pairs : Holds(p)' => Holds(p) /\ (p \in robbed => p \in robbed')
  /\ \A p \in Pairs : p \in matched' /\ Holds(p) => Holds(p)'
(* A process makes the lock file.                                          *)
LockTaken(p) ==
  /\ lock = NoPair /\ lock' = p /\ UNCHANGED <<matched, robbed, late, Mistakes>>
  /\ Holds(p)' /\ \A q \in Pairs : q # p => Holds(q)' = Holds(q)
(* A process unlinks the lock file, its own or another's by now, and goes. *)
LockUnlinked(p) ==
  /\ p \in matched /\ lock' = NoPair /\ matched' = matched \ {p}
  /\ robbed' = robbed \ {p} /\ UNCHANGED <<late, Mistakes>>
  /\ ~Holds(p)' /\ \A q \in Pairs : q # p => Holds(q)' = Holds(q)

(* What a process can do to the lock.                                      *)
LEMMA LockMovers ==
  ASSUME TypeOK, NEW p \in Pairs, Step(p)
  PROVE  LockStays \/ LockTaken(p) \/ LockUnlinked(p) \/ ReadLockBody(p)
<1> USE DEF files, locals, past, claims, world, Reaches, Ends, Leaves, Mistakes
<1>1. CASE ProbeLock(p)
  BY <1>1 DEF TypeOK, LockTaken, Holds, Holding, ProbeLock, Acquired
<1>2. CASE RefuseLocked(p)
  BY <1>2 DEF TypeOK, LockStays, Holds, Holding, RefuseLocked
<1>3. CASE EndProbe(p)
  <2>1. CASE Behind(p) /\ UNCHANGED lock
    BY <1>3, <2>1 DEF TypeOK, LockStays, Holds, Holding, EndProbe
  <2>2. CASE ~Behind(p) /\ UNCHANGED lock
    BY <1>3, <2>2 DEF TypeOK, LockStays, Holds, Holding, EndProbe
  <2>3. CASE Behind(p) /\ p \in matched /\ lock' = NoPair
    BY <1>3, <2>3 DEF TypeOK, LockUnlinked, Holds, Holding, EndProbe
  <2>4. CASE ~Behind(p) /\ p \in matched /\ lock' = NoPair
    BY <1>3, <2>4 DEF TypeOK, LockUnlinked, Holds, Holding, EndProbe
  <2> QED
    BY <1>3, <2>1, <2>2, <2>3, <2>4 DEF EndProbe, Released
<1>4. CASE TakeSnapshot(p)
  BY <1>4 DEF TypeOK, LockStays, Holds, Holding, TakeSnapshot
<1>5. CASE Commit(p)
  BY <1>5 DEF TypeOK, LockStays, Holds, Holding, Commit
<1>6. CASE RefuseReady(p)
  BY <1>6 DEF TypeOK, LockStays, Holds, Holding, RefuseReady
<1>7. CASE LockWitness(p)
  BY <1>7 DEF TypeOK, LockTaken, Holds, Holding, LockWitness, Acquired
<1>8. CASE LockTimeout(p)
  BY <1>8 DEF TypeOK, LockStays, Holds, Holding, LockTimeout
<1>9. CASE ReadWitness(p)
  BY <1>9 DEF TypeOK, LockStays, Holds, Holding, ReadWitness
<1>10. CASE WriteWitness(p)
  BY <1>10 DEF TypeOK, LockStays, Holds, Holding, WriteWitness
<1>11. CASE ReleaseWitness(p)
  <2>1. CASE phase[p] = "written" /\ UNCHANGED lock
    BY <1>11, <2>1 DEF TypeOK, LockStays, Holds, Holding, ReleaseWitness
  <2>2. CASE phase[p] # "written" /\ UNCHANGED lock
    BY <1>11, <2>2 DEF TypeOK, LockStays, Holds, Holding, ReleaseWitness
  <2>3. CASE phase[p] = "written" /\ p \in matched /\ lock' = NoPair
    BY <1>11, <2>3 DEF TypeOK, LockUnlinked, Holds, Holding, ReleaseWitness
  <2>4. CASE phase[p] # "written" /\ p \in matched /\ lock' = NoPair
    BY <1>11, <2>4 DEF TypeOK, LockUnlinked, Holds, Holding, ReleaseWitness
  <2> QED
    BY <1>11, <2>1, <2>2, <2>3, <2>4 DEF ReleaseWitness, Released
<1>12. CASE Show(p)
  BY <1>12 DEF TypeOK, LockStays, Holds, Holding, Show
<1>13. CASE EndQuietly(p)
  BY <1>13 DEF TypeOK, LockStays, Holds, Holding, EndQuietly
<1> QED
  BY <1>1, <1>2, <1>3, <1>4, <1>5, <1>6, <1>7, <1>8, <1>9, <1>10, <1>11, <1>12,
     <1>13 DEF Step

(* What any step can do to it.                                             *)
LEMMA LockSteps ==
  ASSUME TypeOK, [Next]_vars
  PROVE  \/ LockStays
         \/ \E p \in Pairs : LockTaken(p) \/ LockUnlinked(p) \/ ReadLockBody(p)
         \/ RemoveStaleLock \/ RemoveLiveLock
<1> USE DEF files, locals, past, claims, world, Mistakes
<1>1. ASSUME NEW p \in Pairs, ReadCounters(p) PROVE LockStays
  BY <1>1 DEF TypeOK, LockStays, Holds, Holding, Reaches, ReadCounters
<1>2. ASSUME NEW p \in Pairs, Crash(p) PROVE LockStays
  BY <1>2 DEF TypeOK, LockStays, Holds, Holding, Reaches, Ends, Leaves, Crash, Spends
<1>3. ASSUME NEW p \in Pairs, RestoreStore(p) PROVE LockStays
  BY <1>3 DEF TypeOK, LockStays, Holds, RestoreStore, Spends
<1>4. ASSUME NEW i \in Inits, CheckAbsent(i) \/ WriteFresh(i) PROVE LockStays
  BY <1>4 DEF LockStays, Holds, CheckAbsent, WriteFresh
<1>5. CASE KeepCopy
  BY <1>5 DEF LockStays, Holds, KeepCopy
<1>6. CASE ReplaceWitness
  BY <1>6 DEF TypeOK, LockStays, Holds, ReplaceWitness, Spends
<1>7. CASE UNCHANGED vars
  BY <1>7 DEF LockStays, Holds, vars
<1> QED
  BY <1>1, <1>2, <1>3, <1>4, <1>5, <1>6, <1>7, LockMovers DEF Next

(* Who has found its body in the lock file is about to leave; until the    *)
(* operator removes the lock of one of those, the body is still there, and *)
(* only those he robbed are without the lock.                              *)
GapInv ==
  /\ \A p \in matched : Holds(p)
  /\ ~late => \A p \in matched : lock = p
  /\ ~late => \A p \in Pairs : Holds(p) /\ p \notin robbed => lock = p
(* Each of his mistakes lets one process in, and an unlink of a stranger's *)
(* lock is the last thing a process does inside.                           *)
FewUnlocked ==
  IsFiniteSet(Unlocked) /\ Cardinality(Unlocked) <= MaxMistakes - Mistakes

LEMMA OneMore ==
  ASSUME NEW S, IsFiniteSet(S), NEW x, NEW T, T \subseteq S \cup {x}
  PROVE  /\ IsFiniteSet(T) /\ Cardinality(S) \in Nat /\ Cardinality(T) \in Nat
         /\ Cardinality(T) <= Cardinality(S) + 1
<1>1. IsFiniteSet(S \cup {x})
  BY FS_AddElement
<1>2. Cardinality(S) \in Nat /\ Cardinality(S \cup {x}) \in Nat
  BY <1>1, FS_CardinalityType
<1>3. Cardinality(S \cup {x}) = IF x \in S THEN Cardinality(S) ELSE Cardinality(S) + 1
  BY FS_AddElement
<1>4. Cardinality(S \cup {x}) <= Cardinality(S) + 1
  BY <1>2, <1>3
<1>5. IsFiniteSet(T) /\ Cardinality(T) <= Cardinality(S \cup {x})
  BY <1>1, FS_Subset
<1>6. Cardinality(T) \in Nat
  BY <1>5, FS_CardinalityType
<1> QED
  BY <1>2, <1>4, <1>5, <1>6

LEMMA GapStep == ASSUME TypeOK, GapInv, [Next]_vars PROVE GapInv'
<1> USE PairsAreProper DEF TypeOK, GapInv
<1>1. CASE LockStays
  <2>1. \A p \in matched' : Holds(p)'
    BY <1>1 DEF LockStays
  <2>2. ~late' => \A p \in matched' : lock' = p
    BY <1>1 DEF LockStays
  <2>3. ASSUME ~late', NEW p \in Pairs, Holds(p)', p \notin robbed' PROVE lock' = p
    BY <1>1, <2>3 DEF LockStays
  <2> QED
    BY <2>1, <2>2, <2>3
<1>2. ASSUME NEW p \in Pairs, LockTaken(p) PROVE GapInv'
  <2>1. ~late => matched = {}
    BY <1>2 DEF LockTaken
  <2>2. \A q \in matched' : Holds(q)'
    BY <1>2, <2>1 DEF LockTaken
  <2>3. ~late' => \A q \in matched' : lock' = q
    BY <1>2, <2>1 DEF LockTaken
  <2>4. ASSUME ~late', NEW q \in Pairs, Holds(q)', q \notin robbed' PROVE lock' = q
    BY <1>2, <2>4 DEF LockTaken
  <2> QED
    BY <2>2, <2>3, <2>4
<1>3. ASSUME NEW p \in Pairs, LockUnlinked(p) PROVE GapInv'
  BY <1>3 DEF LockUnlinked
<1>4. ASSUME NEW p \in Pairs, ReadLockBody(p) PROVE GapInv'
  BY <1>4 DEF ReadLockBody, Holds, Holding
<1>5. CASE RemoveStaleLock
  BY <1>5 DEF RemoveStaleLock, LeftBehind, claims, Holds
<1>6. CASE RemoveLiveLock
  BY <1>6 DEF RemoveLiveLock, Holds
<1> QED
  BY <1>1, <1>2, <1>3, <1>4, <1>5, <1>6, LockSteps

LEMMA FewStep ==
  ASSUME TypeOK, TypeOK', GapInv, FewUnlocked, [Next]_vars PROVE FewUnlocked'
<1> USE DEF Mistakes
<1>0. Mistakes \in Nat /\ Mistakes' \in Nat /\ MaxMistakes \in Nat
  BY BoundsAreNatural DEF TypeOK
<1>a. ASSUME Unlocked' \subseteq Unlocked, Mistakes' = Mistakes PROVE FewUnlocked'
  BY <1>0, <1>a, FS_Subset, FS_CardinalityType DEF FewUnlocked
<1>1. CASE LockStays
  BY <1>1, <1>a DEF LockStays, Unlocked
<1>2. ASSUME NEW p \in Pairs, LockTaken(p) PROVE FewUnlocked'
  BY <1>2, <1>a, PairsAreProper DEF LockTaken, Unlocked
<1>3. ASSUME NEW p \in Pairs, LockUnlinked(p) PROVE FewUnlocked'
  <2>1. CASE lock = p
    BY <1>3, <2>1, <1>a DEF LockUnlinked, Unlocked
  <2>2. CASE lock # p
    <3> DEFINE Rest == Unlocked \ {p}
    <3>1. p \in Unlocked
      BY <1>3, <2>2 DEF LockUnlinked, GapInv, Unlocked
    <3>2. IsFiniteSet(Rest) /\ Cardinality(Rest) = Cardinality(Unlocked) - 1
      BY <3>1, FS_RemoveElement DEF FewUnlocked
    <3>3. Unlocked' \subseteq Rest \cup {lock}
      BY <1>3 DEF LockUnlinked, Unlocked
    <3>4. /\ IsFiniteSet(Unlocked') /\ Cardinality(Rest) \in Nat
          /\ Cardinality(Unlocked') \in Nat
          /\ Cardinality(Unlocked') <= Cardinality(Rest) + 1
      BY <3>2, <3>3, OneMore
    <3>6. Cardinality(Unlocked) \in Nat
      BY FS_CardinalityType DEF FewUnlocked
    <3>7. Mistakes' = Mistakes
      BY <1>3 DEF LockUnlinked
    <3> QED
      BY <1>0, <3>2, <3>4, <3>6, <3>7 DEF FewUnlocked
  <2> QED
    BY <2>1, <2>2
<1>4. ASSUME NEW p \in Pairs, ReadLockBody(p) PROVE FewUnlocked'
  BY <1>4, <1>a DEF ReadLockBody, Unlocked, Holds, world
<1>5. CASE RemoveStaleLock
  BY <1>5, <1>a DEF RemoveStaleLock, LeftBehind, Unlocked, Holds, world
<1>6. CASE RemoveLiveLock
  <2>1. Mistakes' = Mistakes - 1
    BY <1>6 DEF RemoveLiveLock, Spends, TypeOK
  <2>2. Unlocked' \subseteq Unlocked \cup {lock}
    BY <1>6 DEF RemoveLiveLock, Unlocked, Holds
  <2>3. /\ IsFiniteSet(Unlocked') /\ Cardinality(Unlocked) \in Nat
        /\ Cardinality(Unlocked') \in Nat
        /\ Cardinality(Unlocked') <= Cardinality(Unlocked) + 1
    BY <2>2, OneMore DEF FewUnlocked
  <2> QED
    BY <1>0, <2>1, <2>3 DEF FewUnlocked
<1> QED
  BY <1>1, <1>2, <1>3, <1>4, <1>5, <1>6, LockSteps

(* A process whose lock was not removed while it ran is alone in the file  *)
(* as long as no removal fell between another's reading of the lock's body *)
(* and its unlink; and whenever they fall, never are more processes inside *)
(* without the lock than the operator made mistakes.                       *)
THEOREM OthersAlwaysLocked == Spec => []OthersStayLocked
<1>1. Init => GapInv /\ FewUnlocked
  <2> SUFFICES ASSUME Init PROVE GapInv /\ FewUnlocked
    OBVIOUS
  <2>1. GapInv
    BY DEF Init, GapInv, Holds, Holding
  <2>2. Unlocked = {}
    BY DEF Init, Unlocked, Holds, Holding
  <2> QED
    BY <2>1, <2>2, FS_EmptySet, BoundsAreNatural DEF Init, FewUnlocked, Mistakes
<1>2. TypeOK /\ TypeOK' /\ GapInv /\ FewUnlocked /\ [Next]_vars => GapInv' /\ FewUnlocked'
  BY GapStep, FewStep
<1>3. GapInv /\ FewUnlocked => OthersStayLocked
  BY DEF GapInv, FewUnlocked, OthersStayLocked, Mistakes
<1> QED
  BY <1>1, <1>2, <1>3, SharedTypeCorrect, PTL DEF Spec
----------------------------------------------------------------------------
(* Who has lost a record behind the lock now lying there cannot commit.    *)
StaleInv ==
  \A p \in Pairs :
    waited[p] > 0 => /\ waited[p] = 1 /\ LeftBehind
                     /\ phase[p] \in {"idle", "counters"}

(* A lock left behind costs each pair at most one record.                  *)
THEOREM StaleLockCostsOne == Spec => []OneLossPerStaleLock
<1>1. Init => StaleInv
  BY DEF Init, StaleInv, Nothing
<1>2. TypeOK /\ StaleInv /\ [Next]_vars => StaleInv'
  <2> SUFFICES ASSUME TypeOK, StaleInv, [Next]_vars PROVE StaleInv'
    OBVIOUS
  <2> USE PairsAreProper DEF files, locals, past, claims, world, Reaches, Ends, Leaves
  <2>1. ASSUME NEW p \in Pairs, ReadCounters(p) PROVE StaleInv'
    BY <2>1
       DEF TypeOK, StaleInv, LeftBehind,
           Holds, Holding, ReadCounters
  <2>2. ASSUME NEW p \in Pairs, ProbeLock(p) PROVE StaleInv'
    BY <2>2
       DEF TypeOK, StaleInv, LeftBehind,
           Holds, Holding, ProbeLock, Acquired
  <2>3. ASSUME NEW p \in Pairs, RefuseLocked(p) PROVE StaleInv'
    BY <2>3
       DEF TypeOK, StaleInv, LeftBehind,
           Holds, Holding, RefuseLocked
  <2>4. ASSUME NEW p \in Pairs, EndProbe(p) PROVE StaleInv'
    <3>1. CASE Behind(p)
      <4>1. CASE UNCHANGED <<lock, waited>>
        BY <2>4, <3>1, <4>1 DEF TypeOK, StaleInv, LeftBehind, Holds, Holding, EndProbe
      <4>2. CASE waited' = Nothing
        BY <4>2 DEF StaleInv, Nothing
      <4> QED
        BY <2>4, <4>1, <4>2 DEF EndProbe, Released
    <3>2. CASE ~Behind(p)
      BY <2>4, <3>2, SMTT(40) DEF TypeOK, StaleInv, LeftBehind, Holds, Holding, EndProbe, Released, Nothing
    <3> QED
      BY <3>1, <3>2
  <2>5. ASSUME NEW p \in Pairs, TakeSnapshot(p) PROVE StaleInv'
    BY <2>5, ZenonT(40)
       DEF TypeOK, StaleInv, LeftBehind,
           Holds, Holding, TakeSnapshot
  <2>6. ASSUME NEW p \in Pairs, Commit(p) PROVE StaleInv'
    BY <2>6
       DEF TypeOK, StaleInv, LeftBehind,
           Holds, Holding, Commit
  <2>7. ASSUME NEW p \in Pairs, RefuseReady(p) PROVE StaleInv'
    BY <2>7
       DEF TypeOK, StaleInv, LeftBehind,
           Holds, Holding, RefuseReady
  <2>8. ASSUME NEW p \in Pairs, LockWitness(p) PROVE StaleInv'
    BY <2>8
       DEF TypeOK, StaleInv, LeftBehind,
           Holds, Holding, LockWitness, Acquired
  <2>9. ASSUME NEW p \in Pairs, LockTimeout(p) PROVE StaleInv'
    BY <2>9
       DEF TypeOK, StaleInv, LeftBehind,
           Holds, Holding, LockTimeout
  <2>10. ASSUME NEW p \in Pairs, ReadWitness(p) PROVE StaleInv'
    BY <2>10
       DEF TypeOK, StaleInv, LeftBehind,
           Holds, Holding, ReadWitness
  <2>11. ASSUME NEW p \in Pairs, WriteWitness(p) PROVE StaleInv'
    BY <2>11
       DEF TypeOK, StaleInv, LeftBehind,
           Holds, Holding, WriteWitness
  <2>12. ASSUME NEW p \in Pairs, ReleaseWitness(p) PROVE StaleInv'
    <3>1. CASE phase[p] = "written"
      BY <2>12, <3>1, SMTT(40) DEF TypeOK, StaleInv, LeftBehind, Holds, Holding, ReleaseWitness, Released, Nothing
    <3>2. CASE phase[p] # "written"
      BY <2>12, <3>2, SMTT(40) DEF TypeOK, StaleInv, LeftBehind, Holds, Holding, ReleaseWitness, Released, Nothing
    <3> QED
      BY <3>1, <3>2
  <2>13. ASSUME NEW p \in Pairs, Show(p) PROVE StaleInv'
    BY <2>13
       DEF TypeOK, StaleInv, LeftBehind,
           Holds, Holding, Show
  <2>14. ASSUME NEW p \in Pairs, EndQuietly(p) PROVE StaleInv'
    BY <2>14
       DEF TypeOK, StaleInv, LeftBehind,
           Holds, Holding, EndQuietly
  <2>24. ASSUME NEW p \in Pairs, ReadLockBody(p) PROVE StaleInv'
    BY <2>24
       DEF TypeOK, StaleInv, LeftBehind,
           Holds, Holding, ReadLockBody
  <2>15. ASSUME NEW i \in Inits, CheckAbsent(i) PROVE StaleInv'
    BY <2>15
       DEF TypeOK, StaleInv, LeftBehind,
           Holds, Holding, CheckAbsent
  <2>16. ASSUME NEW i \in Inits, WriteFresh(i) PROVE StaleInv'
    BY <2>16
       DEF TypeOK, StaleInv, LeftBehind,
           Holds, Holding, WriteFresh
  <2>17. ASSUME NEW p \in Pairs, Crash(p) PROVE StaleInv'
    BY <2>17
       DEF TypeOK, StaleInv, LeftBehind,
           Holds, Holding, Crash
  <2>18. ASSUME NEW p \in Pairs, RestoreStore(p) PROVE StaleInv'
    BY <2>18
       DEF TypeOK, StaleInv, LeftBehind,
           Holds, Holding, RestoreStore
  <2>19. CASE RemoveStaleLock
    BY <2>19
       DEF TypeOK, StaleInv, LeftBehind,
           Holds, Holding, RemoveStaleLock, Nothing
  <2>20. CASE RemoveLiveLock
    BY <2>20
       DEF TypeOK, StaleInv, LeftBehind,
           Holds, Holding, RemoveLiveLock
  <2>21. CASE KeepCopy
    BY <2>21
       DEF TypeOK, StaleInv, LeftBehind,
           Holds, Holding, KeepCopy
  <2>22. CASE ReplaceWitness
    BY <2>22
       DEF TypeOK, StaleInv, LeftBehind,
           Holds, Holding, ReplaceWitness
  <2>23. CASE UNCHANGED vars
    BY <2>23
       DEF TypeOK, StaleInv, LeftBehind,
           Holds, Holding, vars
  <2> QED
    BY <2>1, <2>2, <2>3, <2>4, <2>5, <2>6, <2>7, <2>8, <2>9, <2>10, <2>11, <2>12,
       <2>13, <2>14, <2>15, <2>16, <2>17, <2>18, <2>19, <2>20, <2>21, <2>22, <2>23, <2>24
       DEF Next, Step
<1>3. TypeOK /\ StaleInv => OneLossPerStaleLock
  BY DEF TypeOK, StaleInv, OneLossPerStaleLock
<1> QED
  BY <1>1, <1>2, <1>3, SharedTypeCorrect, PTL DEF Spec
----------------------------------------------------------------------------
(* What is read under the lock has passed the snapshot check.              *)
ReadCoversSnapshot ==
  \A p \in Pairs : phase[p] = "read" => AtLeast(mem[p], snap[p])

(* A process never publishes a state below what it read at preflight,      *)
(* whatever replaces the file and whoever removes its lock.                *)
THEOREM KnowledgeIsKept == Spec => KnowledgeKept
<1>1. Init => ReadCoversSnapshot
  BY DEF Init, ReadCoversSnapshot
<1>2. TypeOK /\ ReadCoversSnapshot /\ [Next]_vars => ReadCoversSnapshot'
  <2> SUFFICES ASSUME TypeOK, ReadCoversSnapshot, [Next]_vars
               PROVE  ReadCoversSnapshot'
    OBVIOUS
  <2> USE DEF files, locals, past, claims, world, Reaches, Ends, Leaves
  <2>1. ASSUME NEW p \in Pairs, ReadCounters(p) PROVE ReadCoversSnapshot'
    BY <2>1 DEF TypeOK, ReadCoversSnapshot, AtLeast, ReadCounters
  <2>2. ASSUME NEW p \in Pairs, ProbeLock(p) PROVE ReadCoversSnapshot'
    BY <2>2 DEF TypeOK, ReadCoversSnapshot, AtLeast, ProbeLock
  <2>3. ASSUME NEW p \in Pairs, RefuseLocked(p) PROVE ReadCoversSnapshot'
    BY <2>3 DEF TypeOK, ReadCoversSnapshot, AtLeast, RefuseLocked
  <2>4. ASSUME NEW p \in Pairs, EndProbe(p) PROVE ReadCoversSnapshot'
    <3> SUFFICES ASSUME NEW q \in Pairs, phase'[q] = "read"
                 PROVE  /\ phase[q] = "read"
                        /\ mem'[q] = mem[q] /\ snap'[q] = snap[q]
      BY DEF ReadCoversSnapshot, AtLeast
    <3>1. CASE Behind(p)
      BY <2>4, <3>1 DEF TypeOK, EndProbe
    <3>2. CASE ~Behind(p)
      BY <2>4, <3>2 DEF TypeOK, EndProbe
    <3> QED
      BY <3>1, <3>2
  <2>5. ASSUME NEW p \in Pairs, TakeSnapshot(p) PROVE ReadCoversSnapshot'
    <3> SUFFICES ASSUME NEW q \in Pairs, phase'[q] = "read"
                 PROVE  /\ phase[q] = "read"
                        /\ mem'[q] = mem[q] /\ snap'[q] = snap[q]
      BY DEF ReadCoversSnapshot, AtLeast
    <3>1. CASE there
      BY <2>5, <3>1 DEF TypeOK, TakeSnapshot
    <3>2. CASE ~there
      BY <2>5, <3>2 DEF TypeOK, TakeSnapshot
    <3> QED
      BY <3>1, <3>2
  <2>6. ASSUME NEW p \in Pairs, Commit(p) PROVE ReadCoversSnapshot'
    BY <2>6 DEF TypeOK, ReadCoversSnapshot, AtLeast, Commit
  <2>7. ASSUME NEW p \in Pairs, RefuseReady(p) PROVE ReadCoversSnapshot'
    BY <2>7 DEF TypeOK, ReadCoversSnapshot, AtLeast, RefuseReady
  <2>8. ASSUME NEW p \in Pairs, LockWitness(p) PROVE ReadCoversSnapshot'
    BY <2>8 DEF TypeOK, ReadCoversSnapshot, AtLeast, LockWitness
  <2>9. ASSUME NEW p \in Pairs, LockTimeout(p) PROVE ReadCoversSnapshot'
    BY <2>9 DEF TypeOK, ReadCoversSnapshot, AtLeast, LockTimeout
  <2>10. ASSUME NEW p \in Pairs, ReadWitness(p) PROVE ReadCoversSnapshot'
    BY <2>10 DEF TypeOK, ReadCoversSnapshot, AtLeast, ReadWitness, Regressed
  <2>11. ASSUME NEW p \in Pairs, WriteWitness(p) PROVE ReadCoversSnapshot'
    BY <2>11 DEF TypeOK, ReadCoversSnapshot, AtLeast, WriteWitness
  <2>12. ASSUME NEW p \in Pairs, ReleaseWitness(p) PROVE ReadCoversSnapshot'
    BY <2>12, ZenonT(40) DEF TypeOK, ReadCoversSnapshot, AtLeast, ReleaseWitness
  <2>13. ASSUME NEW p \in Pairs, Show(p) PROVE ReadCoversSnapshot'
    BY <2>13 DEF TypeOK, ReadCoversSnapshot, AtLeast, Show
  <2>14. ASSUME NEW p \in Pairs, EndQuietly(p) PROVE ReadCoversSnapshot'
    BY <2>14 DEF TypeOK, ReadCoversSnapshot, AtLeast, EndQuietly
  <2>24. ASSUME NEW p \in Pairs, ReadLockBody(p) PROVE ReadCoversSnapshot'
    BY <2>24 DEF TypeOK, ReadCoversSnapshot, AtLeast, ReadLockBody
  <2>15. ASSUME NEW i \in Inits, CheckAbsent(i) PROVE ReadCoversSnapshot'
    BY <2>15 DEF TypeOK, ReadCoversSnapshot, AtLeast, CheckAbsent
  <2>16. ASSUME NEW i \in Inits, WriteFresh(i) PROVE ReadCoversSnapshot'
    BY <2>16 DEF TypeOK, ReadCoversSnapshot, AtLeast, WriteFresh
  <2>17. ASSUME NEW p \in Pairs, Crash(p) PROVE ReadCoversSnapshot'
    BY <2>17 DEF TypeOK, ReadCoversSnapshot, AtLeast, Crash
  <2>18. ASSUME NEW p \in Pairs, RestoreStore(p) PROVE ReadCoversSnapshot'
    BY <2>18 DEF TypeOK, ReadCoversSnapshot, AtLeast, RestoreStore
  <2>19. CASE RemoveStaleLock
    BY <2>19 DEF TypeOK, ReadCoversSnapshot, AtLeast, RemoveStaleLock
  <2>20. CASE RemoveLiveLock
    BY <2>20 DEF TypeOK, ReadCoversSnapshot, AtLeast, RemoveLiveLock
  <2>21. CASE KeepCopy
    BY <2>21 DEF TypeOK, ReadCoversSnapshot, AtLeast, KeepCopy
  <2>22. CASE ReplaceWitness
    BY <2>22 DEF TypeOK, ReadCoversSnapshot, AtLeast, ReplaceWitness
  <2>23. CASE UNCHANGED vars
    BY <2>23 DEF TypeOK, ReadCoversSnapshot, AtLeast, vars
  <2> QED
    BY <2>1, <2>2, <2>3, <2>4, <2>5, <2>6, <2>7, <2>8, <2>9, <2>10, <2>11, <2>12,
       <2>13, <2>14, <2>15, <2>16, <2>17, <2>18, <2>19, <2>20, <2>21, <2>22, <2>23, <2>24
       DEF Next, Step
<1>3. TypeOK /\ ReadCoversSnapshot /\ [Next]_vars
        => \A p \in Pairs : phase[p] = "read" /\ phase'[p] = "written"
             => AtLeast(entry', snap[p])
  <2> SUFFICES ASSUME TypeOK, ReadCoversSnapshot, [Next]_vars,
                      NEW r \in Pairs, phase[r] = "read", phase'[r] = "written"
               PROVE  AtLeast(entry', snap[r])
    OBVIOUS
  <2> USE DEF files, locals, past, claims, world, Reaches, Ends, Leaves
  <2>1. ASSUME NEW p \in Pairs, ReadCounters(p) PROVE AtLeast(entry', snap[r])
    BY <2>1 DEF TypeOK, ReadCoversSnapshot, AtLeast, ReadCounters
  <2>2. ASSUME NEW p \in Pairs, ProbeLock(p) PROVE AtLeast(entry', snap[r])
    BY <2>2 DEF TypeOK, ReadCoversSnapshot, AtLeast, ProbeLock
  <2>3. ASSUME NEW p \in Pairs, RefuseLocked(p) PROVE AtLeast(entry', snap[r])
    BY <2>3 DEF TypeOK, ReadCoversSnapshot, AtLeast, RefuseLocked
  <2>4. ASSUME NEW p \in Pairs, EndProbe(p) PROVE AtLeast(entry', snap[r])
    BY <2>4 DEF TypeOK, ReadCoversSnapshot, AtLeast, EndProbe
  <2>5. ASSUME NEW p \in Pairs, TakeSnapshot(p) PROVE AtLeast(entry', snap[r])
    BY <2>5 DEF TypeOK, ReadCoversSnapshot, AtLeast, TakeSnapshot
  <2>6. ASSUME NEW p \in Pairs, Commit(p) PROVE AtLeast(entry', snap[r])
    BY <2>6 DEF TypeOK, ReadCoversSnapshot, AtLeast, Commit
  <2>7. ASSUME NEW p \in Pairs, RefuseReady(p) PROVE AtLeast(entry', snap[r])
    BY <2>7 DEF TypeOK, ReadCoversSnapshot, AtLeast, RefuseReady
  <2>8. ASSUME NEW p \in Pairs, LockWitness(p) PROVE AtLeast(entry', snap[r])
    BY <2>8 DEF TypeOK, ReadCoversSnapshot, AtLeast, LockWitness
  <2>9. ASSUME NEW p \in Pairs, LockTimeout(p) PROVE AtLeast(entry', snap[r])
    BY <2>9 DEF TypeOK, ReadCoversSnapshot, AtLeast, LockTimeout
  <2>10. ASSUME NEW p \in Pairs, ReadWitness(p) PROVE AtLeast(entry', snap[r])
    BY <2>10 DEF TypeOK, ReadCoversSnapshot, AtLeast, ReadWitness
  <2>11. ASSUME NEW p \in Pairs, WriteWitness(p) PROVE AtLeast(entry', snap[r])
    BY <2>11 DEF TypeOK, ReadCoversSnapshot, AtLeast, WriteWitness, Higher
  <2>12. ASSUME NEW p \in Pairs, ReleaseWitness(p) PROVE AtLeast(entry', snap[r])
    BY <2>12 DEF TypeOK, ReadCoversSnapshot, AtLeast, ReleaseWitness
  <2>13. ASSUME NEW p \in Pairs, Show(p) PROVE AtLeast(entry', snap[r])
    BY <2>13 DEF TypeOK, ReadCoversSnapshot, AtLeast, Show
  <2>14. ASSUME NEW p \in Pairs, EndQuietly(p) PROVE AtLeast(entry', snap[r])
    BY <2>14 DEF TypeOK, ReadCoversSnapshot, AtLeast, EndQuietly
  <2>24. ASSUME NEW p \in Pairs, ReadLockBody(p) PROVE AtLeast(entry', snap[r])
    BY <2>24 DEF TypeOK, ReadCoversSnapshot, AtLeast, ReadLockBody
  <2>15. ASSUME NEW i \in Inits, CheckAbsent(i) PROVE AtLeast(entry', snap[r])
    BY <2>15 DEF TypeOK, ReadCoversSnapshot, AtLeast, CheckAbsent
  <2>16. ASSUME NEW i \in Inits, WriteFresh(i) PROVE AtLeast(entry', snap[r])
    BY <2>16 DEF TypeOK, ReadCoversSnapshot, AtLeast, WriteFresh
  <2>17. ASSUME NEW p \in Pairs, Crash(p) PROVE AtLeast(entry', snap[r])
    BY <2>17 DEF TypeOK, ReadCoversSnapshot, AtLeast, Crash
  <2>18. ASSUME NEW p \in Pairs, RestoreStore(p) PROVE AtLeast(entry', snap[r])
    BY <2>18 DEF TypeOK, ReadCoversSnapshot, AtLeast, RestoreStore
  <2>19. CASE RemoveStaleLock
    BY <2>19 DEF TypeOK, ReadCoversSnapshot, AtLeast, RemoveStaleLock
  <2>20. CASE RemoveLiveLock
    BY <2>20 DEF TypeOK, ReadCoversSnapshot, AtLeast, RemoveLiveLock
  <2>21. CASE KeepCopy
    BY <2>21 DEF TypeOK, ReadCoversSnapshot, AtLeast, KeepCopy
  <2>22. CASE ReplaceWitness
    BY <2>22 DEF TypeOK, ReadCoversSnapshot, AtLeast, ReplaceWitness
  <2>23. CASE UNCHANGED vars
    BY <2>23 DEF TypeOK, ReadCoversSnapshot, AtLeast, vars
  <2> QED
    BY <2>1, <2>2, <2>3, <2>4, <2>5, <2>6, <2>7, <2>8, <2>9, <2>10, <2>11, <2>12,
       <2>13, <2>14, <2>15, <2>16, <2>17, <2>18, <2>19, <2>20, <2>21, <2>22, <2>23, <2>24
       DEF Next, Step
<1> QED
  BY <1>1, <1>2, <1>3, SharedTypeCorrect, PTL DEF Spec, KnowledgeKept
----------------------------------------------------------------------------
(* The file is what it was meant to be: nobody puts an older one in its    *)
(* place, locks of live processes are left alone, and it is provisioned by *)
(* one run of init.                                                        *)
Undisturbed ==
  /\ MaxReplacements = 0 /\ MaxMistakes = 0
  /\ \A i, j \in Inits : i = j

Peaceful == budget["replace"] = 0 /\ budget["mistake"] = 0 /\ robbed = {} /\ ~late
(* Before init nothing has happened.                                       *)
NothingYet ==
  /\ \A i \in Inits : init[i] = "absent" => ~there
  /\ ~there => \A p \in Pairs :
                 /\ entry[p] = 0 /\ shown[p] = 0
                 /\ phase[p] = "idle"
(* Under the lock the file stays as it was read.                           *)
ReadIsFresh == \A p \in Pairs : phase[p] = "read" => mem[p] = entry
WriteIsThere ==
  \A p \in Pairs : phase[p] \in {"written", "advanced"} => entry[p] >= store[p]

FileInv == TypeOK /\ OthersStayLocked /\ Peaceful /\ NothingYet /\ ReadIsFresh

LEMMA FileInvHolds == ASSUME Undisturbed PROVE Spec => []FileInv
<1>1. Init => Peaceful /\ NothingYet /\ ReadIsFresh
  BY DEF Undisturbed, Init, Peaceful, NothingYet, ReadIsFresh, Nothing
<1>2. ASSUME FileInv, [Next]_vars PROVE Peaceful'
  <2>1. ~RemoveLiveLock /\ ~ReplaceWitness
    BY <1>2 DEF FileInv, Peaceful, RemoveLiveLock, ReplaceWitness, Spends
  <2>2. robbed' = {} /\ ~late'
    BY <1>2, <2>1, Robbers DEF FileInv, Peaceful
  <2>3. ASSUME NEW p \in Pairs, Step(p) PROVE UNCHANGED budget
    BY <2>3 DEF Step, ProbeLock, RefuseLocked, ReadLockBody, EndProbe, TakeSnapshot, Commit,
       RefuseReady, LockWitness, LockTimeout, ReadWitness, WriteWitness,
       ReleaseWitness, Show, EndQuietly, world
  <2>4. budget'["replace"] = 0 /\ budget'["mistake"] = 0
    BY <1>2, <2>1, <2>3
       DEF FileInv, TypeOK, Peaceful, Next, ReadCounters, Crash, RestoreStore,
           CheckAbsent, WriteFresh, RemoveStaleLock, KeepCopy, Spends, vars, world
  <2> QED
    BY <2>2, <2>4 DEF Peaceful
<1>3. ASSUME FileInv, [Next]_vars PROVE NothingYet'
  <2> USE DEF files, locals, past, claims, world, Ends, Leaves, Reaches
  <2>1. ASSUME NEW p \in Pairs, ReadCounters(p) PROVE NothingYet'
    BY <1>3, <2>1 DEF TypeOK, FileInv, NothingYet, ReadCounters
  <2>2. ASSUME NEW p \in Pairs, ProbeLock(p) PROVE NothingYet'
    BY <1>3, <2>2 DEF TypeOK, FileInv, NothingYet, ProbeLock
  <2>3. ASSUME NEW p \in Pairs, RefuseLocked(p) PROVE NothingYet'
    BY <1>3, <2>3 DEF TypeOK, FileInv, NothingYet, RefuseLocked
  <2>4. ASSUME NEW p \in Pairs, EndProbe(p) PROVE NothingYet'
    BY <1>3, <2>4 DEF TypeOK, FileInv, NothingYet, EndProbe
  <2>5. ASSUME NEW p \in Pairs, TakeSnapshot(p) PROVE NothingYet'
    BY <1>3, <2>5 DEF TypeOK, FileInv, NothingYet, TakeSnapshot
  <2>6. ASSUME NEW p \in Pairs, Commit(p) PROVE NothingYet'
    BY <1>3, <2>6 DEF TypeOK, FileInv, NothingYet, Commit
  <2>7. ASSUME NEW p \in Pairs, RefuseReady(p) PROVE NothingYet'
    BY <1>3, <2>7 DEF TypeOK, FileInv, NothingYet, RefuseReady
  <2>8. ASSUME NEW p \in Pairs, LockWitness(p) PROVE NothingYet'
    BY <1>3, <2>8 DEF TypeOK, FileInv, NothingYet, LockWitness
  <2>9. ASSUME NEW p \in Pairs, LockTimeout(p) PROVE NothingYet'
    BY <1>3, <2>9 DEF TypeOK, FileInv, NothingYet, LockTimeout
  <2>10. ASSUME NEW p \in Pairs, ReadWitness(p) PROVE NothingYet'
    BY <1>3, <2>10 DEF TypeOK, FileInv, NothingYet, ReadWitness
  <2>11. ASSUME NEW p \in Pairs, WriteWitness(p) PROVE NothingYet'
    BY <1>3, <2>11 DEF TypeOK, FileInv, NothingYet, WriteWitness
  <2>12. ASSUME NEW p \in Pairs, ReleaseWitness(p) PROVE NothingYet'
    BY <1>3, <2>12 DEF TypeOK, FileInv, NothingYet, ReleaseWitness
  <2>13. ASSUME NEW p \in Pairs, Show(p) PROVE NothingYet'
    BY <1>3, <2>13 DEF TypeOK, FileInv, NothingYet, Show
  <2>14. ASSUME NEW p \in Pairs, EndQuietly(p) PROVE NothingYet'
    BY <1>3, <2>14 DEF TypeOK, FileInv, NothingYet, EndQuietly
  <2>24. ASSUME NEW p \in Pairs, ReadLockBody(p) PROVE NothingYet'
    BY <1>3, <2>24 DEF TypeOK, FileInv, NothingYet, ReadLockBody
  <2>15. ASSUME NEW i \in Inits, CheckAbsent(i) PROVE NothingYet'
    BY <1>3, <2>15 DEF TypeOK, FileInv, NothingYet, CheckAbsent
  <2>16. ASSUME NEW i \in Inits, WriteFresh(i) PROVE NothingYet'
    BY <1>3, <2>16 DEF TypeOK, FileInv, NothingYet, WriteFresh, Undisturbed
  <2>17. ASSUME NEW p \in Pairs, Crash(p) PROVE NothingYet'
    BY <1>3, <2>17 DEF TypeOK, FileInv, NothingYet, Crash
  <2>18. ASSUME NEW p \in Pairs, RestoreStore(p) PROVE NothingYet'
    BY <1>3, <2>18 DEF TypeOK, FileInv, NothingYet, RestoreStore
  <2>19. CASE RemoveStaleLock
    BY <1>3, <2>19 DEF TypeOK, FileInv, NothingYet, RemoveStaleLock
  <2>20. CASE RemoveLiveLock
    BY <1>3, <2>20 DEF TypeOK, FileInv, NothingYet, RemoveLiveLock
  <2>21. CASE KeepCopy
    BY <1>3, <2>21 DEF TypeOK, FileInv, NothingYet, KeepCopy
  <2>22. CASE ReplaceWitness
    BY <1>3, <2>22
       DEF TypeOK, FileInv, NothingYet, ReplaceWitness, Peaceful, Spends
  <2>23. CASE UNCHANGED vars
    BY <1>3, <2>23 DEF TypeOK, FileInv, NothingYet, vars
  <2> QED
    BY <1>3, <2>1, <2>2, <2>3, <2>4, <2>5, <2>6, <2>7, <2>8, <2>9, <2>10, <2>11, <2>12,
       <2>13, <2>14, <2>15, <2>16, <2>17, <2>18, <2>19, <2>20, <2>21, <2>22, <2>23, <2>24
       DEF Next, Step
<1>4. ASSUME FileInv, [Next]_vars PROVE ReadIsFresh'
  <2> USE PairsAreProper DEF files, locals, past, claims, world, Ends, Leaves, Reaches
  <2>1. ASSUME NEW p \in Pairs, ReadCounters(p) PROVE ReadIsFresh'
    BY <1>4, <2>1 DEF TypeOK, FileInv, ReadIsFresh, ReadCounters
  <2>2. ASSUME NEW p \in Pairs, ProbeLock(p) PROVE ReadIsFresh'
    BY <1>4, <2>2 DEF TypeOK, FileInv, ReadIsFresh, ProbeLock
  <2>3. ASSUME NEW p \in Pairs, RefuseLocked(p) PROVE ReadIsFresh'
    BY <1>4, <2>3 DEF TypeOK, FileInv, ReadIsFresh, RefuseLocked
  <2>4. ASSUME NEW p \in Pairs, EndProbe(p) PROVE ReadIsFresh'
    BY <1>4, <2>4 DEF TypeOK, FileInv, ReadIsFresh, EndProbe
  <2>5. ASSUME NEW p \in Pairs, TakeSnapshot(p) PROVE ReadIsFresh'
    BY <1>4, <2>5 DEF TypeOK, FileInv, ReadIsFresh, TakeSnapshot
  <2>6. ASSUME NEW p \in Pairs, Commit(p) PROVE ReadIsFresh'
    BY <1>4, <2>6 DEF TypeOK, FileInv, ReadIsFresh, Commit
  <2>7. ASSUME NEW p \in Pairs, RefuseReady(p) PROVE ReadIsFresh'
    BY <1>4, <2>7 DEF TypeOK, FileInv, ReadIsFresh, RefuseReady
  <2>8. ASSUME NEW p \in Pairs, LockWitness(p) PROVE ReadIsFresh'
    BY <1>4, <2>8 DEF TypeOK, FileInv, ReadIsFresh, LockWitness
  <2>9. ASSUME NEW p \in Pairs, LockTimeout(p) PROVE ReadIsFresh'
    BY <1>4, <2>9 DEF TypeOK, FileInv, ReadIsFresh, LockTimeout
  <2>10. ASSUME NEW p \in Pairs, ReadWitness(p) PROVE ReadIsFresh'
    BY <1>4, <2>10 DEF TypeOK, FileInv, ReadIsFresh, ReadWitness
  <2>11. ASSUME NEW p \in Pairs, WriteWitness(p) PROVE ReadIsFresh'
    BY <1>4, <2>11
       DEF TypeOK, FileInv, ReadIsFresh, WriteWitness, OthersStayLocked,
           Holds, Holding, Peaceful
  <2>12. ASSUME NEW p \in Pairs, ReleaseWitness(p) PROVE ReadIsFresh'
    BY <1>4, <2>12 DEF TypeOK, FileInv, ReadIsFresh, ReleaseWitness
  <2>13. ASSUME NEW p \in Pairs, Show(p) PROVE ReadIsFresh'
    BY <1>4, <2>13 DEF TypeOK, FileInv, ReadIsFresh, Show
  <2>14. ASSUME NEW p \in Pairs, EndQuietly(p) PROVE ReadIsFresh'
    BY <1>4, <2>14 DEF TypeOK, FileInv, ReadIsFresh, EndQuietly
  <2>24. ASSUME NEW p \in Pairs, ReadLockBody(p) PROVE ReadIsFresh'
    BY <1>4, <2>24 DEF TypeOK, FileInv, ReadIsFresh, ReadLockBody
  <2>15. ASSUME NEW i \in Inits, CheckAbsent(i) PROVE ReadIsFresh'
    BY <1>4, <2>15 DEF TypeOK, FileInv, ReadIsFresh, CheckAbsent
  <2>16. ASSUME NEW i \in Inits, WriteFresh(i) PROVE ReadIsFresh'
    BY <1>4, <2>16 DEF TypeOK, FileInv, ReadIsFresh, WriteFresh, NothingYet
  <2>17. ASSUME NEW p \in Pairs, Crash(p) PROVE ReadIsFresh'
    BY <1>4, <2>17 DEF TypeOK, FileInv, ReadIsFresh, Crash
  <2>18. ASSUME NEW p \in Pairs, RestoreStore(p) PROVE ReadIsFresh'
    BY <1>4, <2>18 DEF TypeOK, FileInv, ReadIsFresh, RestoreStore
  <2>19. CASE RemoveStaleLock
    BY <1>4, <2>19 DEF TypeOK, FileInv, ReadIsFresh, RemoveStaleLock
  <2>20. CASE RemoveLiveLock
    BY <1>4, <2>20 DEF TypeOK, FileInv, ReadIsFresh, RemoveLiveLock
  <2>21. CASE KeepCopy
    BY <1>4, <2>21 DEF TypeOK, FileInv, ReadIsFresh, KeepCopy
  <2>22. CASE ReplaceWitness
    BY <1>4, <2>22
       DEF TypeOK, FileInv, ReadIsFresh, ReplaceWitness, Peaceful, Spends
  <2>23. CASE UNCHANGED vars
    BY <1>4, <2>23 DEF TypeOK, FileInv, ReadIsFresh, vars
  <2> QED
    BY <1>4, <2>1, <2>2, <2>3, <2>4, <2>5, <2>6, <2>7, <2>8, <2>9, <2>10, <2>11, <2>12,
       <2>13, <2>14, <2>15, <2>16, <2>17, <2>18, <2>19, <2>20, <2>21, <2>22, <2>23, <2>24
       DEF Next, Step
<1> QED
  BY <1>1, <1>2, <1>3, <1>4, SharedTypeCorrect, OthersAlwaysLocked, PTL
     DEF Spec, FileInv

LEMMA EntriesKept ==
  ASSUME FileInv, [Next]_vars PROVE AtLeast(entry', entry)
<1>1. ASSUME NEW p \in Pairs, WriteWitness(p) PROVE AtLeast(entry', entry)
  BY <1>1 DEF FileInv, TypeOK, ReadIsFresh, WriteWitness, AtLeast, Higher
<1>2. ASSUME NEW i \in Inits, WriteFresh(i) PROVE AtLeast(entry', entry)
  BY <1>2 DEF FileInv, NothingYet, WriteFresh, AtLeast, Nothing
<1>3. ~ReplaceWitness
  BY DEF FileInv, Peaceful, ReplaceWitness, Spends
<1>4. CASE UNCHANGED <<there, entry>>
  BY <1>4 DEF FileInv, TypeOK, AtLeast
<1> QED
  BY <1>1, <1>2, <1>3, <1>4, EntryWriters

(* The lost update cannot happen: while the file is undisturbed, no step   *)
(* of any pair lowers any pair's entry.                                    *)
THEOREM NoLostUpdate == ASSUME Undisturbed PROVE Spec => EntriesNeverFall
<1>1. FileInv /\ [Next]_vars => AtLeast(entry', entry)
  BY EntriesKept
<1> QED
  BY <1>1, FileInvHolds, PTL DEF Spec, EntriesNeverFall
----------------------------------------------------------------------------
(* A verb past its preflight is at or above everything shown, and above it *)
(* once it has committed.                                                  *)
OutputIsFresh ==
  \A p \in Pairs :
    /\ phase[p] \in {"counters", "probing"} => seen[p] >= shown[p]
    /\ phase[p] \in {"probed", "ready"} => store[p] >= shown[p]
    /\ phase[p] \in {"committed", "locked", "read", "written", "advanced"}
         => store[p] > shown[p]

ShownInv ==
  ShownIsWitnessed /\ WriteIsThere /\ OutputIsFresh /\ NothingShownTwice

(* Restoring a store never leads to an output at a position used before,   *)
(* and what was shown is in the witness, whatever the other pairs do.      *)
THEOREM SharedMaterialUsedOnce ==
  ASSUME Undisturbed
  PROVE  Spec => []NothingShownTwice /\ []ShownIsWitnessed
<1>1. Init => ShownInv
  BY DEF Init, ShownInv, ShownIsWitnessed, WriteIsThere, OutputIsFresh,
         NothingShownTwice, AtLeast, Nothing
<1>2. ASSUME FileInv, TypeOK', ShownInv, [Next]_vars
      PROVE  ShownIsWitnessed'
  <2>1. AtLeast(entry', entry)
    BY <1>2, EntriesKept
  <2>2. CASE UNCHANGED <<shown, again>>
    BY <1>2, <2>1, <2>2 DEF TypeOK, FileInv, ShownInv, ShownIsWitnessed, AtLeast
  <2>3. ASSUME NEW p \in Pairs, Show(p) PROVE ShownIsWitnessed'
    BY <1>2, <2>3
       DEF TypeOK, FileInv, ShownInv, ShownIsWitnessed, WriteIsThere, AtLeast,
           Show, Higher, files
  <2> QED
    BY <1>2, <2>2, <2>3, Showers
<1>3. ASSUME FileInv, TypeOK', ShownInv, [Next]_vars
      PROVE  WriteIsThere'
  <2>a. AtLeast(entry', entry)
    BY <1>3, EntriesKept
  <2> USE DEF files, locals, past, claims, world, Ends, Leaves, Reaches
  <2>1. ASSUME NEW p \in Pairs, ReadCounters(p) PROVE WriteIsThere'
    BY <1>3, <2>a, <2>1
       DEF TypeOK, FileInv, ShownInv, WriteIsThere, AtLeast, ReadCounters
  <2>2. ASSUME NEW p \in Pairs, ProbeLock(p) PROVE WriteIsThere'
    BY <1>3, <2>a, <2>2
       DEF TypeOK, FileInv, ShownInv, WriteIsThere, AtLeast, ProbeLock
  <2>3. ASSUME NEW p \in Pairs, RefuseLocked(p) PROVE WriteIsThere'
    BY <1>3, <2>a, <2>3
       DEF TypeOK, FileInv, ShownInv, WriteIsThere, AtLeast, RefuseLocked
  <2>4. ASSUME NEW p \in Pairs, EndProbe(p) PROVE WriteIsThere'
    BY <1>3, <2>a, <2>4
       DEF TypeOK, FileInv, ShownInv, WriteIsThere, AtLeast, EndProbe
  <2>5. ASSUME NEW p \in Pairs, TakeSnapshot(p) PROVE WriteIsThere'
    BY <1>3, <2>a, <2>5
       DEF TypeOK, FileInv, ShownInv, WriteIsThere, AtLeast, TakeSnapshot
  <2>6. ASSUME NEW p \in Pairs, Commit(p) PROVE WriteIsThere'
    BY <1>3, <2>a, <2>6
       DEF TypeOK, FileInv, ShownInv, WriteIsThere, AtLeast, Commit
  <2>7. ASSUME NEW p \in Pairs, RefuseReady(p) PROVE WriteIsThere'
    BY <1>3, <2>a, <2>7
       DEF TypeOK, FileInv, ShownInv, WriteIsThere, AtLeast, RefuseReady
  <2>8. ASSUME NEW p \in Pairs, LockWitness(p) PROVE WriteIsThere'
    BY <1>3, <2>a, <2>8
       DEF TypeOK, FileInv, ShownInv, WriteIsThere, AtLeast, LockWitness
  <2>9. ASSUME NEW p \in Pairs, LockTimeout(p) PROVE WriteIsThere'
    BY <1>3, <2>a, <2>9
       DEF TypeOK, FileInv, ShownInv, WriteIsThere, AtLeast, LockTimeout
  <2>10. ASSUME NEW p \in Pairs, ReadWitness(p) PROVE WriteIsThere'
    BY <1>3, <2>a, <2>10
       DEF TypeOK, FileInv, ShownInv, WriteIsThere, AtLeast, ReadWitness
  <2>11. ASSUME NEW p \in Pairs, WriteWitness(p) PROVE WriteIsThere'
    BY <1>3, <2>a, <2>11
       DEF TypeOK, FileInv, ShownInv, WriteIsThere, AtLeast, WriteWitness,
           Higher
  <2>12. ASSUME NEW p \in Pairs, ReleaseWitness(p) PROVE WriteIsThere'
    BY <1>3, <2>a, <2>12
       DEF TypeOK, FileInv, ShownInv, WriteIsThere, AtLeast, ReleaseWitness
  <2>13. ASSUME NEW p \in Pairs, Show(p) PROVE WriteIsThere'
    BY <1>3, <2>a, <2>13
       DEF TypeOK, FileInv, ShownInv, WriteIsThere, AtLeast, Show
  <2>14. ASSUME NEW p \in Pairs, EndQuietly(p) PROVE WriteIsThere'
    BY <1>3, <2>a, <2>14
       DEF TypeOK, FileInv, ShownInv, WriteIsThere, AtLeast, EndQuietly
  <2>24. ASSUME NEW p \in Pairs, ReadLockBody(p) PROVE WriteIsThere'
    BY <1>3, <2>a, <2>24
       DEF TypeOK, FileInv, ShownInv, WriteIsThere, AtLeast, ReadLockBody
  <2>15. ASSUME NEW i \in Inits, CheckAbsent(i) PROVE WriteIsThere'
    BY <1>3, <2>a, <2>15
       DEF TypeOK, FileInv, ShownInv, WriteIsThere, AtLeast, CheckAbsent
  <2>16. ASSUME NEW i \in Inits, WriteFresh(i) PROVE WriteIsThere'
    BY <1>3, <2>a, <2>16
       DEF TypeOK, FileInv, ShownInv, WriteIsThere, AtLeast, WriteFresh
  <2>17. ASSUME NEW p \in Pairs, Crash(p) PROVE WriteIsThere'
    BY <1>3, <2>a, <2>17
       DEF TypeOK, FileInv, ShownInv, WriteIsThere, AtLeast, Crash
  <2>18. ASSUME NEW p \in Pairs, RestoreStore(p) PROVE WriteIsThere'
    BY <1>3, <2>a, <2>18
       DEF TypeOK, FileInv, ShownInv, WriteIsThere, AtLeast, RestoreStore
  <2>19. CASE RemoveStaleLock
    BY <1>3, <2>a, <2>19
       DEF TypeOK, FileInv, ShownInv, WriteIsThere, AtLeast, RemoveStaleLock
  <2>20. CASE RemoveLiveLock
    BY <1>3, <2>a, <2>20
       DEF TypeOK, FileInv, ShownInv, WriteIsThere, AtLeast, RemoveLiveLock
  <2>21. CASE KeepCopy
    BY <1>3, <2>a, <2>21
       DEF TypeOK, FileInv, ShownInv, WriteIsThere, AtLeast, KeepCopy
  <2>22. CASE ReplaceWitness
    BY <1>3, <2>a, <2>22
       DEF TypeOK, FileInv, ShownInv, WriteIsThere, AtLeast, ReplaceWitness
  <2>23. CASE UNCHANGED vars
    BY <1>3, <2>a, <2>23
       DEF TypeOK, FileInv, ShownInv, WriteIsThere, AtLeast, vars
  <2> QED
    BY <1>3, <2>a, <2>1, <2>2, <2>3, <2>4, <2>5, <2>6, <2>7, <2>8, <2>9, <2>10, <2>11, <2>12,
       <2>13, <2>14, <2>15, <2>16, <2>17, <2>18, <2>19, <2>20, <2>21, <2>22, <2>23, <2>24
       DEF Next, Step
<1>4. ASSUME FileInv, ShownInv, [Next]_vars PROVE OutputIsFresh'
  <2> USE DEF files, locals, past, claims, world, Ends, Leaves, Reaches
  <2>1. ASSUME NEW p \in Pairs, ReadCounters(p) PROVE OutputIsFresh'
    BY <1>4, <2>1
       DEF TypeOK, FileInv, ShownInv, OutputIsFresh, ReadCounters,
           ShownIsWitnessed, AtLeast
  <2>2. ASSUME NEW p \in Pairs, ProbeLock(p) PROVE OutputIsFresh'
    BY <1>4, <2>2 DEF TypeOK, FileInv, ShownInv, OutputIsFresh, ProbeLock
  <2>3. ASSUME NEW p \in Pairs, RefuseLocked(p) PROVE OutputIsFresh'
    BY <1>4, <2>3 DEF TypeOK, FileInv, ShownInv, OutputIsFresh, RefuseLocked
  <2>4. ASSUME NEW p \in Pairs, EndProbe(p) PROVE OutputIsFresh'
    BY <1>4, <2>4 DEF TypeOK, FileInv, ShownInv, OutputIsFresh, EndProbe, Behind
  <2>5. ASSUME NEW p \in Pairs, TakeSnapshot(p) PROVE OutputIsFresh'
    BY <1>4, <2>5 DEF TypeOK, FileInv, ShownInv, OutputIsFresh, TakeSnapshot
  <2>6. ASSUME NEW p \in Pairs, Commit(p) PROVE OutputIsFresh'
    BY <1>4, <2>6 DEF TypeOK, FileInv, ShownInv, OutputIsFresh, Commit
  <2>7. ASSUME NEW p \in Pairs, RefuseReady(p) PROVE OutputIsFresh'
    BY <1>4, <2>7 DEF TypeOK, FileInv, ShownInv, OutputIsFresh, RefuseReady
  <2>8. ASSUME NEW p \in Pairs, LockWitness(p) PROVE OutputIsFresh'
    BY <1>4, <2>8 DEF TypeOK, FileInv, ShownInv, OutputIsFresh, LockWitness
  <2>9. ASSUME NEW p \in Pairs, LockTimeout(p) PROVE OutputIsFresh'
    BY <1>4, <2>9 DEF TypeOK, FileInv, ShownInv, OutputIsFresh, LockTimeout
  <2>10. ASSUME NEW p \in Pairs, ReadWitness(p) PROVE OutputIsFresh'
    BY <1>4, <2>10 DEF TypeOK, FileInv, ShownInv, OutputIsFresh, ReadWitness
  <2>11. ASSUME NEW p \in Pairs, WriteWitness(p) PROVE OutputIsFresh'
    BY <1>4, <2>11 DEF TypeOK, FileInv, ShownInv, OutputIsFresh, WriteWitness
  <2>12. ASSUME NEW p \in Pairs, ReleaseWitness(p) PROVE OutputIsFresh'
    BY <1>4, <2>12 DEF TypeOK, FileInv, ShownInv, OutputIsFresh, ReleaseWitness
  <2>13. ASSUME NEW p \in Pairs, Show(p) PROVE OutputIsFresh'
    BY <1>4, <2>13 DEF TypeOK, FileInv, ShownInv, OutputIsFresh, Show, Higher
  <2>14. ASSUME NEW p \in Pairs, EndQuietly(p) PROVE OutputIsFresh'
    BY <1>4, <2>14 DEF TypeOK, FileInv, ShownInv, OutputIsFresh, EndQuietly
  <2>24. ASSUME NEW p \in Pairs, ReadLockBody(p) PROVE OutputIsFresh'
    BY <1>4, <2>24 DEF TypeOK, FileInv, ShownInv, OutputIsFresh, ReadLockBody
  <2>15. ASSUME NEW i \in Inits, CheckAbsent(i) PROVE OutputIsFresh'
    BY <1>4, <2>15 DEF TypeOK, FileInv, ShownInv, OutputIsFresh, CheckAbsent
  <2>16. ASSUME NEW i \in Inits, WriteFresh(i) PROVE OutputIsFresh'
    BY <1>4, <2>16 DEF TypeOK, FileInv, ShownInv, OutputIsFresh, WriteFresh
  <2>17. ASSUME NEW p \in Pairs, Crash(p) PROVE OutputIsFresh'
    BY <1>4, <2>17 DEF TypeOK, FileInv, ShownInv, OutputIsFresh, Crash
  <2>18. ASSUME NEW p \in Pairs, RestoreStore(p) PROVE OutputIsFresh'
    BY <1>4, <2>18 DEF TypeOK, FileInv, ShownInv, OutputIsFresh, RestoreStore
  <2>19. CASE RemoveStaleLock
    BY <1>4, <2>19 DEF TypeOK, FileInv, ShownInv, OutputIsFresh, RemoveStaleLock
  <2>20. CASE RemoveLiveLock
    BY <1>4, <2>20 DEF TypeOK, FileInv, ShownInv, OutputIsFresh, RemoveLiveLock
  <2>21. CASE KeepCopy
    BY <1>4, <2>21 DEF TypeOK, FileInv, ShownInv, OutputIsFresh, KeepCopy
  <2>22. CASE ReplaceWitness
    BY <1>4, <2>22 DEF TypeOK, FileInv, ShownInv, OutputIsFresh, ReplaceWitness
  <2>23. CASE UNCHANGED vars
    BY <1>4, <2>23 DEF TypeOK, FileInv, ShownInv, OutputIsFresh, vars
  <2> QED
    BY <1>4, <2>1, <2>2, <2>3, <2>4, <2>5, <2>6, <2>7, <2>8, <2>9, <2>10, <2>11, <2>12,
       <2>13, <2>14, <2>15, <2>16, <2>17, <2>18, <2>19, <2>20, <2>21, <2>22, <2>23, <2>24
       DEF Next, Step
<1>5. ASSUME FileInv, ShownInv, [Next]_vars PROVE NothingShownTwice'
  <2>1. CASE UNCHANGED <<shown, again>>
    BY <1>5, <2>1 DEF ShownInv, NothingShownTwice
  <2>2. ASSUME NEW p \in Pairs, Show(p) PROVE NothingShownTwice'
    BY <1>5, <2>2 DEF ShownInv, NothingShownTwice, OutputIsFresh, Show
  <2> QED
    BY <1>5, <2>1, <2>2, Showers
<1>6. ShownInv => NothingShownTwice /\ ShownIsWitnessed
  BY DEF ShownInv
<1>7. FileInv /\ FileInv' /\ ShownInv /\ [Next]_vars => ShownInv'
  BY <1>2, <1>3, <1>4, <1>5 DEF ShownInv, FileInv
<1> QED
  BY <1>1, <1>6, <1>7, FileInvHolds, PTL DEF Spec
----------------------------------------------------------------------------
Inside == {"locked", "completed", "settled", "prepared", "incremented"}
Working == Inside \ {"locked"}

CheckVerb == [at : {"locked", "completed", "settled"}, goal : {"check"}, path : StatePaths]
RaiseVerb == [at : Inside, goal : {"raise"}, path : StatePaths, to : Nat]
AdvanceVerb == [at : Inside, goal : {"advance"}, path : StatePaths, snap : Heights]
ReadyVerb == [at : {"ready", "committed"}, snap : Heights]
AdvancedVerb == [at : {"advanced"}]
VerbRecord == {Idle} \cup CheckVerb \cup RaiseVerb \cup AdvanceVerb \cup ReadyVerb
                \cup AdvancedVerb

(* Every verb and every file has the shape the code gives it, and what is  *)
(* spent of a bound does not come back.                                    *)
PlatformShape ==
  /\ counter \in Nat
  /\ stateAt \in [StatePaths -> StateFile \cup {None}]
  /\ stateLock \in [StatePaths -> TpmPairs \cup {None}]
  /\ pinned = None \/ pinned \in TrustPin
  /\ verb \in [TpmPairs -> VerbRecord]
  /\ pstore \in Heights /\ outAt \in Heights /\ granted \in Heights
  /\ backups \subseteq StateFile
  /\ left \in [{"crash", "restore", "putBack", "pin", "init", "copy", "any"} -> Nat]
  /\ left["putBack"] <= Budget["putBack"] /\ left["init"] <= Budget["init"]

(* Whoever is inside holds the lock of the file that is pinned.            *)
LocksHeld ==
  \A p \in TpmPairs : verb[p].at \in Inside =>
    stateLock[verb[p].path] = p /\ pinned = [auth |-> Home, path |-> verb[p].path]

(* The state files of Home there are, kept ones too.                       *)
HomeRecords ==
  {s \in backups \cup {stateAt[f] : f \in StatePaths} : s \in StateFile /\ s.auth = Home}

(* Only what is pinned may be ahead of the TPM, by one.                    *)
NoneAhead ==
  /\ \A s \in backups : s.auth = Home => s.anchor <= counter
  /\ \A f \in StatePaths : stateAt[f] \in StateFile /\ stateAt[f].auth = Home =>
       /\ stateAt[f].anchor <= counter + 1
       /\ stateAt[f].anchor <= counter \/ (pinned # None /\ pinned.path = f)

(* An anchor has one content.                                              *)
AnchorsAreUnique == \A s, t \in HomeRecords : s.anchor = t.anchor => s = t

(* What a verb works on is the newest there is.                            *)
WorksOnNewest ==
  \A p \in TpmPairs : verb[p].at \in Working =>
    /\ stateAt[verb[p].path] \in StateFile /\ stateAt[verb[p].path].auth = Home
    /\ \A s \in HomeRecords : s.anchor <= stateAt[verb[p].path].anchor
    /\ verb[p].at = "settled" => stateAt[verb[p].path].anchor <= counter

(* A file the TPM does not refute knows every output, made or about to be  *)
(* made, and every level granted; so does one a verb works on, whatever    *)
(* init does to the counter meanwhile.                                     *)
Knows(s) ==
  \A p \in TpmPairs :
    /\ s.pos[p] >= outAt[p] /\ s.level[p] >= granted[p]
    /\ verb[p].at = "advanced" => s.pos[p] >= pstore[p]
LiveFilesKnow ==
  /\ \A s \in HomeRecords : s.anchor >= counter => Knows(s)
  /\ \A p \in TpmPairs : verb[p].at \in Working => Knows(stateAt[verb[p].path])
PreparedSays ==
  \A p \in TpmPairs : verb[p].at \in {"prepared", "incremented"} =>
    /\ verb[p].goal = "advance" => stateAt[verb[p].path].pos[p] >= pstore[p]
    /\ verb[p].goal = "raise" => stateAt[verb[p].path].level[p] = verb[p].to

(* What a verb commits is above every output of its pair.                  *)
CommitsFresh ==
  \A p \in TpmPairs :
    /\ verb[p].at = "ready" => pstore[p] >= outAt[p]
    /\ verb[p].at \in {"committed", "advanced"} => pstore[p] > outAt[p]
    /\ verb[p].at \in Inside /\ verb[p].goal = "advance" => pstore[p] > outAt[p]

KnowledgeInv ==
  /\ LocksHeld /\ NoneAhead /\ AnchorsAreUnique /\ WorksOnNewest /\ LiveFilesKnow
  /\ PreparedSays /\ CommitsFresh /\ PlatformUsedOnce

(* What is true as long as no file was put back and init did not run: one  *)
(* file, one process on it at a time, one step ahead at the most.          *)
UndisturbedInv ==
  left["putBack"] = Budget["putBack"] /\ left["init"] = Budget["init"] =>
    /\ \A f \in StatePaths : f # FirstPath => stateAt[f] = None
    /\ pinned # None => pinned.path = FirstPath
    /\ \A p \in TpmPairs : verb[p].at \in Inside =>
         verb[p].path = FirstPath /\ stateLock[FirstPath] = p
    /\ stateAt[FirstPath] \in StateFile /\ Consistent(stateAt[FirstPath])
    /\ \A p \in TpmPairs : verb[p].at \in {"completed", "settled", "incremented"} =>
         Normal(stateAt[FirstPath])
    /\ \A p \in TpmPairs : verb[p].at = "prepared" => Prepared(stateAt[FirstPath])
-----------------------------------------------------------------------------
Bounds == {"crash", "restore", "putBack", "pin", "init", "copy", "any"}

LEMMA VerbParts ==
  ASSUME PlatformShape, NEW p \in TpmPairs
  PROVE  /\ verb[p] \in VerbRecord
         /\ verb[p].at \in Inside =>
              /\ verb[p] \in CheckVerb \cup RaiseVerb \cup AdvanceVerb
              /\ verb[p].path \in StatePaths
              /\ verb[p].goal \in {"check", "raise", "advance"}
              /\ verb[p].goal = "check" => verb[p] \in CheckVerb
              /\ verb[p].goal = "raise" => verb[p] \in RaiseVerb /\ verb[p].to \in Nat
              /\ verb[p].goal = "advance" => verb[p] \in AdvanceVerb
         /\ verb[p].at \in {"prepared", "incremented"} => verb[p].goal \in {"raise", "advance"}
         /\ verb[p].at \in {"ready", "committed"} => verb[p] \in ReadyVerb
<1>1. verb[p] \in VerbRecord
  BY DEF PlatformShape
<1>2. CASE verb[p] \in {Idle} \cup ReadyVerb \cup AdvancedVerb
  BY <1>1, <1>2 DEF Idle, ReadyVerb, AdvancedVerb, Inside
<1>3. CASE verb[p] \in CheckVerb
  BY <1>1, <1>3 DEF CheckVerb, Inside
<1>4. CASE verb[p] \in RaiseVerb
  BY <1>1, <1>4 DEF RaiseVerb, Inside
<1>5. CASE verb[p] \in AdvanceVerb
  BY <1>1, <1>5 DEF AdvanceVerb, Inside
<1> QED
  BY <1>1, <1>2, <1>3, <1>4, <1>5 DEF VerbRecord

(* A verb goes on under its lock.                                          *)
LEMMA GoesOn ==
  ASSUME PlatformShape, NEW p \in TpmPairs, NEW at \in Inside, Goes(p, at),
         verb[p].at \in Inside,
         verb[p].goal = "check" => at \in {"locked", "completed", "settled"}
  PROVE  /\ verb' \in [TpmPairs -> VerbRecord]
         /\ \A q \in TpmPairs : q # p => verb'[q] = verb[q]
         /\ verb'[p].at = at /\ verb'[p].path = verb[p].path /\ verb'[p].goal = verb[p].goal
         /\ verb[p].goal = "raise" => verb'[p].to = verb[p].to
<1>1. verb \in [TpmPairs -> VerbRecord]
  BY DEF PlatformShape
<1>2. verb' = [verb EXCEPT ![p] = [verb[p] EXCEPT !.at = at]]
  BY DEF Goes
<1>3. verb[p] \in CheckVerb \cup RaiseVerb \cup AdvanceVerb
  BY VerbParts
<1> DEFINE v == [verb[p] EXCEPT !.at = at]
<1>4. /\ v \in VerbRecord /\ v.at = at /\ v.path = verb[p].path /\ v.goal = verb[p].goal
      /\ verb[p].goal = "raise" => v.to = verb[p].to
  <2>1. CASE verb[p] \in CheckVerb
    BY <2>1 DEF CheckVerb, VerbRecord
  <2>2. CASE verb[p] \in RaiseVerb
    BY <2>2 DEF RaiseVerb, VerbRecord
  <2>3. CASE verb[p] \in AdvanceVerb
    BY <2>3 DEF AdvanceVerb, VerbRecord
  <2> QED
    BY <1>3, <2>1, <2>2, <2>3
<1> HIDE DEF v
<1>5. verb' = [verb EXCEPT ![p] = v]
  BY <1>2 DEF v
<1> QED
  BY <1>1, <1>4, <1>5

LEMMA BecomesVerb ==
  ASSUME PlatformShape, NEW p \in TpmPairs, NEW v \in VerbRecord,
         verb' = [verb EXCEPT ![p] = v]
  PROVE  /\ verb' \in [TpmPairs -> VerbRecord] /\ verb'[p] = v
         /\ \A q \in TpmPairs : q # p => verb'[q] = verb[q]
BY DEF PlatformShape

LEMMA IdleIsOutside == Idle \in VerbRecord /\ Idle.at = "idle"
BY DEF Idle, VerbRecord

LEMMA SpendLeft ==
  ASSUME PlatformShape, NEW b \in Bounds \ {"any"}, Spend(b)
  PROVE  /\ left' \in [Bounds -> Nat]
         /\ left'["putBack"] <= Budget["putBack"] /\ left'["init"] <= Budget["init"]
         /\ b \in {"putBack", "init"} => left'[b] # Budget[b]
         /\ \A c \in {"putBack", "init"} : left'[c] = Budget[c] => left[c] = Budget[c]
<1>1. left \in [Bounds -> Nat]
  BY DEF PlatformShape, Bounds
<1>2. /\ left[b] > 0 /\ left["any"] > 0
      /\ left' = [left EXCEPT ![b] = left[b] - 1, !["any"] = left["any"] - 1]
  BY <1>1 DEF Spend, Bounds
<1>3. left[b] - 1 \in Nat /\ left["any"] - 1 \in Nat
  BY <1>1, <1>2 DEF Bounds
<1>4. left' \in [Bounds -> Nat] /\ left'[b] = left[b] - 1
      /\ \A c \in Bounds \ {"any"} : c # b => left'[c] = left[c]
  BY <1>1, <1>2, <1>3 DEF Bounds
<1>5. \A c \in {"putBack", "init"} :
        c \in Bounds \ {"any"} /\ left[c] \in Nat /\ Budget[c] \in Nat /\ left[c] <= Budget[c]
  BY <1>1, PlatformSizes DEF PlatformShape, Bounds
<1>6. \A c \in {"putBack", "init"} : left'[c] <= Budget[c] /\ (c = b => left'[c] # Budget[c])
  BY <1>1, <1>4, <1>5
<1> QED
  BY <1>4, <1>5, <1>6

(* What goes into a state file.                                            *)
LEMMA MergedType ==
  ASSUME PlatformShape, NEW p \in TpmPairs, NEW s \in StateFile,
         verb[p].at = "settled", verb[p].goal # "check"
  PROVE  /\ [Merged(p, s) EXCEPT !.anchor = @ + 1] \in StateFile
         /\ [Merged(p, s) EXCEPT !.anchor = @ + 1].anchor = s.anchor + 1
         /\ [Merged(p, s) EXCEPT !.anchor = @ + 1].auth = s.auth
         /\ [Merged(p, s) EXCEPT !.anchor = @ + 1].pos = Merged(p, s).pos
         /\ [Merged(p, s) EXCEPT !.anchor = @ + 1].level = Merged(p, s).level
         /\ \A q \in TpmPairs : Merged(p, s).pos[q] >= s.pos[q]
         /\ \A q \in TpmPairs : q # p => Merged(p, s).level[q] = s.level[q]
         /\ verb[p].goal = "advance" => /\ Merged(p, s).pos[p] >= pstore[p]
                                        /\ Merged(p, s).level = s.level
         /\ verb[p].goal = "raise" => Merged(p, s).level[p] = verb[p].to
<1>1. /\ s.pos \in Heights /\ s.level \in Heights /\ pstore \in Heights
      /\ s.anchor \in Nat /\ s.auth \in {Home, Stranger}
  BY DEF StateFile, PlatformShape
<1>2. verb[p].goal \in {"raise", "advance"} /\ (verb[p].goal = "raise" => verb[p].to \in Nat)
  BY VerbParts DEF Inside
<1>3. CASE verb[p].goal = "advance"
  <2> DEFINE pos == [s.pos EXCEPT ![p] = HigherOf(@, pstore[p])]
  <2>1. /\ pos \in Heights /\ pos[p] >= pstore[p]
        /\ \A q \in TpmPairs : pos[q] >= s.pos[q]
    BY <1>1 DEF Heights, HigherOf
  <2>2. Merged(p, s) = [s EXCEPT !.pos = pos]
    BY <1>3 DEF Merged, StateFile
  <2> HIDE DEF pos
  <2>3. Merged(p, s) = [auth |-> s.auth, anchor |-> s.anchor, pos |-> pos, level |-> s.level]
    BY <2>2 DEF StateFile
  <2> QED
    BY <1>1, <1>3, <2>1, <2>3 DEF StateFile
<1>4. CASE verb[p].goal = "raise"
  <2> DEFINE level == [s.level EXCEPT ![p] = verb[p].to]
  <2>1. /\ level \in Heights /\ level[p] = verb[p].to
        /\ \A q \in TpmPairs : q # p => level[q] = s.level[q]
    BY <1>1, <1>2, <1>4 DEF Heights
  <2>2. Merged(p, s) = [s EXCEPT !.level = level]
    BY <1>4 DEF Merged, StateFile
  <2> HIDE DEF level
  <2>3. Merged(p, s) = [auth |-> s.auth, anchor |-> s.anchor, pos |-> s.pos, level |-> level]
    BY <2>2 DEF StateFile
  <2>4. \A q \in TpmPairs : s.pos[q] >= s.pos[q]
    BY <1>1 DEF Heights
  <2> QED
    BY <1>1, <1>4, <2>1, <2>3, <2>4 DEF StateFile
<1> QED
  BY <1>2, <1>3, <1>4
-----------------------------------------------------------------------------
(* How a step of a pair moves its verb and the locks.                      *)

Stays(p) ==
  /\ verb[p].at \in Inside /\ verb'[p].at \in Inside
  /\ verb'[p].path = verb[p].path /\ verb'[p].goal = verb[p].goal /\ UNCHANGED stateLock
  /\ verb[p].goal = "raise" => verb'[p].to = verb[p].to
ComesOut(p) == verb[p].at \in Inside /\ verb'[p].at \notin Inside /\ Frees(verb[p].path)
Enters(p) ==
  /\ verb[p].at \notin Inside /\ verb'[p].at = "locked" /\ verb'[p].path = pinned.path
  /\ Trusted /\ stateLock[pinned.path] = None
  /\ stateLock' = [stateLock EXCEPT ![pinned.path] = p]
StaysOut(p) == verb'[p].at \notin Inside /\ UNCHANGED stateLock

VerbMoves(p) ==
  /\ verb' \in [TpmPairs -> VerbRecord]
  /\ \A q \in TpmPairs : q # p => verb'[q] = verb[q]
  /\ Stays(p) \/ ComesOut(p) \/ Enters(p) \/ StaysOut(p)

LEMMA EntersMoves ==
  ASSUME PlatformShape, NEW p \in TpmPairs, NEW v \in VerbRecord, EntersAs(p, v),
         v.at = "locked", v.path = pinned.path, verb[p].at \notin Inside
  PROVE  VerbMoves(p) /\ verb'[p] = v
<1>1. verb' = [verb EXCEPT ![p] = v]
  BY DEF EntersAs
<1>2. /\ verb' \in [TpmPairs -> VerbRecord] /\ verb'[p] = v
      /\ \A q \in TpmPairs : q # p => verb'[q] = verb[q]
  BY <1>1, BecomesVerb
<1>3. Enters(p)
  BY <1>2 DEF EntersAs, Enters
<1> QED
  BY <1>2, <1>3 DEF VerbMoves

LEMMA QuitsMoves ==
  ASSUME PlatformShape, NEW p \in TpmPairs, Quits(p), verb[p].at \in Inside
  PROVE  VerbMoves(p) /\ verb'[p] = Idle
<1>1. verb' = [verb EXCEPT ![p] = Idle] /\ Frees(verb[p].path)
  BY DEF Quits
<1>2. /\ verb' \in [TpmPairs -> VerbRecord] /\ verb'[p] = Idle
      /\ \A q \in TpmPairs : q # p => verb'[q] = verb[q]
  BY <1>1, BecomesVerb, IdleIsOutside
<1>3. ComesOut(p)
  BY <1>1, <1>2, IdleIsOutside DEF ComesOut, Inside
<1> QED
  BY <1>2, <1>3 DEF VerbMoves

LEMMA GoesMoves ==
  ASSUME PlatformShape, NEW p \in TpmPairs, NEW at \in Inside, Goes(p, at),
         verb[p].at \in Inside, UNCHANGED stateLock,
         verb[p].goal = "check" => at \in {"locked", "completed", "settled"}
  PROVE  VerbMoves(p) /\ verb'[p].at = at
<1>1. Stays(p)
  BY GoesOn DEF Stays
<1> QED
  BY <1>1, GoesOn DEF VerbMoves

LEMMA OutMoves ==
  ASSUME PlatformShape, NEW p \in TpmPairs, NEW v \in VerbRecord,
         verb' = [verb EXCEPT ![p] = v], v.at \notin Inside,
         UNCHANGED stateLock \/ (verb[p].at \in Inside /\ Frees(verb[p].path))
  PROVE  VerbMoves(p) /\ verb'[p] = v
<1>1. /\ verb' \in [TpmPairs -> VerbRecord] /\ verb'[p] = v
      /\ \A q \in TpmPairs : q # p => verb'[q] = verb[q]
  BY BecomesVerb
<1>2. StaysOut(p) \/ ComesOut(p)
  BY <1>1 DEF StaysOut, ComesOut
<1> QED
  BY <1>1, <1>2 DEF VerbMoves

(* The steps of a verb, one by one.                                        *)
LEMMA BeginMoves ==
  ASSUME PlatformShape, NEW p \in TpmPairs,
         \/ BeginPreflight(p) \/ BeginAdvance(p)
         \/ \E level \in Levels[p] : BeginTransition(p, level)
  PROVE  /\ VerbMoves(p) /\ verb'[p].at = "locked"
         /\ verb'[p].goal = "advance" => verb[p].at = "committed"
         /\ UNCHANGED <<counter, stateAt, pstore, outAt, outAgain, granted, pinned, backups, left>>
<1>1. UNCHANGED <<counter, stateAt, pstore, outAt, outAgain, granted, pinned, backups, left>>
      /\ Trusted
  BY DEF BeginPreflight, BeginAdvance, BeginTransition, EntersAs, tpmFiles, outputs, outside
<1>2. pinned.path \in StatePaths
  BY <1>1 DEF Trusted, PlatformShape, TrustPin
<1>3. CASE BeginPreflight(p)
  <2> DEFINE v == [at |-> "locked", goal |-> "check", path |-> pinned.path]
  <2>1. /\ v \in VerbRecord /\ v.at = "locked" /\ v.path = pinned.path
        /\ v.goal = "check"
    BY <1>2 DEF CheckVerb, VerbRecord
  <2>2. EntersAs(p, v) /\ verb[p].at \notin Inside
    BY <1>3, IdleIsOutside DEF BeginPreflight, Inside
  <2> HIDE DEF v
  <2>3. VerbMoves(p) /\ verb'[p] = v
    BY <2>1, <2>2, EntersMoves
  <2> QED
    BY <1>1, <2>1, <2>3
<1>4. CASE \E level \in Levels[p] : BeginTransition(p, level)
  <2>1. PICK level \in Levels[p] : BeginTransition(p, level)
    BY <1>4
  <2> DEFINE v == [at |-> "locked", goal |-> "raise", path |-> pinned.path, to |-> level]
  <2>2. level \in Nat
    BY PlatformSizes DEF Withdrawn
  <2>3. /\ v \in VerbRecord /\ v.at = "locked" /\ v.path = pinned.path /\ v.goal = "raise"
    BY <1>2, <2>2 DEF RaiseVerb, VerbRecord, Inside
  <2>4. EntersAs(p, v) /\ verb[p].at \notin Inside
    BY <2>1, IdleIsOutside DEF BeginTransition, Inside
  <2> HIDE DEF v
  <2>5. VerbMoves(p) /\ verb'[p] = v
    BY <2>3, <2>4, EntersMoves
  <2> QED
    BY <1>1, <2>3, <2>5
<1>5. CASE BeginAdvance(p)
  <2> DEFINE v == [at |-> "locked", goal |-> "advance", path |-> pinned.path,
                   snap |-> verb[p].snap]
  <2>1. verb[p].at = "committed" /\ verb[p].snap \in Heights
    BY <1>5, VerbParts DEF BeginAdvance, ReadyVerb
  <2>2. /\ v \in VerbRecord /\ v.at = "locked" /\ v.path = pinned.path
    BY <1>2, <2>1 DEF AdvanceVerb, VerbRecord, Inside
  <2>3. EntersAs(p, v) /\ verb[p].at \notin Inside
    BY <1>5, <2>1 DEF BeginAdvance, Inside
  <2> HIDE DEF v
  <2>4. VerbMoves(p) /\ verb'[p] = v
    BY <2>2, <2>3, EntersMoves
  <2> QED
    BY <1>1, <2>1, <2>2, <2>4
<1> QED
  BY <1>3, <1>4, <1>5

LEMMA SettleMoves ==
  ASSUME PlatformShape, NEW p \in TpmPairs, Settle(p)
  PROVE  /\ VerbMoves(p) /\ Stays(p) /\ verb[p].at = "locked"
         /\ Readable(verb[p].path)
         /\ \/ /\ Normal(stateAt[verb[p].path])
               /\ verb'[p].at = "settled" /\ counter' = counter
            \/ /\ Prepared(stateAt[verb[p].path])
               /\ verb'[p].at = "completed" /\ counter' = counter + 1
         /\ UNCHANGED <<stateAt, pstore, outAt, outAgain, granted, pinned, backups, left>>
<1>1. /\ verb[p].at = "locked" /\ Readable(verb[p].path)
      /\ Normal(stateAt[verb[p].path]) \/ Prepared(stateAt[verb[p].path])
      /\ UNCHANGED <<stateAt, stateLock, pstore, outAt, outAgain, granted, pinned, backups, left>>
  BY DEF Settle, Consistent, outputs, outside
<1>2. CASE Normal(stateAt[verb[p].path])
  <2>1. Goes(p, "settled") /\ counter' = counter
    BY <1>2 DEF Settle
  <2>2. VerbMoves(p) /\ Stays(p) /\ verb'[p].at = "settled"
    BY <1>1, <2>1, GoesMoves, GoesOn DEF Inside, Stays
  <2> QED
    BY <1>1, <1>2, <2>1, <2>2
<1>3. CASE ~Normal(stateAt[verb[p].path])
  <2>1. Goes(p, "completed") /\ counter' = counter + 1
    BY <1>3 DEF Settle
  <2>2. VerbMoves(p) /\ Stays(p) /\ verb'[p].at = "completed"
    BY <1>1, <2>1, GoesMoves, GoesOn DEF Inside, Stays
  <2> QED
    BY <1>1, <1>3, <2>1, <2>2
<1> QED
  BY <1>2, <1>3

LEMMA PrepareMoves ==
  ASSUME PlatformShape, NEW p \in TpmPairs, Prepare(p)
  PROVE  /\ VerbMoves(p) /\ Stays(p) /\ verb[p].at = "settled" /\ verb'[p].at = "prepared"
         /\ verb[p].goal # "check" /\ WillRecord(p, stateAt[verb[p].path])
         /\ stateAt' = [stateAt EXCEPT ![verb[p].path] =
                          [Merged(p, stateAt[verb[p].path]) EXCEPT !.anchor = @ + 1]]
         /\ UNCHANGED <<counter, pstore, outAt, outAgain, granted, pinned, backups, left>>
<1>1. /\ verb[p].at = "settled" /\ verb[p].goal # "check" /\ Goes(p, "prepared")
      /\ UNCHANGED <<counter, stateLock, pstore, outAt, outAgain, granted, pinned, backups, left>>
      /\ stateAt' = [stateAt EXCEPT ![verb[p].path] =
                       [Merged(p, stateAt[verb[p].path]) EXCEPT !.anchor = @ + 1]]
      /\ WillRecord(p, stateAt[verb[p].path])
  BY DEF Prepare, outputs, outside
<1>2. VerbMoves(p) /\ Stays(p) /\ verb'[p].at = "prepared"
  BY <1>1, GoesMoves, GoesOn DEF Inside, Stays
<1> QED
  BY <1>1, <1>2

LEMMA IncrementMoves ==
  ASSUME PlatformShape, NEW p \in TpmPairs, Increment(p)
  PROVE  /\ VerbMoves(p) /\ Stays(p) /\ verb[p].at = "prepared" /\ verb'[p].at = "incremented"
         /\ counter' = counter + 1
         /\ UNCHANGED <<stateAt, pstore, outAt, outAgain, granted, pinned, backups, left>>
<1>1. /\ verb[p].at = "prepared" /\ Goes(p, "incremented") /\ counter' = counter + 1
      /\ UNCHANGED <<stateAt, stateLock, pstore, outAt, outAgain, granted, pinned, backups, left>>
  BY DEF Increment, outputs, outside
<1>2. verb[p].goal # "check"
  BY <1>1, VerbParts DEF Inside
<1>3. VerbMoves(p) /\ Stays(p) /\ verb'[p].at = "incremented"
  BY <1>1, <1>2, GoesMoves, GoesOn DEF Inside, Stays
<1> QED
  BY <1>1, <1>3

LEMMA CompletedMoves ==
  ASSUME PlatformShape, NEW p \in TpmPairs, Completed(p)
  PROVE  /\ VerbMoves(p) /\ verb[p].at = "completed"
         /\ \/ Stays(p) /\ verb'[p].at = "settled" /\ Normal(stateAt[verb[p].path])
            \/ verb'[p] = Idle
         /\ UNCHANGED <<counter, stateAt, pstore, outAt, outAgain, granted, pinned, backups, left>>
<1>1. /\ verb[p].at = "completed"
      /\ UNCHANGED <<counter, stateAt, pstore, outAt, outAgain, granted, pinned, backups, left>>
  BY DEF Completed, tpmFiles, outputs, outside
<1>2. CASE Normal(stateAt[verb[p].path])
  <2>1. Goes(p, "settled") /\ UNCHANGED stateLock
    BY <1>2 DEF Completed
  <2> QED
    BY <1>1, <1>2, <2>1, GoesMoves, GoesOn DEF Inside, Stays
<1>3. CASE ~Normal(stateAt[verb[p].path])
  <2>1. Quits(p)
    BY <1>3 DEF Completed
  <2> QED
    BY <1>1, <2>1, QuitsMoves DEF Inside
<1> QED
  BY <1>2, <1>3

LEMMA PassMoves ==
  ASSUME PlatformShape, NEW p \in TpmPairs, PassPreflight(p),
         stateAt[verb[p].path] \in StateFile
  PROVE  /\ VerbMoves(p) /\ verb[p].at = "settled"
         /\ \/ verb'[p] = Idle
            \/ verb'[p].at = "ready" /\ pstore[p] >= stateAt[verb[p].path].pos[p]
         /\ UNCHANGED <<counter, stateAt, pstore, outAt, outAgain, granted, pinned, backups, left>>
<1> DEFINE s == stateAt[verb[p].path]
           v == IF pstore[p] >= s.pos[p] THEN [at |-> "ready", snap |-> s.pos] ELSE Idle
<1>1. /\ verb[p].at = "settled" /\ Frees(verb[p].path) /\ verb' = [verb EXCEPT ![p] = v]
      /\ UNCHANGED <<counter, stateAt, pstore, outAt, outAgain, granted, pinned, backups, left>>
  BY DEF PassPreflight, tpmFiles, outputs, outside
<1>2. /\ v \in VerbRecord /\ v.at \notin Inside
      /\ v = Idle \/ (v.at = "ready" /\ pstore[p] >= s.pos[p])
  BY IdleIsOutside DEF StateFile, ReadyVerb, VerbRecord, Inside
<1> HIDE DEF v
<1>3. VerbMoves(p) /\ verb'[p] = v
  BY <1>1, <1>2, OutMoves DEF Inside
<1> QED
  BY <1>1, <1>2, <1>3

LEMMA NotRecordedMoves ==
  ASSUME PlatformShape, NEW p \in TpmPairs, NotRecorded(p)
  PROVE  /\ VerbMoves(p) /\ verb[p].at = "settled" /\ verb'[p] = Idle
         /\ \/ granted' = granted
            \/ /\ verb[p].goal = "raise" /\ stateAt[verb[p].path].level[p] = verb[p].to
               /\ granted' = [granted EXCEPT ![p] = HigherOf(@, verb[p].to)]
         /\ UNCHANGED <<counter, stateAt, pstore, outAt, outAgain, pinned, backups, left>>
<1>1. /\ verb[p].at = "settled" /\ Quits(p)
      /\ UNCHANGED <<counter, stateAt, pstore, outAt, outAgain, pinned, backups, left>>
  BY DEF NotRecorded, tpmFiles, outside
<1>2. VerbMoves(p) /\ verb'[p] = Idle
  BY <1>1, QuitsMoves DEF Inside
<1>3. \/ granted' = granted
      \/ /\ verb[p].goal = "raise" /\ stateAt[verb[p].path].level[p] = verb[p].to
         /\ granted' = [granted EXCEPT ![p] = HigherOf(@, verb[p].to)]
  BY DEF NotRecorded
<1> QED
  BY <1>1, <1>2, <1>3

LEMMA ReadBackMoves ==
  ASSUME PlatformShape, NEW p \in TpmPairs, ReadBack(p)
  PROVE  /\ VerbMoves(p) /\ verb[p].at = "incremented"
         /\ \/ verb'[p] = Idle /\ granted' = granted
            \/ /\ Normal(stateAt[verb[p].path]) /\ verb[p].goal = "advance"
               /\ verb'[p].at = "advanced" /\ granted' = granted
            \/ /\ Normal(stateAt[verb[p].path]) /\ verb[p].goal = "raise" /\ verb'[p] = Idle
               /\ granted' = [granted EXCEPT ![p] = HigherOf(@, verb[p].to)]
         /\ UNCHANGED <<counter, stateAt, pstore, outAt, outAgain, pinned, backups, left>>
<1>1. /\ verb[p].at = "incremented" /\ Frees(verb[p].path) /\ verb[p].at \in Inside
      /\ UNCHANGED <<counter, stateAt, pstore, outAt, outAgain, pinned, backups, left>>
  BY DEF ReadBack, tpmFiles, outside, Inside
<1>2. verb[p].goal \in {"raise", "advance"}
  BY <1>1, VerbParts
<1>3. CASE verb' = [verb EXCEPT ![p] = Idle]
  <2>1. VerbMoves(p) /\ verb'[p] = Idle
    BY <1>1, <1>3, IdleIsOutside, OutMoves DEF Inside
  <2>2. \/ granted' = granted
        \/ /\ Normal(stateAt[verb[p].path]) /\ verb[p].goal # "advance"
           /\ granted' = [granted EXCEPT ![p] = HigherOf(@, verb[p].to)]
    BY DEF ReadBack
  <2> QED
    BY <1>1, <1>2, <2>1, <2>2
<1>4. CASE /\ Normal(stateAt[verb[p].path]) /\ verb[p].goal = "advance"
           /\ verb' = [verb EXCEPT ![p] = [at |-> "advanced"]] /\ granted' = granted
  <2> DEFINE v == [at |-> "advanced"]
  <2>1. v \in VerbRecord /\ v.at = "advanced"
    BY DEF AdvancedVerb, VerbRecord
  <2> HIDE DEF v
  <2>2. verb' = [verb EXCEPT ![p] = v]
    BY <1>4 DEF v
  <2>3. VerbMoves(p) /\ verb'[p] = v
    BY <1>1, <2>1, <2>2, OutMoves DEF Inside
  <2> QED
    BY <1>1, <1>4, <2>1, <2>3
<1> QED
  BY <1>3, <1>4 DEF ReadBack

LEMMA EmitMoves ==
  ASSUME PlatformShape, NEW p \in TpmPairs, EmitOutput(p)
  PROVE  /\ VerbMoves(p) /\ verb[p].at = "advanced" /\ verb'[p] = Idle
         /\ outAgain' = IF pstore[p] > outAt[p] THEN outAgain ELSE outAgain \cup {p}
         /\ outAt' = [outAt EXCEPT ![p] = HigherOf(@, pstore[p])]
         /\ UNCHANGED <<counter, stateAt, pstore, granted, pinned, backups, left>>
<1>1. verb' = [verb EXCEPT ![p] = Idle] /\ UNCHANGED stateLock
  BY DEF EmitOutput
<1>2. VerbMoves(p) /\ verb'[p] = Idle
  BY <1>1, IdleIsOutside, OutMoves DEF Inside
<1> QED
  BY <1>2 DEF EmitOutput, tpmFiles, outside

LEMMA CommitMoves ==
  ASSUME PlatformShape, NEW p \in TpmPairs, CommitStore(p)
  PROVE  /\ VerbMoves(p) /\ verb[p].at = "ready" /\ verb'[p].at = "committed"
         /\ pstore' = [pstore EXCEPT ![p] = @ + 1]
         /\ UNCHANGED <<counter, stateAt, outAt, outAgain, granted, pinned, backups, left>>
<1>1. /\ verb[p].at = "ready" /\ verb' = [verb EXCEPT ![p] = [verb[p] EXCEPT !.at = "committed"]]
      /\ UNCHANGED stateLock
  BY DEF CommitStore, Goes
<1> DEFINE v == [verb[p] EXCEPT !.at = "committed"]
<1>2. v \in VerbRecord /\ v.at = "committed"
  BY <1>1, VerbParts DEF ReadyVerb, VerbRecord
<1> HIDE DEF v
<1>3. verb' = [verb EXCEPT ![p] = v]
  BY <1>1 DEF v
<1>4. VerbMoves(p) /\ verb'[p] = v
  BY <1>1, <1>2, <1>3, OutMoves DEF Inside
<1> QED
  BY <1>1, <1>2, <1>4 DEF CommitStore, tpmFiles, outputs, outside

(* A verb that ends here, with or without the TPM's answer.                *)
LEMMA EndMoves ==
  ASSUME PlatformShape, NEW p \in TpmPairs,
         AdvanceRefused(p) \/ Refused(p) \/ TpmFails(p) \/ ProcessDies(p)
  PROVE  /\ VerbMoves(p) /\ verb'[p] = Idle
         /\ left' = left \/ Spend("crash")
         /\ \/ counter' = counter
            \/ /\ counter' = counter + 1 /\ TpmFails(p) /\ verb[p].at \in {"prepared", "locked"}
               /\ verb[p].at = "locked" =>
                    Readable(verb[p].path) /\ Prepared(stateAt[verb[p].path])
         /\ UNCHANGED <<stateAt, pstore, outAt, outAgain, granted, pinned, backups>>
<1>1. CASE AdvanceRefused(p) \/ ProcessDies(p)
  <2>1. verb' = [verb EXCEPT ![p] = Idle] /\ UNCHANGED stateLock
    BY <1>1 DEF AdvanceRefused, ProcessDies
  <2>2. VerbMoves(p) /\ verb'[p] = Idle
    BY <2>1, IdleIsOutside, OutMoves DEF Inside
  <2> QED
    BY <1>1, <2>2 DEF AdvanceRefused, ProcessDies, tpmFiles, outputs, outside
<1>2. CASE Refused(p)
  <2>1. Quits(p) /\ verb[p].at \in Inside
    BY <1>2 DEF Refused, Inside
  <2> QED
    BY <1>2, <2>1, QuitsMoves DEF Refused, tpmFiles, outputs, outside
<1>3. CASE TpmFails(p)
  <2>1. Quits(p) /\ verb[p].at \in Inside /\ Spend("crash")
    BY <1>3 DEF TpmFails, Inside
  <2>2. /\ verb[p].at \in {"prepared", "locked"}
        /\ verb[p].at = "locked" =>
             Readable(verb[p].path) /\ Prepared(stateAt[verb[p].path])
        /\ counter' = counter \/ counter' = counter + 1
    BY <1>3 DEF TpmFails
  <2>3. UNCHANGED <<stateAt, pstore, outAt, outAgain, granted, pinned, backups>>
    BY <1>3 DEF TpmFails, outputs
  <2> QED
    BY <1>3, <2>1, <2>2, <2>3, QuitsMoves
<1> QED
  BY <1>1, <1>2, <1>3

(* A step of a pair is one of these.                                       *)
LEMMA StepKinds ==
  ASSUME NEW p \in TpmPairs, PlatformStep(p) \/ ProcessDies(p)
  PROVE  \/ BeginPreflight(p) \/ BeginAdvance(p)
         \/ \E level \in Levels[p] : BeginTransition(p, level)
         \/ Settle(p) \/ Prepare(p) \/ Increment(p) \/ Completed(p) \/ PassPreflight(p)
         \/ NotRecorded(p) \/ ReadBack(p) \/ EmitOutput(p) \/ CommitStore(p)
         \/ AdvanceRefused(p) \/ Refused(p) \/ TpmFails(p) \/ ProcessDies(p)
BY DEF PlatformStep

WorksOnFile ==
  \A p \in TpmPairs : verb[p].at \in Working => stateAt[verb[p].path] \in StateFile
ShapeInv == PlatformShape /\ WorksOnFile

LEMMA StepMoves ==
  ASSUME ShapeInv, NEW p \in TpmPairs, PlatformStep(p) \/ ProcessDies(p)
  PROVE  /\ VerbMoves(p) /\ UNCHANGED <<pinned, backups>>
         /\ left' = left \/ Spend("crash")
         /\ counter' = counter \/ counter' = counter + 1
         /\ stateAt' = stateAt \/ Prepare(p)
         /\ pstore' = pstore \/ CommitStore(p)
         /\ UNCHANGED <<outAt, outAgain>> \/ EmitOutput(p)
         /\ granted' = granted \/ NotRecorded(p) \/ ReadBack(p)
<1>1. PassPreflight(p) => stateAt[verb[p].path] \in StateFile
  BY DEF PassPreflight, ShapeInv, WorksOnFile, Working, Inside
<1>2. CASE \/ BeginPreflight(p) \/ BeginAdvance(p)
           \/ \E level \in Levels[p] : BeginTransition(p, level)
  BY <1>2, BeginMoves DEF ShapeInv
<1>3. CASE Settle(p)
  BY <1>3, SettleMoves DEF ShapeInv
<1>4. CASE Prepare(p)
  BY <1>4, PrepareMoves DEF ShapeInv
<1>5. CASE Increment(p)
  BY <1>5, IncrementMoves DEF ShapeInv
<1>6. CASE Completed(p)
  BY <1>6, CompletedMoves DEF ShapeInv
<1>7. CASE PassPreflight(p)
  BY <1>1, <1>7, PassMoves DEF ShapeInv
<1>8. CASE NotRecorded(p)
  BY <1>8, NotRecordedMoves DEF ShapeInv
<1>9. CASE ReadBack(p)
  BY <1>9, ReadBackMoves DEF ShapeInv
<1>10. CASE EmitOutput(p)
  BY <1>10, EmitMoves DEF ShapeInv
<1>11. CASE CommitStore(p)
  BY <1>11, CommitMoves DEF ShapeInv
<1>12. CASE AdvanceRefused(p) \/ Refused(p) \/ TpmFails(p) \/ ProcessDies(p)
  BY <1>12, EndMoves DEF ShapeInv
<1> QED
  BY <1>2, <1>3, <1>4, <1>5, <1>6, <1>7, <1>8, <1>9, <1>10, <1>11, <1>12, StepKinds
-----------------------------------------------------------------------------
(* The shape is kept.                                                      *)

Operator ==
  \/ \E f \in StatePaths :
       \/ InitAuthority(f) \/ PinAuthority(f) \/ RemoveStateLock(f)
       \/ BackUpState(f) \/ PutStateBack(f)
  \/ \E p \in TpmPairs : RestorePair(p)
  \/ Unpin
  \/ UNCHANGED platformVars

LEMMA NextKinds ==
  ASSUME [PlatformNext]_platformVars
  PROVE  (\E p \in TpmPairs : PlatformStep(p) \/ ProcessDies(p)) \/ Operator
BY DEF PlatformNext, Operator

LEMMA FirstStateType ==
  ASSUME NEW id \in {Home, Stranger}, NEW n \in Nat
  PROVE  /\ FirstState(id, n) \in StateFile /\ FirstState(id, n).auth = id
         /\ FirstState(id, n).anchor = n
         /\ FirstState(id, n).pos = NoPositions /\ FirstState(id, n).level = NoPositions
BY DEF FirstState, NoPositions, StateFile, Heights

(* What the operator does leaves the verbs and what they made alone.       *)
LEMMA OperatorKeeps ==
  ASSUME PlatformShape, Operator
  PROVE  /\ UNCHANGED <<verb, outAt, outAgain, granted>>
         /\ stateAt' \in [StatePaths -> StateFile \cup {None}]
         /\ \A f \in StatePaths : stateAt[f] \in StateFile => stateAt'[f] \in StateFile
         /\ \A f \in StatePaths :
              \/ stateAt'[f] = stateAt[f]
              \/ /\ stateAt[f] = None /\ stateLock[f] = None /\ left'["init"] # Budget["init"]
                 /\ stateAt'[f].auth = Stranger
              \/ /\ stateAt'[f] \in backups /\ left'["putBack"] # Budget["putBack"]
                 /\ \A p \in TpmPairs : ~InsideLock(p, f)
         /\ counter' = counter \/ (counter' = counter + 1 /\ left'["init"] # Budget["init"])
         /\ left' \in [Bounds -> Nat]
         /\ left'["putBack"] <= Budget["putBack"] /\ left'["init"] <= Budget["init"]
         /\ \A c \in {"putBack", "init"} : left'[c] = Budget[c] => left[c] = Budget[c]
<1> USE DEF PlatformShape
<1>0. /\ left \in [Bounds -> Nat] /\ counter \in Nat
      /\ left["putBack"] <= Budget["putBack"] /\ left["init"] <= Budget["init"]
  BY DEF Bounds
<1>1. ASSUME NEW f \in StatePaths, InitAuthority(f)
      PROVE  /\ counter' = counter + 1 /\ Spend("init")
             /\ UNCHANGED <<verb, outAt, outAgain, granted>>
             /\ stateAt' = [stateAt EXCEPT ![f] = FirstState(Stranger, counter + 1)]
             /\ stateAt[f] = None /\ stateLock[f] = None
  BY <1>1 DEF InitAuthority, outputs
<1>2. ASSUME NEW f \in StatePaths, PutStateBack(f)
      PROVE  /\ counter' = counter /\ Spend("putBack")
             /\ UNCHANGED <<verb, outAt, outAgain, granted>>
             /\ \E s \in backups : stateAt' = [stateAt EXCEPT ![f] = s]
             /\ \A p \in TpmPairs : ~InsideLock(p, f)
  BY <1>2 DEF PutStateBack, outputs
<1>3. CASE \E f \in StatePaths : InitAuthority(f)
  <2>1. PICK f \in StatePaths : InitAuthority(f)
    BY <1>3
  <2> DEFINE s == FirstState(Stranger, counter + 1)
  <2>2. s \in StateFile /\ s.auth = Stranger
    BY <1>0, FirstStateType
  <2> HIDE DEF s
  <2>3. stateAt' = [stateAt EXCEPT ![f] = s]
    BY <1>1, <2>1 DEF s
  <2>4. /\ left' \in [Bounds -> Nat] /\ left'["init"] # Budget["init"]
        /\ left'["putBack"] <= Budget["putBack"] /\ left'["init"] <= Budget["init"]
        /\ \A c \in {"putBack", "init"} : left'[c] = Budget[c] => left[c] = Budget[c]
    BY <1>1, <2>1, SpendLeft DEF Bounds
  <2> QED
    BY <1>1, <2>1, <2>2, <2>3, <2>4
<1>4. CASE \E f \in StatePaths : PutStateBack(f)
  <2>1. PICK f \in StatePaths : PutStateBack(f)
    BY <1>4
  <2>2. PICK s \in backups : stateAt' = [stateAt EXCEPT ![f] = s]
    BY <1>2, <2>1
  <2>3. s \in StateFile
    OBVIOUS
  <2>4. /\ left' \in [Bounds -> Nat] /\ left'["putBack"] # Budget["putBack"]
        /\ left'["putBack"] <= Budget["putBack"] /\ left'["init"] <= Budget["init"]
        /\ \A c \in {"putBack", "init"} : left'[c] = Budget[c] => left[c] = Budget[c]
    BY <1>2, <2>1, SpendLeft DEF Bounds
  <2> QED
    BY <1>2, <2>1, <2>2, <2>3, <2>4
<1>5. CASE \/ \E f \in StatePaths : PinAuthority(f) \/ RemoveStateLock(f) \/ BackUpState(f)
           \/ \E p \in TpmPairs : RestorePair(p)
           \/ Unpin \/ UNCHANGED platformVars
  <2>1. UNCHANGED <<counter, stateAt, verb, outAt, outAgain, granted>>
    BY <1>5 DEF PinAuthority, RemoveStateLock, BackUpState, RestorePair, Unpin, platformVars,
       tpmFiles, outputs, outside
  <2>2. left' = left \/ Spend("pin") \/ Spend("restore")
    BY <1>5 DEF PinAuthority, RemoveStateLock, BackUpState, RestorePair, Unpin, platformVars,
       outside
  <2>3. /\ left' \in [Bounds -> Nat]
        /\ left'["putBack"] <= Budget["putBack"] /\ left'["init"] <= Budget["init"]
        /\ \A c \in {"putBack", "init"} : left'[c] = Budget[c] => left[c] = Budget[c]
    <3>1. CASE left' = left
      BY <1>0, <3>1
    <3>2. CASE Spend("pin") \/ Spend("restore")
      BY <3>2, SpendLeft DEF Bounds
    <3> QED
      BY <2>2, <3>1, <3>2
  <2> QED
    BY <2>1, <2>3
<1> QED
  BY <1>3, <1>4, <1>5 DEF Operator

(* What the operator does to the locks, the pin, the stores and the copies.*)
LEMMA OperatorMoves ==
  ASSUME PlatformShape, Operator
  PROVE  /\ \/ stateLock' = stateLock
            \/ \E f \in StatePaths : RemoveStateLock(f) /\ UNCHANGED <<stateAt, counter, pinned>>
         /\ \/ pinned' = pinned
            \/ /\ CopiesAreSettled => AllSettled
               /\ UNCHANGED <<stateLock, stateAt, counter, backups>>
               /\ \/ pinned' = None
                  \/ \E f \in StatePaths : /\ stateAt[f] \in StateFile
                                           /\ pinned' = [auth |-> stateAt[f].auth, path |-> f]
         /\ \/ pstore' = pstore
            \/ \E p \in TpmPairs, k \in Nat : /\ verb[p] = Idle
                                              /\ pstore' = [pstore EXCEPT ![p] = k]
         /\ \/ backups' = backups
            \/ /\ CopiesAreSettled => AllSettled
               /\ UNCHANGED <<stateAt, counter, pinned>>
               /\ \E f \in StatePaths : /\ stateAt[f] \in StateFile
                                        /\ backups' = backups \cup {stateAt[f]}
<1>1. ASSUME NEW f \in StatePaths, stateAt[f] # None
      PROVE  stateAt[f] \in StateFile
  BY <1>1 DEF PlatformShape
<1>2. CASE \E f \in StatePaths : InitAuthority(f) \/ PutStateBack(f)
  BY <1>2 DEF InitAuthority, PutStateBack
<1>3. CASE \E f \in StatePaths : PinAuthority(f)
  <2>1. PICK f \in StatePaths : PinAuthority(f)
    BY <1>3
  <2> QED
    BY <1>1, <2>1 DEF PinAuthority, tpmFiles
<1>4. CASE \E f \in StatePaths : RemoveStateLock(f)
  BY <1>4 DEF RemoveStateLock, tpmFiles, outside
<1>5. CASE \E f \in StatePaths : BackUpState(f)
  <2>1. PICK f \in StatePaths : BackUpState(f)
    BY <1>5
  <2> QED
    BY <1>1, <2>1 DEF BackUpState, tpmFiles
<1>6. CASE \E p \in TpmPairs : RestorePair(p)
  <2>1. PICK p \in TpmPairs : RestorePair(p)
    BY <1>6
  <2>2. PICK k \in 0 .. MaxStore : pstore' = [pstore EXCEPT ![p] = k]
    BY <2>1 DEF RestorePair
  <2>3. k \in Nat /\ verb[p] = Idle /\ UNCHANGED <<stateLock, pinned, backups>>
    BY <2>1, PlatformSizes DEF RestorePair
  <2> QED
    BY <2>2, <2>3
<1>7. CASE Unpin
  BY <1>7 DEF Unpin, tpmFiles
<1>8. CASE UNCHANGED platformVars
  BY <1>8 DEF platformVars
<1> QED
  BY <1>2, <1>3, <1>4, <1>5, <1>6, <1>7, <1>8 DEF Operator

LEMMA ShapeOfStep ==
  ASSUME ShapeInv, NEW p \in TpmPairs, PlatformStep(p) \/ ProcessDies(p)
  PROVE  PlatformShape'
<1> USE DEF ShapeInv
<1>1. VerbMoves(p) /\ UNCHANGED <<pinned, backups>> /\ counter' \in Nat
  BY StepMoves DEF PlatformShape
<1>2. stateAt' \in [StatePaths -> StateFile \cup {None}]
  <2>1. stateAt \in [StatePaths -> StateFile \cup {None}]
    BY DEF PlatformShape
  <2>2. CASE stateAt' = stateAt
    BY <2>1, <2>2
  <2>3. CASE Prepare(p)
    <3> DEFINE s == stateAt[verb[p].path]
               new == [Merged(p, s) EXCEPT !.anchor = @ + 1]
    <3>1. /\ verb[p].at = "settled" /\ verb[p].goal # "check"
          /\ stateAt' = [stateAt EXCEPT ![verb[p].path] = new]
      BY <2>3, PrepareMoves
    <3>2. s \in StateFile /\ verb[p].path \in StatePaths
      BY <3>1, VerbParts DEF WorksOnFile, Working, Inside
    <3>3. new \in StateFile
      BY <3>1, <3>2, MergedType
    <3> HIDE DEF new
    <3> QED
      BY <2>1, <3>1, <3>2, <3>3
  <2> QED
    BY <2>2, <2>3, StepMoves
<1>3. stateLock' \in [StatePaths -> TpmPairs \cup {None}]
  <2>1. stateLock \in [StatePaths -> TpmPairs \cup {None}]
    BY DEF PlatformShape
  <2>2. \/ stateLock' = stateLock
        \/ \E f, c : c \in TpmPairs \cup {None} /\ stateLock' = [stateLock EXCEPT ![f] = c]
    BY <1>1 DEF VerbMoves, Stays, ComesOut, Enters, StaysOut, Frees
  <2> QED
    BY <2>1, <2>2
<1>4. pstore' \in Heights
  BY StepMoves, CommitMoves DEF PlatformShape, Heights
<1>5. outAt' \in Heights
  BY StepMoves, EmitMoves DEF PlatformShape, Heights, HigherOf
<1>6. granted' \in Heights
  <2>1. \/ granted' = granted
        \/ verb[p].goal = "raise" /\ verb[p].at \in Inside
             /\ granted' = [granted EXCEPT ![p] = HigherOf(@, verb[p].to)]
    BY StepMoves, NotRecordedMoves, ReadBackMoves DEF Inside
  <2>2. verb[p].goal = "raise" /\ verb[p].at \in Inside => verb[p].to \in Nat
    BY VerbParts
  <2> QED
    BY <2>1, <2>2 DEF PlatformShape, Heights, HigherOf
<1>7. /\ left' \in [Bounds -> Nat]
      /\ left'["putBack"] <= Budget["putBack"] /\ left'["init"] <= Budget["init"]
  <2>1. CASE left' = left
    BY <2>1 DEF PlatformShape, Bounds
  <2>2. CASE Spend("crash")
    BY <2>2, SpendLeft DEF Bounds
  <2> QED
    BY <2>1, <2>2, StepMoves
<1> QED
  BY <1>1, <1>2, <1>3, <1>4, <1>5, <1>6, <1>7 DEF PlatformShape, VerbMoves, Bounds

LEMMA ShapeStep ==
  ASSUME ShapeInv, [PlatformNext]_platformVars
  PROVE  ShapeInv'
<1>1. CASE Operator
  <2>1. /\ pinned' = None \/ pinned' \in TrustPin
        /\ pstore' \in Heights /\ backups' \subseteq StateFile
    BY <1>1, OperatorMoves DEF ShapeInv, PlatformShape, Heights, StateFile, TrustPin
  <2>2. stateLock' \in [StatePaths -> TpmPairs \cup {None}]
    BY <1>1, OperatorMoves DEF RemoveStateLock, Frees, ShapeInv, PlatformShape
  <2>3. /\ stateAt' \in [StatePaths -> StateFile \cup {None}] /\ counter' \in Nat
        /\ left' \in [Bounds -> Nat] /\ UNCHANGED <<verb, outAt, granted>>
        /\ left'["putBack"] <= Budget["putBack"] /\ left'["init"] <= Budget["init"]
    BY <1>1, OperatorKeeps DEF ShapeInv, PlatformShape
  <2>4. PlatformShape'
    BY <2>1, <2>2, <2>3 DEF ShapeInv, PlatformShape, Bounds
  <2>5. WorksOnFile'
    BY <1>1, <2>3, OperatorKeeps, VerbParts DEF ShapeInv, WorksOnFile, Working
  <2> QED
    BY <2>4, <2>5 DEF ShapeInv
<1>2. ASSUME NEW p \in TpmPairs, PlatformStep(p) \/ ProcessDies(p)
      PROVE  ShapeInv'
  <2>1. PlatformShape' /\ VerbMoves(p)
    BY <1>2, ShapeOfStep, StepMoves
  <2>2. ASSUME NEW f \in StatePaths, stateAt[f] \in StateFile
        PROVE  stateAt'[f] \in StateFile
    <3>1. CASE stateAt' = stateAt
      BY <2>2, <3>1
    <3>2. CASE Prepare(p)
      <4> DEFINE s == stateAt[verb[p].path]
                 new == [Merged(p, s) EXCEPT !.anchor = @ + 1]
      <4>1. /\ verb[p].at = "settled" /\ verb[p].goal # "check"
            /\ stateAt' = [stateAt EXCEPT ![verb[p].path] = new]
        BY <3>2, PrepareMoves DEF ShapeInv
      <4>2. s \in StateFile /\ verb[p].path \in StatePaths
        BY <4>1, VerbParts DEF ShapeInv, WorksOnFile, Working, Inside
      <4>3. new \in StateFile
        BY <4>1, <4>2, MergedType DEF ShapeInv
      <4> HIDE DEF new
      <4> QED
        BY <2>2, <4>1, <4>2, <4>3 DEF ShapeInv, PlatformShape
    <3> QED
      BY <1>2, <3>1, <3>2, StepMoves
  <2>3. ASSUME NEW q \in TpmPairs, verb'[q].at \in Working
        PROVE  stateAt'[verb'[q].path] \in StateFile
    <3>1. CASE q # p
      <4>1. verb'[q] = verb[q]
        BY <2>1, <3>1 DEF VerbMoves
      <4>2. verb[q].path \in StatePaths /\ stateAt[verb[q].path] \in StateFile
        BY <2>3, <4>1, VerbParts DEF ShapeInv, WorksOnFile, Working
      <4> QED
        BY <2>2, <4>1, <4>2
    <3>2. CASE q = p
      <4>1. Stays(p)
        BY <2>1, <2>3, <3>2 DEF VerbMoves, ComesOut, Enters, StaysOut, Working
      <4>2. verb[p].path \in StatePaths /\ verb'[p].path = verb[p].path
        BY <4>1, VerbParts DEF Stays, ShapeInv
      <4>3. CASE verb[p].at \in Working
        BY <2>2, <3>2, <4>2, <4>3 DEF ShapeInv, WorksOnFile
      <4>4. CASE verb[p].at = "locked"
        <5>1. Settle(p)
          BY <1>2, <2>3, <3>2, <4>1, <4>4, StepKinds, BeginMoves, PrepareMoves, IncrementMoves,
             CompletedMoves, NotRecordedMoves, ReadBackMoves, EmitMoves, CommitMoves, EndMoves,
             IdleIsOutside DEF Working, Inside, ShapeInv, PassPreflight, BeginPreflight,
             BeginAdvance, BeginTransition
        <5>2. stateAt[verb[p].path] # None
          BY <5>1 DEF Settle, Readable
        <5>3. stateAt[verb[p].path] \in StateFile
          BY <4>2, <5>2 DEF ShapeInv, PlatformShape
        <5> QED
          BY <2>2, <3>2, <4>2, <5>3
      <4> QED
        BY <4>1, <4>3, <4>4 DEF Stays, Working
    <3> QED
      BY <3>1, <3>2
  <2>4. WorksOnFile'
    BY <2>3 DEF WorksOnFile
  <2> QED
    BY <2>1, <2>4 DEF ShapeInv
<1> QED
  BY <1>1, <1>2, NextKinds

LEMMA PlatformShapeInit == PlatformInit => ShapeInv
<1> SUFFICES ASSUME PlatformInit
             PROVE  ShapeInv
  OBVIOUS
<1>1. NoPositions \in Heights
  BY DEF NoPositions, Heights
<1>2. FirstState(Home, 1) \in StateFile
  BY FirstStateType
<1>3. left \in [Bounds -> Nat] /\ left["putBack"] <= Budget["putBack"] /\ left["init"] <= Budget["init"]
  BY PlatformSizes DEF PlatformInit, Bounds
<1>4. PlatformShape
  BY <1>1, <1>2, <1>3, PlatformSizes, IdleIsOutside DEF PlatformInit, PlatformShape, Bounds,
     TrustPin
<1>5. WorksOnFile
  BY IdleIsOutside DEF PlatformInit, WorksOnFile, Working, Inside
<1> QED
  BY <1>4, <1>5 DEF ShapeInv
-----------------------------------------------------------------------------
(* One process at a time, on the file that is pinned.                      *)

LEMMA OneInside ==
  ASSUME LocksHeld, NEW p \in TpmPairs, NEW q \in TpmPairs,
         verb[p].at \in Inside, verb[q].at \in Inside
  PROVE  p = q
BY DEF LocksHeld

LEMMA NobodyInsideWhenSettled ==
  ASSUME ShapeInv, LocksHeld, AllSettled, NEW p \in TpmPairs
  PROVE  verb[p].at \notin Inside
<1> SUFFICES ASSUME verb[p].at \in Inside
             PROVE  FALSE
  OBVIOUS
<1>1. verb[p].path \in StatePaths /\ stateLock[verb[p].path] = p
  BY VerbParts DEF LocksHeld, ShapeInv
<1> QED
  BY <1>1, PlatformSizes DEF AllSettled

LEMMA LocksStep ==
  ASSUME CopiesAreSettled, ShapeInv, LocksHeld, [PlatformNext]_platformVars
  PROVE  LocksHeld'
<1>1. CASE Operator
  <2> SUFFICES ASSUME NEW p \in TpmPairs, verb[p].at \in Inside
               PROVE  /\ stateLock'[verb[p].path] = p
                      /\ pinned' = [auth |-> Home, path |-> verb[p].path]
    BY <1>1, OperatorKeeps DEF LocksHeld, ShapeInv
  <2>1. /\ stateLock[verb[p].path] = p /\ verb[p].path \in StatePaths
        /\ pinned = [auth |-> Home, path |-> verb[p].path]
    BY VerbParts DEF LocksHeld, ShapeInv
  <2>2. pinned' = pinned
    BY <1>1, OperatorMoves, NobodyInsideWhenSettled DEF ShapeInv
  <2>3. ASSUME NEW f \in StatePaths, RemoveStateLock(f)
        PROVE  stateLock'[verb[p].path] = p
    <3>1. f # verb[p].path
      BY <2>1, <2>3 DEF RemoveStateLock, InsideLock, Inside
    <3> QED
      BY <2>1, <2>3, <3>1 DEF RemoveStateLock, Frees, ShapeInv, PlatformShape
  <2> QED
    BY <1>1, <2>1, <2>2, <2>3, OperatorMoves DEF ShapeInv
<1>2. ASSUME NEW p \in TpmPairs, PlatformStep(p) \/ ProcessDies(p)
      PROVE  LocksHeld'
  <2>1. VerbMoves(p) /\ pinned' = pinned
    BY <1>2, StepMoves
  <2> SUFFICES ASSUME NEW q \in TpmPairs, verb'[q].at \in Inside
               PROVE  /\ stateLock'[verb'[q].path] = q
                      /\ pinned' = [auth |-> Home, path |-> verb'[q].path]
    BY DEF LocksHeld
  <2>2. stateLock \in [StatePaths -> TpmPairs \cup {None}]
    BY DEF ShapeInv, PlatformShape
  <2>3. CASE q # p
    <3>1. verb'[q] = verb[q] /\ verb[q].at \in Inside
      BY <2>1, <2>3 DEF VerbMoves
    <3>2. /\ stateLock[verb[q].path] = q /\ verb[q].path \in StatePaths
          /\ pinned = [auth |-> Home, path |-> verb[q].path]
      BY <3>1, VerbParts DEF LocksHeld, ShapeInv
    <3>3. verb[p].at \notin Inside
      BY <2>3, <3>1, OneInside
    <3>4. ~Enters(p)
      BY <3>2, PlatformSizes DEF Enters
    <3>5. stateLock' = stateLock
      BY <2>1, <3>3, <3>4 DEF VerbMoves, Stays, ComesOut, StaysOut
    <3> QED
      BY <2>1, <3>1, <3>2, <3>5
  <2>4. CASE q = p
    <3>1. CASE Stays(p)
      BY <2>1, <2>4, <3>1 DEF Stays, LocksHeld
    <3>2. CASE Enters(p)
      <4>1. pinned \in TrustPin /\ pinned.auth = Home
        BY <3>2 DEF Enters, Trusted, ShapeInv, PlatformShape
      <4>2. pinned = [auth |-> Home, path |-> pinned.path] /\ pinned.path \in StatePaths
        BY <4>1 DEF TrustPin
      <4> QED
        BY <2>1, <2>2, <2>4, <3>2, <4>2 DEF Enters
    <3> QED
      BY <2>1, <2>4, <3>1, <3>2 DEF VerbMoves, ComesOut, StaysOut
  <2> QED
    BY <2>3, <2>4
<1> QED
  BY <1>1, <1>2, NextKinds
-----------------------------------------------------------------------------
(* The state files there are.                                              *)

LEMMA SettledFiles ==
  ASSUME ShapeInv, NoneAhead, AllSettled, NEW f \in StatePaths,
         stateAt[f] \in StateFile, stateAt[f].auth = Home
  PROVE  stateAt[f].anchor <= counter
<1>1. /\ stateAt[f].anchor \in Nat /\ counter \in Nat
      /\ stateAt[f].anchor <= counter + 1
      /\ stateAt[f].anchor <= counter \/ (pinned # None /\ pinned.path = f)
  BY DEF NoneAhead, ShapeInv, PlatformShape, StateFile
<1>2. pinned # None /\ pinned.path = f => stateAt[f].anchor # counter + 1
  BY PlatformSizes DEF AllSettled, Prepared
<1> QED
  BY <1>1, <1>2

(* The record a preparation writes is newer than any there is.             *)
LEMMA PreparedRecord ==
  ASSUME ShapeInv, LocksHeld, WorksOnNewest, NEW p \in TpmPairs, Prepare(p)
  PROVE  \E new \in StateFile :
           /\ stateAt' = [stateAt EXCEPT ![verb[p].path] = new]
           /\ verb[p].path \in StatePaths /\ stateAt'[verb[p].path] = new
           /\ new.auth = Home /\ new.anchor <= counter + 1
           /\ \A s \in HomeRecords : s.anchor < new.anchor
           /\ HomeRecords' \subseteq HomeRecords \cup {new}
           /\ \A q \in TpmPairs :
                /\ new.pos[q] >= stateAt[verb[p].path].pos[q]
                /\ new.level[q] >= stateAt[verb[p].path].level[q]
           /\ verb[p].goal = "advance" => new.pos[p] >= pstore[p]
           /\ verb[p].goal = "raise" => new.level[p] = verb[p].to
<1> DEFINE s == stateAt[verb[p].path]
           new == [Merged(p, s) EXCEPT !.anchor = @ + 1]
<1>1. /\ verb[p].at = "settled" /\ verb[p].goal # "check" /\ WillRecord(p, s)
      /\ stateAt' = [stateAt EXCEPT ![verb[p].path] = new] /\ backups' = backups
  BY PrepareMoves DEF ShapeInv
<1>2. /\ verb[p].path \in StatePaths /\ verb[p].goal \in {"raise", "advance"}
      /\ verb[p].goal = "raise" => verb[p].to \in Nat
  BY <1>1, VerbParts DEF ShapeInv, Inside
<1>3. /\ s \in StateFile /\ s.auth = Home /\ s.anchor <= counter /\ s.anchor \in Nat
      /\ \A t \in HomeRecords : t.anchor <= s.anchor
  BY <1>1 DEF WorksOnNewest, Working, Inside, StateFile
<1>4. /\ new \in StateFile /\ new.anchor = s.anchor + 1 /\ new.auth = Home
      /\ new.pos = Merged(p, s).pos /\ new.level = Merged(p, s).level
      /\ \A q \in TpmPairs : Merged(p, s).pos[q] >= s.pos[q]
      /\ \A q \in TpmPairs : q # p => Merged(p, s).level[q] = s.level[q]
      /\ verb[p].goal = "advance" => /\ Merged(p, s).pos[p] >= pstore[p]
                                     /\ Merged(p, s).level = s.level
      /\ verb[p].goal = "raise" => Merged(p, s).level[p] = verb[p].to
  BY <1>1, <1>3, MergedType DEF ShapeInv
<1>5. \A q \in TpmPairs : s.level[q] \in Nat
  BY <1>3 DEF StateFile, Heights
<1>6. verb[p].goal = "raise" => verb[p].to >= s.level[p]
  BY <1>1, <1>2, <1>5 DEF WillRecord, AssuranceAdvanceOk, Withdrawn
<1> HIDE DEF new
<1>7. stateAt \in [StatePaths -> StateFile \cup {None}]
  BY DEF ShapeInv, PlatformShape
<1>8. HomeRecords' \subseteq HomeRecords \cup {new}
  BY <1>1, <1>2, <1>7 DEF HomeRecords
<1>9. \A t \in HomeRecords : t.anchor < new.anchor
  <2>1. \A t \in HomeRecords : t.anchor \in Nat
    BY DEF HomeRecords, StateFile
  <2> QED
    BY <1>3, <1>4, <2>1
<1>10. \A q \in TpmPairs : new.pos[q] >= s.pos[q] /\ new.level[q] >= s.level[q]
  BY <1>2, <1>4, <1>5, <1>6
<1>11. new.anchor <= counter + 1
  BY <1>3, <1>4 DEF ShapeInv, PlatformShape
<1> QED
  BY <1>1, <1>2, <1>4, <1>7, <1>8, <1>9, <1>10, <1>11

LEMMA RecordsOfOperator ==
  ASSUME ShapeInv, Operator
  PROVE  HomeRecords' \subseteq HomeRecords
<1>1. \A f \in StatePaths :
        \/ stateAt'[f] = stateAt[f] \/ stateAt'[f].auth = Stranger \/ stateAt'[f] \in backups
  BY OperatorKeeps DEF ShapeInv
<1>2. \/ backups' = backups
      \/ \E f \in StatePaths : stateAt[f] \in StateFile /\ backups' = backups \cup {stateAt[f]}
  BY OperatorMoves DEF ShapeInv
<1> QED
  BY <1>1, <1>2, PlatformSizes DEF HomeRecords

LEMMA AheadStep ==
  ASSUME CopiesAreSettled, ShapeInv, LocksHeld, WorksOnNewest, NoneAhead,
         [PlatformNext]_platformVars
  PROVE  NoneAhead'
<1>0. /\ counter \in Nat /\ stateAt \in [StatePaths -> StateFile \cup {None}]
      /\ \A s \in StateFile : s.anchor \in Nat
  BY DEF ShapeInv, PlatformShape, StateFile
<1>1. CASE Operator
  <2>1. counter' = counter \/ counter' = counter + 1
    BY <1>1, OperatorKeeps DEF ShapeInv
  <2>2. ASSUME NEW s \in backups', s.auth = Home
        PROVE  s.anchor <= counter'
    <3>1. CASE s \in backups
      BY <1>0, <2>1, <2>2, <3>1 DEF NoneAhead, ShapeInv, PlatformShape
    <3>2. CASE s \notin backups
      <4>1. /\ counter' = counter /\ AllSettled
            /\ \E f \in StatePaths : stateAt[f] \in StateFile /\ s = stateAt[f]
        BY <1>1, <2>2, <3>2, OperatorMoves DEF ShapeInv
      <4> QED
        BY <2>2, <4>1, SettledFiles
    <3> QED
      BY <3>1, <3>2
  <2>3. ASSUME NEW f \in StatePaths, stateAt'[f] \in StateFile, stateAt'[f].auth = Home
        PROVE  /\ stateAt'[f].anchor <= counter' + 1
               /\ stateAt'[f].anchor <= counter' \/ (pinned' # None /\ pinned'.path = f)
    <3>1. CASE stateAt'[f] = stateAt[f] /\ pinned' = pinned
      BY <1>0, <2>1, <2>3, <3>1 DEF NoneAhead
    <3>2. CASE stateAt'[f] = stateAt[f] /\ pinned' # pinned
      <4>1. AllSettled
        BY <1>1, <3>2, OperatorMoves DEF ShapeInv
      <4>2. stateAt[f].anchor <= counter
        BY <2>3, <3>2, <4>1, SettledFiles
      <4> QED
        BY <1>0, <2>1, <2>3, <3>2, <4>2
    <3>3. CASE stateAt'[f] \in backups
      <4>1. stateAt'[f].anchor <= counter
        BY <2>3, <3>3 DEF NoneAhead
      <4> QED
        BY <1>0, <2>1, <2>3, <4>1
    <3> QED
      BY <1>1, <2>3, <3>1, <3>2, <3>3, OperatorKeeps, PlatformSizes DEF ShapeInv
  <2> QED
    BY <2>2, <2>3 DEF NoneAhead
<1>2. ASSUME NEW p \in TpmPairs, PlatformStep(p) \/ ProcessDies(p)
      PROVE  NoneAhead'
  <2>1. /\ pinned' = pinned /\ backups' = backups
        /\ counter' = counter \/ counter' = counter + 1
    BY <1>2, StepMoves
  <2>2. ASSUME NEW s \in backups', s.auth = Home
        PROVE  s.anchor <= counter'
    <3>1. s \in backups
      BY <2>1, <2>2
    <3> QED
      BY <1>0, <2>1, <2>2, <3>1 DEF NoneAhead, ShapeInv, PlatformShape
  <2>3. ASSUME NEW f \in StatePaths, stateAt'[f] \in StateFile, stateAt'[f].auth = Home
        PROVE  /\ stateAt'[f].anchor <= counter' + 1
               /\ stateAt'[f].anchor <= counter' \/ (pinned' # None /\ pinned'.path = f)
    <3>1. CASE stateAt'[f] = stateAt[f]
      BY <1>0, <2>1, <2>3, <3>1 DEF NoneAhead
    <3>2. CASE stateAt'[f] # stateAt[f]
      <4>1. Prepare(p)
        BY <1>2, <3>2, StepMoves
      <4>2. PICK new \in StateFile :
              /\ stateAt' = [stateAt EXCEPT ![verb[p].path] = new]
              /\ new.anchor <= counter + 1
        BY <4>1, PreparedRecord
      <4>3. f = verb[p].path /\ stateAt'[f] = new
        BY <1>0, <3>2, <4>2
      <4>4. pinned = [auth |-> Home, path |-> f]
        BY <4>1, <4>3 DEF Prepare, LocksHeld, Inside
      <4>5. pinned # None
        BY <4>4, PlatformSizes DEF TrustPin
      <4> QED
        BY <1>0, <2>1, <4>2, <4>3, <4>4, <4>5
    <3> QED
      BY <3>1, <3>2
  <2> QED
    BY <2>2, <2>3 DEF NoneAhead
<1> QED
  BY <1>1, <1>2, NextKinds
LEMMA RecordsAreFiles ==
  ASSUME ShapeInv
  PROVE  /\ \A s \in HomeRecords : s \in StateFile /\ s.auth = Home /\ s.anchor \in Nat
         /\ \A f \in StatePaths : stateAt[f] \in StateFile /\ stateAt[f].auth = Home =>
              stateAt[f] \in HomeRecords
         /\ counter \in Nat
BY DEF HomeRecords, StateFile, ShapeInv, PlatformShape

LEMMA RecordsOfStep ==
  ASSUME ShapeInv, NEW p \in TpmPairs, PlatformStep(p) \/ ProcessDies(p)
  PROVE  \/ stateAt' = stateAt /\ HomeRecords' = HomeRecords
         \/ Prepare(p)
<1>1. backups' = backups /\ (stateAt' = stateAt \/ Prepare(p))
  BY StepMoves
<1> QED
  BY <1>1 DEF HomeRecords

LEMMA UniqueStep ==
  ASSUME ShapeInv, LocksHeld, WorksOnNewest, AnchorsAreUnique, [PlatformNext]_platformVars
  PROVE  AnchorsAreUnique'
<1>1. CASE HomeRecords' \subseteq HomeRecords
  BY <1>1 DEF AnchorsAreUnique
<1>2. ASSUME NEW p \in TpmPairs, Prepare(p)
      PROVE  AnchorsAreUnique'
  <2>1. PICK new \in StateFile :
          /\ \A s \in HomeRecords : s.anchor < new.anchor
          /\ HomeRecords' \subseteq HomeRecords \cup {new}
    BY <1>2, PreparedRecord
  <2>2. new.anchor \in Nat /\ \A s \in HomeRecords : s.anchor \in Nat
    BY RecordsAreFiles DEF StateFile
  <2>3. \A s \in HomeRecords : s.anchor # new.anchor
    BY <2>1, <2>2
  <2> QED
    BY <2>1, <2>3 DEF AnchorsAreUnique
<1> QED
  BY <1>1, <1>2, NextKinds, RecordsOfOperator, RecordsOfStep

(* Only these bring a verb to its work.                                    *)
LEMMA WorkMoves ==
  ASSUME ShapeInv, NEW p \in TpmPairs, PlatformStep(p) \/ ProcessDies(p),
         verb'[p].at \in Working
  PROVE  Settle(p) \/ Prepare(p) \/ Increment(p) \/ Completed(p)
<1>1. PassPreflight(p) => stateAt[verb[p].path] \in StateFile
  BY DEF PassPreflight, ShapeInv, WorksOnFile, Working, Inside
<1>2. Idle.at = "idle"
  BY DEF Idle
<1>3. PassPreflight(p) => verb'[p].at \in {"idle", "ready"}
  BY <1>1, <1>2, PassMoves DEF ShapeInv
<1>4. BeginPreflight(p) \/ BeginAdvance(p) \/ (\E level \in Levels[p] : BeginTransition(p, level))
        => verb'[p].at = "locked"
  BY BeginMoves DEF ShapeInv
<1>5. NotRecorded(p) \/ AdvanceRefused(p) \/ Refused(p) \/ TpmFails(p) \/ ProcessDies(p)
        \/ EmitOutput(p) => verb'[p].at = "idle"
  BY <1>2, NotRecordedMoves, EndMoves, EmitMoves DEF ShapeInv
<1>6. ReadBack(p) => verb'[p].at \in {"idle", "advanced"}
  BY <1>2, ReadBackMoves DEF ShapeInv
<1>7. CommitStore(p) => verb'[p].at = "committed"
  BY CommitMoves DEF ShapeInv
<1> QED
  BY <1>3, <1>4, <1>5, <1>6, <1>7, StepKinds DEF Working, Inside

LEMMA OthersKeep ==
  ASSUME ShapeInv, NEW p \in TpmPairs, PlatformStep(p) \/ ProcessDies(p),
         NEW q \in TpmPairs, q # p
  PROVE  /\ verb'[q] = verb[q] /\ pstore'[q] = pstore[q] /\ outAt'[q] = outAt[q]
         /\ granted'[q] = granted[q]
<1>1. VerbMoves(p)
  BY StepMoves
<1>2. \/ pstore' = pstore \/ pstore' = [pstore EXCEPT ![p] = @ + 1]
  BY StepMoves, CommitMoves DEF ShapeInv
<1>3. outAt' = outAt \/ outAt' = [outAt EXCEPT ![p] = HigherOf(@, pstore[p])]
  BY StepMoves, EmitMoves DEF ShapeInv
<1>4. granted' = granted \/ granted' = [granted EXCEPT ![p] = HigherOf(@, verb[p].to)]
  BY StepMoves, NotRecordedMoves, ReadBackMoves DEF ShapeInv
<1> QED
  BY <1>1, <1>2, <1>3, <1>4 DEF VerbMoves, ShapeInv, PlatformShape, Heights

LEMMA NewestStep ==
  ASSUME ShapeInv, LocksHeld, NoneAhead, WorksOnNewest, [PlatformNext]_platformVars
  PROVE  WorksOnNewest'
<1> DEFINE File(q) == stateAt[verb[q].path]
<1> USE RecordsAreFiles
<1>0. counter \in Nat /\ (counter' = counter \/ counter' = counter + 1)
  BY NextKinds, StepMoves, OperatorKeeps DEF ShapeInv, PlatformShape
<1>1. ASSUME NEW q \in TpmPairs, verb[q].at \in Working, verb'[q] = verb[q],
             stateAt'[verb[q].path] = File(q), HomeRecords' \subseteq HomeRecords
      PROVE  /\ stateAt'[verb'[q].path] \in StateFile /\ stateAt'[verb'[q].path].auth = Home
             /\ \A s \in HomeRecords' : s.anchor <= stateAt'[verb'[q].path].anchor
             /\ verb'[q].at = "settled" => stateAt'[verb'[q].path].anchor <= counter'
  <2>1. /\ File(q) \in StateFile /\ File(q).auth = Home /\ File(q).anchor \in Nat
        /\ \A s \in HomeRecords : s.anchor <= File(q).anchor
        /\ verb[q].at = "settled" => File(q).anchor <= counter
    BY <1>1 DEF WorksOnNewest, StateFile
  <2> QED
    BY <1>0, <1>1, <2>1
<1>2. CASE Operator
  <2>1. HomeRecords' \subseteq HomeRecords /\ verb' = verb
    BY <1>2, RecordsOfOperator, OperatorKeeps DEF ShapeInv
  <2>2. ASSUME NEW q \in TpmPairs, verb[q].at \in Working
        PROVE  stateAt'[verb[q].path] = File(q)
    <3>1. /\ verb[q].path \in StatePaths /\ File(q) # None /\ InsideLock(q, verb[q].path)
      BY <2>2, VerbParts, PlatformSizes DEF ShapeInv, WorksOnFile, Working, InsideLock, Inside
    <3> QED
      BY <1>2, <3>1, OperatorKeeps DEF ShapeInv
  <2> QED
    BY <1>1, <2>1, <2>2 DEF WorksOnNewest
<1>3. ASSUME NEW p \in TpmPairs, PlatformStep(p) \/ ProcessDies(p)
      PROVE  WorksOnNewest'
  <2> SUFFICES ASSUME NEW q \in TpmPairs, verb'[q].at \in Working
               PROVE  /\ stateAt'[verb'[q].path] \in StateFile /\ stateAt'[verb'[q].path].auth = Home
                      /\ \A s \in HomeRecords' : s.anchor <= stateAt'[verb'[q].path].anchor
                      /\ verb'[q].at = "settled" => stateAt'[verb'[q].path].anchor <= counter'
    BY DEF WorksOnNewest
  <2>1. CASE q # p
    <3>1. verb'[q] = verb[q] /\ verb[q].at \in Working
      BY <1>3, <2>1, OthersKeep
    <3>2. ~Prepare(p)
      BY <2>1, <3>1, OneInside DEF Prepare, Working, Inside
    <3> QED
      BY <1>1, <1>3, <3>1, <3>2, RecordsOfStep
  <2>2. CASE q = p
    <3>1. CASE Prepare(p)
      <4>1. PICK new \in StateFile :
              /\ stateAt'[verb[p].path] = new /\ new.auth = Home
              /\ \A s \in HomeRecords : s.anchor < new.anchor
              /\ HomeRecords' \subseteq HomeRecords \cup {new}
        BY <3>1, PreparedRecord
      <4>2. verb'[p].path = verb[p].path /\ verb'[p].at = "prepared"
        BY <3>1, PrepareMoves DEF ShapeInv, Stays
      <4>3. new.anchor \in Nat /\ \A s \in HomeRecords \cup {new} : s.anchor <= new.anchor
        BY <4>1 DEF StateFile
      <4> QED
        BY <2>2, <4>1, <4>2, <4>3
    <3>2. CASE Settle(p)
      <4>1. /\ Stays(p) /\ verb[p].at = "locked" /\ Readable(verb[p].path) /\ stateAt' = stateAt
            /\ \/ Normal(File(p)) /\ verb'[p].at = "settled" /\ counter' = counter
               \/ Prepared(File(p)) /\ verb'[p].at = "completed"
        BY <3>2, SettleMoves DEF ShapeInv
      <4>2. /\ verb'[p].path = verb[p].path /\ verb[p].path \in StatePaths
            /\ pinned = [auth |-> Home, path |-> verb[p].path]
        BY <4>1, VerbParts DEF Stays, LocksHeld, ShapeInv, Inside
      <4>3. File(p) \in StateFile /\ File(p).auth = Home /\ File(p).anchor \in Nat
        BY <4>1, <4>2 DEF Readable, ShapeInv, PlatformShape, StateFile
      <4>4. File(p).anchor >= counter
        BY <1>0, <4>1 DEF Normal, Prepared
      <4>5. ASSUME NEW s \in HomeRecords
            PROVE  s.anchor <= File(p).anchor
        <5>1. s.anchor <= counter \/ s = File(p)
          BY <4>2, <4>5 DEF NoneAhead, HomeRecords
        <5> QED
          BY <1>0, <4>3, <4>4, <5>1
      <4>6. HomeRecords' = HomeRecords
        BY <1>3, <3>2, <4>1, RecordsOfStep, PrepareMoves DEF ShapeInv
      <4>7. verb'[p].at = "settled" => File(p).anchor <= counter'
        BY <1>0, <4>1 DEF Normal
      <4> QED
        BY <2>2, <4>1, <4>2, <4>3, <4>5, <4>6, <4>7
    <3>3. CASE Increment(p) \/ Completed(p)
      <4>1. /\ Stays(p) /\ verb[p].at \in Working /\ stateAt' = stateAt
            /\ verb'[p].at = "settled" => Normal(File(p)) /\ counter' = counter
        BY <2>2, <3>3, IncrementMoves, CompletedMoves, IdleIsOutside
           DEF ShapeInv, Working, Inside
      <4>2. verb'[p].path = verb[p].path
        BY <4>1 DEF Stays
      <4>3. /\ File(p) \in StateFile /\ File(p).auth = Home /\ File(p).anchor \in Nat
            /\ \A s \in HomeRecords : s.anchor <= File(p).anchor
        BY <4>1 DEF WorksOnNewest, StateFile
      <4>4. HomeRecords' = HomeRecords
        BY <1>3, <3>3, <4>1, RecordsOfStep, PrepareMoves, IncrementMoves, CompletedMoves
           DEF ShapeInv
      <4>5. verb'[p].at = "settled" => File(p).anchor <= counter'
        BY <1>0, <4>1 DEF Normal
      <4> QED
        BY <2>2, <4>1, <4>2, <4>3, <4>4, <4>5
    <3> QED
      BY <1>3, <2>2, <3>1, <3>2, <3>3, WorkMoves
  <2> QED
    BY <2>1, <2>2
<1> QED
  BY <1>2, <1>3, NextKinds
-----------------------------------------------------------------------------
(* What the files know.                                                    *)

KnowsNext(s) ==
  \A q \in TpmPairs :
    /\ s.pos[q] >= outAt'[q] /\ s.level[q] >= granted'[q]
    /\ verb'[q].at = "advanced" => s.pos[q] >= pstore'[q]

(* A step that makes no output and grants nothing asks no more of a file.  *)
LEMMA QuietKnows ==
  ASSUME UNCHANGED <<outAt, granted>>, NEW s, Knows(s),
         \A q \in TpmPairs : verb'[q].at = "advanced" =>
                               verb[q].at = "advanced" /\ pstore'[q] = pstore[q]
  PROVE  KnowsNext(s)
BY DEF Knows, KnowsNext

(* Nor does an output, which was made at a position the files know.        *)
LEMMA EmitKnows ==
  ASSUME ShapeInv, NEW p \in TpmPairs, EmitOutput(p), NEW s \in StateFile, Knows(s)
  PROVE  KnowsNext(s)
<1>1. /\ verb[p].at = "advanced" /\ verb'[p] = Idle
      /\ outAt' = [outAt EXCEPT ![p] = HigherOf(@, pstore[p])]
      /\ granted' = granted /\ pstore' = pstore
      /\ \A q \in TpmPairs : q # p => verb'[q] = verb[q]
  BY EmitMoves DEF ShapeInv, VerbMoves
<1>2. \A q \in TpmPairs : outAt[q] \in Nat /\ pstore[q] \in Nat
  BY DEF ShapeInv, PlatformShape, Heights
<1>3. outAt'[p] = HigherOf(outAt[p], pstore[p]) /\ \A q \in TpmPairs : q # p => outAt'[q] = outAt[q]
  BY <1>1 DEF ShapeInv, PlatformShape, Heights
<1>4. s.pos[p] >= outAt'[p]
  BY <1>1, <1>2, <1>3 DEF Knows, HigherOf
<1> QED
  BY <1>1, <1>3, <1>4, IdleIsOutside DEF Knows, KnowsNext

(* A grant is of a level that the file the verb works on says.             *)
LEMMA GrantKnows ==
  ASSUME ShapeInv, NEW p \in TpmPairs, NEW s \in StateFile, Knows(s),
         VerbMoves(p), verb'[p] = Idle, UNCHANGED <<outAt, pstore>>,
         granted' = [granted EXCEPT ![p] = HigherOf(@, verb[p].to)],
         s.level[p] = verb[p].to
  PROVE  KnowsNext(s)
<1>1. /\ granted'[p] = HigherOf(granted[p], verb[p].to)
      /\ \A q \in TpmPairs : q # p => granted'[q] = granted[q] /\ verb'[q] = verb[q]
  BY DEF ShapeInv, PlatformShape, Heights, VerbMoves
<1>2. s.level[p] >= granted'[p]
  <2>1. s.level[p] \in Nat /\ granted[p] \in Nat /\ s.level[p] >= granted[p]
    BY DEF StateFile, Heights, ShapeInv, PlatformShape, Knows
  <2> QED
    BY <1>1, <2>1 DEF HigherOf
<1> QED
  BY <1>1, <1>2, IdleIsOutside DEF Knows, KnowsNext

(* The file a verb works on when it ends is the only one that is live.     *)
LEMMA OnlyLiveFile ==
  ASSUME ShapeInv, WorksOnNewest, AnchorsAreUnique, NEW p \in TpmPairs,
         verb[p].at \in Working, stateAt[verb[p].path].anchor <= counter,
         NEW s \in HomeRecords, s.anchor >= counter
  PROVE  s = stateAt[verb[p].path]
<1> DEFINE t == stateAt[verb[p].path]
<1>1. verb[p].path \in StatePaths
  BY VerbParts DEF ShapeInv, Working
<1>2. t \in HomeRecords /\ s.anchor <= t.anchor
  BY <1>1, RecordsAreFiles DEF WorksOnNewest
<1>3. s.anchor \in Nat /\ t.anchor \in Nat /\ counter \in Nat
  BY <1>2, RecordsAreFiles
<1>4. s.anchor = t.anchor
  BY <1>2, <1>3
<1> QED
  BY <1>2, <1>4 DEF AnchorsAreUnique

LEMMA OperatorStores ==
  ASSUME ShapeInv, Operator, NEW q \in TpmPairs, verb[q] # Idle
  PROVE  pstore'[q] = pstore[q]
BY OperatorMoves DEF ShapeInv, PlatformShape, Heights

LEMMA CounterRises ==
  ASSUME ShapeInv, [PlatformNext]_platformVars
  PROVE  counter \in Nat /\ counter' \in Nat /\ counter' >= counter
<1>1. counter' = counter \/ counter' = counter + 1
  BY NextKinds, StepMoves, OperatorKeeps DEF ShapeInv
<1> QED
  BY <1>1 DEF ShapeInv, PlatformShape

(* The files of before are known after.                                    *)
LEMMA KnowsOn ==
  ASSUME ShapeInv, WorksOnNewest, AnchorsAreUnique, LiveFilesKnow, PreparedSays,
         NEW p \in TpmPairs, PlatformStep(p) \/ ProcessDies(p)
  PROVE  /\ \A s \in HomeRecords : s.anchor >= counter => KnowsNext(s)
         /\ \A q \in TpmPairs : q # p /\ verb[q].at \in Working /\ verb[p].at \notin Inside =>
              KnowsNext(stateAt[verb[q].path])
         /\ verb'[p].at \in Working /\ verb[p].at \in Working =>
              KnowsNext(stateAt[verb[p].path])
<1> DEFINE F == stateAt[verb[p].path]
<1> USE RecordsAreFiles
<1>0. \A q \in TpmPairs : verb[q].at \in Working => F \in StateFile \/ q # p
  BY DEF WorksOnNewest
<1>1. CASE EmitOutput(p)
  <2>1. \A s \in StateFile : Knows(s) => KnowsNext(s)
    BY <1>1, EmitKnows
  <2>2. verb'[p].at \notin Working
    BY <1>1, EmitMoves, IdleIsOutside DEF ShapeInv, Working, Inside
  <2> QED
    BY <2>1, <2>2 DEF LiveFilesKnow, WorksOnNewest
<1>2. CASE granted' # granted \/ (ReadBack(p) /\ verb'[p] # Idle)
  <2>1. NotRecorded(p) \/ ReadBack(p)
    BY <1>2, StepMoves
  <2>2. /\ verb[p].at \in Working /\ verb[p].at \in Inside /\ verb'[p].at \notin Working
        /\ VerbMoves(p) /\ UNCHANGED <<outAt, pstore>>
    BY <2>1, NotRecordedMoves, ReadBackMoves, IdleIsOutside DEF ShapeInv, Working, Inside
  <2>3. F.anchor <= counter /\ F \in StateFile /\ Knows(F)
    BY <1>2, <2>1, <2>2, NotRecordedMoves, ReadBackMoves
       DEF ShapeInv, WorksOnNewest, Normal, LiveFilesKnow
  <2>4. KnowsNext(F)
    <3>1. CASE granted' # granted
      <4>1. /\ verb'[p] = Idle /\ F.level[p] = verb[p].to
            /\ granted' = [granted EXCEPT ![p] = HigherOf(@, verb[p].to)]
        BY <2>1, <3>1, NotRecordedMoves, ReadBackMoves DEF ShapeInv, PreparedSays
      <4> HIDE DEF F
      <4> QED
        BY <2>2, <2>3, <4>1, GrantKnows
    <3>2. CASE granted' = granted
      <4>1. /\ ReadBack(p) /\ verb'[p].at = "advanced" /\ verb[p].goal = "advance"
            /\ verb[p].at = "incremented"
        BY <1>2, <3>2, ReadBackMoves DEF ShapeInv
      <4>2. F.pos[p] >= pstore[p]
        BY <4>1 DEF PreparedSays
      <4> HIDE DEF F
      <4> QED
        BY <2>2, <2>3, <3>2, <4>2 DEF Knows, KnowsNext, VerbMoves
    <3> QED
      BY <3>1, <3>2
  <2>5. \A s \in HomeRecords : s.anchor >= counter => s = F
    BY <2>2, <2>3, OnlyLiveFile
  <2> QED
    BY <2>2, <2>4, <2>5
<1>3. CASE ~EmitOutput(p) /\ granted' = granted /\ ~(ReadBack(p) /\ verb'[p] # Idle)
  <2>1. outAt' = outAt /\ VerbMoves(p)
    BY <1>3, StepMoves
  <2>2. verb'[p].at # "advanced"
    <3>1. PassPreflight(p) => stateAt[verb[p].path] \in StateFile
      BY DEF PassPreflight, ShapeInv, WorksOnFile, Working, Inside
    <3>2. PassPreflight(p) => verb'[p].at # "advanced"
      BY <3>1, PassMoves, IdleIsOutside DEF ShapeInv
    <3>4. Completed(p) => verb'[p].at # "advanced"
      BY CompletedMoves, IdleIsOutside DEF ShapeInv
    <3> QED
      BY <1>3, <3>2, <3>4, StepKinds, BeginMoves, SettleMoves, PrepareMoves, IncrementMoves,
         NotRecordedMoves, EndMoves, CommitMoves, IdleIsOutside DEF ShapeInv
  <2>3. \A q \in TpmPairs : verb'[q].at = "advanced" =>
                               verb[q].at = "advanced" /\ pstore'[q] = pstore[q]
    BY <2>2, OthersKeep
  <2>4. \A s : Knows(s) => KnowsNext(s)
    BY <1>3, <2>1, <2>3, QuietKnows
  <2> QED
    BY <2>4 DEF LiveFilesKnow
<1> QED
  BY <1>1, <1>2, <1>3

LEMMA KnowStep ==
  ASSUME CopiesAreSettled, ShapeInv, KnowledgeInv, [PlatformNext]_platformVars
  PROVE  LiveFilesKnow'
<1> USE DEF KnowledgeInv
<1>0. counter \in Nat /\ counter' \in Nat /\ counter' >= counter
  BY CounterRises
<1>1. ASSUME \A s \in HomeRecords' : s.anchor >= counter' => KnowsNext(s),
             \A q \in TpmPairs : verb'[q].at \in Working => KnowsNext(stateAt'[verb'[q].path])
      PROVE  LiveFilesKnow'
  BY <1>1 DEF LiveFilesKnow, Knows, KnowsNext
<1>2. CASE Operator
  <2>1. /\ HomeRecords' \subseteq HomeRecords
        /\ UNCHANGED <<verb, outAt, outAgain, granted>>
    BY <1>2, RecordsOfOperator, OperatorKeeps DEF ShapeInv
  <2>2. \A q \in TpmPairs : verb'[q].at = "advanced" =>
                               verb[q].at = "advanced" /\ pstore'[q] = pstore[q]
    BY <1>2, <2>1, OperatorStores, IdleIsOutside
  <2>3. \A s : Knows(s) => KnowsNext(s)
    BY <2>1, <2>2, QuietKnows
  <2>4. \A s \in HomeRecords' : s.anchor >= counter' => s.anchor >= counter
    BY <1>0, <2>1, RecordsAreFiles
  <2>5. ASSUME NEW q \in TpmPairs, verb[q].at \in Working
        PROVE  stateAt'[verb[q].path] = stateAt[verb[q].path]
    <3>1. /\ verb[q].path \in StatePaths /\ stateAt[verb[q].path] # None
          /\ InsideLock(q, verb[q].path)
      BY <2>5, VerbParts, PlatformSizes DEF ShapeInv, WorksOnFile, Working, InsideLock, Inside
    <3> QED
      BY <1>2, <3>1, OperatorKeeps DEF ShapeInv
  <2> QED
    BY <1>1, <2>1, <2>3, <2>4, <2>5 DEF LiveFilesKnow
<1>3. ASSUME NEW p \in TpmPairs, PlatformStep(p) \/ ProcessDies(p)
      PROVE  LiveFilesKnow'
  <2>0. /\ \A s \in HomeRecords : s.anchor >= counter => KnowsNext(s)
        /\ \A q \in TpmPairs : q # p /\ verb[q].at \in Working /\ verb[p].at \notin Inside =>
             KnowsNext(stateAt[verb[q].path])
        /\ verb'[p].at \in Working /\ verb[p].at \in Working =>
             KnowsNext(stateAt[verb[p].path])
    BY <1>3, KnowsOn
  <2>1. CASE Prepare(p)
    <3> DEFINE F == stateAt[verb[p].path]
    <3>1. PICK new \in StateFile :
            /\ stateAt'[verb[p].path] = new
            /\ HomeRecords' \subseteq HomeRecords \cup {new}
            /\ \A q \in TpmPairs : new.pos[q] >= F.pos[q] /\ new.level[q] >= F.level[q]
      BY <2>1, PreparedRecord
    <3>2. /\ verb[p].at = "settled" /\ verb'[p].at = "prepared" /\ counter' = counter
          /\ verb'[p].path = verb[p].path /\ verb[p].at \in Working /\ verb'[p].at \in Working
          /\ verb[p].at \in Inside
      BY <2>1, PrepareMoves DEF ShapeInv, Stays, Working, Inside
    <3>3. KnowsNext(F) /\ F \in StateFile
      BY <2>0, <3>2 DEF WorksOnNewest
    <3>4. KnowsNext(new)
      <4>1. \A q \in TpmPairs : /\ F.pos[q] \in Nat /\ F.level[q] \in Nat
                                /\ new.pos[q] \in Nat /\ new.level[q] \in Nat
        BY <3>3 DEF StateFile, Heights
      <4>2. ShapeInv'
        BY <1>3, ShapeStep DEF PlatformNext
      <4>3. \A q \in TpmPairs : outAt'[q] \in Nat /\ granted'[q] \in Nat /\ pstore'[q] \in Nat
        BY <4>2 DEF ShapeInv, PlatformShape, Heights
      <4> HIDE DEF F
      <4> QED
        BY <3>1, <3>3, <4>1, <4>3 DEF KnowsNext
    <3>5. ASSUME NEW q \in TpmPairs, verb'[q].at \in Working
          PROVE  q = p
      <4>1. q # p => verb[q].at \in Inside
        BY <1>3, <3>5, OthersKeep DEF Working
      <4> QED
        BY <3>2, <4>1, OneInside
    <3> QED
      BY <1>1, <2>0, <3>1, <3>2, <3>4, <3>5
  <2>2. CASE ~Prepare(p)
    <3>1. stateAt' = stateAt /\ HomeRecords' = HomeRecords
      BY <1>3, <2>2, RecordsOfStep
    <3>2. \A s \in HomeRecords : s.anchor >= counter' => s.anchor >= counter
      BY <1>0, RecordsAreFiles
    <3>3. ASSUME NEW q \in TpmPairs, verb'[q].at \in Working
          PROVE  KnowsNext(stateAt[verb'[q].path])
      <4>1. CASE q # p
        <5>1. verb'[q] = verb[q]
          BY <1>3, <4>1, OthersKeep
        <5>2. verb[p].at \notin Inside
          BY <3>3, <4>1, <5>1, OneInside DEF Working
        <5> QED
          BY <2>0, <3>3, <4>1, <5>1, <5>2
      <4>2. CASE q = p
        <5>1. CASE Settle(p)
          <6>1. /\ Readable(verb[p].path) /\ Stays(p)
                /\ Normal(stateAt[verb[p].path]) \/ Prepared(stateAt[verb[p].path])
            BY <5>1, SettleMoves DEF ShapeInv
          <6>2. verb[p].path \in StatePaths /\ verb'[p].path = verb[p].path
            BY <6>1, VerbParts DEF Stays, ShapeInv
          <6>3. stateAt[verb[p].path] \in HomeRecords
            BY <6>1, <6>2, RecordsAreFiles DEF Readable, ShapeInv, PlatformShape
          <6>4. stateAt[verb[p].path].anchor >= counter
            BY <1>0, <6>1 DEF Normal, Prepared
          <6> QED
            BY <2>0, <4>2, <6>2, <6>3, <6>4
        <5>2. CASE Increment(p) \/ Completed(p)
          <6>1. Stays(p) /\ verb[p].at \in Working
            BY <3>3, <4>2, <5>2, IncrementMoves, CompletedMoves, IdleIsOutside
               DEF ShapeInv, Working, Inside
          <6> QED
            BY <2>0, <3>3, <4>2, <6>1 DEF Stays
        <5> QED
          BY <1>3, <2>2, <3>3, <4>2, <5>1, <5>2, WorkMoves
      <4> QED
        BY <4>1, <4>2
    <3> QED
      BY <1>1, <2>0, <3>1, <3>2, <3>3
  <2> QED
    BY <2>1, <2>2
<1> QED
  BY <1>2, <1>3, NextKinds

LEMMA SaysStep ==
  ASSUME ShapeInv, KnowledgeInv, [PlatformNext]_platformVars
  PROVE  PreparedSays'
<1> USE DEF KnowledgeInv
<1>1. CASE Operator
  <2> SUFFICES ASSUME NEW q \in TpmPairs, verb[q].at \in {"prepared", "incremented"}
               PROVE  /\ stateAt'[verb[q].path] = stateAt[verb[q].path]
                      /\ pstore'[q] = pstore[q]
    BY <1>1, OperatorKeeps DEF ShapeInv, PreparedSays
  <2>1. /\ verb[q].path \in StatePaths /\ stateAt[verb[q].path] # None
        /\ InsideLock(q, verb[q].path)
    BY VerbParts, PlatformSizes DEF ShapeInv, WorksOnFile, Working, InsideLock, Inside
  <2> QED
    BY <1>1, <2>1, OperatorKeeps, OperatorStores, IdleIsOutside DEF ShapeInv
<1>2. ASSUME NEW p \in TpmPairs, PlatformStep(p) \/ ProcessDies(p)
      PROVE  PreparedSays'
  <2> SUFFICES ASSUME NEW q \in TpmPairs, verb'[q].at \in {"prepared", "incremented"}
               PROVE  /\ verb'[q].goal = "advance" => stateAt'[verb'[q].path].pos[q] >= pstore'[q]
                      /\ verb'[q].goal = "raise" =>
                           stateAt'[verb'[q].path].level[q] = verb'[q].to
    BY DEF PreparedSays
  <2>1. CASE q # p
    <3>1. verb'[q] = verb[q] /\ pstore'[q] = pstore[q]
      BY <1>2, <2>1, OthersKeep
    <3>2. ~Prepare(p)
      BY <2>1, <3>1, OneInside DEF Prepare, Inside
    <3> QED
      BY <1>2, <3>1, <3>2, StepMoves DEF PreparedSays
  <2>2. CASE q = p
    <3>1. Prepare(p) \/ Increment(p)
      BY <1>2, <2>2, WorkMoves, SettleMoves, CompletedMoves, IdleIsOutside
         DEF ShapeInv, Working, Inside
    <3>2. CASE Prepare(p)
      <4>1. /\ Stays(p) /\ pstore' = pstore
        BY <3>2, PrepareMoves DEF ShapeInv
      <4>2. PICK new \in StateFile :
              /\ stateAt'[verb[p].path] = new
              /\ verb[p].goal = "advance" => new.pos[p] >= pstore[p]
              /\ verb[p].goal = "raise" => new.level[p] = verb[p].to
        BY <3>2, PreparedRecord
      <4> QED
        BY <2>2, <4>1, <4>2 DEF Stays
    <3>3. CASE Increment(p)
      BY <2>2, <3>3, IncrementMoves DEF ShapeInv, Stays, PreparedSays
    <3> QED
      BY <3>1, <3>2, <3>3
  <2> QED
    BY <2>1, <2>2
<1> QED
  BY <1>1, <1>2, NextKinds

LEMMA FreshStep ==
  ASSUME ShapeInv, KnowledgeInv, [PlatformNext]_platformVars
  PROVE  CommitsFresh' /\ PlatformUsedOnce'
<1> USE DEF KnowledgeInv
<1>0. \A q \in TpmPairs : pstore[q] \in Nat /\ outAt[q] \in Nat
  BY DEF ShapeInv, PlatformShape, Heights
<1>1. CASE Operator
  <2>1. UNCHANGED <<verb, outAt, outAgain>>
    BY <1>1, OperatorKeeps DEF ShapeInv
  <2>2. \A q \in TpmPairs : verb[q].at # "idle" => pstore'[q] = pstore[q]
    BY <1>1, OperatorStores, IdleIsOutside
  <2>3. CommitsFresh'
    BY <2>1, <2>2 DEF CommitsFresh, Inside
  <2> QED
    BY <2>1, <2>3 DEF PlatformUsedOnce
<1>2. ASSUME NEW p \in TpmPairs, PlatformStep(p) \/ ProcessDies(p)
      PROVE  CommitsFresh' /\ PlatformUsedOnce'
  <2>1. ASSUME EmitOutput(p)
        PROVE  outAgain' = outAgain /\ verb'[p].at = "idle"
    BY <2>1, EmitMoves, IdleIsOutside DEF ShapeInv, CommitsFresh
  <2>2. PlatformUsedOnce'
    BY <1>2, <2>1, StepMoves DEF PlatformUsedOnce
  <2>3. ASSUME NEW q \in TpmPairs, q # p
        PROVE  verb'[q] = verb[q] /\ pstore'[q] = pstore[q] /\ outAt'[q] = outAt[q]
    BY <1>2, <2>3, OthersKeep
  <2>4. /\ verb'[p].at = "ready" => pstore'[p] >= outAt'[p]
        /\ verb'[p].at \in {"committed", "advanced"} => pstore'[p] > outAt'[p]
        /\ verb'[p].at \in Inside /\ verb'[p].goal = "advance" => pstore'[p] > outAt'[p]
    <3>1. CASE \/ BeginPreflight(p) \/ BeginAdvance(p)
               \/ \E level \in Levels[p] : BeginTransition(p, level)
      BY <3>1, BeginMoves DEF ShapeInv, CommitsFresh
    <3>2. CASE Settle(p) \/ Prepare(p) \/ Increment(p)
      <4>1. Stays(p) /\ UNCHANGED <<pstore, outAt>>
        BY <3>2, SettleMoves, PrepareMoves, IncrementMoves DEF ShapeInv
      <4> QED
        BY <4>1 DEF Stays, CommitsFresh, Inside
    <3>3. CASE Completed(p)
      <4>1. (Stays(p) \/ verb'[p] = Idle) /\ UNCHANGED <<pstore, outAt>>
        BY <3>3, CompletedMoves DEF ShapeInv
      <4> QED
        BY <4>1, IdleIsOutside DEF Stays, CommitsFresh, Inside
    <3>4. CASE PassPreflight(p)
      <4>1. /\ stateAt[verb[p].path] \in StateFile /\ Knows(stateAt[verb[p].path])
            /\ verb[p].at \in Working
        BY <3>4 DEF PassPreflight, WorksOnNewest, LiveFilesKnow, Working, Inside
      <4>2. /\ verb'[p] = Idle
               \/ (verb'[p].at = "ready" /\ pstore[p] >= stateAt[verb[p].path].pos[p])
            /\ UNCHANGED <<pstore, outAt>>
        BY <3>4, <4>1, PassMoves DEF ShapeInv
      <4>3. stateAt[verb[p].path].pos[p] >= outAt[p] /\ stateAt[verb[p].path].pos[p] \in Nat
        BY <4>1 DEF Knows, StateFile, Heights
      <4>4. verb'[p].at = "ready" => pstore[p] >= outAt[p]
        BY <1>0, <4>2, <4>3, IdleIsOutside
      <4> QED
        BY <4>2, <4>4, IdleIsOutside DEF Inside
    <3>5. CASE NotRecorded(p) \/ EmitOutput(p) \/ AdvanceRefused(p) \/ Refused(p) \/ TpmFails(p)
               \/ ProcessDies(p)
      BY <3>5, NotRecordedMoves, EmitMoves, EndMoves, IdleIsOutside DEF ShapeInv, Inside
    <3>6. CASE ReadBack(p)
      BY <3>6, ReadBackMoves, IdleIsOutside DEF ShapeInv, Inside, CommitsFresh
    <3>7. CASE CommitStore(p)
      <4>1. /\ verb[p].at = "ready" /\ verb'[p].at = "committed" /\ outAt' = outAt
            /\ pstore'[p] = pstore[p] + 1
        BY <3>7, CommitMoves DEF ShapeInv, PlatformShape, Heights
      <4> QED
        BY <1>0, <4>1 DEF CommitsFresh, Inside
    <3> QED
      BY <1>2, <3>1, <3>2, <3>3, <3>4, <3>5, <3>6, <3>7, StepKinds
  <2>5. CommitsFresh'
    BY <2>3, <2>4 DEF CommitsFresh
  <2> QED
    BY <2>2, <2>5
<1> QED
  BY <1>1, <1>2, NextKinds

LEMMA KnowledgeInit == PlatformInit => KnowledgeInv
<1> SUFFICES ASSUME PlatformInit
             PROVE  KnowledgeInv
  OBVIOUS
<1>1. \A p \in TpmPairs : verb[p] = Idle /\ verb[p].at = "idle"
  BY IdleIsOutside DEF PlatformInit
<1>2. LocksHeld /\ WorksOnNewest /\ PreparedSays /\ CommitsFresh /\ PlatformUsedOnce
  BY <1>1 DEF PlatformInit, LocksHeld, WorksOnNewest, PreparedSays, CommitsFresh,
     PlatformUsedOnce, Working, Inside
<1>3. HomeRecords \subseteq {FirstState(Home, 1)} /\ backups = {}
  BY PlatformSizes DEF PlatformInit, HomeRecords
<1>4. AnchorsAreUnique
  BY <1>3 DEF AnchorsAreUnique
<1>5. NoneAhead
  <2>1. \A f \in StatePaths : stateAt[f] \in StateFile => stateAt[f] = FirstState(Home, 1)
    BY PlatformSizes DEF PlatformInit
  <2> QED
    BY <1>3, <2>1, FirstStateType DEF NoneAhead, PlatformInit
<1>6. Knows(FirstState(Home, 1))
  BY <1>1, FirstStateType DEF Knows, PlatformInit, NoPositions
<1>7. LiveFilesKnow
  BY <1>1, <1>3, <1>6 DEF LiveFilesKnow, Working, Inside
<1> QED
  BY <1>2, <1>4, <1>5, <1>7 DEF KnowledgeInv

LEMMA KnowledgeStep ==
  ASSUME CopiesAreSettled, ShapeInv, KnowledgeInv, [PlatformNext]_platformVars
  PROVE  KnowledgeInv'
BY LocksStep, AheadStep, UniqueStep, NewestStep, KnowStep, SaysStep, FreshStep
   DEF KnowledgeInv

LEMMA ShapeAlways == PlatformSpec => []ShapeInv
<1>1. PlatformInit => ShapeInv
  BY PlatformShapeInit
<1>2. ShapeInv /\ [PlatformNext]_platformVars => ShapeInv'
  BY ShapeStep
<1> QED
  BY <1>1, <1>2, PTL DEF PlatformSpec

LEMMA KnowledgeAlways == ASSUME CopiesAreSettled PROVE PlatformSpec => [](ShapeInv /\ KnowledgeInv)
<1>1. PlatformInit => ShapeInv /\ KnowledgeInv
  BY PlatformShapeInit, KnowledgeInit
<1>2. (ShapeInv /\ KnowledgeInv) /\ [PlatformNext]_platformVars => (ShapeInv /\ KnowledgeInv)'
  BY ShapeStep, KnowledgeStep
<1> QED
  BY <1>1, <1>2, PTL DEF PlatformSpec

(* PlatformUsedOnce, whatever store is restored and whatever file is put   *)
(* back where, as long as files were copied, and the pin moved, when all   *)
(* was settled: no pair makes two outputs at one position.                 *)
THEOREM PlatformUsesOnce == ASSUME CopiesAreSettled PROVE PlatformSpec => []PlatformUsedOnce
<1>1. ShapeInv /\ KnowledgeInv => PlatformUsedOnce
  BY DEF KnowledgeInv
<1> QED
  BY <1>1, KnowledgeAlways, PTL

(* AttestedKnowsAll, under the same discipline: a file the hardware does   *)
(* not refute knows every output and every level granted.                  *)
THEOREM AttestedFilesKnow == ASSUME CopiesAreSettled PROVE PlatformSpec => []AttestedKnowsAll
<1>1. ShapeInv /\ KnowledgeInv => AttestedKnowsAll
  <2> SUFFICES ASSUME ShapeInv, KnowledgeInv, NEW p \in TpmPairs, NEW f \in StatePaths,
                      Readable(f), Consistent(stateAt[f])
               PROVE  /\ pstore[p] < stateAt[f].pos[p] \/ pstore[p] >= outAt[p]
                      /\ PlatformAssurance(p, f) >= granted[p]
    BY DEF AttestedKnowsAll, PlatformHealth
  <2>1. stateAt[f] \in StateFile /\ stateAt[f] \in HomeRecords /\ counter \in Nat
    BY RecordsAreFiles DEF Readable, ShapeInv, PlatformShape
  <2>2. stateAt[f].anchor >= counter
    BY <2>1 DEF Consistent, Normal, Prepared
  <2>3. Knows(stateAt[f])
    BY <2>1, <2>2 DEF KnowledgeInv, LiveFilesKnow
  <2>4. PlatformAssurance(p, f) = stateAt[f].level[p]
    BY DEF PlatformAssurance, Readable
  <2>5. /\ stateAt[f].pos[p] \in Nat /\ pstore[p] \in Nat /\ outAt[p] \in Nat
    BY <2>1 DEF StateFile, Heights, ShapeInv, PlatformShape
  <2> QED
    BY <2>3, <2>4, <2>5 DEF Knows
<1> QED
  BY <1>1, KnowledgeAlways, PTL
-----------------------------------------------------------------------------
(* What a crash leaves can go on.                                          *)

NothingPutBack == left["putBack"] = Budget["putBack"] /\ left["init"] = Budget["init"]

LEMMA NothingBefore ==
  ASSUME ShapeInv, [PlatformNext]_platformVars, NothingPutBack'
  PROVE  NothingPutBack
<1>1. CASE Operator
  BY <1>1, OperatorKeeps DEF ShapeInv, NothingPutBack
<1>2. CASE left' = left \/ Spend("crash")
  BY <1>2, SpendLeft DEF ShapeInv, NothingPutBack, Bounds
<1> QED
  BY <1>1, <1>2, NextKinds, StepMoves

(* When the TPM's counter moves for a verb.                                *)
LEMMA CounterOfStep ==
  ASSUME ShapeInv, NEW p \in TpmPairs, PlatformStep(p) \/ ProcessDies(p), counter' # counter
  PROVE  /\ counter' = counter + 1 /\ verb[p].at \in Inside /\ stateAt' = stateAt
         /\ verb[p].at = "prepared" \/ Prepared(stateAt[verb[p].path])
         /\ verb'[p].at \in {"completed", "incremented", "idle"}
<1>1. PassPreflight(p) => stateAt[verb[p].path] \in StateFile
  BY DEF PassPreflight, ShapeInv, WorksOnFile, Working, Inside
<1>2. PassPreflight(p) => counter' = counter
  BY <1>1, PassMoves DEF ShapeInv
<1>3. Settle(p) \/ Increment(p) \/ TpmFails(p) \/ Refused(p) \/ AdvanceRefused(p) \/ ProcessDies(p)
  BY <1>2, StepKinds, BeginMoves, PrepareMoves, CompletedMoves, NotRecordedMoves, ReadBackMoves,
     EmitMoves, CommitMoves DEF ShapeInv
<1>4. CASE Settle(p)
  BY <1>4, SettleMoves DEF ShapeInv, Inside
<1>5. CASE Increment(p)
  BY <1>5, IncrementMoves DEF ShapeInv, Inside
<1>6. CASE TpmFails(p) \/ Refused(p) \/ AdvanceRefused(p) \/ ProcessDies(p)
  BY <1>6, EndMoves, IdleIsOutside DEF ShapeInv, Inside
<1> QED
  BY <1>3, <1>4, <1>5, <1>6

LEMMA UndisturbedStep ==
  ASSUME ShapeInv, UndisturbedInv, [PlatformNext]_platformVars
  PROVE  UndisturbedInv'
<1> SUFFICES ASSUME NothingPutBack'
             PROVE  UndisturbedInv'
  BY DEF UndisturbedInv, NothingPutBack
<1> DEFINE F == stateAt[FirstPath]
<1>0. /\ \A f \in StatePaths : f # FirstPath => stateAt[f] = None
      /\ pinned # None => pinned.path = FirstPath
      /\ \A p \in TpmPairs : verb[p].at \in Inside =>
           verb[p].path = FirstPath /\ stateLock[FirstPath] = p
      /\ F \in StateFile /\ Consistent(F)
      /\ \A p \in TpmPairs : verb[p].at \in {"completed", "settled", "incremented"} => Normal(F)
      /\ \A p \in TpmPairs : verb[p].at = "prepared" => Prepared(F)
  BY NothingBefore DEF UndisturbedInv, NothingPutBack
<1>1. counter \in Nat /\ F.anchor \in Nat /\ FirstPath \in StatePaths
  BY <1>0, PlatformSizes DEF StateFile, ShapeInv, PlatformShape
<1>2. CASE Operator
  <2>1. \A f \in StatePaths : stateAt'[f] = stateAt[f]
    BY <1>0, <1>2, OperatorKeeps DEF ShapeInv, NothingPutBack
  <2>2. UNCHANGED <<counter, verb>>
    BY <1>2, OperatorKeeps DEF ShapeInv, NothingPutBack
  <2>3. pinned' # None => pinned'.path = FirstPath
    <3>1. CASE pinned' = pinned
      BY <1>0, <3>1
    <3>2. ASSUME NEW f \in StatePaths, stateAt[f] \in StateFile,
                 pinned' = [auth |-> stateAt[f].auth, path |-> f]
          PROVE  pinned'.path = FirstPath
      BY <1>0, <3>2, PlatformSizes
    <3> QED
      BY <1>2, <3>1, <3>2, OperatorMoves DEF ShapeInv
  <2>4. ASSUME NEW p \in TpmPairs, verb[p].at \in Inside
        PROVE  stateLock'[FirstPath] = p
    <3>1. verb[p].path = FirstPath /\ stateLock[FirstPath] = p
      BY <1>0, <2>4
    <3>2. ASSUME NEW f \in StatePaths, RemoveStateLock(f)
          PROVE  stateLock'[FirstPath] = p
      <4>1. f # FirstPath
        BY <2>4, <3>1, <3>2 DEF RemoveStateLock, InsideLock, Inside
      <4> QED
        BY <3>1, <3>2, <4>1 DEF RemoveStateLock, Frees, ShapeInv, PlatformShape
    <3> QED
      BY <1>2, <3>1, <3>2, OperatorMoves DEF ShapeInv
  <2> QED
    BY <1>0, <1>1, <2>1, <2>2, <2>3, <2>4 DEF UndisturbedInv, Consistent, Normal, Prepared
<1>3. ASSUME NEW p \in TpmPairs, PlatformStep(p) \/ ProcessDies(p)
      PROVE  UndisturbedInv'
  <2>1. VerbMoves(p) /\ pinned' = pinned
    BY <1>3, StepMoves
  <2>2. ASSUME NEW q \in TpmPairs, verb'[q].at \in Inside
        PROVE  verb'[q].path = FirstPath /\ stateLock'[FirstPath] = q
    <3>1. CASE q # p
      <4>1. verb'[q] = verb[q] /\ verb[q].path = FirstPath /\ stateLock[FirstPath] = q
        BY <1>0, <2>1, <2>2, <3>1 DEF VerbMoves
      <4>2. verb[p].at \notin Inside /\ ~Enters(p)
        BY <1>0, <3>1, <4>1, PlatformSizes DEF Enters, Trusted
      <4>3. stateLock' = stateLock
        BY <2>1, <4>2 DEF VerbMoves, Stays, ComesOut, StaysOut
      <4> QED
        BY <4>1, <4>3
    <3>2. CASE q = p
      <4>1. Stays(p) \/ Enters(p)
        BY <2>1, <2>2, <3>2 DEF VerbMoves, ComesOut, StaysOut
      <4>2. CASE Stays(p)
        BY <1>0, <3>2, <4>2 DEF Stays
      <4>3. CASE Enters(p)
        BY <1>0, <1>1, <3>2, <4>3 DEF Enters, Trusted, ShapeInv, PlatformShape
      <4> QED
        BY <4>1, <4>2, <4>3
    <3> QED
      BY <3>1, <3>2
  <2>3. ASSUME NEW q \in TpmPairs, q # p, verb[p].at \in Inside
        PROVE  verb'[q].at \notin Inside
    BY <1>0, <1>3, <2>3, OthersKeep
  <2>4. CASE Prepare(p)
    <3> DEFINE s == stateAt[verb[p].path]
               new == [Merged(p, s) EXCEPT !.anchor = @ + 1]
    <3>1. /\ verb[p].at = "settled" /\ verb[p].goal # "check" /\ counter' = counter
          /\ stateAt' = [stateAt EXCEPT ![verb[p].path] = new] /\ verb'[p].at = "prepared"
      BY <2>4, PrepareMoves DEF ShapeInv
    <3>2. verb[p].path = FirstPath /\ Normal(F) /\ verb[p].at \in Inside
      BY <1>0, <3>1 DEF Inside
    <3>3. new \in StateFile /\ new.anchor = F.anchor + 1
      BY <1>0, <3>1, <3>2, MergedType DEF ShapeInv
    <3> HIDE DEF new
    <3>4. /\ \A f \in StatePaths : f # FirstPath => stateAt'[f] = None
          /\ stateAt'[FirstPath] = new
      BY <1>0, <1>1, <3>1, <3>2 DEF ShapeInv, PlatformShape
    <3>5. stateAt'[FirstPath].anchor = counter' + 1
      BY <3>1, <3>2, <3>3, <3>4 DEF Normal
    <3>6. \A q \in TpmPairs : verb'[q].at \notin {"completed", "settled", "incremented"}
      BY <2>3, <3>1, <3>2 DEF Inside
    <3> QED
      BY <1>0, <2>1, <2>2, <3>3, <3>4, <3>5, <3>6
         DEF UndisturbedInv, Consistent, Normal, Prepared
  <2>5. CASE counter' # counter
    <3>1. /\ counter' = counter + 1 /\ verb[p].at \in Inside /\ stateAt' = stateAt
          /\ verb[p].at = "prepared" \/ Prepared(stateAt[verb[p].path])
          /\ verb'[p].at \in {"completed", "incremented", "idle"}
      BY <1>3, <2>5, CounterOfStep
    <3>2. Prepared(F)
      BY <1>0, <3>1
    <3>3. stateAt'[FirstPath].anchor = counter'
      BY <3>1, <3>2 DEF Prepared
    <3>4. \A q \in TpmPairs : verb'[q].at # "prepared"
      BY <2>3, <3>1 DEF Inside
    <3> QED
      BY <1>0, <2>1, <2>2, <3>1, <3>3, <3>4 DEF UndisturbedInv, Consistent, Normal, Prepared
  <2>6. CASE ~Prepare(p) /\ counter' = counter
    <3>1. stateAt' = stateAt
      BY <1>3, <2>6, StepMoves
    <3>2. ASSUME NEW q \in TpmPairs
          PROVE  /\ verb'[q].at \in {"completed", "settled", "incremented"} => Normal(F)
                 /\ verb'[q].at = "prepared" => Prepared(F)
      <4>1. CASE q # p
        BY <1>0, <1>3, <4>1, OthersKeep
      <4>2. CASE q = p /\ verb'[p].at \in Working
        <5>1. Settle(p) \/ Completed(p)
          BY <1>1, <1>3, <2>6, <4>2, WorkMoves, IncrementMoves DEF ShapeInv
        <5>2. CASE Settle(p)
          <6>1. /\ verb[p].at = "locked" /\ verb'[p].at = "settled"
                /\ Normal(stateAt[verb[p].path])
            BY <1>1, <2>6, <5>2, SettleMoves DEF ShapeInv
          <6> QED
            BY <1>0, <4>2, <6>1 DEF Inside
        <5>3. CASE Completed(p)
          <6>1. verb[p].at = "completed" /\ verb'[p].at \in {"settled", "idle"}
            BY <5>3, CompletedMoves, IdleIsOutside DEF ShapeInv
          <6> QED
            BY <1>0, <4>2, <6>1
        <5> QED
          BY <5>1, <5>2, <5>3
      <4> QED
        BY <4>1, <4>2 DEF Working, Inside
    <3> QED
      BY <1>0, <2>1, <2>2, <2>6, <3>1, <3>2 DEF UndisturbedInv, Consistent, Normal, Prepared
  <2> QED
    BY <2>4, <2>5, <2>6
<1> QED
  BY <1>2, <1>3, NextKinds

LEMMA UndisturbedInit == PlatformInit => UndisturbedInv
<1> SUFFICES ASSUME PlatformInit
             PROVE  UndisturbedInv
  OBVIOUS
<1>1. \A p \in TpmPairs : verb[p].at = "idle"
  BY IdleIsOutside DEF PlatformInit
<1>2. /\ stateAt[FirstPath] = FirstState(Home, 1)
      /\ \A f \in StatePaths : f # FirstPath => stateAt[f] = None
  BY PlatformSizes DEF PlatformInit
<1>3. stateAt[FirstPath] \in StateFile /\ stateAt[FirstPath].anchor = counter
  BY <1>2, FirstStateType DEF PlatformInit
<1> QED
  BY <1>1, <1>2, <1>3 DEF UndisturbedInv, Inside, Consistent, Normal, PlatformInit

(* CrashIsNoRollback, with no condition on what an operator copies: what a *)
(* crash, or a TPM that answers late, leaves in the file is never more     *)
(* than the one step reconcile completes.                                  *)
THEOREM CrashesAreNoRollback == PlatformSpec => []CrashIsNoRollback
<1>1. PlatformInit => ShapeInv /\ UndisturbedInv
  BY PlatformShapeInit, UndisturbedInit
<1>2. (ShapeInv /\ UndisturbedInv) /\ [PlatformNext]_platformVars => (ShapeInv /\ UndisturbedInv)'
  BY ShapeStep, UndisturbedStep
<1>3. ShapeInv /\ UndisturbedInv => CrashIsNoRollback
  BY DEF UndisturbedInv, CrashIsNoRollback, Readable
<1> QED
  BY <1>1, <1>2, <1>3, PTL DEF PlatformSpec
=============================================================================
