------------------------- MODULE AdmissionGateProofs -------------------------
(***************************************************************************)
(* The safety of the admission gate, for any finite set of threads, any    *)
(* policy and any bounds.  GateInv is the inductive invariant: the listed  *)
(* invariants of AdmissionGate are its conjuncts or follow from it.        *)
(***************************************************************************)
EXTENDS AdmissionGate, FiniteSetTheorems, TLAPS

\* The threads inside: those that own an admission.
Admissions == {t \in Threads : Admitted(t)}

\* The program points of a thread that holds the coordinator lock.
LockPoints == {"entering", "admitting", "exitSettle", "looping", "waiting", "poisoning"}

\* The lock is held by exactly the thread whose program point says so.
LockInv == \A t \in Threads : lock = t <=> pc[t] \in LockPoints

\* What each thread has been told to do next fits where it stands.
AfterInv ==
    \A t \in Threads :
        /\ pc[t] \in {"idle", "mutating", "abandon", "abandonLock"}
                       \cup EnterPoints \cup CollectPoints => after[t] = "idle"
        /\ pc[t] \in ExclusivePoints \cup FinalizerPoints => after[t] \in {"mutating", "loopLock"}
        /\ pc[t] \in RequestPoints => after[t] \in {"idle", "mutating"}
        /\ pc[t] \in ExitPoints => after[t] \in {"idle", "loopLock", "abandon"}
        /\ pc[t] \in {"poisonLock", "poisoning"} => after[t] \in {"idle", "poisoned"}

OneCollector == \A t, u \in Threads : Collecting(t) /\ Collecting(u) => t = u

\* A collector that owns an admission is the finalizer, nobody is admitted
\* under the lock in a phase that refuses entries, and a run is committed
\* only out of a batch that holds one.
PhaseInv ==
    \A t \in Threads :
        /\ Collecting(t) /\ Admitted(t) => phase = "Finalizing"
        /\ pc[t] = "admitting" => phase # "Exclusive" /\ phase # "Poisoned"
        /\ pc[t] = "committing" => batch > 0

ExclusiveEmpty == phase = "Exclusive" => active = 0

\* The inductive invariant.
GateInv ==
    /\ TypeOK /\ LockInv /\ AfterInv
    /\ CoordinatedWhenNeeded
    /\ CollectorAuthority /\ OneCollector /\ PhaseInv /\ ExclusiveEmpty
    /\ CountIsAdmissions

USE DEF Points, EnterPoints, ExitPoints, CollectPoints, ExclusivePoints, FinalizerPoints,
        FailPoints, RequestPoints, Phases, Continuations, LockPoints, Goto, Lock, Notify,
        waiters, CoordinatesMutators, gateVars, collVars

-----------------------------------------------------------------------------
(* The count: what the three ways in which a step treats the admissions do *)
(* to CountIsAdmissions.                                                   *)

\* There are finitely many admissions, so their number is a natural number,
\* and it is not zero while somebody owns one.
LEMMA AdmissionsFinite ==
    /\ IsFiniteSet(Admissions)
    /\ Cardinality(Admissions) \in Nat
    /\ \A t \in Admissions : Cardinality(Admissions) > 0
<1>1. Admissions \subseteq Threads BY DEF Admissions
<1>2. IsFiniteSet(Admissions) BY <1>1, GateAssumption, FS_Subset
<1>3. Cardinality(Admissions) \in Nat BY <1>2, FS_CardinalityType
<1>4. Cardinality(Admissions) = 0 <=> Admissions = {} BY <1>2, FS_EmptySet
<1> QED BY <1>2, <1>3, <1>4

LEMMA CountKept ==
    ASSUME CountIsAdmissions, Admissions' = Admissions, active' = active
    PROVE  CountIsAdmissions'
BY DEF CountIsAdmissions, Admissions

LEMMA CountUp ==
    ASSUME CountIsAdmissions, NEW t, t \notin Admissions,
           Admissions' = Admissions \cup {t}, active' = active + 1
    PROVE  CountIsAdmissions'
<1>1. Cardinality(Admissions \cup {t}) = Cardinality(Admissions) + 1
  BY AdmissionsFinite, FS_AddElement
<1> QED BY <1>1 DEF CountIsAdmissions, Admissions

LEMMA CountDown ==
    ASSUME CountIsAdmissions, NEW t, t \in Admissions,
           Admissions' = Admissions \ {t}, active' = active - 1
    PROVE  CountIsAdmissions'
<1>1. Cardinality(Admissions \ {t}) = Cardinality(Admissions) - 1
  BY AdmissionsFinite, FS_RemoveElement
<1> QED BY <1>1 DEF CountIsAdmissions, Admissions

-----------------------------------------------------------------------------
(* One lemma per action.                                                   *)

LEMMA RelockStep == ASSUME GateInv, NEW t \in Threads, Relock(t) PROVE GateInv'
<1>1. TypeOK'
  BY GateAssumption DEF GateInv, TypeOK, AfterInv, PhaseInv, Relock
<1>2. LockInv' /\ AfterInv'
  BY GateAssumption DEF GateInv, TypeOK, LockInv, AfterInv, Relock
<1>3. CoordinatedWhenNeeded'
  BY DEF GateInv, TypeOK, CoordinatedWhenNeeded, Relock
<1>4. CollectorAuthority' /\ OneCollector' /\ PhaseInv' /\ ExclusiveEmpty'
  BY DEF GateInv, TypeOK, AfterInv, LockInv, CoordinatedWhenNeeded, CollectorAuthority,
         OneCollector, PhaseInv, ExclusiveEmpty, Collecting, Admitted, Relock
<1>5. Admissions' = Admissions /\ active' = active
  BY DEF GateInv, TypeOK, AfterInv, Admissions, Admitted, Relock
<1> QED BY <1>1, <1>2, <1>3, <1>4, <1>5, CountKept DEF GateInv

LEMMA SpuriousWakeStep == ASSUME GateInv, NEW t \in Threads, SpuriousWake(t) PROVE GateInv'
<1>1. TypeOK'
  BY GateAssumption DEF GateInv, TypeOK, AfterInv, PhaseInv, SpuriousWake
<1>2. LockInv' /\ AfterInv'
  BY GateAssumption DEF GateInv, TypeOK, LockInv, AfterInv, SpuriousWake
<1>3. CoordinatedWhenNeeded'
  BY DEF GateInv, TypeOK, CoordinatedWhenNeeded, SpuriousWake
<1>4. CollectorAuthority' /\ OneCollector' /\ PhaseInv' /\ ExclusiveEmpty'
  BY DEF GateInv, TypeOK, AfterInv, LockInv, CoordinatedWhenNeeded, CollectorAuthority,
         OneCollector, PhaseInv, ExclusiveEmpty, Collecting, Admitted, SpuriousWake
<1>5. Admissions' = Admissions /\ active' = active
  BY DEF GateInv, TypeOK, AfterInv, Admissions, Admitted, SpuriousWake
<1> QED BY <1>1, <1>2, <1>3, <1>4, <1>5, CountKept DEF GateInv

LEMMA StartEnterStep == ASSUME GateInv, NEW t \in Threads, StartEnter(t) PROVE GateInv'
<1>1. TypeOK'
  BY GateAssumption DEF GateInv, TypeOK, AfterInv, PhaseInv, StartEnter
<1>2. LockInv' /\ AfterInv'
  BY GateAssumption DEF GateInv, TypeOK, LockInv, AfterInv, StartEnter
<1>3. CoordinatedWhenNeeded'
  BY DEF GateInv, TypeOK, CoordinatedWhenNeeded, StartEnter
<1>4. CollectorAuthority' /\ OneCollector' /\ PhaseInv' /\ ExclusiveEmpty'
  BY DEF GateInv, TypeOK, AfterInv, LockInv, CoordinatedWhenNeeded, CollectorAuthority,
         OneCollector, PhaseInv, ExclusiveEmpty, Collecting, Admitted, StartEnter
<1>5. Admissions' = Admissions /\ active' = active
  BY DEF GateInv, TypeOK, AfterInv, Admissions, Admitted, StartEnter
<1> QED BY <1>1, <1>2, <1>3, <1>4, <1>5, CountKept DEF GateInv

LEMMA StartCollectStep == ASSUME GateInv, NEW t \in Threads, StartCollect(t) PROVE GateInv'
<1>1. TypeOK'
  BY GateAssumption DEF GateInv, TypeOK, AfterInv, PhaseInv, StartCollect
<1>2. LockInv' /\ AfterInv'
  BY GateAssumption DEF GateInv, TypeOK, LockInv, AfterInv, StartCollect
<1>3. CoordinatedWhenNeeded'
  BY DEF GateInv, TypeOK, CoordinatedWhenNeeded, StartCollect
<1>4. CollectorAuthority' /\ OneCollector' /\ PhaseInv' /\ ExclusiveEmpty'
  BY DEF GateInv, TypeOK, AfterInv, LockInv, CoordinatedWhenNeeded, CollectorAuthority,
         OneCollector, PhaseInv, ExclusiveEmpty, Collecting, Admitted, StartCollect
<1>5. Admissions' = Admissions /\ active' = active
  BY DEF GateInv, TypeOK, AfterInv, Admissions, Admitted, StartCollect
<1> QED BY <1>1, <1>2, <1>3, <1>4, <1>5, CountKept DEF GateInv

LEMMA StartRequestStep == ASSUME GateInv, NEW t \in Threads, StartRequest(t) PROVE GateInv'
<1>1. TypeOK'
  BY GateAssumption DEF GateInv, TypeOK, AfterInv, PhaseInv, StartRequest
<1>2. LockInv' /\ AfterInv'
  BY GateAssumption DEF GateInv, TypeOK, LockInv, AfterInv, StartRequest
<1>3. CoordinatedWhenNeeded'
  BY DEF GateInv, TypeOK, CoordinatedWhenNeeded, StartRequest
<1>4. CollectorAuthority' /\ OneCollector' /\ PhaseInv' /\ ExclusiveEmpty'
  BY DEF GateInv, TypeOK, AfterInv, LockInv, CoordinatedWhenNeeded, CollectorAuthority,
         OneCollector, PhaseInv, ExclusiveEmpty, Collecting, Admitted, StartRequest
<1>5. Admissions' = Admissions /\ active' = active
  BY DEF GateInv, TypeOK, AfterInv, Admissions, Admitted, StartRequest
<1> QED BY <1>1, <1>2, <1>3, <1>4, <1>5, CountKept DEF GateInv

LEMMA RequestSwapStep == ASSUME GateInv, NEW t \in Threads, RequestSwap(t) PROVE GateInv'
<1>1. TypeOK'
  BY GateAssumption DEF GateInv, TypeOK, AfterInv, PhaseInv, RequestSwap
<1>2. LockInv' /\ AfterInv'
  BY GateAssumption DEF GateInv, TypeOK, LockInv, AfterInv, RequestSwap
<1>3. CoordinatedWhenNeeded'
  BY DEF GateInv, TypeOK, CoordinatedWhenNeeded, RequestSwap
<1>4. CollectorAuthority' /\ OneCollector' /\ PhaseInv' /\ ExclusiveEmpty'
  BY DEF GateInv, TypeOK, AfterInv, LockInv, CoordinatedWhenNeeded, CollectorAuthority,
         OneCollector, PhaseInv, ExclusiveEmpty, Collecting, Admitted, RequestSwap
<1>5. Admissions' = Admissions /\ active' = active
  BY DEF GateInv, TypeOK, AfterInv, Admissions, Admitted, RequestSwap
<1> QED BY <1>1, <1>2, <1>3, <1>4, <1>5, CountKept DEF GateInv

LEMMA RequestRecheckStep == ASSUME GateInv, NEW t \in Threads, RequestRecheck(t) PROVE GateInv'
<1>1. TypeOK'
  BY GateAssumption DEF GateInv, TypeOK, AfterInv, PhaseInv, RequestRecheck
<1>2. LockInv' /\ AfterInv'
  BY GateAssumption DEF GateInv, TypeOK, LockInv, AfterInv, RequestRecheck
<1>3. CoordinatedWhenNeeded'
  BY DEF GateInv, TypeOK, CoordinatedWhenNeeded, RequestRecheck
<1>4. CollectorAuthority' /\ OneCollector' /\ PhaseInv' /\ ExclusiveEmpty'
  BY DEF GateInv, TypeOK, AfterInv, LockInv, CoordinatedWhenNeeded, CollectorAuthority,
         OneCollector, PhaseInv, ExclusiveEmpty, Collecting, Admitted, RequestRecheck
<1>5. Admissions' = Admissions /\ active' = active
  BY DEF GateInv, TypeOK, AfterInv, Admissions, Admitted, RequestRecheck
<1> QED BY <1>1, <1>2, <1>3, <1>4, <1>5, CountKept DEF GateInv

LEMMA PressureStep == ASSUME GateInv, NEW t \in Threads, Pressure(t) PROVE GateInv'
<1>1. TypeOK'
  BY GateAssumption DEF GateInv, TypeOK, AfterInv, PhaseInv, Pressure
<1>2. LockInv' /\ AfterInv'
  BY GateAssumption DEF GateInv, TypeOK, LockInv, AfterInv, Pressure
<1>3. CoordinatedWhenNeeded'
  BY DEF GateInv, TypeOK, CoordinatedWhenNeeded, Pressure
<1>4. CollectorAuthority' /\ OneCollector' /\ PhaseInv' /\ ExclusiveEmpty'
  BY DEF GateInv, TypeOK, AfterInv, LockInv, CoordinatedWhenNeeded, CollectorAuthority,
         OneCollector, PhaseInv, ExclusiveEmpty, Collecting, Admitted, Pressure
<1>5. Admissions' = Admissions /\ active' = active
  BY DEF GateInv, TypeOK, AfterInv, Admissions, Admitted, Pressure
<1> QED BY <1>1, <1>2, <1>3, <1>4, <1>5, CountKept DEF GateInv

LEMMA TryEnterStep == ASSUME GateInv, NEW t \in Threads, TryEnter(t) PROVE GateInv'
<1>1. TypeOK'
  BY GateAssumption DEF GateInv, TypeOK, AfterInv, PhaseInv, TryEnter
<1>2. LockInv' /\ AfterInv'
  BY GateAssumption DEF GateInv, TypeOK, LockInv, AfterInv, TryEnter
<1>3. CoordinatedWhenNeeded'
  BY DEF GateInv, TypeOK, CoordinatedWhenNeeded, TryEnter
<1>4. CollectorAuthority' /\ OneCollector' /\ PhaseInv' /\ ExclusiveEmpty'
  BY DEF GateInv, TypeOK, AfterInv, LockInv, CoordinatedWhenNeeded, CollectorAuthority,
         OneCollector, PhaseInv, ExclusiveEmpty, Collecting, Admitted, TryEnter
<1>5. Admissions' = Admissions /\ active' = active
  BY DEF GateInv, TypeOK, AfterInv, Admissions, Admitted, TryEnter
<1> QED BY <1>1, <1>2, <1>3, <1>4, <1>5, CountKept DEF GateInv

LEMMA LockWhenIdleStep == ASSUME GateInv, NEW t \in Threads, LockWhenIdle(t) PROVE GateInv'
<1>1. TypeOK'
  BY GateAssumption DEF GateInv, TypeOK, AfterInv, PhaseInv, LockWhenIdle
<1>2. LockInv' /\ AfterInv'
  BY GateAssumption DEF GateInv, TypeOK, LockInv, AfterInv, LockWhenIdle
<1>3. CoordinatedWhenNeeded'
  BY DEF GateInv, TypeOK, CoordinatedWhenNeeded, LockWhenIdle
<1>4. CollectorAuthority' /\ OneCollector' /\ PhaseInv' /\ ExclusiveEmpty'
  BY DEF GateInv, TypeOK, AfterInv, LockInv, CoordinatedWhenNeeded, CollectorAuthority,
         OneCollector, PhaseInv, ExclusiveEmpty, Collecting, Admitted, LockWhenIdle
<1>5. Admissions' = Admissions /\ active' = active
  BY DEF GateInv, TypeOK, AfterInv, Admissions, Admitted, LockWhenIdle
<1> QED BY <1>1, <1>2, <1>3, <1>4, <1>5, CountKept DEF GateInv

LEMMA EnterCasStep == ASSUME GateInv, NEW t \in Threads, EnterCas(t) PROVE GateInv'
<1>1. TypeOK'
  BY GateAssumption DEF GateInv, TypeOK, AfterInv, PhaseInv, EnterCas
<1>2. LockInv' /\ AfterInv'
  BY GateAssumption DEF GateInv, TypeOK, LockInv, AfterInv, EnterCas
<1>3. CoordinatedWhenNeeded'
  BY DEF GateInv, TypeOK, CoordinatedWhenNeeded, EnterCas
<1>4. CollectorAuthority' /\ OneCollector' /\ PhaseInv' /\ ExclusiveEmpty'
  BY DEF GateInv, TypeOK, AfterInv, LockInv, CoordinatedWhenNeeded, CollectorAuthority,
         OneCollector, PhaseInv, ExclusiveEmpty, Collecting, Admitted, EnterCas
<1>5. t \notin Admissions /\ Admissions' = Admissions \cup {t} /\ active' = active + 1
  BY DEF GateInv, TypeOK, AfterInv, Admissions, Admitted, EnterCas
<1> QED BY <1>1, <1>2, <1>3, <1>4, <1>5, CountUp DEF GateInv

LEMMA EnterCasFailsStep == ASSUME GateInv, NEW t \in Threads, EnterCasFails(t) PROVE GateInv'
<1>1. TypeOK'
  BY GateAssumption DEF GateInv, TypeOK, AfterInv, PhaseInv, EnterCasFails
<1>2. LockInv' /\ AfterInv'
  BY GateAssumption DEF GateInv, TypeOK, LockInv, AfterInv, EnterCasFails
<1>3. CoordinatedWhenNeeded'
  BY DEF GateInv, TypeOK, CoordinatedWhenNeeded, EnterCasFails
<1>4. CollectorAuthority' /\ OneCollector' /\ PhaseInv' /\ ExclusiveEmpty'
  BY DEF GateInv, TypeOK, AfterInv, LockInv, CoordinatedWhenNeeded, CollectorAuthority,
         OneCollector, PhaseInv, ExclusiveEmpty, Collecting, Admitted, EnterCasFails
<1>5. Admissions' = Admissions /\ active' = active
  BY DEF GateInv, TypeOK, AfterInv, Admissions, Admitted, EnterCasFails
<1> QED BY <1>1, <1>2, <1>3, <1>4, <1>5, CountKept DEF GateInv

LEMMA EnterCasSpuriousStep == ASSUME GateInv, NEW t \in Threads, EnterCasSpurious(t) PROVE GateInv'
<1>1. TypeOK'
  BY GateAssumption DEF GateInv, TypeOK, AfterInv, PhaseInv, EnterCasSpurious
<1>2. LockInv' /\ AfterInv'
  BY GateAssumption DEF GateInv, TypeOK, LockInv, AfterInv, EnterCasSpurious
<1>3. CoordinatedWhenNeeded'
  BY DEF GateInv, TypeOK, CoordinatedWhenNeeded, EnterCasSpurious
<1>4. CollectorAuthority' /\ OneCollector' /\ PhaseInv' /\ ExclusiveEmpty'
  BY DEF GateInv, TypeOK, AfterInv, LockInv, CoordinatedWhenNeeded, CollectorAuthority,
         OneCollector, PhaseInv, ExclusiveEmpty, Collecting, Admitted, EnterCasSpurious
<1>5. Admissions' = Admissions /\ active' = active
  BY DEF GateInv, TypeOK, AfterInv, Admissions, Admitted, EnterCasSpurious
<1> QED BY <1>1, <1>2, <1>3, <1>4, <1>5, CountKept DEF GateInv

LEMMA EnterLockStep == ASSUME GateInv, NEW t \in Threads, EnterLock(t) PROVE GateInv'
<1>1. TypeOK'
  BY GateAssumption DEF GateInv, TypeOK, AfterInv, PhaseInv, EnterLock
<1>2. LockInv' /\ AfterInv'
  BY GateAssumption DEF GateInv, TypeOK, LockInv, AfterInv, EnterLock
<1>3. CoordinatedWhenNeeded'
  BY DEF GateInv, TypeOK, CoordinatedWhenNeeded, EnterLock
<1>4. CollectorAuthority' /\ OneCollector' /\ PhaseInv' /\ ExclusiveEmpty'
  BY DEF GateInv, TypeOK, AfterInv, LockInv, CoordinatedWhenNeeded, CollectorAuthority,
         OneCollector, PhaseInv, ExclusiveEmpty, Collecting, Admitted, EnterLock
<1>5. Admissions' = Admissions /\ active' = active
  BY DEF GateInv, TypeOK, AfterInv, Admissions, Admitted, EnterLock
<1> QED BY <1>1, <1>2, <1>3, <1>4, <1>5, CountKept DEF GateInv

LEMMA EnteringStep == ASSUME GateInv, NEW t \in Threads, Entering(t) PROVE GateInv'
<1>1. TypeOK'
  <2>1. coordinated' \in BOOLEAN
    BY Zenon DEF GateInv, TypeOK, Entering, Elect, Wait, Unlock
  <2> QED
    BY <2>1, GateAssumption DEF GateInv, TypeOK, AfterInv, PhaseInv, Entering, Elect, CanElect, CollectionRequested, ReadsCount, Unlock, Wait
<1>2. LockInv' /\ AfterInv'
  BY GateAssumption DEF GateInv, TypeOK, LockInv, AfterInv, Entering, Elect, CanElect, CollectionRequested, ReadsCount, Unlock, Wait
<1>3. CoordinatedWhenNeeded'
  BY DEF GateInv, TypeOK, CoordinatedWhenNeeded, Entering, Elect, CanElect, CollectionRequested, ReadsCount, Unlock, Wait
<1>4. CollectorAuthority' /\ OneCollector' /\ PhaseInv' /\ ExclusiveEmpty'
  BY DEF GateInv, TypeOK, AfterInv, LockInv, CoordinatedWhenNeeded, CollectorAuthority,
         OneCollector, PhaseInv, ExclusiveEmpty, Collecting, Admitted, Entering, Elect, CanElect, CollectionRequested, ReadsCount, Unlock, Wait
<1>5. Admissions' = Admissions /\ active' = active
  BY DEF GateInv, TypeOK, AfterInv, Admissions, Admitted, Entering, Elect, CanElect, CollectionRequested, ReadsCount, Unlock, Wait
<1> QED BY <1>1, <1>2, <1>3, <1>4, <1>5, CountKept DEF GateInv

LEMMA AdmitStep == ASSUME GateInv, NEW t \in Threads, Admit(t) PROVE GateInv'
<1>1. TypeOK'
  BY GateAssumption DEF GateInv, TypeOK, AfterInv, PhaseInv, Admit, Unlock
<1>2. LockInv' /\ AfterInv'
  BY GateAssumption DEF GateInv, TypeOK, LockInv, AfterInv, Admit, Unlock
<1>3. CoordinatedWhenNeeded'
  BY DEF GateInv, TypeOK, CoordinatedWhenNeeded, Admit, Unlock
<1>4. CollectorAuthority' /\ OneCollector' /\ PhaseInv' /\ ExclusiveEmpty'
  BY DEF GateInv, TypeOK, AfterInv, LockInv, CoordinatedWhenNeeded, CollectorAuthority,
         OneCollector, PhaseInv, ExclusiveEmpty, Collecting, Admitted, Admit, Unlock
<1>5. t \notin Admissions /\ Admissions' = Admissions \cup {t} /\ active' = active + 1
  BY DEF GateInv, TypeOK, AfterInv, Admissions, Admitted, Admit, Unlock
<1> QED BY <1>1, <1>2, <1>3, <1>4, <1>5, CountUp DEF GateInv

LEMMA ExitStep == ASSUME GateInv, NEW t \in Threads, Exit(t) PROVE GateInv'
<1>0. active > 0
  BY AdmissionsFinite DEF GateInv, CountIsAdmissions, Admissions, Admitted, Exit
<1>1. TypeOK'
  BY <1>0, GateAssumption DEF GateInv, TypeOK, AfterInv, PhaseInv, Exit
<1>2. LockInv' /\ AfterInv'
  BY GateAssumption DEF GateInv, TypeOK, LockInv, AfterInv, Exit
<1>3. CoordinatedWhenNeeded'
  BY DEF GateInv, TypeOK, CoordinatedWhenNeeded, Exit
<1>4. CollectorAuthority' /\ OneCollector' /\ PhaseInv' /\ ExclusiveEmpty'
  BY <1>0 DEF GateInv, TypeOK, AfterInv, LockInv, CoordinatedWhenNeeded, CollectorAuthority,
         OneCollector, PhaseInv, ExclusiveEmpty, Collecting, Admitted, Exit
<1>5. t \in Admissions /\ Admissions' = Admissions \ {t} /\ active' = active - 1
  BY DEF GateInv, TypeOK, AfterInv, Admissions, Admitted, Exit
<1> QED BY <1>1, <1>2, <1>3, <1>4, <1>5, CountDown DEF GateInv

LEMMA ExitLockStep == ASSUME GateInv, NEW t \in Threads, ExitLock(t) PROVE GateInv'
<1>1. TypeOK'
  BY GateAssumption DEF GateInv, TypeOK, AfterInv, PhaseInv, ExitLock
<1>2. LockInv' /\ AfterInv'
  BY GateAssumption DEF GateInv, TypeOK, LockInv, AfterInv, ExitLock
<1>3. CoordinatedWhenNeeded'
  BY DEF GateInv, TypeOK, CoordinatedWhenNeeded, ExitLock
<1>4. CollectorAuthority' /\ OneCollector' /\ PhaseInv' /\ ExclusiveEmpty'
  BY DEF GateInv, TypeOK, AfterInv, LockInv, CoordinatedWhenNeeded, CollectorAuthority,
         OneCollector, PhaseInv, ExclusiveEmpty, Collecting, Admitted, ExitLock
<1>5. Admissions' = Admissions /\ active' = active
  BY DEF GateInv, TypeOK, AfterInv, Admissions, Admitted, ExitLock
<1> QED BY <1>1, <1>2, <1>3, <1>4, <1>5, CountKept DEF GateInv

LEMMA ExitSettleStep == ASSUME GateInv, NEW t \in Threads, ExitSettle(t) PROVE GateInv'
<1>1. TypeOK'
  BY GateAssumption DEF GateInv, TypeOK, AfterInv, PhaseInv, ExitSettle, Unlock
<1>2. LockInv' /\ AfterInv'
  BY GateAssumption DEF GateInv, TypeOK, LockInv, AfterInv, ExitSettle, Unlock
<1>3. CoordinatedWhenNeeded'
  BY DEF GateInv, TypeOK, CoordinatedWhenNeeded, ExitSettle, Unlock
<1>4. CollectorAuthority' /\ OneCollector' /\ PhaseInv' /\ ExclusiveEmpty'
  BY DEF GateInv, TypeOK, AfterInv, LockInv, CoordinatedWhenNeeded, CollectorAuthority,
         OneCollector, PhaseInv, ExclusiveEmpty, Collecting, Admitted, ExitSettle, Unlock
<1>5. Admissions' = Admissions /\ active' = active
  BY DEF GateInv, TypeOK, AfterInv, Admissions, Admitted, ExitSettle, Unlock
<1> QED BY <1>1, <1>2, <1>3, <1>4, <1>5, CountKept DEF GateInv

LEMMA RequestSynchronousStep == ASSUME GateInv, NEW t \in Threads, RequestSynchronous(t) PROVE GateInv'
<1>1. TypeOK'
  <2>1. coordinated' \in BOOLEAN /\ requested' \in BOOLEAN
    BY Zenon DEF GateInv, TypeOK, RequestSynchronous, Unlock
  <2> QED
    BY <2>1, GateAssumption DEF GateInv, TypeOK, AfterInv, PhaseInv, RequestSynchronous, Unlock
<1>2. LockInv' /\ AfterInv'
  BY GateAssumption DEF GateInv, TypeOK, LockInv, AfterInv, RequestSynchronous, Unlock
<1>3. CoordinatedWhenNeeded'
  BY DEF GateInv, TypeOK, CoordinatedWhenNeeded, RequestSynchronous, Unlock
<1>4. CollectorAuthority' /\ OneCollector' /\ PhaseInv' /\ ExclusiveEmpty'
  BY DEF GateInv, TypeOK, AfterInv, LockInv, CoordinatedWhenNeeded, CollectorAuthority,
         OneCollector, PhaseInv, ExclusiveEmpty, Collecting, Admitted, RequestSynchronous, Unlock
<1>5. Admissions' = Admissions /\ active' = active
  BY DEF GateInv, TypeOK, AfterInv, Admissions, Admitted, RequestSynchronous, Unlock
<1> QED BY <1>1, <1>2, <1>3, <1>4, <1>5, CountKept DEF GateInv

LEMMA LoopLockStep == ASSUME GateInv, NEW t \in Threads, LoopLock(t) PROVE GateInv'
<1>1. TypeOK'
  BY GateAssumption DEF GateInv, TypeOK, AfterInv, PhaseInv, LoopLock
<1>2. LockInv' /\ AfterInv'
  BY GateAssumption DEF GateInv, TypeOK, LockInv, AfterInv, LoopLock
<1>3. CoordinatedWhenNeeded'
  BY DEF GateInv, TypeOK, CoordinatedWhenNeeded, LoopLock
<1>4. CollectorAuthority' /\ OneCollector' /\ PhaseInv' /\ ExclusiveEmpty'
  BY DEF GateInv, TypeOK, AfterInv, LockInv, CoordinatedWhenNeeded, CollectorAuthority,
         OneCollector, PhaseInv, ExclusiveEmpty, Collecting, Admitted, LoopLock
<1>5. Admissions' = Admissions /\ active' = active
  BY DEF GateInv, TypeOK, AfterInv, Admissions, Admitted, LoopLock
<1> QED BY <1>1, <1>2, <1>3, <1>4, <1>5, CountKept DEF GateInv

LEMMA LoopingStep == ASSUME GateInv, NEW t \in Threads, Looping(t) PROVE GateInv'
<1>1. TypeOK'
  <2>1. coordinated' \in BOOLEAN
    BY Zenon DEF GateInv, TypeOK, Looping, Elect, Unlock
  <2> QED
    BY <2>1, GateAssumption DEF GateInv, TypeOK, AfterInv, PhaseInv, Looping, Elect, CanElect, CollectionRequested, ReadsCount, Unlock
<1>2. LockInv' /\ AfterInv'
  BY GateAssumption DEF GateInv, TypeOK, LockInv, AfterInv, Looping, Elect, CanElect, CollectionRequested, ReadsCount, Unlock
<1>3. CoordinatedWhenNeeded'
  BY DEF GateInv, TypeOK, CoordinatedWhenNeeded, Looping, Elect, CanElect, CollectionRequested, ReadsCount, Unlock
<1>4. CollectorAuthority' /\ OneCollector' /\ PhaseInv' /\ ExclusiveEmpty'
  BY DEF GateInv, TypeOK, AfterInv, LockInv, CoordinatedWhenNeeded, CollectorAuthority,
         OneCollector, PhaseInv, ExclusiveEmpty, Collecting, Admitted, Looping, Elect, CanElect, CollectionRequested, ReadsCount, Unlock
<1>5. Admissions' = Admissions /\ active' = active
  BY DEF GateInv, TypeOK, AfterInv, Admissions, Admitted, Looping, Elect, CanElect, CollectionRequested, ReadsCount, Unlock
<1> QED BY <1>1, <1>2, <1>3, <1>4, <1>5, CountKept DEF GateInv

LEMMA CollectWaitStep == ASSUME GateInv, NEW t \in Threads, CollectWait(t) PROVE GateInv'
<1>1. TypeOK'
  BY GateAssumption DEF GateInv, TypeOK, AfterInv, PhaseInv, CollectWait, Wait
<1>2. LockInv' /\ AfterInv'
  BY GateAssumption DEF GateInv, TypeOK, LockInv, AfterInv, CollectWait, Wait
<1>3. CoordinatedWhenNeeded'
  BY DEF GateInv, TypeOK, CoordinatedWhenNeeded, CollectWait, Wait
<1>4. CollectorAuthority' /\ OneCollector' /\ PhaseInv' /\ ExclusiveEmpty'
  BY DEF GateInv, TypeOK, AfterInv, LockInv, CoordinatedWhenNeeded, CollectorAuthority,
         OneCollector, PhaseInv, ExclusiveEmpty, Collecting, Admitted, CollectWait, Wait
<1>5. Admissions' = Admissions /\ active' = active
  BY DEF GateInv, TypeOK, AfterInv, Admissions, Admitted, CollectWait, Wait
<1> QED BY <1>1, <1>2, <1>3, <1>4, <1>5, CountKept DEF GateInv

LEMMA BeginCollectionStep == ASSUME GateInv, NEW t \in Threads, BeginCollection(t) PROVE GateInv'
<1>1. TypeOK'
  BY GateAssumption DEF GateInv, TypeOK, AfterInv, PhaseInv, BeginCollection, Unlock
<1>2. LockInv' /\ AfterInv'
  BY GateAssumption DEF GateInv, TypeOK, LockInv, AfterInv, BeginCollection, Unlock
<1>3. CoordinatedWhenNeeded'
  BY DEF GateInv, TypeOK, CoordinatedWhenNeeded, BeginCollection, Unlock
<1>4. CollectorAuthority' /\ OneCollector' /\ PhaseInv' /\ ExclusiveEmpty'
  BY DEF GateInv, TypeOK, AfterInv, LockInv, CoordinatedWhenNeeded, CollectorAuthority,
         OneCollector, PhaseInv, ExclusiveEmpty, Collecting, Admitted, BeginCollection, Unlock
<1>5. Admissions' = Admissions /\ active' = active
  BY DEF GateInv, TypeOK, AfterInv, Admissions, Admitted, BeginCollection, Unlock
<1> QED BY <1>1, <1>2, <1>3, <1>4, <1>5, CountKept DEF GateInv

LEMMA BeginTopologyMutationStep == ASSUME GateInv, NEW t \in Threads, BeginTopologyMutation(t) PROVE GateInv'
<1>1. TypeOK'
  BY GateAssumption DEF GateInv, TypeOK, AfterInv, PhaseInv, BeginTopologyMutation
<1>2. LockInv' /\ AfterInv'
  BY GateAssumption DEF GateInv, TypeOK, LockInv, AfterInv, BeginTopologyMutation
<1>3. CoordinatedWhenNeeded'
  BY DEF GateInv, TypeOK, CoordinatedWhenNeeded, BeginTopologyMutation
<1>4. CollectorAuthority' /\ OneCollector' /\ PhaseInv' /\ ExclusiveEmpty'
  BY DEF GateInv, TypeOK, AfterInv, LockInv, CoordinatedWhenNeeded, CollectorAuthority,
         OneCollector, PhaseInv, ExclusiveEmpty, Collecting, Admitted, BeginTopologyMutation
<1>5. Admissions' = Admissions /\ active' = active
  BY DEF GateInv, TypeOK, AfterInv, Admissions, Admitted, BeginTopologyMutation
<1> QED BY <1>1, <1>2, <1>3, <1>4, <1>5, CountKept DEF GateInv

LEMMA PublishAllocatorViewStep == ASSUME GateInv, NEW t \in Threads, PublishAllocatorView(t) PROVE GateInv'
<1>1. TypeOK'
  BY GateAssumption DEF GateInv, TypeOK, AfterInv, PhaseInv, PublishAllocatorView
<1>2. LockInv' /\ AfterInv'
  BY GateAssumption DEF GateInv, TypeOK, LockInv, AfterInv, PublishAllocatorView
<1>3. CoordinatedWhenNeeded'
  BY DEF GateInv, TypeOK, CoordinatedWhenNeeded, PublishAllocatorView
<1>4. CollectorAuthority' /\ OneCollector' /\ PhaseInv' /\ ExclusiveEmpty'
  BY DEF GateInv, TypeOK, AfterInv, LockInv, CoordinatedWhenNeeded, CollectorAuthority,
         OneCollector, PhaseInv, ExclusiveEmpty, Collecting, Admitted, PublishAllocatorView
<1>5. Admissions' = Admissions /\ active' = active
  BY DEF GateInv, TypeOK, AfterInv, Admissions, Admitted, PublishAllocatorView
<1> QED BY <1>1, <1>2, <1>3, <1>4, <1>5, CountKept DEF GateInv

LEMMA BeginFinalizingStep == ASSUME GateInv, NEW t \in Threads, BeginFinalizing(t) PROVE GateInv'
<1>1. TypeOK'
  BY GateAssumption DEF GateInv, TypeOK, AfterInv, PhaseInv, BeginFinalizing, Unlock
<1>2. LockInv' /\ AfterInv'
  BY GateAssumption DEF GateInv, TypeOK, LockInv, AfterInv, BeginFinalizing, Unlock
<1>3. CoordinatedWhenNeeded'
  BY DEF GateInv, TypeOK, CoordinatedWhenNeeded, BeginFinalizing, Unlock
<1>4. CollectorAuthority' /\ OneCollector' /\ PhaseInv' /\ ExclusiveEmpty'
  BY DEF GateInv, TypeOK, AfterInv, LockInv, CoordinatedWhenNeeded, CollectorAuthority,
         OneCollector, PhaseInv, ExclusiveEmpty, Collecting, Admitted, BeginFinalizing, Unlock
<1>5. t \notin Admissions /\ Admissions' = Admissions \cup {t} /\ active' = active + 1
  BY DEF GateInv, TypeOK, AfterInv, Admissions, Admitted, BeginFinalizing, Unlock
<1> QED BY <1>1, <1>2, <1>3, <1>4, <1>5, CountUp DEF GateInv

LEMMA FinalizeRunStep == ASSUME GateInv, NEW t \in Threads, FinalizeRun(t) PROVE GateInv'
<1>1. TypeOK'
  BY GateAssumption DEF GateInv, TypeOK, AfterInv, PhaseInv, FinalizeRun
<1>2. LockInv' /\ AfterInv'
  BY GateAssumption DEF GateInv, TypeOK, LockInv, AfterInv, FinalizeRun
<1>3. CoordinatedWhenNeeded'
  BY DEF GateInv, TypeOK, CoordinatedWhenNeeded, FinalizeRun
<1>4. CollectorAuthority' /\ OneCollector' /\ PhaseInv' /\ ExclusiveEmpty'
  BY DEF GateInv, TypeOK, AfterInv, LockInv, CoordinatedWhenNeeded, CollectorAuthority,
         OneCollector, PhaseInv, ExclusiveEmpty, Collecting, Admitted, FinalizeRun
<1>5. Admissions' = Admissions /\ active' = active
  BY DEF GateInv, TypeOK, AfterInv, Admissions, Admitted, FinalizeRun
<1> QED BY <1>1, <1>2, <1>3, <1>4, <1>5, CountKept DEF GateInv

LEMMA CommitRunStep == ASSUME GateInv, NEW t \in Threads, CommitRun(t) PROVE GateInv'
<1>1. TypeOK'
  BY GateAssumption DEF GateInv, TypeOK, AfterInv, PhaseInv, CommitRun
<1>2. LockInv' /\ AfterInv'
  BY GateAssumption DEF GateInv, TypeOK, LockInv, AfterInv, CommitRun
<1>3. CoordinatedWhenNeeded'
  BY DEF GateInv, TypeOK, CoordinatedWhenNeeded, CommitRun
<1>4. CollectorAuthority' /\ OneCollector' /\ PhaseInv' /\ ExclusiveEmpty'
  BY DEF GateInv, TypeOK, AfterInv, LockInv, CoordinatedWhenNeeded, CollectorAuthority,
         OneCollector, PhaseInv, ExclusiveEmpty, Collecting, Admitted, CommitRun
<1>5. Admissions' = Admissions /\ active' = active
  BY DEF GateInv, TypeOK, AfterInv, Admissions, Admitted, CommitRun
<1> QED BY <1>1, <1>2, <1>3, <1>4, <1>5, CountKept DEF GateInv

LEMMA DestructorPanicsStep == ASSUME GateInv, NEW t \in Threads, DestructorPanics(t) PROVE GateInv'
<1>1. TypeOK'
  BY GateAssumption DEF GateInv, TypeOK, AfterInv, PhaseInv, DestructorPanics
<1>2. LockInv' /\ AfterInv'
  BY GateAssumption DEF GateInv, TypeOK, LockInv, AfterInv, DestructorPanics
<1>3. CoordinatedWhenNeeded'
  BY DEF GateInv, TypeOK, CoordinatedWhenNeeded, DestructorPanics
<1>4. CollectorAuthority' /\ OneCollector' /\ PhaseInv' /\ ExclusiveEmpty'
  BY DEF GateInv, TypeOK, AfterInv, LockInv, CoordinatedWhenNeeded, CollectorAuthority,
         OneCollector, PhaseInv, ExclusiveEmpty, Collecting, Admitted, DestructorPanics
<1>5. Admissions' = Admissions /\ active' = active
  BY DEF GateInv, TypeOK, AfterInv, Admissions, Admitted, DestructorPanics
<1> QED BY <1>1, <1>2, <1>3, <1>4, <1>5, CountKept DEF GateInv

LEMMA AcknowledgeStep == ASSUME GateInv, NEW t \in Threads, Acknowledge(t) PROVE GateInv'
<1>1. TypeOK'
  BY GateAssumption DEF GateInv, TypeOK, AfterInv, PhaseInv, Acknowledge
<1>2. LockInv' /\ AfterInv'
  BY GateAssumption DEF GateInv, TypeOK, LockInv, AfterInv, Acknowledge
<1>3. CoordinatedWhenNeeded'
  BY DEF GateInv, TypeOK, CoordinatedWhenNeeded, Acknowledge
<1>4. CollectorAuthority' /\ OneCollector' /\ PhaseInv' /\ ExclusiveEmpty'
  BY DEF GateInv, TypeOK, AfterInv, LockInv, CoordinatedWhenNeeded, CollectorAuthority,
         OneCollector, PhaseInv, ExclusiveEmpty, Collecting, Admitted, Acknowledge
<1>5. Admissions' = Admissions /\ active' = active
  BY DEF GateInv, TypeOK, AfterInv, Admissions, Admitted, Acknowledge
<1> QED BY <1>1, <1>2, <1>3, <1>4, <1>5, CountKept DEF GateInv

LEMMA CompleteStep == ASSUME GateInv, NEW t \in Threads, Complete(t) PROVE GateInv'
<1>1. TypeOK'
  BY GateAssumption DEF GateInv, TypeOK, AfterInv, PhaseInv, Complete, Unlock
<1>2. LockInv' /\ AfterInv'
  BY GateAssumption DEF GateInv, TypeOK, LockInv, AfterInv, Complete, Unlock
<1>3. CoordinatedWhenNeeded'
  BY DEF GateInv, TypeOK, CoordinatedWhenNeeded, Complete, Unlock
<1>4. CollectorAuthority' /\ OneCollector' /\ PhaseInv' /\ ExclusiveEmpty'
  BY DEF GateInv, TypeOK, AfterInv, LockInv, CoordinatedWhenNeeded, CollectorAuthority,
         OneCollector, PhaseInv, ExclusiveEmpty, Collecting, Admitted, Complete, Unlock
<1>5. Admissions' = Admissions /\ active' = active
  BY DEF GateInv, TypeOK, AfterInv, Admissions, Admitted, Complete, Unlock
<1> QED BY <1>1, <1>2, <1>3, <1>4, <1>5, CountKept DEF GateInv

LEMMA PanicReversibleStep == ASSUME GateInv, NEW t \in Threads, PanicReversible(t) PROVE GateInv'
<1>1. TypeOK'
  BY GateAssumption DEF GateInv, TypeOK, AfterInv, PhaseInv, PanicReversible
<1>2. LockInv' /\ AfterInv'
  BY GateAssumption DEF GateInv, TypeOK, LockInv, AfterInv, PanicReversible
<1>3. CoordinatedWhenNeeded'
  BY DEF GateInv, TypeOK, CoordinatedWhenNeeded, PanicReversible
<1>4. CollectorAuthority' /\ OneCollector' /\ PhaseInv' /\ ExclusiveEmpty'
  BY DEF GateInv, TypeOK, AfterInv, LockInv, CoordinatedWhenNeeded, CollectorAuthority,
         OneCollector, PhaseInv, ExclusiveEmpty, Collecting, Admitted, PanicReversible
<1>5. Admissions' = Admissions /\ active' = active
  BY DEF GateInv, TypeOK, AfterInv, Admissions, Admitted, PanicReversible
<1> QED BY <1>1, <1>2, <1>3, <1>4, <1>5, CountKept DEF GateInv

LEMMA PanicIrreversibleStep == ASSUME GateInv, NEW t \in Threads, PanicIrreversible(t) PROVE GateInv'
<1>1. TypeOK'
  BY GateAssumption DEF GateInv, TypeOK, AfterInv, PhaseInv, PanicIrreversible
<1>2. LockInv' /\ AfterInv'
  BY GateAssumption DEF GateInv, TypeOK, LockInv, AfterInv, PanicIrreversible
<1>3. CoordinatedWhenNeeded'
  BY DEF GateInv, TypeOK, CoordinatedWhenNeeded, PanicIrreversible
<1>4. CollectorAuthority' /\ OneCollector' /\ PhaseInv' /\ ExclusiveEmpty'
  BY DEF GateInv, TypeOK, AfterInv, LockInv, CoordinatedWhenNeeded, CollectorAuthority,
         OneCollector, PhaseInv, ExclusiveEmpty, Collecting, Admitted, PanicIrreversible
<1>5. Admissions' = Admissions /\ active' = active
  BY DEF GateInv, TypeOK, AfterInv, Admissions, Admitted, PanicIrreversible
<1> QED BY <1>1, <1>2, <1>3, <1>4, <1>5, CountKept DEF GateInv

LEMMA AbandonStep == ASSUME GateInv, NEW t \in Threads, Abandon(t) PROVE GateInv'
<1>1. TypeOK'
  BY GateAssumption DEF GateInv, TypeOK, AfterInv, PhaseInv, Abandon
<1>2. LockInv' /\ AfterInv'
  BY GateAssumption DEF GateInv, TypeOK, LockInv, AfterInv, Abandon
<1>3. CoordinatedWhenNeeded'
  BY DEF GateInv, TypeOK, CoordinatedWhenNeeded, Abandon
<1>4. CollectorAuthority' /\ OneCollector' /\ PhaseInv' /\ ExclusiveEmpty'
  BY DEF GateInv, TypeOK, AfterInv, LockInv, CoordinatedWhenNeeded, CollectorAuthority,
         OneCollector, PhaseInv, ExclusiveEmpty, Collecting, Admitted, Abandon
<1>5. Admissions' = Admissions /\ active' = active
  BY DEF GateInv, TypeOK, AfterInv, Admissions, Admitted, Abandon
<1> QED BY <1>1, <1>2, <1>3, <1>4, <1>5, CountKept DEF GateInv

LEMMA AbandonCollectionStep == ASSUME GateInv, NEW t \in Threads, AbandonCollection(t) PROVE GateInv'
<1>1. TypeOK'
  BY GateAssumption DEF GateInv, TypeOK, AfterInv, PhaseInv, AbandonCollection, Unlock
<1>2. LockInv' /\ AfterInv'
  BY GateAssumption DEF GateInv, TypeOK, LockInv, AfterInv, AbandonCollection, Unlock
<1>3. CoordinatedWhenNeeded'
  BY DEF GateInv, TypeOK, CoordinatedWhenNeeded, AbandonCollection, Unlock
<1>4. CollectorAuthority' /\ OneCollector' /\ PhaseInv' /\ ExclusiveEmpty'
  BY DEF GateInv, TypeOK, AfterInv, LockInv, CoordinatedWhenNeeded, CollectorAuthority,
         OneCollector, PhaseInv, ExclusiveEmpty, Collecting, Admitted, AbandonCollection, Unlock
<1>5. Admissions' = Admissions /\ active' = active
  BY DEF GateInv, TypeOK, AfterInv, Admissions, Admitted, AbandonCollection, Unlock
<1> QED BY <1>1, <1>2, <1>3, <1>4, <1>5, CountKept DEF GateInv

LEMMA PoisonStoreStep == ASSUME GateInv, NEW t \in Threads, PoisonStore(t) PROVE GateInv'
<1>1. TypeOK'
  BY GateAssumption DEF GateInv, TypeOK, AfterInv, PhaseInv, PoisonStore
<1>2. LockInv' /\ AfterInv'
  BY GateAssumption DEF GateInv, TypeOK, LockInv, AfterInv, PoisonStore
<1>3. CoordinatedWhenNeeded'
  BY DEF GateInv, TypeOK, CoordinatedWhenNeeded, PoisonStore
<1>4. CollectorAuthority' /\ OneCollector' /\ PhaseInv' /\ ExclusiveEmpty'
  BY DEF GateInv, TypeOK, AfterInv, LockInv, CoordinatedWhenNeeded, CollectorAuthority,
         OneCollector, PhaseInv, ExclusiveEmpty, Collecting, Admitted, PoisonStore
<1>5. Admissions' = Admissions /\ active' = active
  BY DEF GateInv, TypeOK, AfterInv, Admissions, Admitted, PoisonStore
<1> QED BY <1>1, <1>2, <1>3, <1>4, <1>5, CountKept DEF GateInv

LEMMA PoisonPhaseStep == ASSUME GateInv, NEW t \in Threads, PoisonPhase(t) PROVE GateInv'
<1>1. TypeOK'
  BY GateAssumption DEF GateInv, TypeOK, AfterInv, PhaseInv, PoisonPhase, Unlock
<1>2. LockInv' /\ AfterInv'
  BY GateAssumption DEF GateInv, TypeOK, LockInv, AfterInv, PoisonPhase, Unlock
<1>3. CoordinatedWhenNeeded'
  BY DEF GateInv, TypeOK, CoordinatedWhenNeeded, PoisonPhase, Unlock
<1>4. CollectorAuthority' /\ OneCollector' /\ PhaseInv' /\ ExclusiveEmpty'
  BY DEF GateInv, TypeOK, AfterInv, LockInv, CoordinatedWhenNeeded, CollectorAuthority,
         OneCollector, PhaseInv, ExclusiveEmpty, Collecting, Admitted, PoisonPhase, Unlock
<1>5. Admissions' = Admissions /\ active' = active
  BY DEF GateInv, TypeOK, AfterInv, Admissions, Admitted, PoisonPhase, Unlock
<1> QED BY <1>1, <1>2, <1>3, <1>4, <1>5, CountKept DEF GateInv

-----------------------------------------------------------------------------
(* The invariant, and the properties it gives.                             *)

LEMMA GateInvInit == Init => GateInv
<1> SUFFICES ASSUME Init PROVE GateInv OBVIOUS
<1>1. TypeOK /\ LockInv /\ AfterInv
  <2>1. TypeOK
    <3>1. 0 \in 0..MaxBatch /\ MaxOps \in 0..MaxOps BY GateAssumption
    <3> QED BY <3>1 DEF Init, TypeOK
  <2>2. LockInv BY GateAssumption DEF Init, LockInv
  <2>3. AfterInv BY DEF Init, AfterInv
  <2> QED BY <2>1, <2>2, <2>3
<1>2. CoordinatedWhenNeeded /\ CollectorAuthority /\ OneCollector /\ PhaseInv /\ ExclusiveEmpty
  BY DEF Init, CoordinatedWhenNeeded, CollectorAuthority, OneCollector, PhaseInv,
         ExclusiveEmpty, Collecting
<1>3. CountIsAdmissions
  <2>1. {t \in Threads : Admitted(t)} = {} BY DEF Init, Admitted
  <2> QED BY <2>1, FS_EmptySet DEF Init, CountIsAdmissions
<1> QED BY <1>1, <1>2, <1>3 DEF GateInv

LEMMA GateInvNext == GateInv /\ [Next]_vars => GateInv'
<1> SUFFICES ASSUME GateInv, [Next]_vars PROVE GateInv' OBVIOUS
<1>1. ASSUME NEW t \in Threads, Step(t) PROVE GateInv'
  BY <1>1, RelockStep, RequestSwapStep, RequestRecheckStep, TryEnterStep, LockWhenIdleStep,
     EnterCasStep, EnterCasFailsStep, EnterLockStep, EnteringStep, AdmitStep, ExitStep,
     ExitLockStep, ExitSettleStep, RequestSynchronousStep, LoopLockStep, LoopingStep,
     CollectWaitStep, BeginCollectionStep, BeginTopologyMutationStep,
     PublishAllocatorViewStep, BeginFinalizingStep, FinalizeRunStep, CommitRunStep,
     AcknowledgeStep, CompleteStep, AbandonStep, AbandonCollectionStep, PoisonStoreStep,
     PoisonPhaseStep
     DEF Step, Enter, Leave, CollectFull, Collect, Fail
<1>2. ASSUME NEW t \in Threads, Environment(t) PROVE GateInv'
  BY <1>2, StartEnterStep, StartCollectStep, StartRequestStep, PressureStep,
     EnterCasSpuriousStep, SpuriousWakeStep, DestructorPanicsStep, PanicReversibleStep,
     PanicIrreversibleStep
     DEF Environment
<1>3. CASE UNCHANGED vars
  <2>1. TypeOK' BY <1>3 DEF vars, GateInv, TypeOK
  <2>2. LockInv' /\ AfterInv' BY <1>3 DEF vars, GateInv, LockInv, AfterInv
  <2>3. CoordinatedWhenNeeded' BY <1>3 DEF vars, GateInv, CoordinatedWhenNeeded
  <2>4. CollectorAuthority' BY <1>3 DEF vars, GateInv, CollectorAuthority, Collecting
  <2>5. OneCollector' BY <1>3 DEF vars, GateInv, OneCollector, Collecting
  <2>6. PhaseInv' BY <1>3 DEF vars, GateInv, PhaseInv, Collecting, Admitted
  <2>7. ExclusiveEmpty' BY <1>3 DEF vars, GateInv, ExclusiveEmpty
  <2>8. CountIsAdmissions' BY <1>3 DEF vars, GateInv, CountIsAdmissions, Admitted
  <2> QED BY <2>1, <2>2, <2>3, <2>4, <2>5, <2>6, <2>7, <2>8 DEF GateInv
<1> QED BY <1>1, <1>2, <1>3 DEF Next

\* Whatever the threads, the policy and the bounds: GateInv always holds.
THEOREM GateInvariant == Spec => []GateInv
BY GateInvInit, GateInvNext, PTL DEF Spec

\* The state of the gate is always well formed; the count never underflows.
THEOREM GateTypeCorrect == Spec => []TypeOK
<1>1. GateInv => TypeOK BY DEF GateInv
<1> QED BY <1>1, GateInvariant, PTL

\* The count in the word is always the number of admissions alive.
THEOREM GateCountsAdmissions == Spec => []CountIsAdmissions
<1>1. GateInv => CountIsAdmissions BY DEF GateInv
<1> QED BY <1>1, GateInvariant, PTL

\* No mutator is ever inside beside an exclusive collector.
THEOREM GateExclusion == Spec => []ExclusiveIsAlone
<1>1. ASSUME GateInv PROVE ExclusiveIsAlone
  <2> SUFFICES ASSUME NEW t \in Threads, HoldsExclusive(t), NEW u \in Threads
               PROVE  ~Admitted(u) /\ (Collecting(u) => u = t)
    BY DEF ExclusiveIsAlone
  <2>1. active = 0 BY <1>1 DEF GateInv, ExclusiveEmpty, HoldsExclusive
  <2>2. ~Admitted(u)
    <3>1. Cardinality(Admissions) = 0
      BY <1>1, <2>1 DEF GateInv, CountIsAdmissions, Admissions
    <3>2. u \notin Admissions BY <3>1, AdmissionsFinite
    <3> QED BY <3>2 DEF Admissions
  <2>3. Collecting(u) => u = t BY <1>1 DEF GateInv, OneCollector, HoldsExclusive
  <2> QED BY <2>2, <2>3
<1> QED BY <1>1, GateInvariant, PTL

\* The assertions of the collection protocol on epochs and phases never fail.
THEOREM GateAuthority == Spec => []CollectorAuthority
<1>1. GateInv => CollectorAuthority BY DEF GateInv
<1> QED BY <1>1, GateInvariant, PTL

\* Entries and exits take the lock whenever somebody depends on it.
THEOREM GateCoordinates == Spec => []CoordinatedWhenNeeded
<1>1. GateInv => CoordinatedWhenNeeded BY DEF GateInv
<1> QED BY <1>1, GateInvariant, PTL
=============================================================================
