----------------------- MODULE AdmissionGateRefinement -----------------------
(***************************************************************************)
(* The gate implements HeapAccess, and its poison is terminal: what each   *)
(* step of AdmissionGate does to the abstract state, given the inductive   *)
(* invariant of AdmissionGateProofs.                                       *)
(***************************************************************************)
EXTENDS AdmissionGateProofs

USE DEF Points, EnterPoints, ExitPoints, CollectPoints, ExclusivePoints, FinalizerPoints,
        FailPoints, RequestPoints, Phases, Continuations, LockPoints, Goto, Lock, Notify,
        waiters, CoordinatesMutators, gateVars, collVars

Holders == {t \in Threads : HoldsExclusive(t)}

\* The threads of one action leave the abstract state alone.
Still == Admissions' = Admissions /\ Holders' = Holders

\* What PoisonIsTerminal says of one step.
PoisonStep ==
    /\ poisoned => poisoned'
    /\ phase = "Poisoned" => phase' = "Poisoned" /\ active' <= active
    /\ completed' \in {completed, completed + 1}

LEMMA StillSteps ==
    ASSUME GateInv, NEW t \in Threads,
           Relock(t) \/ SpuriousWake(t) \/ StartEnter(t) \/ StartCollect(t) \/
               StartRequest(t) \/ RequestSwap(t) \/ RequestRecheck(t) \/ Pressure(t) \/
               TryEnter(t) \/ LockWhenIdle(t) \/ EnterCasFails(t) \/ EnterCasSpurious(t)
               \/ EnterLock(t) \/ ExitLock(t) \/ ExitSettle(t) \/ RequestSynchronous(t) \/
               LoopLock(t) \/ CollectWait(t) \/ BeginCollection(t) \/
               BeginTopologyMutation(t) \/ PublishAllocatorView(t) \/ FinalizeRun(t) \/
               CommitRun(t) \/ DestructorPanics(t) \/ Acknowledge(t) \/ Complete(t) \/
               PanicReversible(t) \/ PanicIrreversible(t) \/ Abandon(t) \/ PoisonStore(t)
    PROVE  Still
<1>1. CASE Relock(t)
  BY <1>1, SMTT(60) DEF GateInv, TypeOK, AfterInv, CollectorAuthority, Still, Admissions,
     Holders, HoldsExclusive, Admitted, Collecting, Relock
<1>2. CASE SpuriousWake(t)
  BY <1>2, SMTT(60) DEF GateInv, TypeOK, AfterInv, CollectorAuthority, Still, Admissions,
     Holders, HoldsExclusive, Admitted, Collecting, SpuriousWake
<1>3. CASE StartEnter(t)
  BY <1>3, SMTT(60) DEF GateInv, TypeOK, AfterInv, CollectorAuthority, Still, Admissions,
     Holders, HoldsExclusive, Admitted, Collecting, StartEnter
<1>4. CASE StartCollect(t)
  BY <1>4, SMTT(60) DEF GateInv, TypeOK, AfterInv, CollectorAuthority, Still, Admissions,
     Holders, HoldsExclusive, Admitted, Collecting, StartCollect
<1>5. CASE StartRequest(t)
  BY <1>5, SMTT(60) DEF GateInv, TypeOK, AfterInv, CollectorAuthority, Still, Admissions,
     Holders, HoldsExclusive, Admitted, Collecting, StartRequest
<1>6. CASE RequestSwap(t)
  BY <1>6, SMTT(60) DEF GateInv, TypeOK, AfterInv, CollectorAuthority, Still, Admissions,
     Holders, HoldsExclusive, Admitted, Collecting, RequestSwap
<1>7. CASE RequestRecheck(t)
  BY <1>7, SMTT(60) DEF GateInv, TypeOK, AfterInv, CollectorAuthority, Still, Admissions,
     Holders, HoldsExclusive, Admitted, Collecting, RequestRecheck
<1>8. CASE Pressure(t)
  BY <1>8, SMTT(60) DEF GateInv, TypeOK, AfterInv, CollectorAuthority, Still, Admissions,
     Holders, HoldsExclusive, Admitted, Collecting, Pressure
<1>9. CASE TryEnter(t)
  BY <1>9, SMTT(60) DEF GateInv, TypeOK, AfterInv, CollectorAuthority, Still, Admissions,
     Holders, HoldsExclusive, Admitted, Collecting, TryEnter
<1>10. CASE LockWhenIdle(t)
  BY <1>10, SMTT(60) DEF GateInv, TypeOK, AfterInv, CollectorAuthority, Still, Admissions,
     Holders, HoldsExclusive, Admitted, Collecting, LockWhenIdle
<1>11. CASE EnterCasFails(t)
  BY <1>11, SMTT(60) DEF GateInv, TypeOK, AfterInv, CollectorAuthority, Still, Admissions,
     Holders, HoldsExclusive, Admitted, Collecting, EnterCasFails
<1>12. CASE EnterCasSpurious(t)
  BY <1>12, SMTT(60) DEF GateInv, TypeOK, AfterInv, CollectorAuthority, Still, Admissions,
     Holders, HoldsExclusive, Admitted, Collecting, EnterCasSpurious
<1>13. CASE EnterLock(t)
  BY <1>13, SMTT(60) DEF GateInv, TypeOK, AfterInv, CollectorAuthority, Still, Admissions,
     Holders, HoldsExclusive, Admitted, Collecting, EnterLock
<1>14. CASE ExitLock(t)
  BY <1>14, SMTT(60) DEF GateInv, TypeOK, AfterInv, CollectorAuthority, Still, Admissions,
     Holders, HoldsExclusive, Admitted, Collecting, ExitLock
<1>15. CASE ExitSettle(t)
  BY <1>15, SMTT(60) DEF GateInv, TypeOK, AfterInv, CollectorAuthority, Still, Admissions,
     Holders, HoldsExclusive, Admitted, Collecting, ExitSettle, Unlock
<1>16. CASE RequestSynchronous(t)
  <2>1. /\ pc[t] = "collectLock" /\ pc' \in [Threads -> Points]
        /\ pc'[t] \in {"idle", "loopLock"}
        /\ \A u \in Threads \ {t} : pc'[u] = pc[u]
        /\ UNCHANGED <<phase, after>>
    BY <1>16 DEF GateInv, TypeOK, RequestSynchronous
  <2> QED BY <2>1 DEF Still, Admissions, Holders, HoldsExclusive, Admitted, Collecting
<1>17. CASE LoopLock(t)
  BY <1>17, SMTT(60) DEF GateInv, TypeOK, AfterInv, CollectorAuthority, Still, Admissions,
     Holders, HoldsExclusive, Admitted, Collecting, LoopLock
<1>18. CASE CollectWait(t)
  BY <1>18, SMTT(60) DEF GateInv, TypeOK, AfterInv, CollectorAuthority, Still, Admissions,
     Holders, HoldsExclusive, Admitted, Collecting, CollectWait, Wait
<1>19. CASE BeginCollection(t)
  BY <1>19, SMTT(60) DEF GateInv, TypeOK, AfterInv, CollectorAuthority, Still, Admissions,
     Holders, HoldsExclusive, Admitted, Collecting, BeginCollection, Unlock
<1>20. CASE BeginTopologyMutation(t)
  BY <1>20, SMTT(60) DEF GateInv, TypeOK, AfterInv, CollectorAuthority, Still, Admissions,
     Holders, HoldsExclusive, Admitted, Collecting, BeginTopologyMutation
<1>21. CASE PublishAllocatorView(t)
  BY <1>21, SMTT(60) DEF GateInv, TypeOK, AfterInv, CollectorAuthority, Still, Admissions,
     Holders, HoldsExclusive, Admitted, Collecting, PublishAllocatorView
<1>22. CASE FinalizeRun(t)
  BY <1>22, SMTT(60) DEF GateInv, TypeOK, AfterInv, CollectorAuthority, Still, Admissions,
     Holders, HoldsExclusive, Admitted, Collecting, FinalizeRun
<1>23. CASE CommitRun(t)
  BY <1>23, SMTT(60) DEF GateInv, TypeOK, AfterInv, CollectorAuthority, Still, Admissions,
     Holders, HoldsExclusive, Admitted, Collecting, CommitRun
<1>24. CASE DestructorPanics(t)
  BY <1>24, SMTT(60) DEF GateInv, TypeOK, AfterInv, CollectorAuthority, Still, Admissions,
     Holders, HoldsExclusive, Admitted, Collecting, DestructorPanics
<1>25. CASE Acknowledge(t)
  BY <1>25, SMTT(60) DEF GateInv, TypeOK, AfterInv, CollectorAuthority, Still, Admissions,
     Holders, HoldsExclusive, Admitted, Collecting, Acknowledge
<1>26. CASE Complete(t)
  BY <1>26, SMTT(60) DEF GateInv, TypeOK, AfterInv, CollectorAuthority, Still, Admissions,
     Holders, HoldsExclusive, Admitted, Collecting, Complete, Unlock
<1>27. CASE PanicReversible(t)
  BY <1>27, SMTT(60) DEF GateInv, TypeOK, AfterInv, CollectorAuthority, Still, Admissions,
     Holders, HoldsExclusive, Admitted, Collecting, PanicReversible
<1>28. CASE PanicIrreversible(t)
  BY <1>28, SMTT(60) DEF GateInv, TypeOK, AfterInv, CollectorAuthority, Still, Admissions,
     Holders, HoldsExclusive, Admitted, Collecting, PanicIrreversible
<1>29. CASE Abandon(t)
  BY <1>29, SMTT(60) DEF GateInv, TypeOK, AfterInv, CollectorAuthority, Still, Admissions,
     Holders, HoldsExclusive, Admitted, Collecting, Abandon
<1>30. CASE PoisonStore(t)
  BY <1>30, SMTT(60) DEF GateInv, TypeOK, AfterInv, CollectorAuthority, Still, Admissions,
     Holders, HoldsExclusive, Admitted, Collecting, PoisonStore
<1> QED BY <1>1, <1>2, <1>3, <1>4, <1>5, <1>6, <1>7, <1>8, <1>9, <1>10, <1>11, <1>12,
           <1>13, <1>14, <1>15, <1>16, <1>17, <1>18, <1>19, <1>20, <1>21, <1>22, <1>23,
           <1>24, <1>25, <1>26, <1>27, <1>28, <1>29, <1>30

LEMMA EnterSteps ==
    ASSUME GateInv, NEW t \in Threads, EnterCas(t) \/ Admit(t)
    PROVE  Access!Enter(t)
<1>1. CASE EnterCas(t)
  BY <1>1 DEF GateInv, TypeOK, AfterInv, CoordinatedWhenNeeded, Access!Enter, HoldsExclusive,
     Admitted, Collecting, EnterCas
<1>2. CASE Admit(t)
  BY <1>2 DEF GateInv, TypeOK, AfterInv, PhaseInv, Access!Enter, HoldsExclusive,
     Admitted, Collecting, Admit
<1> QED BY <1>1, <1>2

LEMMA LeaveSteps ==
    ASSUME GateInv, NEW t \in Threads, Exit(t)
    PROVE  Access!Leave(t)
BY DEF GateInv, TypeOK, AfterInv, CollectorAuthority, PhaseInv, Access!Leave, HoldsExclusive,
   Admitted, Collecting, Exit

\* An election acquires; the other turns of the two loops change nothing.
LEMMA LoopSteps ==
    ASSUME GateInv, NEW t \in Threads, Entering(t) \/ Looping(t)
    PROVE  Access!Acquire(t) \/ Still
<1>1. ASSUME Elect(t), phase = "Ordinary", active = 0, pc[t] \in {"entering", "looping"},
             after' \in [Threads -> Continuations], \A u \in Threads \ {t} : after'[u] = after[u]
      PROVE  Access!Acquire(t)
  <2>1. Admissions = {}
    <3>1. Cardinality(Admissions) = 0 BY <1>1 DEF GateInv, CountIsAdmissions, Admissions
    <3> QED BY <3>1, AdmissionsFinite
  <2>2. Admissions' = {}
    BY <1>1, <2>1 DEF GateInv, TypeOK, Admissions, Admitted, Elect
  <2>3. Holders = {} BY <1>1 DEF Holders, HoldsExclusive
  <2>4. Holders' = {t}
    BY <1>1 DEF GateInv, TypeOK, CollectorAuthority, Holders, HoldsExclusive, Collecting, Elect
  <2> QED BY <2>1, <2>2, <2>3, <2>4 DEF Access!Acquire, Admissions, Holders
<1>2. CASE Entering(t)
  <2>1. CASE Elect(t) /\ after' = [after EXCEPT ![t] = "mutating"] /\ CanElect(CollectionRequested)
    BY <1>1, <1>2, <2>1 DEF GateInv, TypeOK, CanElect, Entering
  <2>2. CASE UNCHANGED <<phase, after>>
    <3>1. /\ pc[t] = "entering" /\ pc' \in [Threads -> Points]
          /\ pc'[t] \in {"idle", "admitting", "enterSleep"}
          /\ \A u \in Threads \ {t} : pc'[u] = pc[u]
      BY <1>2, <2>2 DEF GateInv, TypeOK, Entering, Elect, CanElect, Wait
    <3> QED BY <2>2, <3>1 DEF Still, Admissions, Holders, HoldsExclusive, Admitted, Collecting
  <2> QED BY <1>2, <2>1, <2>2 DEF Entering
<1>3. CASE Looping(t)
  <2>1. CASE Elect(t) /\ after' = [after EXCEPT ![t] = "loopLock"] /\ CanElect(requested)
    BY <1>1, <1>3, <2>1 DEF GateInv, TypeOK, CanElect, Looping
  <2>2. CASE UNCHANGED <<phase, after>>
    <3>1. CASE CanElect(requested) /\ Elect(t)
      <4>1. phase = "Ordinary" /\ phase' = "Exclusive" BY <3>1 DEF CanElect, Elect
      <4> QED BY <2>2, <4>1
    <3>2. CASE pc' \in {[pc EXCEPT ![t] = "idle"], [pc EXCEPT ![t] = "waiting"]}
      <4>1. /\ pc[t] = "looping" /\ pc' \in [Threads -> Points]
            /\ pc'[t] \in {"idle", "waiting"}
            /\ \A u \in Threads \ {t} : pc'[u] = pc[u]
        BY <1>3, <3>2 DEF GateInv, TypeOK, Looping
      <4> QED BY <2>2, <4>1 DEF Still, Admissions, Holders, HoldsExclusive, Admitted, Collecting
    <3> QED BY <1>3, <3>1, <3>2 DEF Looping
  <2> QED BY <1>3, <2>1, <2>2 DEF Looping
<1> QED BY <1>2, <1>3

LEMMA DowngradeSteps ==
    ASSUME GateInv, NEW t \in Threads, BeginFinalizing(t)
    PROVE  Access!Downgrade(t)
<1>1. Holders = {t}
  BY DEF GateInv, CollectorAuthority, OneCollector, Holders, HoldsExclusive, Collecting,
     BeginFinalizing
<1>2. Holders' = {} BY DEF Holders, HoldsExclusive, BeginFinalizing
<1>3. Admissions' = Admissions \cup {t}
  BY DEF GateInv, TypeOK, Admissions, Admitted, BeginFinalizing
<1> QED BY <1>1, <1>2, <1>3 DEF Access!Downgrade, Admissions, Holders

\* A failed collector gives up its authority, or had downgraded it already.
LEMMA ReleaseSteps ==
    ASSUME GateInv, NEW t \in Threads, AbandonCollection(t) \/ PoisonPhase(t)
    PROVE  Access!Release(t) \/ Still
<1>1. Collecting(t) BY DEF Collecting, AbandonCollection, PoisonPhase
<1>2. Admissions' = Admissions
  BY DEF GateInv, TypeOK, AfterInv, Admissions, Admitted, AbandonCollection, PoisonPhase
<1>3. Holders' = {}
  BY <1>1 DEF GateInv, CollectorAuthority, Holders, HoldsExclusive, AbandonCollection,
     PoisonPhase
<1>4. Holders = {} \/ Holders = {t}
  BY <1>1 DEF GateInv, OneCollector, Holders, HoldsExclusive
<1> QED BY <1>2, <1>3, <1>4 DEF Access!Release, Still, Admissions, Holders

\* The gate implements the access discipline of HeapAccess.
THEOREM GateRefinesAccess == Spec => ImplementsAccess
<1>1. Init => Access!Init
  BY DEF Init, Access!Init, Admitted, HoldsExclusive
<1>2. ASSUME GateInv, [Next]_vars PROVE [Access!Next]_(Access!accessVars)
  <2>1. ASSUME NEW t \in Threads, Step(t) \/ Environment(t)
        PROVE  Access!Next \/ Still
    BY <1>2, <2>1, StillSteps, EnterSteps, LeaveSteps, LoopSteps, DowngradeSteps, ReleaseSteps
       DEF Step, Environment, Enter, Leave, CollectFull, Collect, Fail, Access!Next
  <2>2. ASSUME UNCHANGED vars PROVE Still
    <3>1. pc' = pc /\ after' = after /\ phase' = phase BY <2>2 DEF vars
    <3>2. Admissions' = Admissions BY <3>1 DEF Admissions, Admitted
    <3>3. Holders' = Holders BY <3>1 DEF Holders, HoldsExclusive, Collecting
    <3> QED BY <3>2, <3>3 DEF Still
  <2>3. Still => UNCHANGED Access!accessVars
    BY DEF Still, Admissions, Holders, Access!accessVars
  <2> QED BY <1>2, <2>1, <2>2, <2>3 DEF Next
<1> QED BY <1>1, <1>2, GateInvariant, PTL DEF Spec, ImplementsAccess, Access!Spec

\* Poison is terminal, refuses every later entry, and no epoch is skipped.
THEOREM GatePoisonIsTerminal == Spec => PoisonIsTerminal
<1>1. ASSUME GateInv, [Next]_vars PROVE PoisonStep \/ UNCHANGED vars
  <2> DEFINE Calm == UNCHANGED <<poisoned, phase, completed, active>>
  <2>1. active \in Nat /\ completed \in Nat BY <1>1 DEF GateInv, TypeOK
  <2>2. Calm => PoisonStep BY <2>1 DEF PoisonStep
  <2>3. ASSUME NEW t \in Threads, Enter(t) PROVE PoisonStep
    <3>1. CASE TryEnter(t) \/ LockWhenIdle(t) \/ EnterCasFails(t) \/ EnterLock(t)
      BY <2>2, <3>1 DEF TryEnter, LockWhenIdle, EnterCasFails, EnterLock
    <3>2. CASE EnterCas(t)
      <4>1. phase # "Poisoned" BY <1>1, <3>2 DEF GateInv, CoordinatedWhenNeeded, EnterCas
      <4> QED BY <2>1, <3>2, <4>1 DEF PoisonStep, EnterCas
    <3>3. CASE Entering(t)
      <4>1. Calm \/ (phase = "Ordinary" /\ UNCHANGED <<poisoned, completed>>)
        BY <3>3 DEF Entering, CanElect, Wait, Elect
      <4> QED BY <2>1, <2>2, <4>1 DEF PoisonStep
    <3>4. CASE Admit(t)
      <4>1. phase # "Poisoned" BY <1>1, <3>4 DEF GateInv, PhaseInv, Admit
      <4> QED BY <2>1, <3>4, <4>1 DEF PoisonStep, Admit
    <3> QED BY <2>3, <3>1, <3>2, <3>3, <3>4 DEF Enter
  <2>4. ASSUME NEW t \in Threads, Leave(t) \/ CollectFull(t) PROVE PoisonStep
    <3>1. CASE Exit(t)
      <4>1. poisoned' = poisoned /\ phase' = phase /\ completed' = completed /\ active' = active - 1
        BY <3>1 DEF Exit
      <4> QED BY <2>1, <4>1 DEF PoisonStep
    <3>2. CASE ExitLock(t) \/ ExitSettle(t)
      BY <2>2, <3>2 DEF ExitLock, ExitSettle
    <3>3. CASE RequestSynchronous(t) \/ LoopLock(t) \/ CollectWait(t)
      BY <2>2, <3>3 DEF RequestSynchronous, LoopLock, CollectWait, Wait
    <3>4. CASE Looping(t)
      <4>1. Calm \/ (phase = "Ordinary" /\ UNCHANGED <<poisoned, completed>>)
        BY <3>4 DEF Looping, CanElect, Elect
      <4> QED BY <2>1, <2>2, <4>1 DEF PoisonStep
    <3> QED BY <2>4, <3>1, <3>2, <3>3, <3>4 DEF Leave, CollectFull
  <2>5. ASSUME NEW t \in Threads, Collect(t) \/ Fail(t) PROVE PoisonStep
    BY <1>1, <2>5 DEF GateInv, TypeOK, PoisonStep, CollectorAuthority, Collecting, Collect, Fail,
       BeginCollection, BeginTopologyMutation, PublishAllocatorView, BeginFinalizing, FinalizeRun,
       CommitRun, Acknowledge, Complete, Abandon, AbandonCollection, PoisonStore, PoisonPhase
  <2>6. ASSUME NEW t \in Threads, RequestSwap(t) \/ RequestRecheck(t) \/ Relock(t)
        PROVE  PoisonStep
    BY <1>1, <2>6 DEF GateInv, TypeOK, PoisonStep, RequestSwap, RequestRecheck, Relock
  <2>7. ASSUME NEW t \in Threads, Environment(t) PROVE PoisonStep
    <3>1. CASE StartEnter(t) \/ StartCollect(t) \/ StartRequest(t) \/ Pressure(t)
      BY <2>2, <3>1 DEF StartEnter, StartCollect, StartRequest, Pressure
    <3>2. CASE EnterCasSpurious(t) \/ SpuriousWake(t)
      BY <2>2, <3>2 DEF EnterCasSpurious, SpuriousWake
    <3>3. CASE DestructorPanics(t) \/ PanicReversible(t) \/ PanicIrreversible(t)
      BY <2>2, <3>3 DEF DestructorPanics, PanicReversible, PanicIrreversible
    <3> QED BY <2>7, <3>1, <3>2, <3>3 DEF Environment
  <2> QED BY <1>1, <2>3, <2>4, <2>5, <2>6, <2>7 DEF Next, Step
<1> QED BY <1>1, GateInvariant, PTL DEF Spec, PoisonIsTerminal, PoisonStep
=============================================================================
