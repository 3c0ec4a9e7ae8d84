---------------------------- MODULE AdmissionGate ----------------------------
(***************************************************************************)
(* The admission gate of a managed heap and the collection protocol that   *)
(* runs on it.  Outer mutators enter and leave through one atomic word     *)
(* (the active count and the COORDINATED bit) without the lock while       *)
(* nothing needs to see them; a collector is elected under the lock when   *)
(* the count is zero, collects exclusively, turns into its own finalizer   *)
(* mutator, and completes, fails or poisons the heap.                      *)
(*                                                                         *)
(* One action is one operation on the word, or one critical section of the *)
(* coordinator lock up to its next operation on the word.  The step that   *)
(* settles COORDINATED as a guard unlocks (GateGuard::drop) is merged with *)
(* the unlock.  Memory is sequentially consistent: every operation on the  *)
(* word is a read-modify-write and the rest is under the lock.             *)
(***************************************************************************)
EXTENDS Naturals, FiniteSets

CONSTANTS Threads,     \* the threads that use the heap
          NoThread,    \* the holder of a free lock
          Automatic,   \* CollectionPolicy: does an idle entry elect itself?
          MaxOps,      \* bound: operations started and spurious events, altogether
          MaxBatch     \* bound: runs in one finalization batch

ASSUME GateAssumption ==
    /\ IsFiniteSet(Threads) /\ NoThread \notin Threads
    /\ Automatic \in BOOLEAN
    /\ MaxOps \in Nat /\ MaxBatch \in Nat

VARIABLES
  active,       \* the ACTIVE bits of the gate's word
  coordinated,  \* the COORDINATED bit of the gate's word
  lock,         \* the holder of the coordinator mutex
  sleeping,     \* the threads asleep on the condition variable `changed`
  woken,        \* those notified (or woken spuriously), not yet relocked
  phase,        \* MutatorCoordinator::phase
  epoch,        \* MutatorCoordinator::active_collection (0 is None)
  completed,    \* completed_collection_epoch, published with its report
  requested,    \* HeapInner::collection_requested
  poisoned,     \* HeapInner::poisoned
  batch,        \* the runs pending in the finalization batch
  pc,           \* what each thread does next
  seen,         \* the count a lock-free entry loaded before its CAS
  target,       \* the epoch a synchronous collection waits for
  mine,         \* CollectionAttempt::epoch of the thread that collects (0: none)
  after,        \* what a thread does once its exit or its request is done
  ops           \* operations and spurious events still to come

gateVars == <<active, coordinated, lock, sleeping, woken>>
collVars == <<phase, epoch, completed, requested, poisoned, batch>>
vars == <<active, coordinated, lock, sleeping, woken,
          phase, epoch, completed, requested, poisoned, batch,
          pc, seen, target, mine, after, ops>>

Phases == {"Ordinary", "Exclusive", "Finalizing", "Poisoned"}

\* Program points, by the code they stand in.
EnterPoints == {"enter", "check", "cas", "enterLock", "entering", "admitting", "enterSleep"}
ExitPoints == {"exit", "exitLock", "exitSettle"}
CollectPoints == {"collectLock", "loopLock", "looping", "waiting", "collectSleep"}
ExclusivePoints == {"elected", "marking", "sweeping", "swept"}
FinalizerPoints == {"finalizing", "committing", "acked"}
FailPoints == {"abandon", "abandonLock", "poisonLock", "poisoning"}
RequestPoints == {"request", "requested"}
Points == {"idle", "mutating"} \cup EnterPoints \cup ExitPoints \cup CollectPoints
            \cup ExclusivePoints \cup FinalizerPoints \cup FailPoints \cup RequestPoints

Continuations == {"idle", "mutating", "loopLock", "abandon", "poisoned"}

Goto(t, l) == pc' = [pc EXCEPT ![t] = l]

-----------------------------------------------------------------------------
(* The gate: the coordinator lock, the condition variable and the bit.     *)

waiters == sleeping \cup woken

Lock(t) == lock = NoThread /\ lock' = t

\* Mutant: a poisoned coordinator lets entries off the lock.
CoordinatesCollectionsOnly(p) == p \in {"Exclusive", "Finalizing"}

\* GateState::coordinates_mutators of a coordinator in phase p.
CoordinatesMutators(p) == p # "Ordinary"

\* GateGuard::drop: settle the bit for phase p, then unlock.
Unlock(p) ==
    /\ lock' = NoThread
    /\ coordinated' = (waiters # {} \/ CoordinatesMutators(p))

\* GateGuard::notify.
Notify == sleeping' = {} /\ woken' = woken \cup sleeping

\* GateGuard::wait: count the waiter, set the bit, hand the lock over.
Wait(t) ==
    /\ sleeping' = sleeping \cup {t}
    /\ coordinated' = TRUE
    /\ lock' = NoThread
    /\ UNCHANGED <<active, woken>>

\* The second half of GateGuard::wait: retake the lock once notified.
Relock(t) ==
    /\ t \in woken /\ Lock(t)
    /\ woken' = woken \ {t}
    /\ \/ pc[t] = "enterSleep" /\ Goto(t, "entering")
       \/ pc[t] = "collectSleep" /\ Goto(t, "looping")
    /\ UNCHANGED <<active, coordinated, sleeping, collVars, seen, target, mine, after, ops>>

\* Condvar::wait may return without a notification.
SpuriousWake(t) ==
    /\ t \in sleeping
    /\ ops > 0 /\ ops' = ops - 1
    /\ sleeping' = sleeping \ {t} /\ woken' = woken \cup {t}
    /\ UNCHANGED <<active, coordinated, lock, collVars, pc, seen, target, mine, after>>

-----------------------------------------------------------------------------
(* Operations a thread starts.                                             *)

\* Heap::mutate, or a suspended mutator that resumes.
StartEnter(t) ==
    /\ pc[t] = "idle" /\ ops > 0 /\ ops' = ops - 1
    /\ Goto(t, "enter")
    /\ UNCHANGED <<gateVars, collVars, seen, target, mine, after>>

\* Heap::collect_full: only by a thread that holds no mutator.
StartCollect(t) ==
    /\ pc[t] = "idle" /\ ops > 0 /\ ops' = ops - 1
    /\ ~poisoned
    /\ Goto(t, "collectLock")
    /\ UNCHANGED <<gateVars, collVars, seen, target, mine, after>>

\* Heap::request_collection, inside a mutator or outside.
StartRequest(t) ==
    /\ pc[t] \in {"idle", "mutating"} /\ ops > 0 /\ ops' = ops - 1
    /\ ~poisoned
    /\ after' = [after EXCEPT ![t] = pc[t]]
    /\ Goto(t, "request")
    /\ UNCHANGED <<gateVars, collVars, seen, target, mine>>

\* request_collection: the latch is set, ...
RequestSwap(t) ==
    /\ pc[t] = "request"
    /\ requested' = TRUE
    /\ Goto(t, "requested")
    /\ UNCHANGED <<gateVars, phase, epoch, completed, poisoned, batch,
                   seen, target, mine, after, ops>>

\* ... and cleared again if poison won the race; the panic drops a mutator.
RequestRecheck(t) ==
    /\ pc[t] = "requested"
    /\ requested' = (requested /\ ~poisoned)
    /\ Goto(t, IF ~poisoned \/ after[t] = "idle" THEN after[t] ELSE "exit")
    /\ after' = [after EXCEPT ![t] = "idle"]
    /\ UNCHANGED <<gateVars, phase, epoch, completed, poisoned, batch,
                   seen, target, mine, ops>>

\* ManagedData::publish_run: an allocation that assigns a run past the
\* high-water mark latches a request (pressure).
Pressure(t) ==
    /\ pc[t] \in {"mutating", "finalizing", "committing"} /\ ops > 0 /\ ops' = ops - 1
    /\ requested' = TRUE
    /\ UNCHANGED <<gateVars, phase, epoch, completed, poisoned, batch,
                   pc, seen, target, mine, after>>

-----------------------------------------------------------------------------
(* Outer entries: HeapInner::admit_outer_mutator.                          *)

CollectionRequested == Automatic /\ requested

\* AdmissionGate::try_enter: load the word, ...
TryEnter(t) ==
    /\ pc[t] = "enter"
    /\ IF coordinated
         THEN Goto(t, "enterLock") /\ UNCHANGED seen
         ELSE Goto(t, "check") /\ seen' = [seen EXCEPT ![t] = active]
    /\ UNCHANGED <<gateVars, collVars, target, mine, after, ops>>

\* ... ask on an idle word whether to be elected instead (lock_when_idle), ...
LockWhenIdle(t) ==
    /\ pc[t] = "check"
    /\ IF seen[t] = 0 /\ CollectionRequested THEN Goto(t, "enterLock") ELSE Goto(t, "cas")
    /\ UNCHANGED <<gateVars, collVars, seen, target, mine, after, ops>>

\* Mutant: the exchange compares the count and not the bit.
EnterCasCountOnly(t) ==
    /\ pc[t] = "cas"
    /\ active = seen[t]
    /\ active' = active + 1 /\ Goto(t, "mutating")
    /\ seen' = [seen EXCEPT ![t] = 0]
    /\ UNCHANGED <<coordinated, lock, sleeping, woken, collVars, target, mine, after, ops>>

\* ... and count one more if the word is still the one loaded.
EnterCas(t) ==
    /\ pc[t] = "cas"
    /\ ~coordinated /\ active = seen[t]
    /\ active' = active + 1 /\ Goto(t, "mutating")
    /\ seen' = [seen EXCEPT ![t] = 0]
    /\ UNCHANGED <<coordinated, lock, sleeping, woken, collVars, target, mine, after, ops>>

\* A failed exchange starts over from the word it found.
EnterCasFails(t) ==
    /\ pc[t] = "cas"
    /\ coordinated \/ active # seen[t]
    /\ seen' = [seen EXCEPT ![t] = IF coordinated THEN 0 ELSE active]
    /\ Goto(t, IF coordinated THEN "enterLock" ELSE "check")
    /\ UNCHANGED <<gateVars, collVars, target, mine, after, ops>>

\* compare_exchange_weak may also fail on the word it expected.
EnterCasSpurious(t) ==
    /\ pc[t] = "cas"
    /\ ~coordinated /\ active = seen[t]
    /\ ops > 0 /\ ops' = ops - 1
    /\ Goto(t, "check")
    /\ UNCHANGED <<gateVars, collVars, seen, target, mine, after>>

EnterLock(t) ==
    /\ pc[t] = "enterLock" /\ Lock(t)
    /\ Goto(t, "entering")
    /\ UNCHANGED <<active, coordinated, sleeping, woken, collVars, seen, target, mine, after, ops>>

\* CoordinatorGuard::elect_idle_collection, when it elects: the caller t
\* collects, exclusively; everybody is notified.
Elect(t) ==
    /\ phase' = "Exclusive"
    /\ epoch' = completed + 1
    /\ mine' = [mine EXCEPT ![t] = completed + 1]
    /\ Notify
    /\ Unlock("Exclusive")
    /\ Goto(t, "elected")
    /\ UNCHANGED <<active, completed, requested, poisoned, batch>>

\* Mutant: the election forgets the mutators inside.
CanElectBusy(want) == phase = "Ordinary" /\ want

\* The conditions of elect_idle_collection for a caller asking `want`.
CanElect(want) == phase = "Ordinary" /\ want /\ active = 0

\* elect_idle_collection reads the count only behind its other conditions,
\* and a read sets COORDINATED.
ReadsCount(want) == phase = "Ordinary" /\ want

\* One turn of the entry's loop under the lock.
Entering(t) ==
    /\ pc[t] = "entering" /\ lock = t
    /\ \/ /\ phase = "Poisoned" \/ poisoned
          /\ Unlock(phase) /\ Goto(t, "idle")
          /\ UNCHANGED <<active, sleeping, woken, collVars, seen, target, mine, after, ops>>
       \/ /\ ~poisoned /\ CanElect(CollectionRequested)
          /\ Elect(t)
          /\ after' = [after EXCEPT ![t] = "mutating"]
          /\ UNCHANGED <<seen, target, ops>>
       \/ /\ ~poisoned /\ phase \in {"Ordinary", "Finalizing"}
          /\ ~CanElect(CollectionRequested)
          /\ coordinated' = TRUE
          /\ Goto(t, "admitting")
          /\ UNCHANGED <<active, lock, sleeping, woken, collVars, seen, target, mine, after, ops>>
       \/ /\ ~poisoned /\ phase = "Exclusive"
          /\ Wait(t) /\ Goto(t, "enterSleep")
          /\ UNCHANGED <<collVars, seen, target, mine, after, ops>>

\* GateGuard::admit_outer_mutator read the count, and so set the bit; now it
\* counts one more and the guard unlocks.
Admit(t) ==
    /\ pc[t] = "admitting" /\ lock = t
    /\ active' = active + 1
    /\ Unlock(phase)
    /\ Goto(t, "mutating")
    /\ UNCHANGED <<sleeping, woken, collVars, seen, target, mine, after, ops>>

-----------------------------------------------------------------------------
(* Outer exits: AdmissionGate::exit.                                       *)

\* The count drops first; only a coordinated exit goes on to the lock.
Exit(t) ==
    /\ pc[t] \in {"mutating", "exit"}
    /\ active' = active - 1
    /\ Goto(t, IF coordinated THEN "exitLock" ELSE after[t])
    /\ after' = [after EXCEPT ![t] = IF coordinated THEN @ ELSE "idle"]
    /\ UNCHANGED <<coordinated, lock, sleeping, woken, collVars, seen, target, mine, ops>>

\* Mutant: the last exit notifies only a phase that excludes mutators.
ExitLockSilent(t) ==
    /\ pc[t] = "exitLock" /\ Lock(t)
    /\ coordinated' = TRUE
    /\ IF active = 0 /\ phase # "Ordinary" THEN Notify ELSE UNCHANGED <<sleeping, woken>>
    /\ Goto(t, "exitSettle")
    /\ UNCHANGED <<active, collVars, seen, target, mine, after, ops>>

\* It locks, reads the count again and wakes everybody at zero.
ExitLock(t) ==
    /\ pc[t] = "exitLock" /\ Lock(t)
    /\ coordinated' = TRUE
    /\ IF active = 0 THEN Notify ELSE UNCHANGED <<sleeping, woken>>
    /\ Goto(t, "exitSettle")
    /\ UNCHANGED <<active, collVars, seen, target, mine, after, ops>>

ExitSettle(t) ==
    /\ pc[t] = "exitSettle" /\ lock = t
    /\ Unlock(phase)
    /\ Goto(t, after[t])
    /\ after' = [after EXCEPT ![t] = "idle"]
    /\ UNCHANGED <<active, sleeping, woken, collVars, seen, target, mine, ops>>

-----------------------------------------------------------------------------
(* Synchronous collection: HeapInner::collect_full.                        *)

\* Mutant: the caller waits for the next epoch and asks nobody to run it.
RequestSynchronousUnlatched(t) ==
    /\ pc[t] = "collectLock" /\ lock = NoThread
    /\ IF poisoned
         THEN Goto(t, "idle") /\ UNCHANGED target
         ELSE /\ target' = [target EXCEPT ![t] =
                              IF phase = "Ordinary" THEN completed + 1 ELSE epoch]
              /\ Goto(t, "loopLock")
    /\ Unlock(phase)
    /\ UNCHANGED <<active, sleeping, woken, collVars, seen, mine, after, ops>>

\* request_synchronous_collection: in Ordinary admission the caller asks for
\* the next epoch, else it joins the active one.
RequestSynchronous(t) ==
    /\ pc[t] = "collectLock" /\ lock = NoThread
    /\ IF poisoned
         THEN Goto(t, "idle") /\ UNCHANGED <<target, requested>>
         ELSE /\ target' = [target EXCEPT ![t] =
                              IF phase = "Ordinary" THEN completed + 1 ELSE epoch]
              /\ requested' = (requested \/ phase = "Ordinary")
              /\ Goto(t, "loopLock")
    /\ Unlock(phase)
    /\ UNCHANGED <<active, sleeping, woken, phase, epoch, completed, poisoned, batch,
                   seen, mine, after, ops>>

LoopLock(t) ==
    /\ pc[t] = "loopLock" /\ Lock(t)
    /\ Goto(t, "looping")
    /\ UNCHANGED <<active, coordinated, sleeping, woken, collVars, seen, target, mine, after, ops>>

\* One turn of collect_full's inner loop: fail, return the report, elect the
\* caller, or go on to wait.
Looping(t) ==
    /\ pc[t] = "looping" /\ lock = t
    /\ \/ /\ poisoned \/ completed >= target[t]
          /\ Unlock(phase) /\ Goto(t, "idle")
          /\ target' = [target EXCEPT ![t] = 0]
          /\ UNCHANGED <<active, sleeping, woken, collVars, seen, mine, after, ops>>
       \/ /\ ~poisoned /\ completed < target[t] /\ CanElect(requested)
          /\ Elect(t)
          /\ after' = [after EXCEPT ![t] = "loopLock"]
          /\ UNCHANGED <<seen, target, ops>>
       \/ /\ ~poisoned /\ completed < target[t] /\ ~CanElect(requested)
          /\ coordinated' = (coordinated \/ ReadsCount(requested))
          /\ Goto(t, "waiting")
          /\ UNCHANGED <<active, lock, sleeping, woken, collVars, seen, target, mine, after, ops>>

CollectWait(t) ==
    /\ pc[t] = "waiting" /\ lock = t
    /\ Wait(t) /\ Goto(t, "collectSleep")
    /\ UNCHANGED <<collVars, seen, target, mine, after, ops>>

-----------------------------------------------------------------------------
(* One collection: run_synthetic_collection_with_mark_work and the         *)
(* CollectionAttempt that watches over it.                                 *)

\* The elected collector checks its authority under the lock.
BeginCollection(t) ==
    /\ pc[t] = "elected" /\ lock = NoThread
    /\ Unlock(phase)
    /\ Goto(t, "marking")
    /\ UNCHANGED <<active, sleeping, woken, collVars, seen, target, mine, after, ops>>

\* Marking and planning are reversible; begin_topology_mutation is not.
BeginTopologyMutation(t) ==
    /\ pc[t] = "marking"
    /\ Goto(t, "sweeping")
    /\ UNCHANGED <<gateVars, collVars, seen, target, mine, after, ops>>

\* The sweep installs a finalization batch (merged with what an earlier
\* failure left) and publishes the allocator's new view.
PublishAllocatorView(t) ==
    /\ pc[t] = "sweeping"
    /\ \E b \in batch..MaxBatch : batch' = b
    /\ Goto(t, "swept")
    /\ UNCHANGED <<gateVars, phase, epoch, completed, requested, poisoned,
                   seen, target, mine, after, ops>>

\* CoordinatorGuard::begin_finalizing.
BeginFinalizing(t) ==
    /\ pc[t] = "swept" /\ lock = NoThread
    /\ phase' = "Finalizing"
    /\ active' = active + 1
    /\ Notify
    /\ Unlock("Finalizing")
    /\ Goto(t, "finalizing")
    /\ UNCHANGED <<epoch, completed, requested, poisoned, batch, seen, target, mine, after, ops>>

\* run_finalization_batch: the destructors of one run execute ...
FinalizeRun(t) ==
    /\ pc[t] = "finalizing" /\ batch > 0
    /\ Goto(t, "committing")
    /\ UNCHANGED <<gateVars, collVars, seen, target, mine, after, ops>>

\* ... and the run's terminal slots are committed.
CommitRun(t) ==
    /\ pc[t] = "committing"
    /\ batch' = batch - 1
    /\ Goto(t, "finalizing")
    /\ UNCHANGED <<gateVars, phase, epoch, completed, requested, poisoned,
                   seen, target, mine, after, ops>>

\* A destructor panicked: the commit is published all the same (the run is
\* done, or keeps untouched slots), then the panic resumes and drops the
\* mutator admission before the attempt.
DestructorPanics(t) ==
    /\ pc[t] = "committing"
    /\ batch' \in {batch - 1, batch}
    /\ Goto(t, "exit")
    /\ after' = [after EXCEPT ![t] = "abandon"]
    /\ UNCHANGED <<gateVars, phase, epoch, completed, requested, poisoned,
                   seen, target, mine, ops>>

\* CollectionAttempt::complete acknowledges the requests made so far under
\* the data lock, ...
Acknowledge(t) ==
    /\ pc[t] = "finalizing" /\ batch = 0
    /\ requested' = FALSE
    /\ Goto(t, "acked")
    /\ UNCHANGED <<gateVars, phase, epoch, completed, poisoned, batch,
                   seen, target, mine, after, ops>>

\* Mutant: collect_full loops without dropping the finalizer's admission.
CompleteLeaks(t) ==
    /\ pc[t] = "acked" /\ lock = NoThread
    /\ completed' = mine[t]
    /\ epoch' = 0
    /\ mine' = [mine EXCEPT ![t] = 0]
    /\ phase' = "Ordinary"
    /\ Notify
    /\ Unlock("Ordinary")
    /\ Goto(t, after[t]) /\ after' = [after EXCEPT ![t] = "idle"]
    /\ UNCHANGED <<active, requested, poisoned, batch, seen, target, ops>>

\* ... then publishes the epoch and its report (complete_collection).  An
\* entry that elected itself keeps the admission; collect_full drops it and
\* loops.
Complete(t) ==
    /\ pc[t] = "acked" /\ lock = NoThread
    /\ completed' = mine[t]
    /\ epoch' = 0
    /\ mine' = [mine EXCEPT ![t] = 0]
    /\ phase' = "Ordinary"
    /\ Notify
    /\ Unlock("Ordinary")
    /\ IF after[t] = "mutating"
         THEN Goto(t, "mutating") /\ after' = [after EXCEPT ![t] = "idle"]
         ELSE Goto(t, "exit") /\ UNCHANGED after
    /\ UNCHANGED <<active, requested, poisoned, batch, seen, target, ops>>

\* A panic in a reversible state (a Trace implementation, a failed lookup, an
\* assertion): the attempt's destructor will abandon the collection.
PanicReversible(t) ==
    /\ pc[t] \in {"marking", "swept"}
    /\ Goto(t, "abandon")
    /\ after' = [after EXCEPT ![t] = "idle"]
    /\ UNCHANGED <<gateVars, collVars, seen, target, mine, ops>>

\* A panic while the topology is in motion or a finalizer commit is pending:
\* the heap will be poisoned.
PanicIrreversible(t) ==
    /\ pc[t] \in {"sweeping", "committing"}
    /\ Goto(t, "poisonLock")
    /\ after' = [after EXCEPT ![t] = IF pc[t] = "committing" THEN "poisoned" ELSE "idle"]
    /\ UNCHANGED <<gateVars, collVars, seen, target, mine, ops>>

\* CollectionAttempt::drop: the request is latched again for a retry, ...
Abandon(t) ==
    /\ pc[t] = "abandon"
    /\ requested' = TRUE
    /\ Goto(t, "abandonLock")
    /\ UNCHANGED <<gateVars, phase, epoch, completed, poisoned, batch,
                   seen, target, mine, after, ops>>

\* Mutant: a failed collection restores admission and tells nobody.
AbandonQuietly(t) ==
    /\ pc[t] = "abandonLock" /\ lock = NoThread
    /\ epoch' = (IF epoch = mine[t] THEN 0 ELSE epoch)
    /\ phase' = (IF epoch = mine[t] THEN "Ordinary" ELSE phase)
    /\ Unlock(phase')
    /\ Goto(t, "idle")
    /\ target' = [target EXCEPT ![t] = 0]
    /\ mine' = [mine EXCEPT ![t] = 0]
    /\ UNCHANGED <<active, sleeping, woken, completed, requested, poisoned, batch,
                   seen, after, ops>>

\* ... and abandon_collection restores ordinary admission.
AbandonCollection(t) ==
    /\ pc[t] = "abandonLock" /\ lock = NoThread
    /\ epoch' = (IF epoch = mine[t] THEN 0 ELSE epoch)
    /\ phase' = (IF epoch = mine[t] THEN "Ordinary" ELSE phase)
    /\ Notify
    /\ Unlock(phase')
    /\ Goto(t, "idle")
    /\ target' = [target EXCEPT ![t] = 0]
    /\ mine' = [mine EXCEPT ![t] = 0]
    /\ UNCHANGED <<active, completed, requested, poisoned, batch, seen, after, ops>>

\* poison_collection: the flag is stored under the coordinator lock, ...
PoisonStore(t) ==
    /\ pc[t] = "poisonLock" /\ Lock(t)
    /\ poisoned' = TRUE
    /\ Goto(t, "poisoning")
    /\ UNCHANGED <<active, coordinated, sleeping, woken, phase, epoch, completed, requested,
                   batch, seen, target, mine, after, ops>>

\* ... then the latch is cleared and the phase refuses everybody.  A
\* finalizing collector still has its admission to drop.
PoisonPhase(t) ==
    /\ pc[t] = "poisoning" /\ lock = t
    /\ requested' = FALSE
    /\ epoch' = (IF epoch = mine[t] THEN 0 ELSE epoch)
    /\ phase' = "Poisoned"
    /\ Notify
    /\ Unlock("Poisoned")
    /\ Goto(t, IF after[t] = "poisoned" THEN "exit" ELSE "idle")
    /\ after' = [after EXCEPT ![t] = "idle"]
    /\ target' = [target EXCEPT ![t] = 0]
    /\ mine' = [mine EXCEPT ![t] = 0]
    /\ UNCHANGED <<active, completed, poisoned, batch, seen, ops>>

-----------------------------------------------------------------------------
Init ==
    /\ active = 0 /\ coordinated = FALSE /\ lock = NoThread
    /\ sleeping = {} /\ woken = {}
    /\ phase = "Ordinary" /\ epoch = 0 /\ completed = 0
    /\ requested = FALSE /\ poisoned = FALSE /\ batch = 0
    /\ pc = [t \in Threads |-> "idle"]
    /\ seen = [t \in Threads |-> 0]
    /\ target = [t \in Threads |-> 0]
    /\ mine = [t \in Threads |-> 0]
    /\ after = [t \in Threads |-> "idle"]
    /\ ops = MaxOps

Enter(t) == TryEnter(t) \/ LockWhenIdle(t) \/ EnterCas(t) \/ EnterCasFails(t)
              \/ EnterLock(t) \/ Entering(t) \/ Admit(t)

Leave(t) == Exit(t) \/ ExitLock(t) \/ ExitSettle(t)

CollectFull(t) == RequestSynchronous(t) \/ LoopLock(t) \/ Looping(t) \/ CollectWait(t)

Collect(t) == BeginCollection(t) \/ BeginTopologyMutation(t) \/ PublishAllocatorView(t)
                \/ BeginFinalizing(t) \/ FinalizeRun(t) \/ CommitRun(t)
                \/ Acknowledge(t) \/ Complete(t)

Fail(t) == Abandon(t) \/ AbandonCollection(t) \/ PoisonStore(t) \/ PoisonPhase(t)

\* What a thread does because it must, and what merely may happen.
Step(t) == Enter(t) \/ Leave(t) \/ CollectFull(t) \/ Collect(t) \/ Fail(t)
             \/ RequestSwap(t) \/ RequestRecheck(t) \/ Relock(t)

Environment(t) == StartEnter(t) \/ StartCollect(t) \/ StartRequest(t) \/ Pressure(t)
                    \/ EnterCasSpurious(t) \/ SpuriousWake(t)
                    \/ DestructorPanics(t) \/ PanicReversible(t) \/ PanicIrreversible(t)

Next == \E t \in Threads : Step(t) \/ Environment(t)

Spec == Init /\ [][Next]_vars

\* Threads are scheduled, critical sections and destructors end, and a
\* mutator is left (a mutator is held for one bounded quantum).
FairSpec == Spec /\ \A t \in Threads : WF_vars(Step(t))

-----------------------------------------------------------------------------
\* The word, the coordinator's state and every thread's locals keep their types.
TypeOK ==
    /\ active \in Nat
    /\ coordinated \in BOOLEAN
    /\ lock \in Threads \cup {NoThread}
    /\ sleeping \subseteq Threads /\ woken \subseteq Threads
    /\ phase \in Phases
    /\ epoch \in Nat /\ completed \in Nat
    /\ requested \in BOOLEAN /\ poisoned \in BOOLEAN
    /\ batch \in 0..MaxBatch
    /\ pc \in [Threads -> Points]
    /\ seen \in [Threads -> Nat]
    /\ target \in [Threads -> Nat]
    /\ mine \in [Threads -> Nat]
    /\ after \in [Threads -> Continuations]
    /\ ops \in 0..MaxOps

\* The thread owns a MutatorAdmission.
Admitted(t) ==
    \/ pc[t] \in {"mutating", "exit"} \cup FinalizerPoints
    \/ pc[t] \in RequestPoints /\ after[t] = "mutating"
    \/ pc[t] \in {"poisonLock", "poisoning"} /\ after[t] = "poisoned"

\* The thread runs a collection: a CollectionAttempt is alive, or about to be.
Collecting(t) ==
    \/ pc[t] \in ExclusivePoints \cup FinalizerPoints \cup FailPoints
    \/ pc[t] \in ExitPoints /\ after[t] = "abandon"

\* The exclusive authority of the phase is in this thread's hands.
HoldsExclusive(t) == phase = "Exclusive" /\ Collecting(t)

\* The count in the word is the number of admissions alive: no path, panics
\* included, leaks one or retires one twice.
CountIsAdmissions == active = Cardinality({t \in Threads : Admitted(t)})

\* No mutator runs beside an exclusive collector, whichever of the lock-free
\* path, a stale CAS or the lock admitted it, and at most one thread collects.
ExclusiveIsAlone ==
    \A t \in Threads : HoldsExclusive(t) =>
        \A u \in Threads : ~Admitted(u) /\ (Collecting(u) => u = t)

\* What begin_finalizing, complete_collection and CollectionAttempt assert: a
\* collector's epoch is the authoritative one and follows the last completed,
\* and its phase is the one its progress calls for.
CollectorAuthority ==
    \A t \in Threads : Collecting(t) =>
        /\ epoch = mine[t] /\ epoch = completed + 1
        /\ pc[t] \in ExclusivePoints => phase = "Exclusive"
        /\ pc[t] \in FinalizerPoints => phase = "Finalizing"
        /\ phase \in {"Exclusive", "Finalizing"}

\* Entries and exits are sent to the lock for as long as anybody waits or the
\* phase is not Ordinary, also while somebody holds the lock.
CoordinatedWhenNeeded == waiters # {} \/ phase # "Ordinary" => coordinated

\* No lost wake-up: whoever sleeps on the condition variable has a collector
\* or an exit still to come that notifies it.
SleeperHasWaker ==
    sleeping # {} =>
        \/ active > 0
        \/ \E t \in Threads : Collecting(t) \/ pc[t] = "exitLock"

\* A synchronous collection never waits in Ordinary admission for an epoch
\* nobody is asked to run: the latch survives failed attempts and
\* acknowledgements of earlier epochs.
WaiterIsLatched ==
    \A t \in Threads :
        /\ pc[t] \in CollectPoints \ {"collectLock"}
        /\ target[t] > completed
        /\ phase = "Ordinary" /\ ~poisoned
        => requested

\* Poison is terminal and refuses every later entry, also one that loaded the
\* word before; epochs only count completed collections.
PoisonIsTerminal ==
    [][ /\ poisoned => poisoned'
        /\ phase = "Poisoned" => phase' = "Poisoned" /\ active' <= active
        /\ completed' \in {completed, completed + 1} ]_vars

\* Every entry, exit and synchronous collection ends: nobody waits for a
\* wake-up that never comes, whatever fails or is poisoned meanwhile.
OperationsEnd == \A t \in Threads : pc[t] # "idle" ~> pc[t] = "idle"

\* The gate implements the access discipline of HeapAccess.
Access == INSTANCE HeapAccess
            WITH inside <- {t \in Threads : Admitted(t)},
                 exclusive <- {t \in Threads : HoldsExclusive(t)}

\* Every step is an entry, an exit, an acquisition, the direct downgrade of
\* the collector to a mutator, a release, or none of these.
ImplementsAccess == Access!Spec
=============================================================================
