---------------------------- MODULE GcMaintenance ----------------------------
(***************************************************************************)
(* How the evaluation runtime asks for, performs and accounts for managed  *)
(* collections: the maintenance ledger of src/runtime.rs (leases, request, *)
(* disposition), the collector's pressure latch, the drivers that collect  *)
(* at a quantum boundary, the host calls that request and service a        *)
(* collection, and the client loop of pump, readiness and service.         *)
(*                                                                         *)
(* Every ledger change is made under shared mutation admission; a pump and *)
(* a readiness probe take the exclusive side without waiting.  A guard is  *)
(* released before the activity generation advances, in two steps.         *)
(*                                                                         *)
(* The two counters that are only compared for equality are kept as sets:  *)
(* current holds the threads whose readiness snapshot still names the      *)
(* ledger's revision, observed the pumps whose activity generation is      *)
(* still the latest.  Advancing a counter empties its set.                 *)
(*                                                                         *)
(* The collector is reduced to what the ledger can tell apart: who         *)
(* collects and whether the heap is exclusive, the completed epoch, the    *)
(* latch, untouched finalizers, poison.  Its admission protocol is the     *)
(* subject of AdmissionGate.  Failure messages, profiling and the death    *)
(* notices that follow a collection are left out.                          *)
(***************************************************************************)
EXTENDS Naturals, FiniteSets

CONSTANTS
    Hosts,      \* threads that request, service, pump and probe as they like
    Clients,    \* threads that pump, probe and service in a loop
    Drivers,    \* evaluation workers, which collect at a quantum boundary
    NoThread,
    MaxCalls,   \* bound: host calls and driver polls
    MaxFaults,  \* bound: collections that panic
    MayPoison   \* whether a panic may strike an irreversible stage

ASSUME MaintenanceAssumption ==
    /\ MaxCalls \in Nat /\ MaxFaults \in Nat /\ MayPoison \in BOOLEAN
    /\ (Hosts \cup Clients) \cap Drivers = {}
    /\ NoThread \notin Hosts \cup Clients \cup Drivers

VARIABLES
    heap,      \* collector: who collects, epoch, latch, finalizers, poison
    ledger,    \* RuntimeGcMaintenanceState
    current,   \* threads whose readiness snapshot has the present revision
    observed,  \* pumps whose activity generation is the present one
    holds,     \* side of the mutation gate each thread holds
    mutating,  \* drivers inside a heap mutator
    claimed,   \* drivers with claimed work
    faulted,   \* the runtime's set-once poison mark
    pc, then,  \* where each thread is; where it goes once its guard is gone
    target,    \* the epoch a thread's collect_full waits for
    outcome,   \* the attempt a thread is about to publish
    owed,      \* a request or pressure no acknowledgement has covered yet
    calls, faults

vars == <<heap, ledger, current, observed, holds, mutating, claimed, faulted,
          pc, then, target, outcome, owed, calls, faults>>

heapVars == <<heap, owed, faults>>
driverVars == <<mutating, claimed>>
attemptVars == <<target, outcome>>

Threads == Hosts \cup Clients \cup Drivers

\* RuntimeGcLeaseOutcome: a heap snapshot and whether the attempt failed.
Outcomes == [poisoned : BOOLEAN, epoch : Nat, pending : BOOLEAN, failed : BOOLEAN]

NoOutcome == [poisoned |-> FALSE, epoch |-> 0, pending |-> FALSE, failed |-> FALSE]

Init ==
    /\ heap = [collector |-> NoThread, exclusive |-> FALSE, epoch |-> 0,
               latch |-> FALSE, pending |-> FALSE, poisoned |-> FALSE]
    /\ ledger = [leases |-> 0, request |-> FALSE, disposition |-> "Idle",
                 completed |-> 0]
    /\ current = {} /\ observed = {}
    /\ holds = [t \in Threads |-> "none"]
    /\ mutating = {} /\ claimed = {}
    /\ faulted = FALSE
    /\ pc = [t \in Threads |-> "idle"]
    /\ then = [t \in Threads |-> "idle"]
    /\ target = [t \in Threads |-> 0]
    /\ outcome = [t \in Threads |-> NoOutcome]
    /\ owed = FALSE
    /\ calls = 0 /\ faults = 0

-----------------------------------------------------------------------------
(* The mutation gate and the activity generation. *)

At(t, place) == pc[t] = place

Goto(t, place) == pc' = [pc EXCEPT ![t] = place] /\ UNCHANGED then

\* Once the present guard is dropped and its activity published, go on there.
GuardedThen(t, place) ==
    /\ pc' = [pc EXCEPT ![t] = "release"]
    /\ then' = [then EXCEPT ![t] = place]

\* mutation_guard: refused, by a panic, once the runtime is poisoned.
TakeShared(t) ==
    /\ ~faulted
    /\ \A u \in Threads : holds[u] # "exclusive"
    /\ holds' = [holds EXCEPT ![t] = "shared"]

GateIsFree == \A u \in Threads : holds[u] = "none"

TakeExclusive(t) ==
    /\ GateIsFree
    /\ holds' = [holds EXCEPT ![t] = "exclusive"]

\* A plausible slip: dropping the exclusive guard publishes no activity.
ReleaseQuietly(t) ==
    /\ At(t, "release")
    /\ holds' = [holds EXCEPT ![t] = "none"]
    /\ Goto(t, IF holds[t] = "exclusive" THEN then[t] ELSE "advance")
    /\ UNCHANGED <<heapVars, ledger, current, observed, driverVars, faulted,
                   attemptVars, calls>>

\* The guards' drops: the lock first, then the activity generation.
Release(t) ==
    /\ At(t, "release")
    /\ holds' = [holds EXCEPT ![t] = "none"]
    /\ Goto(t, "advance")
    /\ UNCHANGED <<heapVars, ledger, current, observed, driverVars, faulted,
                   attemptVars, calls>>

Advance(t) ==
    /\ At(t, "advance")
    /\ observed' = {}
    /\ pc' = [pc EXCEPT ![t] = then[t]]
    /\ then' = [then EXCEPT ![t] = "idle"]
    /\ UNCHANGED <<heapVars, ledger, current, holds, driverVars, faulted,
                   attemptVars, calls>>

\* mutation_guard panics in a poisoned runtime, and the lease's drop then
\* leaves the ledger alone.
GuardPlaces == {"lease", "held", "publish", "abandon", "select", "unclaim"}

Refused(t) ==
    /\ faulted
    /\ pc[t] \in GuardPlaces
    /\ holds[t] = "none"
    /\ Goto(t, "halted")
    /\ UNCHANGED <<heapVars, ledger, current, observed, holds, driverVars,
                   faulted, attemptVars, calls>>

-----------------------------------------------------------------------------
(* The ledger: RuntimeGcMaintenanceState. *)

RetireLease(l) == [l EXCEPT !.leases = @ - 1]

\* A plausible slip: a view of the published epoch counts as a newer one.
PublishOutcomeAgain(l, o) ==
    LET retry == o.failed \/ o.pending IN
    CASE o.poisoned -> [l EXCEPT !.disposition = "Poisoned"]
      [] ~o.poisoned /\ o.epoch >= l.completed ->
            [l EXCEPT !.completed = o.epoch, !.request = FALSE,
                      !.disposition = IF retry THEN "RetryRequired" ELSE "Idle"]
      [] OTHER -> l

\* publish_outcome.  An older epoch's outcome changes nothing, and an idle
\* view of the epoch already published consumes no request.
PublishOutcome(l, o) ==
    LET retry == o.failed \/ o.pending IN
    CASE o.poisoned -> [l EXCEPT !.disposition = "Poisoned"]
      [] ~o.poisoned /\ o.epoch > l.completed ->
            [l EXCEPT !.completed = o.epoch, !.request = FALSE,
                      !.disposition = IF retry THEN "RetryRequired" ELSE "Idle"]
      [] ~o.poisoned /\ o.epoch = l.completed /\ retry ->
            [l EXCEPT !.disposition = "RetryRequired"]
      [] OTHER -> l

\* A plausible slip: only a retry is worth a lease, not a request.
ActionableOnRetry(l) == l.disposition = "RetryRequired"

\* The guards of begin_gc_activity_for_snapshot and of readiness.
Actionable(l) == l.request \/ l.disposition = "RetryRequired"

\* promote_gc_pressure_request, with the pressure it is asked about.
Promotable == /\ heap.latch /\ ~heap.poisoned
              /\ ledger.leases = 0 /\ ~ledger.request /\ ledger.disposition = "Idle"

-----------------------------------------------------------------------------
(* request_managed_collection: the heap's latch and the ledger's request,  *)
(* in two steps under one shared guard.                                    *)

MayCall(t) == /\ At(t, "idle") /\ ~faulted /\ calls < MaxCalls

Request(t) ==
    /\ t \in Hosts /\ MayCall(t)
    /\ ~heap.poisoned
    /\ TakeShared(t)
    /\ calls' = calls + 1
    /\ heap' = [heap EXCEPT !.latch = TRUE]
    /\ owed' = TRUE
    /\ Goto(t, "record")
    /\ UNCHANGED <<faults, ledger, current, observed, driverVars, faulted, attemptVars>>

RecordRequest(t) ==
    /\ At(t, "record")
    /\ ledger' = [ledger EXCEPT !.request = TRUE]
    /\ current' = IF ledger.request THEN current ELSE {}
    /\ GuardedThen(t, "idle")
    /\ UNCHANGED <<heapVars, observed, holds, driverVars, faulted, attemptVars, calls>>

\* The heap's request panics once the heap is poisoned.
RequestFails(t) ==
    /\ t \in Hosts /\ MayCall(t)
    /\ heap.poisoned
    /\ TakeShared(t)
    /\ calls' = calls + 1
    /\ ledger' = PublishOutcome([ledger EXCEPT !.request = TRUE],
                                [NoOutcome EXCEPT !.poisoned = TRUE, !.failed = TRUE])
    /\ current' = {}
    /\ GuardedThen(t, "idle")
    /\ UNCHANGED <<heapVars, observed, driverVars, faulted, attemptVars>>

-----------------------------------------------------------------------------
(* Leases and collect_under_lease. *)

\* service_managed_collection begins its lease unconditionally.
Service(t) ==
    /\ t \in Hosts /\ MayCall(t)
    /\ calls' = calls + 1
    /\ Goto(t, "lease")
    /\ UNCHANGED <<heapVars, ledger, current, observed, holds, driverVars,
                   faulted, attemptVars>>

BeginActivity(t) ==
    /\ At(t, "lease")
    /\ TakeShared(t)
    /\ ledger' = [ledger EXCEPT !.leases = @ + 1]
    /\ current' = {}
    /\ GuardedThen(t, "collect")
    /\ UNCHANGED <<heapVars, observed, driverVars, faulted, attemptVars, calls>>

\* RuntimeMaintenanceSnapshot::service: only the revision it was shown.
BeginForSnapshot(t) ==
    /\ At(t, "held")
    /\ TakeShared(t)
    /\ IF t \in current /\ ledger.leases = 0 /\ Actionable(ledger)
          THEN /\ ledger' = [ledger EXCEPT !.leases = @ + 1]
               /\ current' = {}
               /\ GuardedThen(t, "collect")
          ELSE /\ current' = current \ {t}
               /\ GuardedThen(t, "idle")
               /\ UNCHANGED ledger
    /\ UNCHANGED <<heapVars, observed, driverVars, faulted, attemptVars, calls>>

\* A host may also drop the snapshot it was shown.
DropSnapshot(t) ==
    /\ At(t, "held") /\ t \in Hosts
    /\ current' = current \ {t}
    /\ Goto(t, "idle")
    /\ UNCHANGED <<heapVars, ledger, observed, holds, driverVars, faulted,
                   attemptVars, calls>>

\* collect_full: poison is an error, a collection under way is joined, and
\* otherwise the latch is set for the next one.
CollectFull(t) ==
    /\ At(t, "collect")
    /\ ~heap.poisoned
    /\ target' = [target EXCEPT ![t] = heap.epoch + 1]
    /\ heap' = [heap EXCEPT !.latch = @ \/ heap.collector = NoThread]
    /\ Goto(t, "await")
    /\ UNCHANGED <<owed, faults, ledger, current, observed, holds, driverVars,
                   faulted, outcome, calls>>

\* A host that calls from inside a mutator of its own collects nothing.
CollectNested(t) ==
    /\ At(t, "collect") /\ t \in Hosts
    /\ ~heap.poisoned
    /\ Goto(t, "nested")
    /\ UNCHANGED <<heapVars, ledger, current, observed, holds, driverVars,
                   faulted, attemptVars, calls>>

CollectRejected(t) ==
    /\ pc[t] \in {"collect", "await"}
    /\ heap.poisoned
    /\ Goto(t, "rejected")
    /\ UNCHANGED <<heapVars, ledger, current, observed, holds, driverVars,
                   faulted, attemptVars, calls>>

CollectReturns(t) ==
    /\ At(t, "await")
    /\ ~heap.poisoned /\ heap.epoch >= target[t]
    /\ Goto(t, "collected")
    /\ UNCHANGED <<heapVars, ledger, current, observed, holds, driverVars,
                   faulted, attemptVars, calls>>

\* elect_idle_collection, by the waiting caller.
Elect(t) ==
    /\ At(t, "await")
    /\ ~heap.poisoned /\ heap.epoch < target[t]
    /\ heap.collector = NoThread /\ heap.latch /\ mutating = {}
    /\ heap' = [heap EXCEPT !.collector = t, !.exclusive = TRUE]
    /\ Goto(t, "mark")
    /\ UNCHANGED <<owed, faults, ledger, current, observed, holds, driverVars,
                   faulted, attemptVars, calls>>

\* Mark and sweep; the dead that need finalizers are installed as a batch,
\* which a failed collection's remainder joins.
Sweep(t) ==
    /\ At(t, "mark")
    /\ \E dead \in BOOLEAN :
         heap' = [heap EXCEPT !.exclusive = FALSE, !.pending = @ \/ dead]
    /\ Goto(t, "finalize")
    /\ UNCHANGED <<owed, faults, ledger, current, observed, holds, driverVars,
                   faulted, attemptVars, calls>>

\* Every finalizer has run: complete acknowledges the request...
Acknowledge(t) ==
    /\ At(t, "finalize")
    /\ heap' = [heap EXCEPT !.pending = FALSE, !.latch = FALSE]
    /\ owed' = FALSE
    /\ Goto(t, "complete")
    /\ UNCHANGED <<faults, ledger, current, observed, holds, driverVars,
                   faulted, attemptVars, calls>>

\* ... and then publishes the epoch and ordinary admission.
Complete(t) ==
    /\ At(t, "complete")
    /\ heap' = [heap EXCEPT !.epoch = @ + 1, !.collector = NoThread]
    /\ Goto(t, "await")
    /\ UNCHANGED <<owed, faults, ledger, current, observed, holds, driverVars,
                   faulted, attemptVars, calls>>

\* A panic the heap survives: in the trace, or in a finalizer, which leaves
\* the untouched ones pending.  The request is latched again.
AttemptPanics(t) ==
    /\ pc[t] \in {"mark", "finalize"} /\ faults < MaxFaults
    /\ faults' = faults + 1
    /\ At(t, "finalize") => heap.pending
    /\ \E left \in BOOLEAN :
         /\ left => heap.pending
         /\ At(t, "mark") => left = heap.pending
         /\ heap' = [heap EXCEPT !.collector = NoThread, !.exclusive = FALSE,
                                 !.latch = TRUE, !.pending = left]
    /\ Goto(t, "panicked")
    /\ UNCHANGED <<owed, ledger, current, observed, holds, driverVars, faulted,
                   attemptVars, calls>>

\* A panic inside the topology or finalizer commit window poisons the heap.
AttemptPoisons(t) ==
    /\ pc[t] \in {"mark", "finalize"} /\ faults < MaxFaults /\ MayPoison
    /\ faults' = faults + 1
    /\ heap' = [heap EXCEPT !.collector = NoThread, !.exclusive = FALSE,
                            !.latch = FALSE, !.poisoned = TRUE]
    /\ owed' = FALSE
    /\ Goto(t, "panicked")
    /\ UNCHANGED <<ledger, current, observed, holds, driverVars, faulted,
                   attemptVars, calls>>

\* collect_under_lease reads the heap after its attempt; a success it then
\* finds poisoned panics, and the lease is dropped unfinished.
Snapshot(t) ==
    /\ pc[t] \in {"collected", "nested", "rejected", "panicked"}
    /\ LET failed == pc[t] \in {"rejected", "panicked"} IN
       IF At(t, "collected") /\ heap.poisoned
         THEN Goto(t, "abandon") /\ UNCHANGED outcome
         ELSE /\ outcome' = [outcome EXCEPT ![t] =
                   IF heap.poisoned
                     THEN [NoOutcome EXCEPT !.poisoned = TRUE, !.failed = failed]
                     ELSE [poisoned |-> FALSE, epoch |-> heap.epoch,
                           pending |-> heap.pending, failed |-> failed]]
              /\ Goto(t, "publish")
    /\ target' = [target EXCEPT ![t] = 0]
    /\ UNCHANGED <<heapVars, ledger, current, observed, holds, driverVars,
                   faulted, calls>>

\* A driver goes back to its mutator, a host to its caller.
AfterLease(t) == IF t \in Drivers THEN "resume" ELSE "idle"

Publish(t) ==
    /\ At(t, "publish")
    /\ TakeShared(t)
    /\ ledger' = PublishOutcome(RetireLease(ledger), outcome[t])
    /\ current' = {}
    /\ outcome' = [outcome EXCEPT ![t] = NoOutcome]
    /\ GuardedThen(t, AfterLease(t))
    /\ UNCHANGED <<heapVars, observed, driverVars, faulted, target, calls>>

\* A plausible slip: the unwind asks for a retry but keeps its lease.
AbandonKeepsLease(t) ==
    /\ At(t, "abandon")
    /\ TakeShared(t)
    /\ ledger' = [ledger EXCEPT !.disposition = "RetryRequired"]
    /\ current' = {}
    /\ GuardedThen(t, AfterLease(t))
    /\ UNCHANGED <<heapVars, observed, driverVars, faulted, attemptVars, calls>>

\* The unwind that drops the lease ends the host's call or the worker's loop.
Abandon(t) ==
    /\ At(t, "abandon")
    /\ TakeShared(t)
    /\ ledger' = [RetireLease(ledger) EXCEPT !.disposition = "RetryRequired"]
    /\ current' = {}
    /\ GuardedThen(t, AfterLease(t))
    /\ UNCHANGED <<heapVars, observed, driverVars, faulted, attemptVars, calls>>

-----------------------------------------------------------------------------
(* Drivers: a worker enters the heap, claims work, polls it, services      *)
(* pressure at the quantum boundary and releases the claim.                *)

HeapIsOpen == ~heap.exclusive /\ ~heap.poisoned

EnterHeap(t) ==
    /\ t \in Drivers /\ MayCall(t)
    /\ HeapIsOpen
    /\ calls' = calls + 1
    /\ mutating' = mutating \cup {t}
    /\ Goto(t, "select")
    /\ UNCHANGED <<heapVars, ledger, current, observed, holds, claimed, faulted,
                   attemptVars>>

Claim(t) ==
    /\ At(t, "select")
    /\ TakeShared(t)
    /\ claimed' = claimed \cup {t}
    /\ GuardedThen(t, "polling")
    /\ UNCHANGED <<heapVars, ledger, current, observed, mutating, faulted,
                   attemptVars, calls>>

\* The poll's allocations may pass the high-water mark and latch pressure.
EndPoll(t) ==
    /\ At(t, "polling")
    /\ \E pressure \in BOOLEAN :
         /\ heap' = [heap EXCEPT !.latch = @ \/ (pressure /\ ~heap.poisoned)]
         /\ owed' = (owed \/ (pressure /\ ~heap.poisoned))
    /\ Goto(t, "boundary")
    /\ UNCHANGED <<faults, ledger, current, observed, holds, driverVars, faulted,
                   attemptVars, calls>>

PressureRequested == ~faulted /\ ~heap.poisoned /\ heap.latch

\* service_collection_pressure_under suspends the mutator only under pressure.
Boundary(t) ==
    /\ At(t, "boundary")
    /\ mutating' = IF PressureRequested THEN mutating \ {t} ELSE mutating
    /\ Goto(t, IF PressureRequested THEN "suspended" ELSE "unclaim")
    /\ UNCHANGED <<heapVars, ledger, current, observed, holds, claimed, faulted,
                   attemptVars, calls>>

\* service_collection_pressure checks again: another collection may have run.
ServicePressure(t) ==
    /\ At(t, "suspended")
    /\ Goto(t, IF PressureRequested THEN "lease" ELSE "resume")
    /\ UNCHANGED <<heapVars, ledger, current, observed, holds, driverVars,
                   faulted, attemptVars, calls>>

ResumeMutator(t) ==
    /\ At(t, "resume")
    /\ HeapIsOpen
    /\ mutating' = mutating \cup {t}
    /\ Goto(t, "unclaim")
    /\ UNCHANGED <<heapVars, ledger, current, observed, holds, claimed, faulted,
                   attemptVars, calls>>

Unclaim(t) ==
    /\ At(t, "unclaim")
    /\ TakeShared(t)
    /\ claimed' = claimed \ {t}
    /\ GuardedThen(t, "leave")
    /\ UNCHANGED <<heapVars, ledger, current, observed, mutating, faulted,
                   attemptVars, calls>>

LeaveHeap(t) ==
    /\ At(t, "leave")
    /\ mutating' = mutating \ {t}
    /\ Goto(t, "idle")
    /\ UNCHANGED <<heapVars, ledger, current, observed, holds, claimed, faulted,
                   attemptVars, calls>>

\* A worker's entry into a poisoned heap panics out of its loop, which marks
\* the runtime poisoned and wakes whoever is parked.
WorkerFaults(t) ==
    /\ t \in Drivers
    /\ pc[t] = "resume" \/ (pc[t] = "idle" /\ MayCall(t))
    /\ heap.poisoned
    /\ faulted' = TRUE
    /\ observed' = {}
    /\ Goto(t, "halted")
    /\ UNCHANGED <<heapVars, ledger, current, holds, driverVars, attemptVars, calls>>

-----------------------------------------------------------------------------
(* pump_until_stable: drain, then decide under the exclusive guard whether *)
(* to promote pressure, to return or to wait for activity.                 *)

Pump(t) ==
    /\ At(t, "idle")
    /\ \/ t \in Clients /\ calls' = calls
       \/ t \in Hosts /\ MayCall(t) /\ calls' = calls + 1
    /\ Goto(t, "observe")
    /\ UNCHANGED <<heapVars, ledger, current, observed, holds, driverVars,
                   faulted, attemptVars>>

Observe(t) ==
    /\ At(t, "observe")
    /\ IF faulted
         THEN Goto(t, "pumped") /\ UNCHANGED observed
         ELSE Goto(t, "try") /\ observed' = observed \cup {t}
    /\ UNCHANGED <<heapVars, ledger, current, holds, driverVars, faulted,
                   attemptVars, calls>>

TryExclusive(t) ==
    /\ At(t, "try")
    /\ \/ TakeExclusive(t) /\ Goto(t, "inspect")
       \/ ~GateIsFree /\ Goto(t, "wait") /\ UNCHANGED holds
    /\ UNCHANGED <<heapVars, ledger, current, observed, driverVars, faulted,
                   attemptVars, calls>>

Inspect(t) ==
    /\ At(t, "inspect")
    /\ LET stable == ledger.leases = 0 /\ claimed = {} IN
       /\ IF stable /\ Promotable
            THEN ledger' = [ledger EXCEPT !.request = TRUE] /\ current' = {}
            ELSE UNCHANGED <<ledger, current>>
       /\ GuardedThen(t, IF stable THEN "pumped" ELSE "wait")
    /\ UNCHANGED <<heapVars, observed, holds, driverVars, faulted, attemptVars,
                   calls>>

\* wait_for_change returns once the generation has moved on.
WaitForChange(t) ==
    /\ At(t, "wait")
    /\ t \notin observed
    /\ Goto(t, "observe")
    /\ UNCHANGED <<heapVars, ledger, current, observed, holds, driverVars,
                   faulted, attemptVars, calls>>

-----------------------------------------------------------------------------
(* readiness *)

\* A plausible slip: a lease under way does not make the runtime busy.
AnswerUnleased ==
    CASE ledger.disposition = "Poisoned" -> "failed"
      [] ledger.disposition # "Poisoned" /\ Actionable(ledger) -> "required"
      [] OTHER -> IF claimed = {} THEN "stable" ELSE "busy"

\* What readiness answers under the exclusive guard, in its precedence.
Answer ==
    CASE ledger.leases # 0 -> "busy"
      [] ledger.leases = 0 /\ ledger.disposition = "Poisoned" -> "failed"
      [] ledger.leases = 0 /\ ledger.disposition # "Poisoned" /\ Actionable(ledger) -> "required"
      [] OTHER -> IF claimed = {} THEN "stable" ELSE "busy"

MayProbe(t) == At(t, "pumped") \/ (t \in Hosts /\ MayCall(t))

Readiness(t) ==
    /\ MayProbe(t) /\ ~faulted
    /\ calls' = IF At(t, "idle") THEN calls + 1 ELSE calls
    /\ TakeExclusive(t)
    /\ current' = IF Answer = "required" THEN current \cup {t} ELSE current
    /\ GuardedThen(t, IF Answer = "required" THEN "held" ELSE Answer)
    /\ UNCHANGED <<heapVars, ledger, observed, driverVars, faulted, attemptVars>>

\* Busy without the guard, or Poisoned: the pump's caller starts over.
ReadinessBusy(t) ==
    /\ At(t, "pumped")
    /\ faulted \/ ~GateIsFree
    /\ Goto(t, "idle")
    /\ UNCHANGED <<heapVars, ledger, current, observed, holds, driverVars,
                   faulted, attemptVars, calls>>

TakeAnswer(t) ==
    /\ pc[t] \in {"busy", "failed", "stable"}
    /\ Goto(t, "idle")
    /\ UNCHANGED <<heapVars, ledger, current, observed, holds, driverVars,
                   faulted, attemptVars, calls>>

-----------------------------------------------------------------------------

\* What a thread does unasked once it is under way.
Continue(t) ==
    \/ Release(t) \/ Advance(t) \/ Refused(t)
    \/ RecordRequest(t) \/ BeginActivity(t) \/ BeginForSnapshot(t)
    \/ CollectFull(t) \/ CollectRejected(t) \/ CollectReturns(t)
    \/ Elect(t) \/ Sweep(t) \/ Acknowledge(t) \/ Complete(t)
    \/ Snapshot(t) \/ Publish(t) \/ Abandon(t)
    \/ Claim(t) \/ EndPoll(t) \/ Boundary(t) \/ ServicePressure(t)
    \/ ResumeMutator(t) \/ Unclaim(t) \/ LeaveHeap(t)
    \/ Observe(t) \/ TryExclusive(t) \/ Inspect(t) \/ WaitForChange(t)
    \/ ReadinessBusy(t) \/ TakeAnswer(t)

\* What a thread may choose to do, or what may befall it.
Choose(t) ==
    \/ Request(t) \/ RequestFails(t) \/ Service(t) \/ DropSnapshot(t)
    \/ CollectNested(t) \/ AttemptPanics(t) \/ AttemptPoisons(t)
    \/ EnterHeap(t) \/ WorkerFaults(t)

\* The client's loop: pump until stable, then ask for readiness.
Loop(t) == Pump(t) \/ Readiness(t)

Next == \E t \in Threads : Continue(t) \/ Choose(t) \/ Loop(t)

Spec == Init /\ [][Next]_vars

\* Every thread under way is scheduled, one that waits for the gate is let in
\* if the gate keeps being free, and each client repeats its loop.
FairSpec ==
    /\ Spec
    /\ \A t \in Threads : SF_vars(Continue(t))
    /\ \A t \in Clients : WF_vars(Loop(t) \/ Continue(t))

-----------------------------------------------------------------------------
(* Properties *)

\* Where a thread holds a GC activity lease.
Leased(t) ==
    \/ pc[t] \in {"collect", "await", "mark", "finalize", "complete", "nested",
                  "rejected", "panicked", "collected", "publish", "abandon"}
    \/ pc[t] \in {"release", "advance"} /\ then[t] = "collect"

\* The ledger's lease count is exactly the collecting attempts not yet
\* published, so that a zero count means no thread can be collecting.
LeasesAreHeld ==
    ~faulted => ledger.leases = Cardinality({t \in Threads : Leased(t)})

\* Finalizers that a panicked collection left untouched are never forgotten:
\* on a usable heap with no attempt under way the ledger asks for a retry,
\* whatever order the attempts published their snapshots in.
FinalizersAreOwed ==
    ledger.leases = 0 /\ heap.pending /\ ~heap.poisoned
        => ledger.disposition = "RetryRequired"

\* When readiness calls the runtime stable, nobody collects, no work is
\* claimed and, on a usable heap, no finalizer is outstanding.
StableIsQuiet ==
    \A t \in Threads :
        holds[t] = "exclusive" /\ then[t] = "stable" /\ pc[t] = "release" =>
            /\ heap.collector = NoThread
            /\ \A u \in Drivers : pc[u] # "polling"
            /\ heap.pending => heap.poisoned

\* A collection asked for, by a host's request or by allocation pressure, is
\* performed if the client keeps pumping and servicing what it is shown,
\* even when a publication consumed the ledger's request in between, unless
\* the heap is poisoned.
RequestIsServed == owed ~> (~owed \/ heap.poisoned)

\* The client's pump_until_stable returns, whatever the hosts' bounded calls
\* do beside it: no wakeup is lost to a guard released, a lease retired or a
\* claim ended by another thread, unless the heap is poisoned.
PumpReturns ==
    \A t \in Clients : At(t, "observe") ~> (At(t, "pumped") \/ heap.poisoned)

\* Test poisoned_maintenance_disposition_is_terminal_readiness: a poisoned
\* heap's disposition is never replaced.
PoisonIsTerminal ==
    [][ledger.disposition = "Poisoned" => ledger'.disposition = "Poisoned"]_vars
=============================================================================
