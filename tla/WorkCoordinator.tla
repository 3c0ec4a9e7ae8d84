-------------------------- MODULE WorkCoordinator --------------------------
(***************************************************************************)
(* The runtime's evaluation work coordinator                               *)
(* (src/src/evaluation/coordinator.rs and coordinator/*.rs): reflection    *)
(* tasks and deferred producers, the one-shot completion sources they wait *)
(* on, the exact subscriptions that wake them, the broad observation       *)
(* epoch, terminal settlement, cancellation, demand-session closure, and   *)
(* the executor workers that claim, poll and release them.                 *)
(*                                                                         *)
(* Granularity.  One action is one critical section of the coordinator's   *)
(* `state` mutex, of one source's `registrations` mutex, or one write of a *)
(* terminal cell.  A release, a settlement and an observation publication  *)
(* hold the runtime's shared mutation admission over several of these; the *)
(* program points in GuardPoints are the ones inside it.                   *)
(*                                                                         *)
(* Abstractions.  A machine is whether its record holds it; what a poll    *)
(* computes is a nondeterministic choice of its outcome.  work_generation  *)
(* is compared for equality only, so it is kept as fresh[t]: whether it is *)
(* still what thread t last read.  The rotation of background_roots is a   *)
(* choice among the roots that have a candidate.                           *)
(***************************************************************************)
EXTENDS Naturals, FiniteSets

CONSTANTS Threads,      \* every thread that drives or changes work
          Workers,      \* the executor's threads, a subset of Threads
          Tasks,        \* identities of reflection work
          Deferreds,    \* identities of deferred producer work
          Promises,     \* identities of task-owned promises
          Sessions,     \* demand sessions
          SessionOf,    \* the owner session of each work
          NoWork, NoSource, NoSession,
          MaxPolls,     \* bound: claims of each work
          MaxEpoch,     \* bound: runtime observation epochs
          MayClose,     \* whether a session owner may drop its session
          MayStop       \* whether the executor may be dropped

Works == Tasks \cup Deferreds

\* A completion source is a work's wait token or a promise.
Sources == Works \cup Promises

ASSUME CoordinatorAssumption ==
    /\ Workers \subseteq Threads
    /\ Tasks \cap Deferreds = {}
    /\ Works \cap Promises = {}
    /\ SessionOf \in [Works -> Sessions]
    /\ NoWork \notin Works
    /\ NoSource \notin Sources
    /\ NoSession \notin Sessions
    /\ MaxPolls \in Nat /\ MaxEpoch \in Nat
    /\ MayClose \in BOOLEAN /\ MayStop \in BOOLEAN

VARIABLES
    closed,     \* per session, EvaluationDemandState::closed
    swept,      \* per session, whether close_session's transition has run
    stopping,   \* EvaluationExecutorInner::stopping
    state,      \* per work, WorkRecord::state, "absent" before, "retired" after
    reason,     \* per work, WorkControl::close_reason
    epoch,      \* per work, WorkRecord::subscription_epoch
    block,      \* per work, the last published EvaluationTaskBlock
    machine,    \* per work, whether the record holds its machine
    latch,      \* per work, DeferredWork::demand_while_running
    owes,       \* per work, whether SettlementObligations::producer is there
    promised,   \* per work, SettlementObligations::owned_promises
    ready,      \* ready_task_set
    observers,  \* observation_waiters
    terminal,   \* per source, its terminal result, "none" before
    regs,       \* per source, CompletionSubscriptions::registrations
    observation,\* RuntimeObservationState::epoch
    fresh,      \* per thread, whether work_generation is as it last read it
    pc,         \* per thread, its program point
    after,      \* per thread, where it goes once it has notified
    job,        \* per thread, the work it drives or settles
    poll,       \* per thread, the outcome of its poll, then its settlement
    seen,       \* per thread, the observation epoch its poll began with
    eager,      \* per thread, requeue_on_yield of its deferred claim
    demanded,   \* per thread, had_exact_demand as it read it
    source,     \* per thread, the source it subscribes to or publishes
    batch,      \* per thread, registrations detached and not yet delivered
    changed,    \* per thread, whether its operation owes a notification
    target,     \* per thread, the session it closes
    settling,   \* per thread, work a session closure has left to settle
    retiring,   \* per thread, deferred work it has settled and not retired
    polls       \* per work, its polls so far that did not end it

records  == <<state, reason, epoch, block, machine, latch, owes, promised, ready,
              observers>>
sources  == <<terminal, regs>>
frame    == <<job, poll, seen, eager, demanded, source, batch>>
closure  == <<target, settling, retiring>>
flags    == <<closed, swept, stopping, observation>>
vars == <<closed, swept, stopping, state, reason, epoch, block, machine, latch, owes,
          promised, ready, observers, terminal, regs, observation, fresh, pc, after,
          job, poll, seen, eager, demanded, source, batch, changed, target, settling,
          retiring, polls>>

-----------------------------------------------------------------------------
(* Types.                                                                  *)

Terminals  == {"Complete", "Failed", "Cancelled", "Abandoned", "Panicked"}
\* A poll also ends by halting on a dependency's panic, its machine intact.
Outcomes   == {"none", "Runnable", "Blocked", "Halted"} \cup Terminals

NoBlock == [dependency |-> NoSource, observed |-> 0]

\* The points inside the shared runtime mutation admission.
GuardPoints == {"subscribing", "selfwaking", "promoting", "rereading", "rechecking",
                "publishing", "detaching", "waking", "promising", "discharging",
                "disturbing"}

Init ==
    /\ closed = [s \in Sessions |-> FALSE] /\ swept = [s \in Sessions |-> FALSE]
    /\ stopping = FALSE
    /\ state = [w \in Works |-> "absent"] /\ reason = [w \in Works |-> "none"]
    /\ epoch = [w \in Works |-> 0] /\ block = [w \in Works |-> NoBlock]
    /\ machine = [w \in Works |-> FALSE] /\ latch = [w \in Works |-> FALSE]
    /\ owes = [w \in Works |-> FALSE] /\ promised = [w \in Works |-> {}]
    /\ ready = {} /\ observers = {}
    /\ terminal = [s \in Sources |-> "none"] /\ regs = [s \in Sources |-> {}]
    /\ observation = 1
    /\ fresh = [t \in Threads |-> FALSE] /\ changed = [t \in Threads |-> FALSE]
    /\ pc = [t \in Threads |-> "idle"] /\ after = [t \in Threads |-> "idle"]
    /\ job = [t \in Threads |-> NoWork] /\ poll = [t \in Threads |-> "none"]
    /\ seen = [t \in Threads |-> 0]
    /\ eager = [t \in Threads |-> FALSE] /\ demanded = [t \in Threads |-> FALSE]
    /\ source = [t \in Threads |-> NoSource] /\ batch = [t \in Threads |-> {}]
    /\ target = [t \in Threads |-> NoSession]
    /\ settling = [t \in Threads |-> {}] /\ retiring = [t \in Threads |-> {}]
    /\ polls = [w \in Works |-> 0]

-----------------------------------------------------------------------------
(* Shared pieces of the critical sections.                                 *)

\* WorkCoordinatorState::advance_work_generation.
Advance == fresh' = [t \in Threads |-> FALSE]

Goto(t, point) == pc' = [pc EXCEPT ![t] = point]

\* The critical section is over; the thread notifies and then goes on.
Leave(t, next) ==
    /\ pc' = [pc EXCEPT ![t] = "notifying"]
    /\ after' = [after EXCEPT ![t] = next]

\* The thread's work on its claim is over.
Dismiss(t) ==
    /\ job' = [job EXCEPT ![t] = NoWork]
    /\ poll' = [poll EXCEPT ![t] = "none"]
    /\ seen' = [seen EXCEPT ![t] = 0]
    /\ eager' = [eager EXCEPT ![t] = FALSE]
    /\ demanded' = [demanded EXCEPT ![t] = FALSE]
    /\ source' = [source EXCEPT ![t] = NoSource]
    /\ batch' = [batch EXCEPT ![t] = {}]

Registered(w) == state[w] \notin {"absent", "retired", "discarded"}

\* A thread that is not inside an operation begins one.
Begin(t) == pc[t] = "idle" /\ t \notin Workers

\* queue_current_registration: a registration wakes its work only while the
\* work is still blocked by that very subscription.
Current(r, s) ==
    /\ state[r.work] = "Blocked"
    /\ epoch[r.work] = r.epoch
    /\ block[r.work].dependency = s

\* queue_current_observation's test of an observation registration.
CurrentObserver(o) ==
    /\ state[o.work] = "Blocked"
    /\ epoch[o.work] = o.epoch
    /\ block[o.work].observed = o.observed

\* Every work of W becomes Queued and claimable and forgets its observation.
Queue(W) ==
    /\ state' = [w \in Works |-> IF w \in W THEN "Queued" ELSE state[w]]
    /\ ready' = ready \cup W
    /\ observers' = {o \in observers : o.work \notin W}

\* Every work of W starts terminalizing and leaves the scheduling indexes.
Terminalize(W) ==
    /\ state' = [w \in Works |-> IF w \in W THEN "Terminalizing" ELSE state[w]]
    /\ ready' = ready \ W
    /\ observers' = {o \in observers : o.work \notin W}

\* wake_dependency_batch_guarded on the registrations the thread detached.
Woken(t) == {r.work : r \in {q \in batch[t] : Current(q, source[t])}}


-----------------------------------------------------------------------------
(* Admission, launch and disposal of work.                                 *)

\* reserve_reflection: the record exists and owes its wait a terminal.
Reserve(t, w) ==
    /\ Begin(t)
    /\ w \in Tasks /\ state[w] = "absent" /\ ~closed[SessionOf[w]]
    /\ state' = [state EXCEPT ![w] = "Reserved"]
    /\ owes' = [owes EXCEPT ![w] = TRUE]
    /\ Advance /\ changed' = [changed EXCEPT ![t] = TRUE] /\ Leave(t, "idle")
    /\ UNCHANGED <<closed, swept, stopping, observation, reason, epoch, block, machine,
                   latch, promised, ready, observers, terminal, regs, frame, closure, polls>>

\* reserve_deferred: the record is dormant and holds its machine.
ReserveDeferred(t, w) ==
    /\ Begin(t)
    /\ w \in Deferreds /\ state[w] = "absent" /\ ~closed[SessionOf[w]]
    /\ state' = [state EXCEPT ![w] = "Dormant"]
    /\ owes' = [owes EXCEPT ![w] = TRUE]
    /\ machine' = [machine EXCEPT ![w] = TRUE]
    /\ Advance /\ changed' = [changed EXCEPT ![t] = TRUE] /\ Leave(t, "idle")
    /\ UNCHANGED <<closed, swept, stopping, observation, reason, epoch, block, latch,
                   promised, ready, observers, terminal, regs, frame, closure, polls>>

\* install_reflection_machine: it is returned, unused, unless still Reserved.
Install(t, w) ==
    /\ Begin(t)
    /\ w \in Tasks /\ state[w] = "Reserved" /\ ~machine[w]
    /\ machine' = [machine EXCEPT ![w] = TRUE]
    /\ UNCHANGED <<flags, state, reason, epoch, block, latch, owes, promised, ready,
                   observers, sources, fresh, pc, after, frame, changed, closure, polls>>

\* activate_reflection_with_parent: the work becomes a claimable root.
Activate(t, w) ==
    /\ Begin(t)
    /\ w \in Tasks /\ state[w] = "Reserved" /\ machine[w]
    /\ Queue({w})
    /\ Advance /\ changed' = [changed EXCEPT ![t] = TRUE] /\ Leave(t, "idle")
    /\ UNCHANGED <<flags, reason, epoch, block, machine, latch, owes, promised, sources,
                   frame, closure, polls>>

\* discard_reserved_reflection: an uncommitted reservation goes unsettled.
Discard(t, w) ==
    /\ Begin(t)
    /\ w \in Tasks /\ state[w] = "Reserved" /\ ~machine[w] /\ promised[w] = {}
    /\ state' = [state EXCEPT ![w] = "discarded"]
    /\ owes' = [owes EXCEPT ![w] = FALSE]
    /\ Advance /\ changed' = [changed EXCEPT ![t] = TRUE] /\ Leave(t, "idle")
    /\ UNCHANGED <<flags, reason, epoch, block, machine, latch, promised, ready, observers,
                   sources, frame, closure, polls>>

\* begin_reflection_terminalization of a reservation whose launch failed.
FailLaunch(t, w) ==
    /\ Begin(t)
    /\ w \in Tasks /\ state[w] = "Reserved"
    /\ Terminalize({w})
    /\ job' = [job EXCEPT ![t] = w]
    /\ poll' = [poll EXCEPT ![t] = "Failed"]
    /\ Advance /\ changed' = [changed EXCEPT ![t] = TRUE] /\ Leave(t, "settling")
    /\ UNCHANGED <<flags, reason, epoch, block, machine, latch, owes, promised, sources,
                   seen, eager, demanded, source, batch, closure, polls>>

-----------------------------------------------------------------------------
(* Selection: workers and the host pump walk from background roots.        *)

\* A root is registered at activation and unregistered when it is detached.
Root(w) == w \in Tasks /\ Registered(w) /\ state[w] # "Reserved"

\* work_for_wait_locked: the registered work that produces a source.
Producers(s) ==
    IF s \in Promises THEN {w \in Works : s \in promised[w]}
                      ELSE {w \in Works : w = s /\ Registered(w)}

\* One edge of exact_producer_probe_locked; a work that is not blocked on a
\* registered producer is its own end.
Onward(w) ==
    IF state[w] = "Blocked" /\ Producers(block[w].dependency) # {}
    THEN CHOOSE v \in Works : v \in Producers(block[w].dependency)
    ELSE w

\* The walk ends within as many steps as there are works, or has met a cycle.
Tip(root) ==
    LET walk[n \in 0 .. Cardinality(Works)] ==
            IF n = 0 THEN root ELSE Onward(walk[n - 1])
    IN  walk[Cardinality(Works)]

\* causal_background_candidate_locked, then claim_task_work_locked.
Claimable(w) ==
    /\ \/ state[w] = "Queued"
       \/ state[w] = "Dormant" /\ w \in Deferreds
    /\ ~closed[SessionOf[w]]

Candidates == {w \in Works : Claimable(w) /\ \E root \in Works : Root(root) /\ Tip(root) = w}

\* A worker reads the generation before it selects; a host never waits on it.
StartDrive(t) ==
    /\ pc[t] = "idle"
    /\ t \in Workers => ~stopping
    /\ fresh' = [fresh EXCEPT ![t] = t \in Workers]
    /\ Goto(t, "select")
    /\ UNCHANGED <<flags, records, sources, after, frame, changed, closure, polls>>

\* claim_reflection or claim_deferred: the machine leaves its record.
Claim(t, w) ==
    /\ pc[t] = "select" /\ w \in Candidates
    /\ state' = [state EXCEPT ![w] = "Running"]
    /\ machine' = [machine EXCEPT ![w] = FALSE]
    /\ latch' = [latch EXCEPT ![w] = FALSE]
    /\ ready' = ready \ {w}
    /\ observers' = {o \in observers : o.work # w}
    /\ eager' = [eager EXCEPT ![t] = state[w] = "Queued" \/ latch[w]]
    /\ job' = [job EXCEPT ![t] = w]
    /\ Advance /\ Goto(t, "claimed")
    /\ UNCHANGED <<flags, reason, epoch, block, owes, promised, sources, poll, seen,
                   demanded, source, batch, after, changed, closure, polls>>

\* Nothing to claim: a worker goes to wait, the host pump returns.
SelectNone(t) ==
    /\ pc[t] = "select" /\ Candidates = {}
    /\ Goto(t, IF t \in Workers THEN "park" ELSE "idle")
    /\ UNCHANGED <<flags, records, sources, fresh, after, frame, changed, closure, polls>>

\* run_evaluation_worker looks at the stop flag once more before it waits.
Park(t) ==
    /\ pc[t] = "park"
    /\ Goto(t, IF stopping THEN "stopped" ELSE "waiting")
    /\ UNCHANGED <<flags, records, sources, fresh, after, frame, changed, closure, polls>>

\* A wait that does not compare the generation under the lock.
WaitUnchecked(t) ==
    /\ pc[t] \in {"waiting", "notified"}
    /\ Goto(t, IF pc[t] = "waiting" THEN "parked" ELSE "idle")
    /\ UNCHANGED <<flags, records, sources, fresh, after, frame, changed, closure, polls>>

\* wait_for_change_for under the state lock: wait only while nothing changed.
Wait(t) ==
    /\ pc[t] \in {"waiting", "notified"}
    /\ Goto(t, IF fresh[t] THEN "parked" ELSE "idle")
    /\ UNCHANGED <<flags, records, sources, fresh, after, frame, changed, closure, polls>>

\* notify_all, outside every lock and guard.  Claims and changes of the promise
\* index advance the generation but notify no one (notifies_waiters).
Notify(t) ==
    /\ pc[t] = "notifying"
    /\ pc' = [u \in Threads |->
                IF u = t THEN after[t]
                ELSE IF changed[t] /\ pc[u] = "parked" THEN "notified" ELSE pc[u]]
    /\ changed' = [changed EXCEPT ![t] = FALSE]
    /\ after' = [after EXCEPT ![t] = "idle"]
    /\ UNCHANGED <<flags, records, sources, fresh, frame, closure, polls>>

-----------------------------------------------------------------------------
(* The poll of a claimed work, and the promises it owns.                   *)

\* A poll that is not the last one its bound allows may leave the work alive.
MayGoOn(w) == polls[w] < MaxPolls

\* The poll is over; a deferred release first reads its wait's subscriptions.
Yield(t, outcome) ==
    /\ poll' = [poll EXCEPT ![t] = outcome]
    /\ polls' = IF outcome \in {"Runnable", "Blocked"}
                THEN [polls EXCEPT ![job[t]] = @ + 1] ELSE polls
    /\ Goto(t, IF job[t] \in Deferreds THEN "yielding" ELSE "releasing")

\* A claim keeps its record's last block, so block[job] is prior_block.
Panicked(s) == s # NoSource /\ terminal[s] = "Panicked"

\* ClaimedTask::poll_under: the poll reads the observation epoch as it starts.
BeginPoll(t) ==
    /\ pc[t] = "claimed" /\ (t \in Workers => ~stopping)
    /\ ~Panicked(block[job[t]].dependency)
    /\ seen' = [seen EXCEPT ![t] = observation]
    /\ Goto(t, "polling")
    /\ UNCHANGED <<flags, records, sources, fresh, after, job, poll, eager, demanded,
                   source, batch, changed, closure, polls>>

\* Work that was blocked on a panicked dependency ends without being polled.
HaltOnPanic(t) ==
    /\ pc[t] = "claimed" /\ (t \in Workers => ~stopping)
    /\ Panicked(block[job[t]].dependency)
    /\ Yield(t, "Halted")
    /\ UNCHANGED <<flags, records, sources, fresh, after, job, seen, eager, demanded,
                   source, batch, changed, closure>>

\* requeue_unpolled_task: a stopping worker gives its unpolled claim back.
Requeue(t) ==
    /\ pc[t] = "claimed" /\ t \in Workers /\ stopping
    /\ Queue({job[t]})
    /\ machine' = [machine EXCEPT ![job[t]] = TRUE]
    /\ Dismiss(t)
    /\ Advance /\ changed' = [changed EXCEPT ![t] = TRUE] /\ Leave(t, "stopped")
    /\ UNCHANGED <<flags, reason, epoch, block, latch, owes, promised, sources, closure,
                   polls>>

\* A promise that no work has ever been given.
Unowned(p) == terminal[p] = "none" /\ \A w \in Works : p \notin promised[w]

\* register_task_promise_with_terminal: the work owes the promise a terminal.
GivePromise(t, w, p) ==
    /\ Unowned(p) /\ reason[w] = "none"
    /\ promised' = [promised EXCEPT ![w] = @ \cup {p}]
    /\ Advance
    /\ UNCHANGED <<flags, state, reason, epoch, block, machine, latch, owes, ready,
                   observers, sources, pc, after, frame, changed, closure, polls>>

\* A running work takes a promise, or a reservation is made to complete one.
RegisterPromise(t, p) == pc[t] = "polling" /\ GivePromise(t, job[t], p)
ReservePromise(t, w, p) ==
    Begin(t) /\ w \in Tasks /\ state[w] = "Reserved" /\ GivePromise(t, w, p)

\* ManagedPromiseRoot::publish_guarded: the owner assigns a promise.
AssignPromise(t, p) ==
    /\ pc[t] = "polling" /\ p \in promised[job[t]]
    /\ terminal' = [terminal EXCEPT ![p] = "Complete"]
    /\ source' = [source EXCEPT ![t] = p]
    /\ Goto(t, "discharging")
    /\ UNCHANGED <<flags, records, regs, fresh, after, job, poll, seen, eager, demanded,
                   batch, changed, closure, polls>>

\* The machine ran to its quantum, ended (a failure settles as a result
\* does), or its poll panicked.
PollRunnable(t) ==
    /\ pc[t] = "polling" /\ MayGoOn(job[t])
    /\ Yield(t, "Runnable")
    /\ UNCHANGED <<flags, records, sources, fresh, after, job, seen, eager, demanded,
                   source, batch, changed, closure>>

PollEnds(t) ==
    /\ pc[t] = "polling"
    /\ \E outcome \in {"Complete", "Panicked"} : Yield(t, outcome)
    /\ UNCHANGED <<flags, records, sources, fresh, after, job, seen, eager, demanded,
                   source, batch, changed, closure>>

\* Something the machine may name as its dependency: a promise some work was
\* given, or another work's wait, once its reservation is committed.
Nameable(w, s) ==
    /\ s # w
    /\ s \in Promises => ~Unowned(s)
    /\ s \in Works => /\ state[s] \notin {"absent", "discarded"}
                      /\ state[s] = "Reserved" => machine[s] \/ promised[s] # {}

\* The machine is blocked on a dependency, on the epoch it polled at, or both.
PollBlocked(t) ==
    /\ pc[t] = "polling" /\ MayGoOn(job[t])
    /\ \E s \in {q \in Sources : Nameable(job[t], q)} \cup {NoSource},
          watches \in BOOLEAN :
          /\ s # NoSource \/ watches
          /\ source' = [source EXCEPT ![t] = s]
          /\ seen' = IF watches THEN seen ELSE [seen EXCEPT ![t] = 0]
          /\ Yield(t, IF Panicked(s) THEN "Halted" ELSE "Blocked")
    /\ UNCHANGED <<flags, records, sources, fresh, after, job, eager, demanded, batch,
                   changed, closure>>

-----------------------------------------------------------------------------
(* The release of a polled work.                                           *)

\* release_deferred reads its subscriptions before it takes the guard.
ReadDemand(t) ==
    /\ pc[t] = "yielding"
    /\ demanded' = [demanded EXCEPT ![t] = regs[job[t]] # {}]
    /\ Goto(t, "releasing")
    /\ UNCHANGED <<flags, records, sources, fresh, after, job, poll, seen, eager, source,
                   batch, changed, closure, polls>>

\* A release that looks only at what its poll returned.
EndsByPoll(t) == poll[t] \notin {"Runnable", "Blocked"}

Ends(t) == reason[job[t]] # "none" \/ poll[t] \notin {"Runnable", "Blocked"}

\* A settlement that prefers a finished poll to the close reason.
SettlementOfPoll(t) ==
    CASE poll[t] \in Terminals                       -> poll[t]
      [] reason[job[t]] = "ExplicitCancellation"     -> "Cancelled"
      [] reason[job[t]] = "DemandSessionClosed"      -> "Abandoned"
      [] OTHER -> "Panicked"

\* A machine's own panic outranks the close reason, which outranks the poll.
Settlement(t) ==
    CASE poll[t] = "Panicked"                        -> "Panicked"
      [] reason[job[t]] = "ExplicitCancellation"     -> "Cancelled"
      [] reason[job[t]] = "DemandSessionClosed"      -> "Abandoned"
      [] OTHER -> IF poll[t] = "Halted" THEN "Panicked" ELSE poll[t]

\* The terminal branch: the releaser keeps the machine and settles the work.
ReleaseEnding(t) ==
    /\ pc[t] = "releasing" /\ Ends(t)
    /\ Terminalize({job[t]})
    /\ block' = [block EXCEPT ![job[t]] = NoBlock]
    /\ latch' = [latch EXCEPT ![job[t]] = FALSE]
    /\ poll' = [poll EXCEPT ![t] = Settlement(t)]
    /\ source' = [source EXCEPT ![t] = NoSource]
    /\ Advance /\ changed' = [changed EXCEPT ![t] = TRUE] /\ Leave(t, "settling")
    /\ UNCHANGED <<flags, reason, epoch, machine, owes, promised, sources, job, seen,
                   eager, demanded, batch, closure, polls>>

\* Whether a deferred work that yielded stays scheduled for its waiters.
Requeues(t) ==
    \/ job[t] \in Tasks
    \/ eager[t] /\ demanded[t]
    \/ latch[job[t]]

ReleaseRunnable(t) ==
    /\ pc[t] = "releasing" /\ ~Ends(t) /\ poll[t] = "Runnable"
    /\ IF Requeues(t)
       THEN Queue({job[t]})
       ELSE /\ state' = [state EXCEPT ![job[t]] = "Dormant"]
            /\ UNCHANGED <<ready, observers>>
    /\ machine' = [machine EXCEPT ![job[t]] = TRUE]
    /\ block' = [block EXCEPT ![job[t]] = NoBlock]
    /\ latch' = [latch EXCEPT ![job[t]] = FALSE]
    /\ Dismiss(t)
    /\ Advance /\ changed' = [changed EXCEPT ![t] = TRUE] /\ Leave(t, "idle")
    /\ UNCHANGED <<flags, reason, epoch, owes, promised, sources, closure, polls>>

\* publish_task_block_locked, in the release's first critical section.
ReleaseBlocked(t) ==
    LET w == job[t] IN
    /\ pc[t] = "releasing" /\ ~Ends(t) /\ poll[t] = "Blocked"
    /\ state' = [state EXCEPT ![w] = "Blocked"]
    /\ epoch' = [epoch EXCEPT ![w] = @ + 1]
    /\ block' = [block EXCEPT ![w] = [dependency |-> source[t], observed |-> seen[t]]]
    /\ machine' = [machine EXCEPT ![w] = TRUE]
    /\ latch' = [latch EXCEPT ![w] = FALSE]
    /\ observers' = IF seen[t] = 0 THEN observers
                    ELSE observers \cup {[work |-> w, epoch |-> epoch[w] + 1,
                                          observed |-> seen[t]]}
    /\ batch' = [batch EXCEPT ![t] = {[work |-> w, epoch |-> epoch[w] + 1]}]
    /\ Goto(t, IF source[t] = NoSource THEN "rereading" ELSE "subscribing")
    /\ Advance /\ changed' = [changed EXCEPT ![t] = TRUE]
    /\ UNCHANGED <<flags, reason, owes, promised, ready, sources, after, job, poll, seen,
                   eager, demanded, source, closure, polls>>

\* A subscription that does not look at the terminal under the source's lock.
SubscribeUnchecked(t) ==
    /\ pc[t] = "subscribing"
    /\ regs' = [regs EXCEPT ![source[t]] = @ \cup batch[t]]
    /\ batch' = [batch EXCEPT ![t] = {}]
    /\ Goto(t, "promoting")
    /\ UNCHANGED <<flags, records, terminal, fresh, after, job, poll, seen, eager, demanded,
                   source, changed, closure, polls>>

\* CompletionSubscriptions::subscribe under the source's own lock.
Subscribe(t) ==
    /\ pc[t] = "subscribing"
    /\ IF terminal[source[t]] # "none"
       THEN Goto(t, "selfwaking") /\ UNCHANGED <<regs, batch>>
       ELSE /\ regs' = [regs EXCEPT ![source[t]] = @ \cup batch[t]]
            /\ batch' = [batch EXCEPT ![t] = {}]
            /\ Goto(t, "promoting")
    /\ UNCHANGED <<flags, records, terminal, fresh, after, job, poll, seen, eager, demanded,
                   source, changed, closure, polls>>

\* The source was terminal: the releaser wakes its own registration.
SelfWake(t) ==
    /\ pc[t] = "selfwaking"
    /\ Queue(Woken(t))
    /\ poll' = IF Woken(t) = {} THEN poll ELSE [poll EXCEPT ![t] = "Runnable"]
    /\ IF Woken(t) = {} THEN UNCHANGED fresh ELSE Advance
    /\ batch' = [batch EXCEPT ![t] = {}]
    /\ Goto(t, "promoting")
    /\ UNCHANGED <<flags, reason, epoch, block, machine, latch, owes, promised, sources,
                   after, job, seen, eager, demanded, source, changed, closure, polls>>

\* promote_deferred_wait_guarded: new demand schedules a dormant producer, or
\* tells a running one that it has a waiter.
Promote(t) ==
    LET d == source[t] IN
    /\ pc[t] = "promoting"
    /\ CASE d \in Deferreds /\ state[d] = "Dormant" -> Queue({d}) /\ Advance /\ UNCHANGED latch
         [] d \in Deferreds /\ state[d] = "Running" ->
              /\ latch' = [latch EXCEPT ![d] = TRUE] /\ Advance
              /\ UNCHANGED <<state, ready, observers>>
         [] OTHER -> UNCHANGED <<state, ready, observers, latch, fresh>>
    /\ IF poll[t] = "Blocked"
       THEN Goto(t, "rereading") /\ UNCHANGED <<after, frame>>
       ELSE Leave(t, "idle") /\ Dismiss(t)
    /\ UNCHANGED <<flags, reason, epoch, block, machine, owes, promised, sources,
                   changed, closure, polls>>

\* recheck_observation_wait reads the epoch before it takes the state lock.
Reread(t) ==
    /\ pc[t] = "rereading"
    /\ seen' = [seen EXCEPT ![t] = observation]
    /\ Goto(t, "rechecking")
    /\ UNCHANGED <<flags, records, sources, fresh, after, job, poll, eager, demanded,
                   source, batch, changed, closure, polls>>

\* The observers of W whose registration is current and older than the epoch.
Outdated(W, e) == {o.work : o \in {q \in observers : /\ q.work \in W /\ q.observed < e
                                                     /\ CurrentObserver(q)}}

\* A release that does not look at the epoch again.
RecheckNothing(t) ==
    /\ pc[t] = "rechecking"
    /\ Dismiss(t) /\ Leave(t, "idle")
    /\ UNCHANGED <<flags, records, sources, fresh, changed, closure, polls>>

Recheck(t) ==
    LET woken == Outdated({job[t]}, seen[t]) IN
    /\ pc[t] = "rechecking"
    /\ Queue(woken)
    /\ IF woken = {} THEN UNCHANGED fresh ELSE Advance
    /\ Dismiss(t) /\ Leave(t, "idle")
    /\ UNCHANGED <<flags, reason, epoch, block, machine, latch, owes, promised, sources,
                   changed, closure, polls>>

-----------------------------------------------------------------------------
(* Terminal settlement and retirement.                                     *)

\* settle_work takes the producer obligation, exactly once.
Settle(t) ==
    /\ pc[t] = "settling"
    /\ state[job[t]] = "Terminalizing" /\ owes[job[t]]
    /\ owes' = [owes EXCEPT ![job[t]] = FALSE]
    /\ source' = [source EXCEPT ![t] = job[t]]
    /\ Goto(t, "publishing")
    /\ UNCHANGED <<flags, state, reason, epoch, block, machine, latch, promised, ready,
                   observers, sources, fresh, after, job, poll, seen, eager, demanded, batch,
                   changed, closure, polls>>

\* EvaluationWaitToken::publish_terminal_guarded writes the terminal cell.
PublishTerminal(t) ==
    /\ pc[t] = "publishing"
    /\ terminal' = [terminal EXCEPT ![source[t]] = poll[t]]
    /\ Goto(t, "detaching")
    /\ UNCHANGED <<flags, records, regs, fresh, after, frame, changed, closure, polls>>

\* A publication that drops the registrations it takes.
DetachForgets(t) ==
    /\ pc[t] = "detaching"
    /\ regs' = [regs EXCEPT ![source[t]] = {}]
    /\ Goto(t, "waking")
    /\ UNCHANGED <<flags, records, terminal, fresh, after, frame, changed, closure, polls>>

\* publish_guarded takes the registrations, then queues their works.
Detach(t) ==
    /\ pc[t] = "detaching"
    /\ batch' = [batch EXCEPT ![t] = regs[source[t]]]
    /\ regs' = [regs EXCEPT ![source[t]] = {}]
    /\ Goto(t, "waking")
    /\ UNCHANGED <<flags, records, terminal, fresh, after, job, poll, seen, eager, demanded,
                   source, changed, closure, polls>>

\* A wake that queues its works and notifies no one.
WakeSilently(t) ==
    /\ pc[t] = "waking"
    /\ Queue(Woken(t))
    /\ IF Woken(t) = {} THEN UNCHANGED fresh ELSE Advance
    /\ batch' = [batch EXCEPT ![t] = {}]
    /\ source' = [source EXCEPT ![t] = NoSource]
    /\ IF state[job[t]] = "Terminalizing"
       THEN Goto(t, "promising") /\ UNCHANGED after
       ELSE Leave(t, "polling")
    /\ UNCHANGED <<flags, reason, epoch, block, machine, latch, owes, promised, sources,
                   job, poll, seen, eager, demanded, changed, closure, polls>>

WakeBatch(t) ==
    /\ pc[t] = "waking"
    /\ Queue(Woken(t))
    /\ IF Woken(t) = {} THEN UNCHANGED <<fresh, changed>>
       ELSE Advance /\ changed' = [changed EXCEPT ![t] = TRUE]
    /\ batch' = [batch EXCEPT ![t] = {}]
    /\ source' = [source EXCEPT ![t] = NoSource]
    /\ IF state[job[t]] = "Terminalizing"
       THEN Goto(t, "promising") /\ UNCHANGED after
       ELSE Leave(t, "polling")
    /\ UNCHANGED <<flags, reason, epoch, block, machine, latch, owes, promised, sources,
                   job, poll, seen, eager, demanded, closure, polls>>

\* How a settled work leaves a promise it owns: a completion's mapper gives
\* the task's result, every other promise fails as unresolved.
PromiseTerminals(outcome) ==
    CASE outcome = "Panicked" -> {"Panicked"}
      [] outcome = "Complete" -> {"Complete", "Failed"}
      [] OTHER -> {"Failed"}

SettlePromise(t, p) ==
    /\ pc[t] = "promising" /\ p \in promised[job[t]]
    /\ \E outcome \in PromiseTerminals(poll[t]) :
          terminal' = [terminal EXCEPT ![p] = outcome]
    /\ source' = [source EXCEPT ![t] = p]
    /\ Goto(t, "discharging")
    /\ UNCHANGED <<flags, records, regs, fresh, after, job, poll, seen, eager, demanded,
                   batch, changed, closure, polls>>

\* complete_task_promise_guarded: the record no longer owes the promise.
Discharge(t) ==
    /\ pc[t] = "discharging"
    /\ promised' = [promised EXCEPT ![job[t]] = @ \ {source[t]}]
    /\ Advance
    /\ Goto(t, "detaching")
    /\ UNCHANGED <<flags, state, reason, epoch, block, machine, latch, owes, ready,
                   observers, sources, after, frame, changed, closure, polls>>

\* A settlement that leaves before every promise is resolved.
SettledEarly(t) ==
    /\ pc[t] = "promising"
    /\ IF target[t] # NoSession /\ job[t] \in Deferreds
       THEN /\ retiring' = [retiring EXCEPT ![t] = @ \cup {job[t]}]
            /\ Dismiss(t) /\ Leave(t, "sweeping")
       ELSE UNCHANGED <<retiring, frame>> /\ Leave(t, "retiring")
    /\ UNCHANGED <<flags, records, sources, fresh, changed, target, settling, polls>>

\* The guard is dropped and the wakes are delivered.  A closure settles all
\* its deferred works before it retires any.
Settled(t) ==
    /\ pc[t] = "promising" /\ promised[job[t]] = {}
    /\ IF target[t] # NoSession /\ job[t] \in Deferreds
       THEN /\ retiring' = [retiring EXCEPT ![t] = @ \cup {job[t]}]
            /\ Dismiss(t) /\ Leave(t, "sweeping")
       ELSE UNCHANGED <<retiring, frame>> /\ Leave(t, "retiring")
    /\ UNCHANGED <<flags, records, sources, fresh, changed, target, settling, polls>>

\* retire_reflection or retire_deferred: the record is gone.
Retire(t) ==
    /\ pc[t] = "retiring"
    /\ state[job[t]] = "Terminalizing"
    /\ state' = [state EXCEPT ![job[t]] = "retired"]
    /\ machine' = [machine EXCEPT ![job[t]] = FALSE]
    /\ block' = [block EXCEPT ![job[t]] = NoBlock]
    /\ Dismiss(t)
    /\ Advance /\ changed' = [changed EXCEPT ![t] = TRUE]
    /\ Leave(t, IF target[t] = NoSession THEN "idle" ELSE "sweeping")
    /\ UNCHANGED <<flags, reason, epoch, latch, owes, promised, ready, observers, sources,
                   closure, polls>>

-----------------------------------------------------------------------------
(* Cancellation, closure of a session, observations and shutdown.          *)

\* request_reflection_cancellation: the first reason stays; a caller that
\* takes the work out of the scheduler settles and retires it.
Cancel(t, w) ==
    /\ Begin(t)
    /\ w \in Tasks /\ Registered(w) /\ state[w] # "Terminalizing"
    /\ reason' = [reason EXCEPT ![w] = IF @ = "none" THEN "ExplicitCancellation" ELSE @]
    /\ IF state[w] = "Running"
       THEN Leave(t, "idle") /\ UNCHANGED <<state, ready, observers, job, poll>>
       ELSE /\ Terminalize({w})
            /\ job' = [job EXCEPT ![t] = w]
            /\ poll' = [poll EXCEPT ![t] = "Cancelled"]
            /\ Leave(t, "settling")
    /\ Advance /\ changed' = [changed EXCEPT ![t] = TRUE]
    /\ UNCHANGED <<flags, epoch, block, machine, latch, owes, promised, sources, seen,
                   eager, demanded, source, batch, closure, polls>>

\* EvaluationSession::drop first raises the session's flag.
CloseFlag(t, s) ==
    /\ MayClose /\ Begin(t) /\ ~closed[s]
    /\ closed' = [closed EXCEPT ![s] = TRUE]
    /\ target' = [target EXCEPT ![t] = s]
    /\ Goto(t, "closing")
    /\ UNCHANGED <<swept, stopping, observation, records, sources, fresh, after, frame,
                   changed, settling, retiring, polls>>

\* A closure that also takes what is already terminalizing.
ClosingEverything(s) == {w \in Works : SessionOf[w] = s /\ Registered(w)}

\* The works a closure finds: the session's, unless already terminalizing.
Closing(s) == {w \in Works : /\ SessionOf[w] = s
                             /\ Registered(w) /\ state[w] # "Terminalizing"}

\* close_session: the first reason stays, and what is not running is taken.
CloseSession(t) ==
    LET found == Closing(target[t])
        taken == {w \in found : state[w] # "Running"}
    IN
    /\ pc[t] = "closing"
    /\ reason' = [w \in Works |-> IF w \in found /\ reason[w] = "none"
                                  THEN "DemandSessionClosed" ELSE reason[w]]
    /\ Terminalize(taken)
    /\ machine' = [w \in Works |-> machine[w] /\ w \notin taken \cap Deferreds]
    /\ block' = [w \in Works |-> IF w \in taken \cap Deferreds THEN NoBlock ELSE block[w]]
    /\ swept' = [swept EXCEPT ![target[t]] = TRUE]
    /\ settling' = [settling EXCEPT ![t] = taken]
    /\ Advance /\ changed' = [changed EXCEPT ![t] = TRUE] /\ Leave(t, "sweeping")
    /\ UNCHANGED <<closed, stopping, observation, epoch, latch, owes, promised, sources,
                   frame, target, retiring, polls>>

\* The drop settles and retires each task, then settles each deferred work.
SweepSettle(t, w) ==
    /\ pc[t] = "sweeping" /\ w \in settling[t]
    /\ w \in Deferreds => settling[t] \cap Tasks = {}
    /\ settling' = [settling EXCEPT ![t] = @ \ {w}]
    /\ job' = [job EXCEPT ![t] = w]
    /\ poll' = [poll EXCEPT ![t] = IF w \in Tasks /\ reason[w] = "ExplicitCancellation"
                                  THEN "Cancelled" ELSE "Abandoned"]
    /\ Goto(t, "settling")
    /\ UNCHANGED <<flags, records, sources, fresh, after, seen, eager, demanded, source,
                   batch, changed, target, retiring, polls>>

\* Then it retires the deferred works it settled.
SweepRetire(t, w) ==
    /\ pc[t] = "sweeping" /\ settling[t] = {} /\ w \in retiring[t]
    /\ retiring' = [retiring EXCEPT ![t] = @ \ {w}]
    /\ job' = [job EXCEPT ![t] = w]
    /\ Goto(t, "retiring")
    /\ UNCHANGED <<flags, records, sources, fresh, after, poll, seen, eager, demanded,
                   source, batch, changed, target, settling, polls>>

SweepEnd(t) ==
    /\ pc[t] = "sweeping" /\ settling[t] = {} /\ retiring[t] = {}
    /\ target' = [target EXCEPT ![t] = NoSession]
    /\ Goto(t, "idle")
    /\ UNCHANGED <<flags, records, sources, fresh, after, frame, changed, settling, retiring,
                   polls>>

\* publish_runtime_observation: the epoch advances, then the waiters queue,
\* all under one guard.
Disturb(t) ==
    /\ Begin(t) /\ observation < MaxEpoch
    /\ observation' = observation + 1
    /\ seen' = [seen EXCEPT ![t] = observation + 1]
    /\ Goto(t, "disturbing")
    /\ UNCHANGED <<closed, swept, stopping, records, sources, fresh, after, job, poll, eager,
                   demanded, source, batch, changed, closure, polls>>

QueueObservers(t) ==
    LET woken == Outdated(Works, seen[t]) IN
    /\ pc[t] = "disturbing"
    /\ Queue(woken)
    /\ IF woken = {} THEN UNCHANGED <<fresh, changed>>
       ELSE Advance /\ changed' = [changed EXCEPT ![t] = TRUE]
    /\ Dismiss(t) /\ Leave(t, "idle")
    /\ UNCHANGED <<flags, reason, epoch, block, machine, latch, owes, promised, sources,
                   closure, polls>>

\* EvaluationExecutor::drop: stop, publish the change, join the workers.
Stop(t) ==
    /\ MayStop /\ Begin(t) /\ ~stopping
    /\ stopping' = TRUE
    /\ Goto(t, "stopping")
    /\ UNCHANGED <<closed, swept, observation, records, sources, fresh, after, frame,
                   changed, closure, polls>>

ExecutorStopped(t) ==
    /\ pc[t] = "stopping"
    /\ Advance /\ changed' = [changed EXCEPT ![t] = TRUE] /\ Leave(t, "joining")
    /\ UNCHANGED <<flags, records, sources, frame, closure, polls>>

Join(t) ==
    /\ pc[t] = "joining" /\ \A k \in Workers : pc[k] = "stopped"
    /\ Goto(t, "idle")
    /\ UNCHANGED <<flags, records, sources, fresh, after, frame, changed, closure, polls>>

WorkerExit(t) ==
    /\ pc[t] = "idle" /\ t \in Workers /\ stopping
    /\ Goto(t, "stopped")
    /\ UNCHANGED <<flags, records, sources, fresh, after, frame, changed, closure, polls>>

-----------------------------------------------------------------------------
\* The operations a host begins.
HostOp(t) ==
    \/ \E w \in Works : \/ Reserve(t, w) \/ ReserveDeferred(t, w) \/ Install(t, w)
                        \/ Activate(t, w) \/ Discard(t, w) \/ FailLaunch(t, w)
                        \/ Cancel(t, w)
    \/ \E w \in Works, p \in Promises : ReservePromise(t, w, p)
    \/ \E s \in Sessions : CloseFlag(t, s)
    \/ Disturb(t)
    \/ Stop(t)

\* The steps of a thread that is inside an operation.
Continue(t) ==
    \/ \E w \in Works : Claim(t, w) \/ SweepSettle(t, w) \/ SweepRetire(t, w)
    \/ \E p \in Promises : \/ RegisterPromise(t, p) \/ AssignPromise(t, p)
                           \/ SettlePromise(t, p)
    \/ SelectNone(t) \/ Park(t) \/ Wait(t) \/ Notify(t)
    \/ BeginPoll(t) \/ HaltOnPanic(t) \/ Requeue(t)
    \/ PollRunnable(t) \/ PollEnds(t) \/ PollBlocked(t)
    \/ ReadDemand(t) \/ ReleaseEnding(t) \/ ReleaseRunnable(t) \/ ReleaseBlocked(t)
    \/ Subscribe(t) \/ SelfWake(t) \/ Promote(t) \/ Reread(t) \/ Recheck(t)
    \/ Settle(t) \/ PublishTerminal(t) \/ Detach(t) \/ WakeBatch(t) \/ Discharge(t)
    \/ Settled(t) \/ Retire(t)
    \/ CloseSession(t) \/ SweepEnd(t) \/ QueueObservers(t)
    \/ ExecutorStopped(t) \/ Join(t) \/ WorkerExit(t)

Next == \E t \in Threads : HostOp(t) \/ StartDrive(t) \/ Continue(t)

Spec == Init /\ [][Next]_vars

\* A thread inside an operation goes on, and a worker looks for work.  Nothing
\* obliges a host to begin an operation or to pump.
Fairness ==
    /\ \A t \in Threads : WF_vars(Continue(t))
    /\ \A k \in Workers : WF_vars(StartDrive(k))

FairSpec == Spec /\ Fairness

-----------------------------------------------------------------------------
(* Properties.                                                             *)

\* A thread releases a work it has already published as blocked.
Releasing == {"subscribing", "selfwaking", "promoting", "rereading", "rechecking"}

\* Thread t is the one that may change work w's claim, settlement or record.
Holds(t, w) ==
    \/ job[t] = w /\ pc[t] \notin Releasing
    \/ w \in settling[t] \cup retiring[t]

\* Every claimed or terminalizing work has exactly one thread that answers for
\* it, and a work in any other state has none: the claim of a worker, a
\* cancellation, a failed launch and a session closure never hold one work
\* together, whatever order their critical sections take.
OneOwner ==
    \A w \in Works :
        Cardinality({t \in Threads : Holds(t, w)}) =
            IF state[w] \in {"Running", "Terminalizing"} THEN 1 ELSE 0

\* The registration a blocked work expects to be woken by.
Awaits(w) == [work |-> w, epoch |-> epoch[w]]

\* A source's wake: the registration under the work's present epoch, or the
\* thread that releases the work or publishes the source is about to queue it.
SourceWakes(w, s) ==
    \/ /\ Awaits(w) \in regs[s]
       /\ terminal[s] # "none" =>
            \E t \in Threads : source[t] = s /\ pc[t] \in {"discharging", "detaching"}
    \/ \E t \in Threads : /\ Awaits(w) \in batch[t] /\ source[t] = s
                          /\ pc[t] \in {"subscribing", "selfwaking", "waking"}

\* An epoch's: the registration, and once the epoch has passed a publisher or
\* the work's own releaser that will see that.
EpochWakes(w, observed) ==
    /\ [work |-> w, epoch |-> epoch[w], observed |-> observed] \in observers
    /\ observed < observation =>
          \/ \E t \in Threads : pc[t] = "disturbing" /\ seen[t] > observed
          \/ \E t \in Threads : /\ job[t] = w /\ pc[t] \in Releasing
                                /\ pc[t] = "rechecking" => seen[t] > observed

\* No wake is lost: whatever a blocked work waits for, a source that another
\* thread settles or an observation epoch that passes, a registration stands
\* for it or some thread between two critical sections is about to wake it.
WakeIsOwned ==
    \A w \in Works : state[w] = "Blocked" =>
        /\ block[w].dependency # NoSource => SourceWakes(w, block[w].dependency)
        /\ block[w].observed # 0 => EpochWakes(w, block[w].observed)

\* A work leaves the coordinator only with its wait terminal and every promise
\* it was given resolved; a discarded reservation never had a terminal.
SettledBeforeRetired ==
    \A w \in Works :
        /\ state[w] = "retired" => terminal[w] # "none" /\ promised[w] = {} /\ ~owes[w]
        /\ state[w] = "discarded" => terminal[w] = "none" /\ promised[w] = {}

\* What runtime_readiness_locked reports, for a caller with exclusive admission.
Stable ==
    /\ \A t \in Threads : pc[t] \notin GuardPoints
    /\ \A w \in Works : state[w] \notin {"Queued", "Running", "Terminalizing"}

\* A Stable report is the truth: no blocked work waits for something that has
\* already happened, and each one's dependency still has the registered
\* producer that the readiness snapshot insists on.
StableIsSettled ==
    Stable => \A w \in Works : state[w] = "Blocked" =>
        /\ block[w].dependency # NoSource =>
              terminal[block[w].dependency] = "none" /\ Producers(block[w].dependency) # {}
        /\ block[w].observed \in {0, observation}

\* A worker never sleeps over claimable work: while one is parked and a root
\* leads to claimable work, some thread still owes a notification.
SleeperIsWoken ==
    (\E k \in Workers : pc[k] = "parked") /\ Candidates # {} =>
        \E t \in Threads : changed[t]

\* After a session's closure has run, its works are only ever running out
\* their claim or terminalizing: nothing of the session can be scheduled.
ClosedWorkIsEnding ==
    \A w \in Works : swept[SessionOf[w]] /\ Registered(w) =>
        state[w] \in {"Running", "Terminalizing"}

\* What a work may settle as: the first close reason decides, unless the
\* machine panicked.
Decided(why) ==
    {"Panicked"} \cup CASE why = "none" -> {"Complete", "Failed"}
                        [] why = "ExplicitCancellation" -> {"Cancelled"}
                        [] why = "DemandSessionClosed" -> {"Abandoned"}

\* A published terminal never changes, a settled wait is never reopened, and
\* what a work is settled as is what its first close reason decides, whatever
\* its poll returned and whatever closes it meanwhile.
TerminalIsFinal ==
    [][/\ \A s \in Sources : terminal[s] # "none" => terminal'[s] = terminal[s]
       /\ \A w \in Works : terminal[w] # terminal'[w] =>
                            terminal'[w] \in Decided(reason'[w])]_vars

\* Scheduled work runs: a queued task is claimed, or its session closes or the
\* executor stops; a terminalizing work retires; a work blocked on a source
\* that has its terminal is woken.
WorkProgresses ==
    \A w \in Works :
        /\ (w \in Tasks /\ state[w] = "Queued") ~>
              (state[w] # "Queued" \/ closed[SessionOf[w]] \/ stopping)
        /\ state[w] = "Terminalizing" ~> state[w] = "retired"
        /\ (state[w] = "Blocked" /\ block[w].dependency # NoSource
             /\ terminal[block[w].dependency] # "none") ~> state[w] # "Blocked"

\* Dropping the executor ends: every worker sees the flag and is joined.
StopJoins == stopping ~> \A k \in Workers : pc[k] = "stopped"

====
