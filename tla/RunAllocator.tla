---------------------------- MODULE RunAllocator ----------------------------
(***************************************************************************)
(* glam-gc's allocator: runs of slots handed out to allocation classes,    *)
(* words of a run leased to threads by compare-and-swap, cursors cached by *)
(* threads across collections, and the collector that sweeps the runs,     *)
(* rebuilds the leases and releases finalized words while mutators         *)
(* allocate.  Which objects die is HeapCollection's matter; here a sweep   *)
(* finds any slots dead.                                                   *)
(*                                                                         *)
(* A slot is <<run, word, bit>>.  One action is one atomic operation on    *)
(* shared state or one critical section of the heap's data mutex, split    *)
(* where a lock-free claim of another thread can come in between.          *)
(***************************************************************************)
EXTENDS Naturals, Sequences, FiniteSets, SequencesExt, FiniteSetsExt

CONSTANTS
    Threads,        \* mutator threads
    Classes,        \* allocation classes
    NeedsDrop,      \* the classes whose objects have destructors
    Runs,           \* run locations of the arena
    Words,          \* allocation words of a run, numbered from 1
    Bits,           \* for each word its slots, numbered from 1
    None,           \* no class, cursor, run or thread
    MaxEpoch,       \* bound on collections
    MaxClaims,      \* bound on refills of cursors
    MaxPanics       \* bound on panicking destructors

VARIABLES
    header,     \* the class of an initialized run
    alloc,      \* the allocation bitmaps
    leased,     \* the lease bitmaps: words that are unavailable
    runs,       \* AllocationClassEntry.runs
    front,      \* AllocationClassEntry.frontier_index, 0 when withdrawn
    free,       \* free_runs
    assigned,   \* AllocationPressure.assigned_runs
    epoch,      \* allocation_lease_epoch
    cache,      \* per thread: captured epoch, cursors, whether it is active
    pc,         \* where a thread's claim_allocation_cursor is
    want,       \* the class it claims for
    target,     \* the run it loaded from the frontier
    lock,       \* who holds the heap's data mutex
    phase,      \* the collector
    pending,    \* slots of the finalization batch
    detached,   \* its runs that left their class
    locations,  \* runs of the dispatch snapshot still to finalize
    attempt,    \* the prepared run, what was destroyed of it, whether by a panic
    releasing,  \* its words still to release
    claims,     \* refills so far
    panics      \* panics so far

allocVars == <<header, alloc, leased, runs, front, free, assigned, epoch>>
threadVars == <<cache, pc, want, target>>
batchVars == <<phase, pending, detached, locations, attempt, releasing, panics>>
vars == <<allocVars, threadVars, lock, batchVars, claims>>

collector == "collector"
NoAttempt == [run |-> None, done |-> {}, panicked |-> FALSE]
Cursor(r, w, f) == [run |-> r, word |-> w, free |-> f]

FreeBits(r, w) == {b \in Bits[w] : <<r, w, b>> \notin alloc}
Unleased(r) == {w \in Words : <<r, w>> \notin leased}
Slots(r) == {s \in alloc : s[1] = r}
ClassOf(s) == header[s[1]]

-----------------------------------------------------------------------------
(* Entries of a thread: ThreadHeapState.                                   *)

NoCursors == [c \in Classes |-> None]

\* Mutant: the record keeps its cursors when it is stale.
ActivateStale(t) == [active |-> TRUE, captured |-> epoch, cursor |-> cache[t].cursor]

\* ThreadHeapState::activate: a record of an earlier epoch forgets its cursors.
Activate(t) ==
    [active |-> TRUE, captured |-> epoch,
     cursor |-> IF cache[t].captured = epoch THEN cache[t].cursor ELSE NoCursors]

\* An outer entry, or the resumption of a suspended mutator.
Enter(t) ==
    /\ ~cache[t].active
    /\ cache' = [cache EXCEPT ![t] = Activate(t)]
    /\ UNCHANGED <<allocVars, pc, want, target, lock, batchVars>>

\* deactivate, before the admission is retired.
Leave(t) ==
    /\ cache[t].active /\ pc[t] = "idle"
    /\ cache' = [cache EXCEPT ![t].active = FALSE]
    /\ UNCHANGED <<allocVars, pc, want, target, lock, batchVars>>

\* release_current_thread_caches, remove_inactive_thread_cache or the
\* thread's end: the record is dropped, and its words stay leased.
ReleaseCaches(t) ==
    /\ ~cache[t].active /\ cache[t].cursor # NoCursors
    /\ cache' = [cache EXCEPT ![t].cursor = NoCursors]
    /\ UNCHANGED <<allocVars, pc, want, target, lock, batchVars>>

-----------------------------------------------------------------------------
(* Allocation.                                                             *)

\* AllocationCursor::try_allocate_with: the lowest free bit of the cursor.
Allocate(t, c) ==
    LET k == cache[t].cursor[c]
    IN  /\ cache[t].active /\ pc[t] = "idle"
        /\ k # None /\ k.free # {}
        /\ alloc' = alloc \cup {<<k.run, k.word, Min(k.free)>>}
        /\ cache' = [cache EXCEPT ![t].cursor[c].free = @ \ {Min(k.free)}]
        /\ UNCHANGED <<header, leased, runs, front, free, assigned, epoch,
                       pc, want, target, lock, batchVars>>

\* claim_frontier loads the class's frontier.
LoadFrontier(t, c) ==
    /\ cache[t].active /\ pc[t] = "idle"
    /\ cache[t].cursor[c] # None => cache[t].cursor[c].free = {}
    /\ claims < MaxClaims /\ claims' = claims + 1
    /\ want' = [want EXCEPT ![t] = c]
    /\ IF front[c] = 0
         THEN pc' = [pc EXCEPT ![t] = "slow"] /\ UNCHANGED target
         ELSE /\ pc' = [pc EXCEPT ![t] = "claim"]
              /\ target' = [target EXCEPT ![t] = runs[c][front[c]]]
    /\ UNCHANGED <<allocVars, cache, lock, batchVars>>

\* RunClaimTarget::claim_allocation_word: the first word that is neither
\* leased nor full; full ones on the way stay leased.
Claimable(r) == {w \in Unleased(r) : FreeBits(r, w) # {}}
Claims(t, r) ==
    LET w == Min(Claimable(r))
    IN  /\ Claimable(r) # {}
        /\ leased' = leased \cup {<<r, v>> : v \in {v \in Unleased(r) : v <= w}}
        /\ cache' = [cache EXCEPT ![t].cursor[want[t]] = Cursor(r, w, FreeBits(r, w))]
        /\ pc' = [pc EXCEPT ![t] = "idle"]
        /\ want' = [want EXCEPT ![t] = None]
        /\ target' = [target EXCEPT ![t] = None]
ClaimsNothing(t, r, next) ==
    /\ Claimable(r) = {}
    /\ leased' = leased \cup {<<r, v>> : v \in Unleased(r)}
    /\ pc' = [pc EXCEPT ![t] = next]
    /\ target' = [target EXCEPT ![t] = None]
    /\ UNCHANGED <<cache, want>>

\* The lock-free claim on the run that was loaded.
ClaimFrontier(t) ==
    /\ pc[t] = "claim"
    /\ Claims(t, target[t]) \/ ClaimsNothing(t, target[t], "slow")
    /\ UNCHANGED <<header, alloc, runs, front, free, assigned, epoch, lock, batchVars>>

\* The slow path takes the data mutex.
LockData(t) ==
    /\ pc[t] = "slow" /\ lock = None
    /\ lock' = t
    /\ pc' = [pc EXCEPT ![t] = "recheck"]
    /\ UNCHANGED <<allocVars, cache, want, target, batchVars>>

\* The frontier again: another publisher may have advanced it.
Recheck(t) ==
    /\ pc[t] = "recheck"
    /\ \/ /\ front[want[t]] # 0
          /\ Claims(t, runs[want[t]][front[want[t]]]) /\ lock' = None
       \/ /\ front[want[t]] # 0
          /\ ClaimsNothing(t, runs[want[t]][front[want[t]]], "advance") /\ UNCHANGED lock
       \/ /\ front[want[t]] = 0
          /\ pc' = [pc EXCEPT ![t] = "advance"]
          /\ UNCHANGED <<leased, cache, want, target, lock>>
    /\ UNCHANGED <<header, alloc, runs, front, free, assigned, epoch, batchVars>>

\* advance_frontier to the next run.
AdvanceFrontier(t) ==
    LET c == want[t]
    IN  /\ pc[t] = "advance" /\ front[c] < Len(runs[c])
        /\ front' = [front EXCEPT ![c] = @ + 1]
        /\ pc' = [pc EXCEPT ![t] = "locked"]
        /\ UNCHANGED <<header, alloc, leased, runs, free, assigned, epoch,
                       cache, want, target, lock, batchVars>>

\* publish_run, from the free runs before the arena's empty ones, and
\* activate_last_run.  Runs bounds the arena: a thread that needs one more
\* stays here.
PublishRun(t, r) ==
    LET c == want[t]
    IN  /\ pc[t] = "advance" /\ front[c] = Len(runs[c])
        /\ IF free # {} THEN r \in free ELSE header[r] = None
        /\ free' = free \ {r}
        /\ header' = [header EXCEPT ![r] = c]
        /\ runs' = [runs EXCEPT ![c] = Append(@, r)]
        /\ front' = [front EXCEPT ![c] = Len(runs[c]) + 1]
        /\ assigned' = assigned + 1
        /\ pc' = [pc EXCEPT ![t] = "locked"]
        /\ UNCHANGED <<alloc, leased, epoch, cache, want, target, lock, batchVars>>

\* The claim on the run just published, which others may have emptied.
ClaimLocked(t) ==
    LET r == runs[want[t]][front[want[t]]]
    IN  /\ pc[t] = "locked"
        /\ \/ Claims(t, r) /\ lock' = None
           \/ ClaimsNothing(t, r, "advance") /\ UNCHANGED lock
        /\ UNCHANGED <<header, alloc, runs, front, free, assigned, epoch, batchVars>>

-----------------------------------------------------------------------------
(* The sweep, under exclusive admission.                                   *)

\* DeadSetPlan and FinalizationBatchPlan: what becomes of each run whose
\* allocated slots in dead are dead.  What awaits its destructor counts as
\* live.
InClass(r) == header[r] # None /\ r \notin detached
Emptied(r, dead) == InClass(r) /\ Slots(r) \subseteq dead
Retires(dead) ==
    {r \in Runs : Emptied(r, dead) /\ (Slots(r) = {} \/ header[r] \notin NeedsDrop)}
Detaches(dead) ==
    {r \in Runs : Emptied(r, dead) /\ Slots(r) # {} /\ header[r] \in NeedsDrop}

\* FinalizationBatch::reserves_word.
ReservesWord(r, w, batch) == \E b \in Bits[w] : <<r, w, b>> \in batch

\* publish_allocation_word_leases.
Unavailable(r, w, kept, batch) ==
    ReservesWord(r, w, batch) \/ \A b \in Bits[w] : <<r, w, b>> \in kept

\* Mutant: a recycled run stays in the count.
OccupancyAfterLeak(gone) == assigned

\* record_run_release for every recycled run.
OccupancyAfter(gone) == assigned - Cardinality(gone)

\* From withdraw_allocator_frontiers to publish_allocation_lease_epoch.
Sweep(dead) ==
    LET gone == Retires(dead)
        batch == pending \cup {s \in dead : ClassOf(s) \in NeedsDrop}
        kept == alloc \ {s \in dead : ClassOf(s) \notin NeedsDrop}
        leaving == gone \cup Detaches(dead)
        pool == [c \in Classes |-> SelectSeq(runs[c], LAMBDA r : r \notin leaving)]
        lease == {rw \in Runs \X Words : Unavailable(rw[1], rw[2], kept, batch)}
        available(c) == {i \in 1..Len(pool[c]) :
                            \E w \in Words : <<pool[c][i], w>> \notin lease}
    IN  /\ phase = "ordinary" /\ lock = None /\ epoch < MaxEpoch
        /\ \A t \in Threads : ~cache[t].active
        /\ dead \subseteq alloc \ pending
        /\ runs' = pool
        /\ header' = [r \in Runs |-> IF r \in gone THEN None ELSE header[r]]
        /\ free' = free \cup gone
        /\ assigned' = OccupancyAfter(gone)
        /\ alloc' = kept
        /\ leased' = lease
        /\ front' = [c \in Classes |-> IF available(c) = {} THEN 0 ELSE Min(available(c))]
        /\ pending' = batch /\ detached' = detached \cup Detaches(dead)
        /\ locations' = {s[1] : s \in batch}
        /\ epoch' = epoch + 1
        /\ phase' = "finalizing"
        /\ UNCHANGED <<threadVars, lock, attempt, releasing, panics>>

-----------------------------------------------------------------------------
(* Finalization, with mutators admitted: run_finalization_batch.           *)

Batch(r) == {s \in pending : s[1] = r}

\* prepare_finalization_run, and the destructors: all of the run's, or some
\* and one that panics.
DestroyRun(r, done, panicked) ==
    /\ phase = "finalizing" /\ r \in locations /\ lock = None
    /\ done \subseteq Batch(r)
    /\ IF panicked THEN done # {} /\ panics < MaxPanics ELSE done = Batch(r)
    /\ panics' = IF panicked THEN panics + 1 ELSE panics
    /\ locations' = locations \ {r}
    /\ attempt' = [run |-> r, done |-> done, panicked |-> panicked]
    /\ phase' = "destroyed"
    /\ UNCHANGED <<allocVars, threadVars, lock, pending, detached, releasing>>

\* complete_run_attempt: destroyed slots are retired from their words, and
\* words with nothing pending any more are to be released.
BeginCommit ==
    LET r == attempt.run
        left == pending \ attempt.done
    IN  /\ phase = "destroyed" /\ lock = None
        /\ lock' = collector
        /\ alloc' = alloc \ attempt.done
        /\ pending' = left
        /\ releasing' = IF r \in detached THEN {}
                          ELSE {w \in Words : ReservesWord(r, w, pending)
                                              /\ ~ReservesWord(r, w, left)}
        /\ phase' = "releasing"
        /\ UNCHANGED <<header, leased, runs, front, free, assigned, epoch,
                       threadVars, detached, locations, attempt, panics>>

\* release_finalized_allocation_word: lock-free claims see the word at once.
ReleaseWord(w) ==
    /\ phase = "releasing" /\ w \in releasing
    /\ leased' = leased \ {<<attempt.run, w>>}
    /\ releasing' = releasing \ {w}
    /\ phase' = "released"
    /\ UNCHANGED <<header, alloc, runs, front, free, assigned, epoch, threadVars,
                   lock, pending, detached, locations, attempt, panics>>

\* Mutant: a run behind the frontier is not published again.
FrontierForwardOnly(c, i) == IF front[c] = 0 THEN i ELSE front[c]

\* publish_released_run: the frontier moves back to the run, never forward.
FrontierWith(c, i) == IF front[c] = 0 \/ i <= front[c] THEN i ELSE front[c]

PublishReleased ==
    LET c == header[attempt.run]
        i == CHOOSE i \in 1..Len(runs[c]) : runs[c][i] = attempt.run
    IN  /\ phase = "released"
        /\ front' = [front EXCEPT ![c] = FrontierWith(c, i)]
        /\ phase' = "releasing"
        /\ UNCHANGED <<header, alloc, leased, runs, free, assigned, epoch, threadVars,
                       lock, pending, detached, locations, attempt, releasing, panics>>

\* A detached run with nothing pending is reset and recycled; a panic ends
\* the collection, which leaves the rest of the batch pending.
EndCommit ==
    LET r == attempt.run
        gone == {r} \cap {x \in detached : Batch(x) = {}}
    IN  /\ phase = "releasing" /\ releasing = {}
        /\ detached' = detached \ gone
        /\ header' = [x \in Runs |-> IF x \in gone THEN None ELSE header[x]]
        /\ leased' = {rw \in leased : rw[1] \notin gone}
        /\ free' = free \cup gone
        /\ assigned' = OccupancyAfter(gone)
        /\ lock' = None
        /\ phase' = IF attempt.panicked THEN "ordinary" ELSE "finalizing"
        /\ locations' = IF attempt.panicked THEN {} ELSE locations
        /\ attempt' = NoAttempt
        /\ UNCHANGED <<alloc, runs, front, epoch, threadVars, pending, releasing, panics>>

Complete ==
    /\ phase = "finalizing" /\ locations = {}
    /\ phase' = "ordinary"
    /\ UNCHANGED <<allocVars, threadVars, lock, pending, detached, locations,
                   attempt, releasing, panics>>

-----------------------------------------------------------------------------
Init ==
    /\ header = [r \in Runs |-> None]
    /\ alloc = {} /\ leased = {} /\ free = {} /\ assigned = 0 /\ epoch = 1
    /\ runs = [c \in Classes |-> << >>] /\ front = [c \in Classes |-> 0]
    /\ cache = [t \in Threads |-> [active |-> FALSE, captured |-> 1, cursor |-> NoCursors]]
    /\ pc = [t \in Threads |-> "idle"]
    /\ want = [t \in Threads |-> None] /\ target = [t \in Threads |-> None]
    /\ lock = None /\ phase = "ordinary"
    /\ pending = {} /\ detached = {} /\ locations = {}
    /\ attempt = NoAttempt /\ releasing = {} /\ panics = 0 /\ claims = 0

Mutate(t) ==
    \/ Enter(t) \/ Leave(t) \/ ReleaseCaches(t)
    \/ \E c \in Classes : Allocate(t, c)
    \/ ClaimFrontier(t) \/ LockData(t) \/ Recheck(t) \/ AdvanceFrontier(t)
    \/ \E r \in Runs : PublishRun(t, r)
    \/ ClaimLocked(t)

Collect ==
    \/ \E dead \in SUBSET alloc : Sweep(dead)
    \/ \E r \in locations : \E done \in SUBSET Batch(r), panicked \in BOOLEAN :
          DestroyRun(r, done, panicked)
    \/ BeginCommit \/ PublishReleased \/ EndCommit \/ Complete
    \/ \E w \in Words : ReleaseWord(w)

Next ==
    \/ \E t \in Threads, c \in Classes : LoadFrontier(t, c)
    \/ ((\E t \in Threads : Mutate(t)) \/ Collect) /\ UNCHANGED claims

Spec == Init /\ [][Next]_vars

-----------------------------------------------------------------------------
(* Properties.                                                             *)

\* The cursors of the current epoch, by thread and class.
Current ==
    {tc \in Threads \X Classes :
        cache[tc[1]].captured = epoch /\ cache[tc[1]].cursor[tc[2]] # None}
CursorOf(tc) == cache[tc[1]].cursor[tc[2]]

\* An admitted thread uses only cursors of the current epoch, and each of
\* them is the one writer of its word: the word is leased, in a run of the
\* cursor's class, awaits no destructor, its free slots are the cursor's, and
\* no other cursor or finalizer has it ("cached allocation bit is already set").
OneWriterPerWord ==
    /\ \A t \in Threads : cache[t].active => cache[t].captured = epoch
    /\ \A tc \in Current :
        LET k == CursorOf(tc)
        IN  /\ <<k.run, k.word>> \in leased
            /\ k.run \in ToSet(runs[tc[2]])
            /\ \A s \in pending : <<s[1], s[2]>> # <<k.run, k.word>>
            /\ k.free = FreeBits(k.run, k.word)
    /\ \A tc, ud \in Current :
        tc = ud \/ <<CursorOf(tc).run, CursorOf(tc).word>> # <<CursorOf(ud).run, CursorOf(ud).word>>

\* No capacity is lost until the next sweep: whenever the data mutex is free,
\* a word nobody leases has a free slot and lies at the class's frontier or
\* after it, where the next claim that exhausts the frontier will find it,
\* also when finalization released it behind the frontier.
NoLostCapacity ==
    lock = None =>
        \A c \in Classes : \A i \in 1..Len(runs[c]) :
            Unleased(runs[c][i]) # {} =>
                /\ 0 < front[c] /\ front[c] <= i
                /\ \A w \in Unleased(runs[c][i]) : FreeBits(runs[c][i], w) # {}

\* A run is in one place: free, in one class's pool once, or detached with
\* slots pending; a run out of use holds nothing; and the occupancy behind
\* the pressure target counts exactly the runs in use ("pressure occupancy
\* diverged from allocation-class topology").
RunHasOnePlace ==
    LET pooled(c) == ToSet(runs[c])
    IN  /\ \A c \in Classes : IsInjective(runs[c]) /\ \A r \in pooled(c) : header[r] = c
        /\ \A r \in Runs : r \in detached \/ r \in free \/ header[r] = None
                            \/ r \in pooled(header[r])
        /\ \A r \in detached : r \notin pooled(header[r]) /\ (Batch(r) # {} \/ lock = collector)
        /\ free \cap detached = {}
        /\ \A r \in Runs : header[r] = None => Slots(r) = {} /\ Unleased(r) = Words
        /\ \A r \in free : header[r] = None
        /\ assigned = Cardinality({r \in Runs : header[r] # None})
=============================================================================
