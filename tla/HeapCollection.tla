--------------------------- MODULE HeapCollection ---------------------------
(***************************************************************************)
(* One collection of glam-gc's managed heap, seen as an object graph: the  *)
(* mark attempt with its ephemeron rounds, the dead set, the durable batch *)
(* of finalizers, and the teardown of the heap.  Mutators change the graph *)
(* only while admission lets them in (AdmissionGate); roots are dropped at *)
(* any time, by any thread, also while the collector marks.                *)
(*                                                                         *)
(* A slot holds at most one object.  Its class is fixed: an object whose   *)
(* class needs no drop is swept at once, one of Drops awaits its           *)
(* destructor, an ephemeron holds a pair the marking treats apart.         *)
(***************************************************************************)
EXTENDS Naturals, Sequences, FiniteSets

CONSTANTS
    Slots,          \* allocation slots
    Drops,          \* the slots of classes with metadata.needs_drop()
    Ephemerons,     \* the slots of ephemeron cells
    Runs,           \* the runs of Drops, a partition of it
    None,           \* no edge; a cleared pair
    MaxRoots,       \* bound on the roots of the graph a behaviour starts from
    MaxOps          \* bound on mutator steps, dropped roots and failures

ASSUME SlotsAssumption ==
    /\ IsFiniteSet(Slots) /\ None \notin Slots
    /\ Drops \subseteq Slots /\ Ephemerons \subseteq Slots \ Drops
    /\ UNION Runs = Drops /\ \A r, s \in Runs : r = s \/ r \cap s = {}

ASSUME BoundAssumption == MaxRoots \in Nat /\ MaxOps \in Nat

VARIABLES
    alloc,      \* the allocation bitmap
    edge,       \* the traced edge of an object that is no ephemeron, or None
    pair,       \* an ephemeron's key and value, or None once cleared
    roots,      \* slots that live roots hold
    pending,    \* the durable finalization batch
    dropped,    \* how often the destructor of a slot's object ran
    stage,      \* where the collection attempt is
    marked,     \* the mark bitmap
    work,       \* MarkAttempt.worklist
    recorded,   \* MarkAttempt.ephemerons
    index,      \* the loop variable of the running round
    fresh,      \* whether the running round marked a value
    locations,  \* runs of the dispatch snapshot still to finalize
    attempt,    \* work of the prepared run not destroyed yet
    done,       \* work of the prepared run destroyed and not committed
    began,      \* ghost: the roots when the marking began
    ops         \* operations left

graphVars == <<alloc, edge, pair, roots>>
markVars == <<marked, work, recorded, index, fresh, began>>
batchVars == <<pending, dropped, locations, attempt, done>>
vars == <<graphVars, markVars, batchVars, stage, ops>>

Reversible == {"seed", "trace", "rounds", "plan"}
Published == {"finalizing", "dropping", "panicked"}
\* Mutators are admitted in Ordinary and in Finalizing.
Admitted == stage \in {"idle"} \cup Published

Spend == ops > 0 /\ ops' = ops - 1

-----------------------------------------------------------------------------
(* What is reachable, by definition: the least set that holds the given    *)
(* slots, the edges of its members, and the value of every member          *)
(* ephemeron whose key it holds.                                           *)

Nodes == Slots \ Ephemerons

Closed(X) ==
    /\ \A s \in X \cap Nodes : edge[s] # None => edge[s] \in X
    /\ \A e \in X \cap Ephemerons :
           pair[e] # None /\ pair[e][1] \in X => pair[e][2] \in X

Reach(R) ==
    {s \in Slots : \A X \in SUBSET Slots : R \subseteq X /\ Closed(X) => s \in X}

\* What views can reach: also the key and the value of a reached ephemeron
\* that is not cleared (view_entry), which keep neither alive.
Viewed(X) ==
    /\ \A s \in X \cap Nodes : edge[s] # None => edge[s] \in X
    /\ \A e \in X \cap Ephemerons : pair[e] # None => {pair[e][1], pair[e][2]} \subseteq X

Viewable ==
    {s \in Slots : \A X \in SUBSET Slots : roots \subseteq X /\ Viewed(X) => s \in X}

-----------------------------------------------------------------------------
(* Mutators.  A step is one region of Heap::mutate: it views what the      *)
(* roots lead to, does one thing and leaves; AdmissionGate shows that no   *)
(* region overlaps the exclusive part of a collection.                     *)

\* Allocator::alloc of an object with one edge, and MutatorAccess::root of it.
Allocate(s, to) ==
    /\ Admitted /\ Spend
    /\ s \in Nodes \ alloc /\ to \in Viewable \cup {None}
    /\ alloc' = alloc \cup {s}
    /\ edge' = [edge EXCEPT ![s] = to]
    /\ dropped' = [dropped EXCEPT ![s] = 0]
    /\ roots' = roots \cup {s}
    /\ UNCHANGED <<pair, markVars, pending, locations, attempt, done, stage>>

\* MutatorAccess::ephemeron, rooted: the views prove key and value live.
AllocateEphemeron(e, key, value) ==
    /\ Admitted /\ Spend
    /\ e \in Ephemerons \ alloc /\ {key, value} \subseteq Viewable
    /\ alloc' = alloc \cup {e}
    /\ pair' = [pair EXCEPT ![e] = <<key, value>>]
    /\ roots' = roots \cup {e}
    /\ UNCHANGED <<edge, markVars, batchVars, stage>>

\* MutatorAccess::with_edge_transition on a viewed object.
SetEdge(s, to) ==
    /\ Admitted /\ Spend
    /\ s \in Viewable \cap Nodes /\ to \in Viewable \cup {None} /\ to # edge[s]
    /\ edge' = [edge EXCEPT ![s] = to]
    /\ UNCHANGED <<alloc, pair, roots, markVars, batchVars, stage>>

\* MutatorAccess::root of a view.
AddRoot(s) ==
    /\ Admitted /\ Spend
    /\ s \in Viewable \ roots
    /\ roots' = roots \cup {s}
    /\ UNCHANGED <<alloc, edge, pair, markVars, batchVars, stage>>

\* The last clone of a root is dropped: no admission is needed.
DropRoot(s) ==
    /\ stage # "gone" /\ Spend
    /\ s \in roots
    /\ roots' = roots \ {s}
    /\ UNCHANGED <<alloc, edge, pair, markVars, batchVars, stage>>

-----------------------------------------------------------------------------
(* The mark attempt.                                                       *)

\* Mutant: the mark bitmaps of an abandoned attempt are not cleared.
RetainStaleMarks == marked' = pending \cup (marked \cap alloc)

\* clear_mark_bitmaps, then retain_pending_finalizers marks the batch: its
\* slots stay allocated, and nothing is traced from them.
RetainPendingFinalizers == marked' = pending

\* An elected collector starts.
BeginMark ==
    /\ stage = "idle"
    /\ RetainPendingFinalizers
    /\ began' = roots
    /\ work' = {} /\ recorded' = << >> /\ index' = 1 /\ fresh' = FALSE
    /\ stage' = "seed"
    /\ UNCHANGED <<graphVars, batchVars, ops>>

\* MarkAttempt::discover: an unmarked slot is marked and joins the worklist.
Discover(S) == marked' = marked \cup S /\ work' = work \cup (S \ marked)

\* seed_registered_roots: visit_live reads one root slot after another, so a
\* root dropped since the marking began is seen or not.
SeedRoots(seen) ==
    /\ stage = "seed"
    /\ roots \subseteq seen /\ seen \subseteq began
    /\ Discover(seen)
    /\ stage' = "trace"
    /\ UNCHANGED <<graphVars, recorded, index, fresh, began, batchVars, ops>>

\* trace_worklist and MarkingSink::edge: one object is popped and traced.
TraceObject(s) ==
    /\ stage = "trace" /\ s \in work \cap Nodes
    /\ LET found == {edge[s]} \ {None}
       IN  /\ marked' = marked \cup found
           /\ work' = (work \ {s}) \cup (found \ marked)
    /\ UNCHANGED <<graphVars, recorded, index, fresh, began, batchVars, stage, ops>>

\* Mutant: an ephemeron is recorded only while its value is unmarked, too.
TraceEphemeronByValue(e) ==
    /\ stage = "trace" /\ e \in work \cap Ephemerons
    /\ LET found == IF pair[e] # None /\ pair[e][1] \in marked THEN {pair[e][2]} ELSE {}
       IN  /\ marked' = marked \cup found
           /\ work' = (work \ {e}) \cup (found \ marked)
           /\ recorded' = IF pair[e] # None /\ pair[e][1] \notin marked /\ pair[e][2] \notin marked
                            THEN Append(recorded, e) ELSE recorded
    /\ UNCHANGED <<graphVars, index, fresh, began, batchVars, stage, ops>>

\* MarkingSink::ephemeron: a marked key keeps the value at once; else the
\* ephemeron is recorded for the rounds; a cleared one holds nothing.
TraceEphemeron(e) ==
    /\ stage = "trace" /\ e \in work \cap Ephemerons
    /\ LET found == IF pair[e] # None /\ pair[e][1] \in marked THEN {pair[e][2]} ELSE {}
       IN  /\ marked' = marked \cup found
           /\ work' = (work \ {e}) \cup (found \ marked)
           /\ recorded' = IF pair[e] # None /\ pair[e][1] \notin marked
                            THEN Append(recorded, e) ELSE recorded
    /\ UNCHANGED <<graphVars, index, fresh, began, batchVars, stage, ops>>

\* The worklist has drained: a round over the recorded ephemerons starts.
BeginRound ==
    /\ stage = "trace" /\ work = {}
    /\ index' = 1 /\ fresh' = FALSE
    /\ stage' = "rounds"
    /\ UNCHANGED <<graphVars, marked, work, recorded, began, batchVars, ops>>

\* Vec::swap_remove: the last element takes the place of element i.
SwapRemove(q, i) == SubSeq([q EXCEPT ![i] = q[Len(q)]], 1, Len(q) - 1)

\* trace_ephemerons, one turn of the inner loop: a marked key marks the value.
ScanRecorded ==
    /\ stage = "rounds" /\ index <= Len(recorded)
    /\ LET p == pair[recorded[index]]
       IN  IF p[1] \in marked
             THEN /\ Discover({p[2]})
                  /\ fresh' = (fresh \/ p[2] \notin marked)
                  /\ recorded' = SwapRemove(recorded, index)
                  /\ UNCHANGED index
             ELSE /\ index' = index + 1
                  /\ UNCHANGED <<marked, work, fresh, recorded>>
    /\ UNCHANGED <<graphVars, began, batchVars, stage, ops>>

\* The round marked something: its values are traced, then the next round.
NextRound ==
    /\ stage = "rounds" /\ index > Len(recorded) /\ fresh
    /\ stage' = "trace"
    /\ UNCHANGED <<graphVars, markVars, batchVars, ops>>

\* Nothing new: the ephemerons whose keys stayed unmarked are cleared.
ClearRecorded ==
    /\ stage = "rounds" /\ index > Len(recorded) /\ ~fresh
    /\ pair' = [e \in Ephemerons |-> IF \E i \in 1..Len(recorded) : recorded[i] = e
                                  THEN None ELSE pair[e]]
    /\ recorded' = << >>
    /\ stage' = "plan"
    /\ UNCHANGED <<alloc, edge, roots, marked, work, index, fresh, began,
                   batchVars, ops>>

\* CollectionAttempt::drop in Reversible: a trace or a reservation panicked;
\* the attempt is abandoned and its marks stay as they are.
FailMark ==
    /\ stage \in Reversible /\ Spend
    /\ stage' = "idle"
    /\ work' = {} /\ recorded' = << >>
    /\ UNCHANGED <<graphVars, marked, index, fresh, began, batchVars>>

-----------------------------------------------------------------------------
(* The sweep.                                                              *)

\* prepare_swept_allocator_transition succeeded: selectors are withdrawn.
BeginTopology ==
    /\ stage = "plan"
    /\ stage' = "topology"
    /\ UNCHANGED <<graphVars, markVars, batchVars, ops>>

\* DeadSetPlan::classify: allocated and unmarked.
Dead == alloc \ marked

\* The dispatch snapshot: every run with pending slots, older ones included.
Snapshot == {r \in Runs : r \cap pending' # {}}

\* retire, install_finalization_batch, recycle and sweep_partial: the dead of
\* no-drop classes are freed, the others join the batch; then the view and
\* the next lease epoch are published, and finalization dispatches a snapshot.
Sweep ==
    /\ stage = "topology"
    /\ LET freed == Dead \ Drops
       IN  /\ alloc' = alloc \ freed
           /\ edge' = [s \in Nodes |-> IF s \in freed THEN None ELSE edge[s]]
           /\ pair' = [e \in Ephemerons |-> IF e \in freed THEN None ELSE pair[e]]
    /\ pending' = pending \cup (Dead \cap Drops)
    /\ locations' = Snapshot
    /\ stage' = "finalizing"
    /\ UNCHANGED <<roots, markVars, dropped, attempt, done, ops>>

\* CollectionAttempt::poison: an irreversible window unwound.
Poison ==
    /\ stage \in {"topology", "dropping", "panicked"} /\ Spend
    /\ stage' = "poisoned"
    /\ UNCHANGED <<graphVars, markVars, batchVars>>

-----------------------------------------------------------------------------
(* Finalization: run_finalization_batch.                                   *)

\* prepare_finalization_run: the pending slots of one run, under a commit guard.
PrepareRun(r) ==
    /\ stage = "finalizing" /\ r \in locations
    /\ locations' = locations \ {r}
    /\ attempt' = r \cap pending
    /\ stage' = "dropping"
    /\ UNCHANGED <<graphVars, markVars, pending, dropped, done, ops>>

\* drop_in_place, then complete_terminal, whether the destructor panicked or
\* not: a panic ends the run's work.
Destroy(s) ==
    /\ stage = "dropping" /\ s \in attempt
    /\ dropped' = [dropped EXCEPT ![s] = @ + 1]
    /\ attempt' = attempt \ {s} /\ done' = done \cup {s}
    /\ \/ UNCHANGED <<stage, ops>>
       \/ stage' = "panicked" /\ Spend
    /\ UNCHANGED <<graphVars, markVars, pending, locations>>

\* Mutant: a run that panicked commits nothing.
RetiredByNormalRuns == IF stage = "panicked" THEN {} ELSE done

\* The slots whose destructor ended, by a panic too.
Retired == done

\* complete_finalization_run: what was destroyed leaves the heap; the rest
\* stays pending.  A panic then resumes and abandons the attempt.
CommitRun ==
    /\ \/ stage = "dropping" /\ attempt = {} /\ stage' = "finalizing" /\ UNCHANGED locations
       \/ stage = "panicked" /\ stage' = "idle" /\ locations' = {}
    /\ pending' = pending \ Retired
    /\ alloc' = alloc \ Retired
    /\ edge' = [s \in Nodes |-> IF s \in Retired THEN None ELSE edge[s]]
    /\ attempt' = {} /\ done' = {}
    /\ UNCHANGED <<pair, roots, markVars, dropped, ops>>

\* CollectionAttempt::complete: no finalizer is owed.
Complete ==
    /\ stage = "finalizing" /\ locations = {}
    /\ stage' = "idle"
    /\ UNCHANGED <<graphVars, markVars, batchVars, ops>>

\* HeapInner::drop destroys what is allocated, unless the heap is poisoned.
TornDown == IF stage = "poisoned" THEN {} ELSE alloc \cap Drops

\* The last owner of the heap is gone; roots may outlive it.
DropHeap ==
    /\ stage \in {"idle", "poisoned"}
    /\ dropped' = [s \in Slots |-> IF s \in TornDown THEN dropped[s] + 1 ELSE dropped[s]]
    /\ alloc' = {} /\ pending' = {}
    /\ edge' = [s \in Nodes |-> None] /\ pair' = [e \in Ephemerons |-> None]
    /\ roots' = {} /\ locations' = {} /\ attempt' = {} /\ done' = {}
    /\ stage' = "gone"
    /\ UNCHANGED <<markVars, ops>>

-----------------------------------------------------------------------------
Mutate ==
    \E s \in Slots :
        \/ AddRoot(s) \/ DropRoot(s)
        \/ \E to \in Slots \cup {None} : Allocate(s, to) \/ SetEdge(s, to)
        \/ \E k, v \in Slots : AllocateEphemeron(s, k, v)

Collect ==
    \/ BeginMark \/ BeginRound \/ ScanRecorded \/ NextRound \/ ClearRecorded
    \/ \E seen \in SUBSET Slots : SeedRoots(seen)
    \/ \E s \in Slots : TraceObject(s) \/ TraceEphemeron(s)
    \/ BeginTopology \/ Sweep \/ Complete \/ FailMark \/ Poison

Finalize ==
    \/ \E r \in Runs : PrepareRun(r)
    \/ \E s \in Slots : Destroy(s)
    \/ CommitRun

Next == Mutate \/ Collect \/ Finalize \/ DropHeap

\* A heap between two collections: mutators have built some graph from what
\* they root, and all of it is still reachable.
Init ==
    /\ edge \in [Nodes -> Slots \cup {None}]
    /\ pair \in [Ephemerons -> (Slots \X Slots) \cup {None}]
    /\ roots \in {R \in SUBSET Slots : Cardinality(R) <= MaxRoots}
    /\ alloc = Reach(roots)
    /\ \A s \in Nodes : edge[s] = None \/ s \in alloc
    /\ \A e \in Ephemerons : IF e \in alloc
                                 THEN pair[e] # None /\ {pair[e][1], pair[e][2]} \subseteq alloc
                                 ELSE pair[e] = None
    /\ pending = {} /\ dropped = [s \in Slots |-> 0]
    /\ locations = {} /\ attempt = {} /\ done = {}
    /\ marked = {} /\ work = {} /\ recorded = << >>
    /\ index = 1 /\ fresh = FALSE /\ began = {}
    /\ stage = "idle" /\ ops = MaxOps

Spec == Init /\ [][Next]_vars

-----------------------------------------------------------------------------
(* Properties.                                                             *)

\* Whatever a root leads to is allocated, awaits no destructor and was not
\* destroyed, through every interleaving of marking, dropped roots, failures,
\* finalizers and mutators: the edges of a reached object, and the key and the
\* value of a reached ephemeron that was not cleared.
ViewableIsIntact ==
    \A s \in Viewable : s \in alloc \ pending /\ dropped[s] = 0

\* When marking ends, the marks are the reachable set: all that the roots
\* reach now, nothing but what they reached when it began and the pending
\* finalizers; and an ephemeron that was marked keeps its pair exactly if its
\* key is marked.
MarksAreReachability ==
    stage = "plan" =>
        /\ Reach(roots) \subseteq marked
        /\ marked \subseteq pending \cup Reach(began)
        /\ \A e \in marked \cap Ephemerons : pair[e] # None => pair[e][1] \in marked

\* The destructor of an object runs at most once: not again after a panic,
\* in a later collection, or when the heap is torn down.  And a collection
\* that completes owes none, the assertion of CollectionAttempt::complete:
\* what a panic left pending in an earlier attempt was dispatched again.
DestroyedOnce ==
    /\ \A s \in Slots : dropped[s] <= 1
    /\ stage = "finalizing" /\ locations = {} => pending = {}
=============================================================================
