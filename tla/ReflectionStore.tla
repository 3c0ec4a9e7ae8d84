--------------------------- MODULE ReflectionStore ---------------------------
(***************************************************************************)
(* The reflection store and the cuts that use it: optimistic transactions  *)
(* over hierarchical volumes (src/reflection/store.rs), run by turns       *)
(* (src/api/turn.rs) that retry on conflict, wait for a change when they   *)
(* fail, nest, and fork branches that merge back, the promises that        *)
(* commits resolve (src/reflection/promises.rs), and the interrupts that   *)
(* end a turn's waits (src/api/runtime/turns.rs).                          *)
(*                                                                         *)
(* One action is one critical section of the transaction lock, one edit or *)
(* read of a journal, or one step of a wait.  A turn in a cut holds a      *)
(* chain of journals: its own and, after a fork, the branch of a forked    *)
(* turn, which may fork in its turn.  All of a chain's journals share one  *)
(* snapshot and one set of observations, and run concurrently.             *)
(***************************************************************************)
EXTENDS StoreTree, TurnRuns

CONSTANTS
    Turns,          \* threads that run cuts
    heap,           \* the shared heap's volume
    runtime,        \* the runtime's volume, which holds no data
    HostVolumes,    \* volumes a host may create, named by ID from then on
    NewVolumes,     \* volumes cuts may create, named by their handles
    Promises,       \* promises already allocated, still pending
    Named,          \* volumes that reads and edits name
    Paths,          \* paths that they name in them
    Kinds,          \* kinds of edits, of "set", "rewrite" and "remove"
    Atoms,          \* values written
    Outcomes,       \* resolutions, of "fulfilled" and "broken"
    FirstHeap,      \* the heap's contents at the start
    Interrupts,     \* for each machine a host interrupts, the turns below it
    MaxDepth,       \* journals in a chain
    MaxSteps,       \* reads and edits of all turns, and their ends
    MaxScopes,      \* forks, nested cuts, revocations and interrupts
    MaxSerials      \* runs entered and interrupts posted

Volumes == {heap} \cup HostVolumes \cup NewVolumes

ASSUME StoreAssumption ==
    /\ runtime \notin Volumes /\ heap \notin HostVolumes \cup NewVolumes
    /\ HostVolumes \cap NewVolumes = {} /\ Named \subseteq Volumes
    /\ Interrupts \subseteq SUBSET Turns /\ MaxSerials \in Nat
    /\ MaxDepth \in Nat /\ MaxSteps \in Nat /\ MaxScopes \in Nat

VARIABLES
    versions,   \* committed contents of the volumes that exist
    revoked,    \* volumes revoked by their hosts
    revision,   \* the store's revision
    changes,    \* latest_changes: the revision of the last change at an address
    reserved,   \* IDs of new volumes given out
    status,     \* what each promise's breaker and the store's entry say
    held,       \* promises whose resolver somebody outside the cuts holds
    lost,       \* promises whose breakers died, queued for the reaper
    current,    \* waiters whose generation is the observation epoch
    pc,         \* where each turn, the reaper and the host is
    snapshot,   \* the store as each turn's attempt began
    observed,   \* the addresses the attempt observed
    chain,      \* its journals
    saved,      \* the checkpoint of its nested cut, if it is in one
    steps,      \* how many reads, edits and ends of turns there were
    scopes,     \* and how many forks, nested cuts, revocations and interrupts
                \* there were
    turns,      \* TurnRuns: the runs in progress and the interrupts
    hit         \* ghost: the turns that an interrupt named as they ran

storeVars == <<versions, revoked, revision, changes>>
promiseVars == <<status, held, lost>>
counts == <<steps, scopes>>
turnVars == <<snapshot, observed, chain, saved>>
runVars == <<turns, hit>>
vars == <<storeVars, reserved, promiseVars, current, pc, turnVars, counts, runVars>>

\* The threads that process death notices, and that hold the host's volumes.
reaper == "reaper"
owner == "owner"
Committers == Turns \cup {reaper, owner}

Store == [versions |-> versions, revision |-> revision]
NoStore == [versions |-> <<>>, revision |-> 0]

\* A journal: StoreJournal, with the reads it served (reads of a turn's
\* program, kept to state what they were worth).
Journal(edits, views, base) ==
    [edits |-> edits, views |-> views, base |-> base, reads |-> {}, log |-> {}]
NewJournal == Journal(<<>>, <<>>, 0)

CountStep == steps < MaxSteps /\ steps' = steps + 1 /\ UNCHANGED scopes
CountScope == scopes < MaxScopes /\ scopes' = scopes + 1 /\ UNCHANGED steps

-----------------------------------------------------------------------------
(* The store.                                                              *)

\* StoreEdit::Resolve is at the promise's place in the runtime's volume.
PromisePath(p) == <<p>>

\* The volumes an attempt created are its own.
Created(edits) == {e.vol : e \in {e \in ToSet(edits) : e.kind = "create"}}

\* A validation that leaves out who resolved a promise first.
ValidateReadsOnly(edits, obs, since) ==
    CASE \E e \in ToSet(edits) :
            /\ e.vol \notin DOMAIN versions \cup Created(edits)
            /\ e.vol \in revoked                                 -> "Missing"
      [] \E a \in DOMAIN changes : changes[a] > since /\ MayConflict(obs, a) -> "Conflict"
      [] OTHER                                                   -> "Committed"

\* ReflectionStore::validate.
Validate(edits, obs, since) ==
    CASE \E e \in ToSet(edits) :
            /\ e.vol \notin DOMAIN versions \cup Created(edits)
            /\ e.vol \in revoked                                 -> "Missing"
      [] \/ \E a \in DOMAIN changes : changes[a] > since /\ MayConflict(obs, a)
         \/ \E e \in ToSet(edits) :
                e.kind = "resolve" /\ status[e.path[1]] # "pending" -> "Conflict"
      [] OTHER                                                   -> "Committed"

\* commit_validated.  Without edits nothing changes.  An attempt that began
\* from the current revision installs its views, another rebases its edits.
Install(edits, views, since) ==
    /\ versions' = IF since = revision
                     THEN [v \in DOMAIN versions \cup DOMAIN views |->
                              IF v \in DOMAIN views THEN views[v] ELSE versions[v]]
                     ELSE ApplyAll(versions, edits)
    /\ revision' = revision + 1
    /\ changes' = [a \in DOMAIN changes \cup EditedAddresses(edits) |->
                      IF a \in EditedAddresses(edits) THEN revision' ELSE changes[a]]
    /\ status' = [p \in Promises |->
                     IF \E e \in ToSet(edits) : e.kind = "resolve" /\ e.path = PromisePath(p)
                       THEN (CHOOSE e \in ToSet(edits) :
                                e.kind = "resolve" /\ e.path = PromisePath(p)).value
                       ELSE status[p]]
    /\ UNCHANGED revoked

\* A host creates a volume, and later revokes it: each a change of the
\* volume's root.  Only the revocation is published, once the transaction
\* lock is released.
RootChanged(v) ==
    /\ revision' = revision + 1
    /\ changes' = [a \in DOMAIN changes \cup {[vol |-> v, path |-> <<>>]} |->
                      IF a = [vol |-> v, path |-> <<>>] THEN revision' ELSE changes[a]]

CreateVolume(v) ==
    /\ pc[owner] = "begin" /\ v \notin DOMAIN versions \cup revoked
    /\ versions' = [u \in DOMAIN versions \cup {v} |->
                       IF u = v THEN EmptyDict ELSE versions[u]]
    /\ RootChanged(v)
    /\ UNCHANGED <<revoked, reserved, promiseVars, current, pc, turnVars, counts>>

Revoked(v) ==
    /\ pc[owner] = "begin" /\ v \in DOMAIN versions
    /\ versions' = Kept(versions, DOMAIN versions \ {v})
    /\ revoked' = revoked \cup {v} /\ CountScope
    /\ UNCHANGED <<reserved, promiseVars, current, turnVars>>

\* A revocation that readers do not conflict with.
RevokeUnrecorded(v) ==
    /\ Revoked(v) /\ UNCHANGED <<revision, changes>>
    /\ pc' = [pc EXCEPT ![owner] = "publish"]

RevokeVolume(v) ==
    Revoked(v) /\ RootChanged(v) /\ pc' = [pc EXCEPT ![owner] = "publish"]

-----------------------------------------------------------------------------
(* Journals.                                                               *)

\* Journal d of turn t's chain; the root's is the first.
At(t, d) == chain[t][d]
Depths(t) == 1 .. Len(chain[t])
Put(t, d, j) == chain' = [chain EXCEPT ![t][d] = j]

\* A turn names the volumes that a committed value or a host can give it,
\* and those its journal created.
Known(t, d) == DOMAIN versions \cup revoked \cup Created(At(t, d).edits)

\* The volume as the journal sees it: value_at_in.
Contents(all, v, path) == IF v \in DOMAIN all THEN Lookup(all[v], path) ELSE Missing
Broken(all, v) == Contents(all, v, <<>>) = Error
JournalView(t, j) ==
    [v \in DOMAIN snapshot[t].versions \cup DOMAIN j.views |->
        IF v \in DOMAIN j.views THEN j.views[v] ELSE snapshot[t].versions[v]]

\* push_edit, and replay for a creation: the edit, and the view with it.
Pushed(t, j, e) ==
    LET view == JournalView(t, j)
    IN  [j EXCEPT !.edits = Append(@, e),
                  !.views = IF e.kind = "create" \/ (e.kind # "resolve" /\ e.vol \in DOMAIN view)
                              THEN [v \in DOMAIN @ \cup {e.vol} |->
                                       IF v = e.vol THEN Apply(view, e)[v] ELSE @[v]]
                              ELSE @]

\* Reads of a branch that its parent's edits cover as well.
BranchReadsOfCut(j, v, path) ==
    {[vol |-> v, path |-> p] : p \in Dependency(j.edits, v, path)}

\* observe_read_by_id: what a read adds to the branch's reads, and to the
\* transaction's observations.  A branch's read depends on its fork's state
\* but for what its own edits cover.
InBranch(d) == d > 1
BranchReads(j, v, path) ==
    {[vol |-> v, path |-> p] :
        p \in Dependency(SubSeq(j.edits, j.base + 1, Len(j.edits)), v, path)}
Needed(t, j, v, path) ==
    IF v \in DOMAIN snapshot[t].versions \cup {runtime}
      THEN Dependency(j.edits, v, path)
      ELSE {path}

Observing(t, d, v, path, value) ==
    LET j == At(t, d)
        needed == Needed(t, j, v, path)
    IN  /\ Put(t, d, [j EXCEPT !.reads = IF InBranch(d) THEN @ \cup BranchReads(j, v, path) ELSE @,
                               !.log = @ \cup {[vol |-> v, path |-> path, before |-> j.edits,
                                                value |-> value, observed |-> needed # {},
                                                broken |-> Broken(JournalView(t, j), v)]}])
        /\ observed' = [observed EXCEPT ![t] =
                           IF needed = {} THEN @
                           ELSE Observe(@, [vol |-> v, path |-> CHOOSE p \in needed : TRUE])]

\* The transaction is dropped as its attempt ends.
Dropped(t) ==
    /\ snapshot' = [snapshot EXCEPT ![t] = NoStore]
    /\ observed' = [observed EXCEPT ![t] = {}]
    /\ chain' = [chain EXCEPT ![t] = <<>>]
    /\ saved' = [saved EXCEPT ![t] = {}]

-----------------------------------------------------------------------------
(* A cut's attempt.                                                        *)

\* transaction_begin.
Begin(t) ==
    /\ pc[t] = "begin" /\ pc' = [pc EXCEPT ![t] = "open"]
    /\ snapshot' = [snapshot EXCEPT ![t] = Store]
    /\ chain' = [chain EXCEPT ![t] = <<NewJournal>>]
    /\ UNCHANGED <<storeVars, reserved, promiseVars, current, observed, saved, counts>>

InCut(t, d) == pc[t] = "open" /\ d \in Depths(t) /\ CountStep
EditOnly == UNCHANGED <<storeVars, promiseVars, current, pc, snapshot, observed, saved>>

\* A read of a volume, as a lazy access.
Read(t, d, v, path) ==
    /\ InCut(t, d) /\ v \in Known(t, d)
    /\ Observing(t, d, v, path, Contents(JournalView(t, At(t, d)), v, path))
    /\ UNCHANGED <<storeVars, reserved, promiseVars, current, pc, snapshot, saved>>

\* A set, a rewrite or a removal.  Only a removal needs a path.
Write(t, d, kind, v, path, atom) ==
    /\ InCut(t, d) /\ v \in Known(t, d)
    /\ kind = "remove" => path # <<>>
    /\ Put(t, d, Pushed(t, At(t, d), Edit(kind, v, path, Leaf(IF kind = "set" THEN atom ELSE "{}"))))
    /\ EditOnly /\ UNCHANGED reserved

\* create_volume_in.  The ID is reserved whatever comes of the attempt.
NewVolume(t, d, v) ==
    /\ InCut(t, d) /\ v \notin reserved
    /\ reserved' = reserved \cup {v}
    /\ Put(t, d, Pushed(t, At(t, d), Edit("create", v, <<>>, EmptyDict)))
    /\ EditOnly

\* The attempt's own resolution of a promise.
Staged(edits, p) == {e \in ToSet(edits) : e.kind = "resolve" /\ e.path = PromisePath(p)}

\* promise_status: what the breaker says now, which may be later than the
\* snapshot, unless the attempt resolves the promise itself.
PromiseStatus(t, d, p) ==
    /\ InCut(t, d) /\ p \in held
    /\ Staged(At(t, d).edits, p) = {}
    /\ Observing(t, d, runtime, PromisePath(p), status[p])
    /\ UNCHANGED <<storeVars, reserved, promiseVars, current, pc, snapshot, saved>>

\* resolve: an error, which stages nothing, unless the promise is pending
\* now and the attempt does not resolve it already.
Resolve(t, d, p, outcome) ==
    /\ InCut(t, d) /\ p \in held
    /\ status[p] = "pending" /\ Staged(At(t, d).edits, p) = {}
    /\ Put(t, d, Pushed(t, At(t, d), Edit("resolve", runtime, PromisePath(p), outcome)))
    /\ EditOnly /\ UNCHANGED reserved

-----------------------------------------------------------------------------
(* Forks and nested cuts.                                                  *)

\* fork_with: a branch of the last journal.
Fork(t) ==
    /\ pc[t] = "open" /\ Len(chain[t]) < MaxDepth /\ CountScope
    /\ LET j == At(t, Len(chain[t]))
       IN  chain' = [chain EXCEPT ![t] =
                        Append(@, Journal(j.edits, j.views, Len(j.edits)))]
    /\ EditOnly /\ UNCHANGED reserved

\* join_pending, once the branch's turn has ended, its nested cuts with it.
\* A nested cut's end joins the forks made in it and no others.
Joinable(t) ==
    LET n == Len(chain[t])
    IN  /\ pc[t] = "open" /\ n > 1
        /\ \A c \in saved[t] : c.depth < n - 1 \/ (c.depth = n - 1 /\ ~c.forked)

ResolvesAsWell(j, b) ==
    \E e \in ToSet(SubSeq(j.edits, b.base + 1, Len(j.edits))),
       f \in ToSet(SubSeq(b.edits, b.base + 1, Len(b.edits))) :
        e.kind = "resolve" /\ f.kind = "resolve" /\ e.path = f.path

\* The branch read none of what the journal wrote after the fork.
IsSerial(j, b) ==
    \A e \in ToSet(SubSeq(j.edits, b.base + 1, Len(j.edits))) :
        ~MayConflict(b.reads, Address(e))

\* merge_branch: the journal, if a branch itself, inherits the branch's
\* reads but for what its own edits before the fork cover, and replays the
\* branch's edits.
Inherited(j, b) ==
    UNION {{[vol |-> a.vol, path |-> p] :
               p \in Dependency(SubSeq(j.edits, j.base + 1, b.base), a.vol, a.path)} : a \in b.reads}
Merged(t, d, j, b) ==
    LET Replay(acc, e) == Pushed(t, acc, e)
        after == FoldLeft(Replay, j, SubSeq(b.edits, b.base + 1, Len(b.edits)))
        moved == {[r EXCEPT !.before = j.edits \o SubSeq(@, b.base + 1, Len(@))] : r \in b.log}
    IN  [after EXCEPT !.reads = IF InBranch(d) THEN @ \cup Inherited(j, b) ELSE @,
                      !.log = @ \cup moved]

\* CutTransaction::merge.  A second resolution is an error of the join,
\* which leaves the branch out; a branch with no serial order has the
\* outermost cut run again, whatever else the attempt does.
Join(t) ==
    LET d == Len(chain[t]) - 1
        j == At(t, d)
        b == At(t, d + 1)
    IN  /\ Joinable(t)
        /\ \/ /\ ResolvesAsWell(j, b)
              /\ chain' = [chain EXCEPT ![t] = Front(@)]
              /\ UNCHANGED <<pc, snapshot, observed, saved>>
           \/ /\ ~ResolvesAsWell(j, b) /\ IsSerial(j, b)
              /\ chain' = [chain EXCEPT ![t] = Append(SubSeq(@, 1, d - 1), Merged(t, d, j, b))]
              /\ UNCHANGED <<pc, snapshot, observed, saved>>
           \/ /\ ~ResolvesAsWell(j, b) /\ ~IsSerial(j, b)
              /\ Dropped(t) /\ pc' = [pc EXCEPT ![t] = "begin"]
        /\ UNCHANGED <<storeVars, reserved, promiseVars, current, counts>>

\* nested_cut: a checkpoint of one journal; its end keeps what the nested cut
\* did, and a failure returns to it but for its reads.
Checkpoint(t, d) ==
    /\ pc[t] = "open" /\ saved[t] = {} /\ CountScope
    /\ saved' = [saved EXCEPT ![t] = {[depth |-> d, forked |-> d < Len(chain[t]),
                                       edits |-> At(t, d).edits, views |-> At(t, d).views]}]
    /\ UNCHANGED <<storeVars, reserved, promiseVars, current, pc, snapshot, observed, chain>>

\* A rollback that restores the edits and not their views.
NestedEndKeepsViews(t) ==
    /\ pc[t] = "open"
    /\ \E c \in saved[t] :
        /\ c.forked \/ Len(chain[t]) = c.depth
        /\ saved' = [saved EXCEPT ![t] = {}]
        /\ \/ UNCHANGED chain
           \/ Put(t, c.depth, [At(t, c.depth) EXCEPT !.edits = c.edits])
    /\ UNCHANGED <<storeVars, reserved, promiseVars, current, pc, snapshot, observed, counts>>

NestedEnd(t) ==
    /\ pc[t] = "open"
    /\ \E c \in saved[t] :
        /\ c.forked \/ Len(chain[t]) = c.depth
        /\ saved' = [saved EXCEPT ![t] = {}]
        /\ \/ UNCHANGED chain
           \/ Put(t, c.depth, [At(t, c.depth) EXCEPT !.edits = c.edits, !.views = c.views])
    /\ UNCHANGED <<storeVars, reserved, promiseVars, current, pc, snapshot, observed, counts>>

-----------------------------------------------------------------------------
(* The end of an attempt.                                                  *)

Ending(t) == pc[t] = "open" /\ Len(chain[t]) = 1 /\ saved[t] = {}
Root(t) == At(t, 1)
Verdict(t) == Validate(Root(t).edits, observed[t], snapshot[t].revision)

Ended(t, next) ==
    /\ Dropped(t) /\ pc' = [pc EXCEPT ![t] = next]
    /\ UNCHANGED <<reserved, held, lost, current, counts>>

\* transaction_end after a success: try_commit_transaction.  A conflict runs
\* the cut again, a revoked volume ends it.  A change is published once the
\* transaction lock is released.
Commit(t) ==
    /\ Ending(t)
    /\ \/ /\ Verdict(t) = "Committed" /\ Root(t).edits # <<>>
          /\ Install(Root(t).edits, Root(t).views, snapshot[t].revision)
          /\ Ended(t, "publish")
       \/ /\ Verdict(t) # "Committed" \/ Root(t).edits = <<>>
          /\ Ended(t, "begin") /\ UNCHANGED <<storeVars, status>>

Publish(u) ==
    /\ pc[u] = "publish" /\ pc' = [pc EXCEPT ![u] = "begin"]
    /\ current' = {}
    /\ UNCHANGED <<storeVars, reserved, promiseVars, turnVars, counts>>

\* Another error ends the cut, as does a failure that observed nothing.
Abort(t) ==
    Ending(t) /\ Ended(t, "begin") /\ UNCHANGED <<storeVars, status>>

\* A failure, having observed shared state, waits for a change.  The journal
\* is kept for validation.
Fail(t) ==
    /\ Ending(t) /\ observed[t] # {}
    /\ pc' = [pc EXCEPT ![t] = "await"]
    /\ UNCHANGED <<storeVars, reserved, promiseVars, current, turnVars, counts>>

\* A wait that reads the epoch last.
AwaitEpochLast(t) ==
    \/ /\ pc[t] = "await" /\ ~Interrupted(turns, t)
       /\ pc' = [pc EXCEPT ![t] = "check"]
       /\ UNCHANGED <<storeVars, reserved, promiseVars, current, turnVars, counts>>
    \/ /\ pc[t] = "await" /\ Interrupted(turns, t)
       /\ Ended(t, "begin") /\ UNCHANGED <<storeVars, status>>
    \/ /\ pc[t] = "check" /\ Verdict(t) = "Committed"
       /\ pc' = [pc EXCEPT ![t] = "validate"]
       /\ UNCHANGED <<storeVars, reserved, promiseVars, current, turnVars, counts>>
    \/ /\ pc[t] = "check" /\ Verdict(t) # "Committed"
       /\ Ended(t, "begin") /\ UNCHANGED <<storeVars, status>>
    \/ /\ pc[t] = "validate" /\ pc' = [pc EXCEPT ![t] = "waiting"]
       /\ current' = current \cup {t}
       /\ UNCHANGED <<storeVars, reserved, promiseVars, turnVars, counts>>
    \/ /\ pc[t] = "waiting" /\ t \notin current
       /\ pc' = [pc EXCEPT ![t] = "await"]
       /\ UNCHANGED <<storeVars, reserved, promiseVars, current, turnVars, counts>>

\* await_change: the epoch first, then the interrupts, then validation, then
\* the wait for an epoch past the one read.  An interrupt ends the cut.
AwaitChange(t) ==
    \/ /\ pc[t] = "await" /\ pc' = [pc EXCEPT ![t] = "check"]
       /\ current' = current \cup {t}
       /\ UNCHANGED <<storeVars, reserved, promiseVars, turnVars, counts>>
    \/ /\ pc[t] = "check" /\ ~Interrupted(turns, t)
       /\ pc' = [pc EXCEPT ![t] = "validate"]
       /\ UNCHANGED <<storeVars, reserved, promiseVars, current, turnVars, counts>>
    \/ /\ pc[t] = "check" /\ Interrupted(turns, t)
       /\ Ended(t, "begin") /\ UNCHANGED <<storeVars, status>>
    \/ /\ pc[t] = "validate" /\ Verdict(t) = "Committed"
       /\ pc' = [pc EXCEPT ![t] = "waiting"]
       /\ UNCHANGED <<storeVars, reserved, promiseVars, current, turnVars, counts>>
    \/ /\ pc[t] = "validate" /\ Verdict(t) # "Committed"
       /\ Ended(t, "begin") /\ UNCHANGED <<storeVars, status>>
    \/ /\ pc[t] = "waiting" /\ t \notin current
       /\ pc' = [pc EXCEPT ![t] = "await"]
       /\ UNCHANGED <<storeVars, reserved, promiseVars, current, turnVars, counts>>

-----------------------------------------------------------------------------
(* The runs of turns, and a host's interrupts.                             *)

OutsideStore == UNCHANGED <<storeVars, reserved, promiseVars, current, turnVars>>

EndTurn(t) ==
    /\ pc[t] = "begin" /\ turns.next < MaxSerials
    /\ pc' = [pc EXCEPT ![t] = "off"]
    /\ turns' = Left(turns, t) /\ hit' = hit \ {t}
    /\ OutsideStore /\ CountStep

EnterTurn(t) ==
    /\ pc[t] = "off" /\ turns.next < MaxSerials
    /\ pc' = [pc EXCEPT ![t] = "begin"]
    /\ turns' = Entered(turns, t)
    /\ OutsideStore /\ UNCHANGED <<counts, hit>>

\* interrupt_turns: where it reaches a run it publishes a change.
InterruptTurns(below) ==
    /\ pc[owner] = "begin" /\ turns.next < MaxSerials /\ CountScope
    /\ turns' = Posted(turns, below)
    /\ hit' = hit \cup {t \in below : pc[t] # "off"}
    /\ pc' = [pc EXCEPT ![owner] = IF ReachesSome(turns, below) THEN "publish" ELSE @]
    /\ OutsideStore

-----------------------------------------------------------------------------
(* Lost resolvers.                                                         *)

\* A breaker dies once neither a handle nor a staged resolution holds it,
\* and queues its promise.
Resolving(p) ==
    \E t \in Turns : \E d \in Depths(t) : Staged(At(t, d).edits, p) # {}
LoseResolver(p) ==
    /\ p \in held /\ held' = held \ {p}
    /\ UNCHANGED <<storeVars, reserved, status, lost, current, pc, turnVars, counts>>
BreakerDies(p) ==
    /\ p \notin held \cup lost /\ status[p] = "pending" /\ ~Resolving(p)
    /\ lost' = lost \cup {p}
    /\ UNCHANGED <<storeVars, reserved, status, held, current, pc, turnVars, counts>>

\* A reaper that takes the notices and breaks nothing.
ReapForgets ==
    /\ pc[reaper] = "begin" /\ lost # {} /\ lost' = {}
    /\ UNCHANGED <<storeVars, reserved, status, held, current, pc, turnVars, counts>>

\* process_death_notices: takes the queue and breaks those still pending,
\* with a commit of its own that read nothing.
Reap ==
    LET broken == {p \in lost : status[p] = "pending"}
        edits == SetToSeq({Edit("resolve", runtime, PromisePath(p), "broken") : p \in broken})
    IN  /\ pc[reaper] = "begin" /\ lost # {} /\ lost' = {}
        /\ Install(edits, <<>>, revision)
        /\ pc' = [pc EXCEPT ![reaper] = "publish"]
        /\ UNCHANGED <<reserved, held, current, turnVars, counts>>

-----------------------------------------------------------------------------
Init ==
    /\ versions = [v \in {heap} |-> FirstHeap] /\ revoked = {}
    /\ revision = 0 /\ changes = <<>> /\ reserved = {}
    /\ status = [p \in Promises |-> "pending"] /\ held = Promises /\ lost = {}
    /\ current = {} /\ pc = [u \in Committers |-> "begin"]
    /\ snapshot = [t \in Turns |-> NoStore]
    /\ observed = [t \in Turns |-> {}]
    /\ chain = [t \in Turns |-> <<>>] /\ saved = [t \in Turns |-> {}]
    /\ steps = 0 /\ scopes = 0
    /\ turns = AllEntered(Turns) /\ hit = {}

Attempt(t) ==
    \E d \in Depths(t) :
        \/ \E v \in Named, path \in Paths : Read(t, d, v, path)
        \/ \E kind \in Kinds, v \in Named, path \in Paths, atom \in Atoms :
              Write(t, d, kind, v, path, atom)
        \/ \E v \in NewVolumes : NewVolume(t, d, v)
        \/ \E p \in Promises : PromiseStatus(t, d, p)
        \/ \E p \in Promises, outcome \in Outcomes : Resolve(t, d, p, outcome)
        \/ Checkpoint(t, d)

StoreNext ==
    \/ \E t \in Turns :
        \/ Begin(t) \/ Attempt(t) \/ Fork(t) \/ Join(t) \/ NestedEnd(t)
        \/ Commit(t) \/ Abort(t) \/ Fail(t) \/ AwaitChange(t)
    \/ \E u \in Committers : Publish(u)
    \/ \E v \in HostVolumes : CreateVolume(v) \/ RevokeVolume(v)
    \/ \E p \in Promises : LoseResolver(p) \/ BreakerDies(p)
    \/ Reap

Next ==
    \/ StoreNext /\ UNCHANGED runVars
    \/ \E t \in Turns : EndTurn(t) \/ EnterTurn(t)
    \/ \E below \in Interrupts : InterruptTurns(below)

Spec == Init /\ [][Next]_vars

\* What every thread does without deciding anything is done in the end: the
\* publication of a commit, the steps of a wait, the collector's notices.
FairSpec ==
    /\ Spec
    /\ \A u \in Committers : WF_vars(Publish(u) /\ UNCHANGED runVars)
    /\ \A t \in Turns : WF_vars(AwaitChange(t) /\ UNCHANGED runVars)
    /\ \A p \in Promises : WF_vars(BreakerDies(p) /\ UNCHANGED runVars)
    /\ WF_vars(Reap /\ UNCHANGED runVars)

-----------------------------------------------------------------------------
(* Properties.                                                             *)

\* The views a journal caches are its edits applied to the snapshot, through
\* forks, merges and rollbacks, so that a commit that installs the views and
\* one that rebases the edits agree (commit_validated).
ViewsAreEdits ==
    \A t \in Turns : \A d \in Depths(t) :
        JournalView(t, At(t, d)) = ApplyAll(snapshot[t].versions, At(t, d).edits)

\* What a read, made after the edits before it, is worth on other contents.
\* Two reads are let off.  A removal through a value that is no dict makes
\* the whole volume an error.  And a read that its own edits cover may meet
\* such a value on its way, then or now, or, when a nested cut took those
\* edits back, a volume revoked since.
ReadNow(all, r) ==
    IF r.vol # runtime THEN Contents(ApplyAll(all, r.before), r.vol, r.path)
    ELSE status[r.path[1]]
Holds(all, r) ==
    \/ ReadNow(all, r) = r.value
    \/ /\ r.vol # runtime
       /\ \/ r.broken \/ Broken(ApplyAll(all, r.before), r.vol)
          \/ ~r.observed /\ {r.value, ReadNow(all, r)} \cap {Error, Missing} # {}

\* A merged branch's reads are what they would be had its work run at the
\* join: every read of an attempt is explained by one order of its edits
\* (merge_branch: "no serial order explains the branch's reads").
ReadsAreSerial ==
    \A t \in Turns : \A d \in Depths(t) : \A r \in At(t, d).log :
        r.vol # runtime => Holds(snapshot[t].versions, r)

\* An attempt that validates would read the same if it ran now, so cuts are
\* serialized in the order of their commits.
CommittedReadsHold ==
    \A t \in Turns :
        Ending(t) /\ Verdict(t) = "Committed" => \A r \in Root(t).log : Holds(versions, r)

Recorded(v, path) ==
    \E a \in DOMAIN changes' : changes'[a] = revision' /\ AddressOverlaps(a, [vol |-> v, path |-> path])

\* A commit's recorded addresses cover what it changed: a value at a path
\* that overlaps none of them stays, but where the volume as a whole became
\* an error.
ChangesAreRecorded ==
    [][\A v \in Volumes, path \in Paths :
          \/ Contents(versions', v, path) = Contents(versions, v, path)
          \/ Recorded(v, path)
          \/ Broken(versions', v)]_vars

\* A promise resolves once, whoever resolves it and whatever retries.
ResolvesOnce ==
    [][\A p \in Promises : status[p] # "pending" => status'[p] = status[p]]_vars

\* A failed cut's wait ends once what it observed has changed, or once an
\* interrupt reaches its turn (await_change): neither falls between the
\* epoch's reading, the check, the validation and the wait.
WaitsEnd ==
    \A t \in Turns :
        /\ pc[t] \in {"await", "check", "validate", "waiting"}
        /\ Verdict(t) # "Committed" \/ Interrupted(turns, t)
        ~> pc[t] = "begin"

\* An interrupt is in force for exactly the runs that were in progress where
\* it was posted, until they end (TurnInterrupt::reaches, prune): not for a
\* later run of the same turn, and not forgotten as another run ends.
InterruptsAreExact == \A t \in Turns : Interrupted(turns, t) <=> t \in hit

\* A promise whose resolver is lost does not stay pending.
LostIsBroken == \A p \in Promises : (p \notin held) ~> (p \in held \/ status[p] # "pending" \/ Resolving(p))

=============================================================================
