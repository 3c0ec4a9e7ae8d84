------------------------------ MODULE RootPool ------------------------------
(***************************************************************************)
(* glam-gc's pooled roots: chunks of slots, each a reference count and a   *)
(* word that holds the rooted value or links a free list; free lists that  *)
(* threads take whole and keep across entries; rescans of drained chunks   *)
(* while roots are cloned and dropped; the rebuild of every list at a      *)
(* collection; and the orphaning of chunks when a heap drops.              *)
(*                                                                         *)
(* A heap's pool is changed under its data mutex; what other threads do    *)
(* meanwhile to slots, without it, interleaves with each chunk of a scan.  *)
(***************************************************************************)
EXTENDS Naturals, Sequences, FiniteSets, FiniteSetsExt, Functions

CONSTANTS
    Threads,        \* mutator threads
    Values,         \* managed values, each rooted at most once at a time
    SlotsPerChunk,  \* SLOTS_PER_CHUNK
    None,           \* a null link, an absent list or lease
    Stale,          \* what a slot's word holds once its root is gone
    MaxChunks,      \* bound on chunks ever allocated
    MaxHandles,     \* bound on the handles of one root
    MaxEpoch,       \* bound on collections
    MaxTakes        \* bound on free lists taken

ASSUME RootPoolAssumption ==
    /\ SlotsPerChunk \in Nat \ {0}
    /\ MaxChunks \in Nat /\ MaxHandles \in Nat
    /\ MaxEpoch \in Nat /\ MaxTakes \in Nat

VARIABLES
    references,     \* RootSlot.references
    word,           \* RootSlot.word
    chunks,         \* RootPool.chunks: the chunk at each index
    free_heads,     \* and the other columns of RootPool
    leased,
    free_counts,
    with_free,
    live_at_last_scan,
    handed_out,     \* handed_out_since_scan
    orphaned,       \* ORPHANED_CHUNKS
    freed,          \* chunks returned to the process's allocator
    epoch,          \* allocation_lease_epoch
    alive,          \* whether the heap is
    cache,          \* per thread: its record or active entry
    taken,          \* per thread: the slot and value of a root under way
    scan,           \* a rebuild under way, under the data mutex
    root,           \* the program's roots: the slot of each value
    handles,        \* and how many handles it has
    takes           \* free lists taken

slotVars == <<references, word>>
poolVars == <<chunks, free_heads, leased, free_counts, with_free,
              live_at_last_scan, handed_out>>
heapVars == <<orphaned, freed, epoch, alive>>
rootVars == <<root, handles>>
vars == <<slotVars, poolVars, heapVars, cache, taken, scan, rootVars, takes>>

Chunks == 1..MaxChunks
Slots == Chunks \X (1..SlotsPerChunk)
Indices == 1..Len(chunks)
collector == "collector"
NoScan == [by |-> None]
NoList == [active |-> FALSE, captured |-> 0, root_free |-> None, root_lease |-> None]
Allocated == Len(chunks) + Cardinality(orphaned) + Cardinality(freed)

-----------------------------------------------------------------------------
(* A thread's record: ThreadHeapState.                                     *)

\* Mutant: a stale record keeps its list and its lease.
ActivateStale(t) == [cache[t] EXCEPT !.active = TRUE, !.captured = epoch]

\* activate: a record of an earlier epoch forgets its list and its lease.
Activate(t) ==
    IF cache[t].captured = epoch
      THEN [cache[t] EXCEPT !.active = TRUE]
      ELSE [NoList EXCEPT !.active = TRUE, !.captured = epoch]

\* An admitted outer entry: none while the collector is exclusive.
Enter(t) ==
    /\ alive /\ ~cache[t].active /\ scan.by # collector
    /\ cache' = [cache EXCEPT ![t] = Activate(t)]
    /\ UNCHANGED <<slotVars, poolVars, heapVars, taken, scan, rootVars>>

Leave(t) ==
    /\ cache[t].active /\ taken[t] = None /\ scan.by # t
    /\ cache' = [cache EXCEPT ![t].active = FALSE]
    /\ UNCHANGED <<slotVars, poolVars, heapVars, taken, scan, rootVars>>

\* The record is dropped with its list; its chunk stays leased until the
\* next collection.  The thread's next entry makes a record.
ReleaseCaches(t) ==
    /\ ~cache[t].active
    /\ cache[t].root_lease # None
    /\ cache' = [cache EXCEPT ![t] = [NoList EXCEPT !.captured = epoch]]
    /\ UNCHANGED <<slotVars, poolVars, heapVars, taken, scan, rootVars>>

-----------------------------------------------------------------------------
(* Creating a root: register_proven_root.                                  *)

\* take_root_slot: the head of the thread's list, advanced by its link.
TakeRootSlot(t, v) ==
    /\ cache[t].active /\ taken[t] = None /\ scan.by # t
    /\ cache[t].root_free # None
    /\ handles[v] = 0 /\ \A u \in Threads : taken[u] # None => taken[u].value # v
    /\ taken' = [taken EXCEPT ![t] = [slot |-> cache[t].root_free, value |-> v]]
    /\ cache' = [cache EXCEPT ![t].root_free = word[cache[t].root_free]]
    /\ UNCHANGED <<slotVars, poolVars, heapVars, scan, rootVars>>

\* RootSlot::occupy: the value, then one reference.
Occupy(t) ==
    /\ taken[t] # None
    /\ word' = [word EXCEPT ![taken[t].slot] = taken[t].value]
    /\ references' = [references EXCEPT ![taken[t].slot] = 1]
    /\ root' = [root EXCEPT ![taken[t].value] = taken[t].slot]
    /\ handles' = [handles EXCEPT ![taken[t].value] = 1]
    /\ taken' = [taken EXCEPT ![t] = None]
    /\ UNCHANGED <<poolVars, heapVars, cache, scan>>

\* install_root_free_list.
Install(t, head, lease) ==
    cache' = [cache EXCEPT ![t].root_free = head, ![t].root_lease = lease]

\* take_listed: the lowest index whose list is not empty.
HasListed(back) == \E i \in with_free : ~back[i] /\ free_heads[i] # None
TakeListed(t, back, before) ==
    LET i == Min({i \in with_free : ~back[i] /\ free_heads[i] # None})
    IN  /\ leased' = [back EXCEPT ![i] = TRUE]
        /\ free_heads' = [free_heads EXCEPT ![i] = None]
        /\ free_counts' = [free_counts EXCEPT ![i] = 0]
        /\ handed_out' = before + free_counts[i]
        /\ with_free' = {j \in with_free : j > i}
        /\ Install(t, free_heads[i], i)

\* A new chunk hands out all its slots.
WithChunk(before) == before + SlotsPerChunk

\* RootChunk::allocate: a new chunk whose slots form one list, leased to t.
NewChunk == Allocated + 1
AllocateChunk(t, back, before) ==
    /\ NewChunk \in Chunks
    /\ word' = [s \in Slots |->
                  IF s[1] # NewChunk THEN word[s]
                  ELSE IF s[2] = SlotsPerChunk THEN None ELSE <<s[1], s[2] + 1>>]
    /\ chunks' = Append(chunks, NewChunk)
    /\ free_heads' = Append(free_heads, None)
    /\ free_counts' = Append(free_counts, 0)
    /\ leased' = Append(back, TRUE)
    /\ with_free' = {}
    /\ handed_out' = WithChunk(before)
    /\ Install(t, <<NewChunk, 1>>, Len(chunks) + 1)

\* The lease of the exhausted list is returned first.
Returned(t) ==
    IF cache[t].root_lease = None THEN leased
    ELSE [leased EXCEPT ![cache[t].root_lease] = FALSE]

RescanDue == handed_out >= Max({live_at_last_scan, SlotsPerChunk})

\* A scan starts with the last chunk.
ScanFrom(by) == [by |-> by, index |-> Len(chunks), live |-> 0]

\* take_free_list, up to the rescan when it needs one.
TakeFreeList(t) ==
    /\ cache[t].active /\ taken[t] = None /\ scan = NoScan
    /\ cache[t].root_free = None
    /\ takes < MaxTakes /\ takes' = takes + 1
    /\ \/ /\ HasListed(Returned(t))
          /\ TakeListed(t, Returned(t), handed_out)
          /\ UNCHANGED <<word, chunks, live_at_last_scan, scan>>
       \/ /\ ~HasListed(Returned(t)) /\ RescanDue
          /\ leased' = Returned(t)
          /\ with_free' = {}
          /\ scan' = ScanFrom(t)
          /\ UNCHANGED <<word, chunks, free_heads, free_counts,
                         live_at_last_scan, handed_out, cache>>
       \/ /\ ~HasListed(Returned(t)) /\ ~RescanDue
          /\ AllocateChunk(t, Returned(t), handed_out)
          /\ UNCHANGED <<live_at_last_scan, scan>>
    /\ UNCHANGED <<references, heapVars, taken, rootVars>>

-----------------------------------------------------------------------------
(* Scans: rebuild_unleased, chunk by chunk from the last, while other      *)
(* threads clone, drop and create roots.                                   *)

Scanning == scan # NoScan /\ scan.index > 0

\* A leased chunk counts as live and is left alone.
SkipLeased ==
    /\ Scanning /\ leased[scan.index]
    /\ scan' = [scan EXCEPT !.index = @ - 1, !.live = @ + SlotsPerChunk]
    /\ UNCHANGED <<slotVars, poolVars, heapVars, cache, taken, rootVars>>

\* rebuild_chunk: the slots with no reference, linked in address order.
RebuildChunk ==
    LET i == scan.index
        Free == {n \in 1..SlotsPerChunk : references[<<chunks[i], n>>] = 0}
        First(ns) == IF ns = {} THEN None ELSE <<chunks[i], Min(ns)>>
    IN  /\ Scanning /\ ~leased[i]
        /\ word' = [s \in Slots |->
                      IF s[1] = chunks[i] /\ s[2] \in Free
                        THEN First({n \in Free : n > s[2]}) ELSE word[s]]
        /\ free_heads' = [free_heads EXCEPT ![i] = First(Free)]
        /\ free_counts' = [free_counts EXCEPT ![i] = Cardinality(Free)]
        /\ with_free' = with_free \cup {j \in {i} : Free # {}}
        /\ scan' = [scan EXCEPT !.index = @ - 1,
                                !.live = @ + SlotsPerChunk - Cardinality(Free)]
        /\ UNCHANGED <<references, chunks, leased, live_at_last_scan, handed_out,
                       heapVars, cache, taken, rootVars>>

\* A thread's rescan ends: it takes a rebuilt list, else a new chunk.
RescanEnds(t) ==
    /\ scan.by = t /\ scan.index = 0
    /\ live_at_last_scan' = scan.live
    /\ IF HasListed(leased)
         THEN TakeListed(t, leased, 0) /\ UNCHANGED <<word, chunks>>
         ELSE AllocateChunk(t, leased, 0)
    /\ scan' = NoScan
    /\ UNCHANGED <<references, heapVars, taken, rootVars>>

-----------------------------------------------------------------------------
(* Collections, which have no root pool work but the rebuild at the end of *)
(* their sweep: rebuild_free_lists, then the next epoch.                   *)

BeginRebuild ==
    /\ alive /\ scan = NoScan /\ epoch < MaxEpoch
    /\ \A t \in Threads : ~cache[t].active
    /\ leased' = [i \in Indices |-> FALSE]
    /\ with_free' = {}
    /\ scan' = ScanFrom(collector)
    /\ UNCHANGED <<slotVars, chunks, free_heads, free_counts, live_at_last_scan,
                   handed_out, heapVars, cache, taken, rootVars>>

RebuildEnds ==
    /\ scan.by = collector /\ scan.index = 0
    /\ live_at_last_scan' = scan.live
    /\ handed_out' = 0
    /\ epoch' = epoch + 1
    /\ scan' = NoScan
    /\ UNCHANGED <<slotVars, chunks, free_heads, leased, free_counts, with_free,
                   orphaned, freed, alive, cache, taken, rootVars>>

-----------------------------------------------------------------------------
(* Roots, which any thread clones and drops without an admission.          *)

\* Root::clone.
Retain(v) ==
    /\ handles[v] \in 1..(MaxHandles - 1)
    /\ handles' = [handles EXCEPT ![v] = @ + 1]
    /\ references' = [references EXCEPT ![root[v]] = @ + 1]
    /\ UNCHANGED <<word, poolVars, heapVars, cache, taken, scan, root>>

\* Root::drop.  The word a free slot is left with is not read again, and is
\* told apart only from links and from values of live roots.
Release(v) ==
    /\ handles[v] > 0
    /\ handles' = [handles EXCEPT ![v] = @ - 1]
    /\ references' = [references EXCEPT ![root[v]] = @ - 1]
    /\ IF handles[v] = 1
         THEN /\ root' = [root EXCEPT ![v] = None]
              /\ word' = [word EXCEPT ![root[v]] = Stale]
         ELSE UNCHANGED <<root, word>>
    /\ UNCHANGED <<poolVars, heapVars, cache, taken, scan>>

-----------------------------------------------------------------------------
(* The end of a heap.                                                      *)

HasReferences(c) == \E i \in 1..SlotsPerChunk : references[<<c, i>>] # 0

\* Mutant: a dropped heap frees its chunks whatever roots remain.
OrphanedNothing == {c \in orphaned : HasReferences(c)}

\* RootPool::drop keeps the chunks a root references, of this heap and of
\* earlier ones, and frees the others.
Orphaned == {c \in orphaned \cup Range(chunks) : HasReferences(c)}

DropPool ==
    /\ orphaned' = Orphaned
    /\ freed' = freed \cup ((orphaned \cup Range(chunks)) \ Orphaned)
    /\ chunks' = <<>> /\ free_heads' = <<>> /\ leased' = <<>> /\ free_counts' = <<>>
    /\ with_free' = {}
    /\ live_at_last_scan' = 0 /\ handed_out' = 0

\* HeapInner::drop, once no thread holds the heap.  Its threads' records are
\* never used again: no other heap has its identity.
DropHeap ==
    /\ alive /\ scan = NoScan
    /\ \A t \in Threads : ~cache[t].active
    /\ DropPool
    /\ alive' = FALSE
    /\ cache' = [t \in Threads |-> NoList]
    /\ UNCHANGED <<slotVars, epoch, taken, scan, rootVars>>

\* A later heap drops, here one that made no root.
DropLaterHeap ==
    /\ ~alive
    /\ DropPool
    /\ UNCHANGED <<slotVars, epoch, alive, cache, taken, scan, rootVars>>

-----------------------------------------------------------------------------
Init ==
    /\ references = [s \in Slots |-> 0]
    /\ word = [s \in Slots |-> None]
    /\ chunks = <<>> /\ free_heads = <<>> /\ leased = <<>> /\ free_counts = <<>>
    /\ with_free = {}
    /\ live_at_last_scan = 0 /\ handed_out = 0
    /\ orphaned = {} /\ freed = {}
    /\ epoch = 0 /\ alive = TRUE
    /\ cache = [t \in Threads |-> NoList]
    /\ taken = [t \in Threads |-> None]
    /\ scan = NoScan
    /\ root = [v \in Values |-> None]
    /\ handles = [v \in Values |-> 0]
    /\ takes = 0

Next ==
    \/ \E t \in Threads : TakeFreeList(t)
    \/ /\ \/ \E t \in Threads :
               \/ Enter(t) \/ Leave(t) \/ ReleaseCaches(t)
               \/ \E v \in Values : TakeRootSlot(t, v)
               \/ Occupy(t) \/ RescanEnds(t)
          \/ SkipLeased \/ RebuildChunk
          \/ BeginRebuild \/ RebuildEnds
          \/ \E v \in Values : Retain(v) \/ Release(v)
          \/ DropHeap \/ DropLaterHeap
       /\ UNCHANGED takes

Spec == Init /\ [][Next]_vars

-----------------------------------------------------------------------------
(* What a root promises.                                                   *)

\* A root's slot is in an allocated chunk, counts its handles and still holds
\* its value, whatever lists were rebuilt and whatever heap was dropped since
\* it was created: no other root was given the slot, no free list was linked
\* through it, and a handle that outlives its heap reads no freed chunk
\* (RootSlot::value, release and heap).
RootKeepsItsValue ==
    \A v \in Values : handles[v] > 0 =>
        /\ root[v][1] \notin freed
        /\ word[root[v]] = v
        /\ references[root[v]] = handles[v]

\* The slots on the list that starts at a head.
Linked(head) ==
    LET upTo[n \in 0..SlotsPerChunk] ==
            IF n = 0 THEN {head} \cap Slots
            ELSE upTo[n - 1] \cup ({word[s] : s \in upTo[n - 1]} \cap Slots)
    IN  upTo[SlotsPerChunk]

\* A slot has at most one owner while mutators run: a list of the pool, a
\* list a thread may still use, a root being created, or a root's handles
\* (take_free_list, activate and rebuild_unleased: "no list holds those slots
\* and no root references them").
OneOwnerPerSlot ==
    LET pooled == [i \in Indices |-> Linked(free_heads[i])]
        usable == {t \in Threads : cache[t].captured = epoch}
        listed == [t \in usable |-> Linked(cache[t].root_free)]
    IN  scan.by # collector =>
          \A s \in Slots :
              Cardinality({i \in Indices : s \in pooled[i]})
            + Cardinality({t \in usable : s \in listed[t]})
            + Cardinality({t \in Threads : taken[t] # None /\ taken[t].slot = s})
            + Cardinality({v \in Values : handles[v] > 0 /\ root[v] = s}) <= 1

=============================================================================
