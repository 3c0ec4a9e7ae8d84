----------------------------- MODULE HeapAccess -----------------------------
(***************************************************************************)
(* What the admission protocol of a managed heap promises, without its     *)
(* lock, its atomic word or its condition variable: a readers/writer       *)
(* discipline in which a collector's exclusive access turns into a shared  *)
(* one of its own in a single step, for the finalizers it then runs.       *)
(***************************************************************************)
CONSTANT Threads

VARIABLES inside,     \* the threads that hold an outer-mutator admission
          exclusive   \* the threads that hold exclusive collection authority

accessVars == <<inside, exclusive>>

Init == inside = {} /\ exclusive = {}

\* An ordinary entry: never while a collector is exclusive.
Enter(t) ==
    /\ exclusive = {} /\ t \notin inside
    /\ inside' = inside \cup {t}
    /\ UNCHANGED exclusive

Leave(t) ==
    /\ t \in inside
    /\ inside' = inside \ {t}
    /\ UNCHANGED exclusive

\* An election: never while a mutator is inside.
Acquire(t) ==
    /\ inside = {} /\ exclusive = {}
    /\ exclusive' = {t}
    /\ UNCHANGED inside

\* Exclusive authority becomes the collector's own finalizer mutator.
Downgrade(t) ==
    /\ exclusive = {t}
    /\ exclusive' = {}
    /\ inside' = inside \cup {t}

\* A failed collection gives its authority up (or the heap is poisoned).
Release(t) ==
    /\ exclusive = {t}
    /\ exclusive' = {}
    /\ UNCHANGED inside

Next ==
    \E t \in Threads :
        Enter(t) \/ Leave(t) \/ Acquire(t) \/ Downgrade(t) \/ Release(t)

Spec == Init /\ [][Next]_accessVars
=============================================================================
