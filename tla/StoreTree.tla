------------------------------ MODULE StoreTree ------------------------------
(***************************************************************************)
(* The data of the reflection store: hierarchical paths and the contents   *)
(* of a volume, the edits of a transaction, and what a read depends on.    *)
(*                                                                         *)
(* A volume's contents are nested dicts.  They are represented by their    *)
(* leaves: a function from the paths of the leaves to atoms, where the     *)
(* atom "{}" is an empty dict, "error" a latent evaluation error and any   *)
(* other atom a value that is no dict.  The dicts on the way to a leaf are *)
(* implied.  The function without leaves stands for "undefined".           *)
(***************************************************************************)
EXTENDS Integers, Sequences, FiniteSets, SequencesExt

Leaf(atom) == [p \in {<<>>} |-> atom]
EmptyDict == Leaf("{}")
Error == Leaf("error")
Missing == Leaf("missing")
Undefined == <<>>

\* ConflictPath::overlaps.
Overlaps(p, q) == IsPrefix(p, q) \/ IsPrefix(q, p)

\* The leaves at and below a path, and the leaf on the way to it that is no
\* dict, if there is one.
Below(tree, p) == {q \in DOMAIN tree : IsPrefix(p, q)}
NoDict(tree, p) == {q \in DOMAIN tree : IsStrictPrefix(q, p) /\ tree[q] # "{}"}

Kept(tree, S) == [q \in S |-> tree[q]]
Rest(p, q) == SubSeq(q, Len(p) + 1, Len(q))

\* A lazy access: what is undefined or lies behind a value that is no dict
\* is an error, the first one told apart by try_get.
Lookup(tree, p) ==
    IF NoDict(tree, p) # {}
      THEN Error
      ELSE [r \in {Rest(p, q) : q \in Below(tree, p)} |-> tree[p \o r]]

\* dict.insert: adds the dicts on the way; one that is no dict becomes an
\* error in place.
DictInsert(tree, p, new) ==
    IF NoDict(tree, p) # {}
      THEN [q \in DOMAIN tree |-> IF q \in NoDict(tree, p) THEN "error" ELSE tree[q]]
      ELSE LET others == {q \in DOMAIN tree : ~Overlaps(p, q)}
           IN  [q \in others \cup {p \o r : r \in DOMAIN new} |->
                   IF q \in others THEN tree[q] ELSE new[Rest(p, q)]]

\* dict.remove: prunes the dicts it empties; a dict on the way that is none
\* fails the whole call.
DictRemove(tree, p) ==
    LET rest == DOMAIN tree \ Below(tree, p)
    IN  IF NoDict(tree, p) # {} THEN Error
        ELSE IF rest = {} THEN EmptyDict
        ELSE Kept(tree, rest)

\* The updater of the model turns each "0" below it into "1" and each "1"
\* into "0".
Flip(tree) ==
    [q \in DOMAIN tree |-> IF tree[q] = "0" THEN "1"
                           ELSE IF tree[q] = "1" THEN "0" ELSE tree[q]]
Updated(prior) == IF prior = Undefined THEN Error ELSE Flip(prior)

-----------------------------------------------------------------------------
(* Edits.                                                                  *)

Edit(kind, vol, path, value) ==
    [kind |-> kind, vol |-> vol, path |-> path, value |-> value]

\* apply_edit_in, for an edit of the volume whose contents are given.
ApplyEdit(tree, e) ==
    CASE e.kind = "set"     -> DictInsert(tree, e.path, e.value)
      [] e.kind = "create"  -> e.value
      [] e.kind = "remove"  -> DictRemove(tree, e.path)
      [] e.kind = "rewrite" -> DictInsert(tree, e.path, Updated(Lookup(tree, e.path)))

\* rebase_edits: the edits in order, on the volumes as they stand.  An edit
\* of a volume that is missing, other than its creation, is dropped.
Apply(versions, e) ==
    IF e.kind = "resolve" \/ (e.vol \notin DOMAIN versions /\ e.kind # "create")
      THEN versions
      ELSE [v \in DOMAIN versions \cup {e.vol} |->
               IF v # e.vol THEN versions[v]
               ELSE IF e.kind = "create" THEN e.value
               ELSE ApplyEdit(versions[v], e)]
ApplyAll(versions, edits) == FoldLeft(Apply, versions, edits)

Address(e) == [vol |-> e.vol, path |-> e.path]
AddressOverlaps(a, b) == a.vol = b.vol /\ Overlaps(a.path, b.path)
AddressCovers(a, b) == a.vol = b.vol /\ IsPrefix(a.path, b.path)

\* Addresses that leave the removals out.
AddedAddresses(edits) ==
    {Address(e) : e \in {e \in ToSet(edits) : e.kind # "remove"}}

\* normalized_edit_paths: the addresses no other edit's address covers.
EditedAddresses(edits) ==
    LET all == {Address(e) : e \in ToSet(edits)}
    IN  {a \in all : ~\E b \in all \ {a} : AddressCovers(b, a)}

\* dependency: the path a read depends on, as a set of at most one.  The
\* latest edits are met first: a set, a removal, a creation or a resolution
\* above the path makes the read internal, a rewrite widens it.
Dependency(edits, vol, path) ==
    LET Meet(e, needed) ==
            IF e.vol = vol /\ \E p \in needed : IsPrefix(e.path, p)
              THEN IF e.kind = "rewrite" THEN {e.path} ELSE {}
              ELSE needed
    IN  FoldRight(Meet, edits, {path})

\* Conflicts with changes above a read, and none below.
MayConflictAbove(observations, changed) ==
    \E a \in observations : AddressCovers(changed, a)

\* ExactObservationIndex::observe and may_conflict.
Observe(observations, a) ==
    IF \E b \in observations : AddressCovers(b, a)
      THEN observations
      ELSE {b \in observations : ~AddressCovers(a, b)} \cup {a}
MayConflict(observations, changed) ==
    \E a \in observations : AddressOverlaps(a, changed)
=============================================================================
