--------------------------- MODULE MCHeapCollection ---------------------------
(* A heap of two drop-bearing slots in one run and two ephemerons, in every  *)
(* graph they can form.                                                      *)
EXTENDS HeapCollection, TLC

CONSTANTS d1, d2, e1, e2

MCSlots == {d1, d2, e1, e2}
MCDrops == {d1, d2}
MCEphemerons == {e1, e2}
MCRuns == {{d1, d2}}

\* Slots of one class are interchangeable.
SlotSymmetry == Permutations({d1, d2}) \cup Permutations({e1, e2})
=============================================================================
