--------------------------- MODULE MCRunAllocator ---------------------------
(* Small instances of RunAllocator.                                        *)
EXTENDS RunAllocator, TLC

\* The last word of a run is shorter: valid_slot_mask.
TwoWords == <<1..2, 1..1>>

ThreadSymmetry == Permutations(Threads) \cup Permutations(Runs)
=============================================================================
