------------------------------ MODULE TurnRuns ------------------------------
(***************************************************************************)
(* The runs that turns have in progress and the interrupts that may still  *)
(* reach one (src/api/runtime/turns.rs), as operators on that state.       *)
(*                                                                         *)
(* A machine is represented by the turns on machines at or below it.  Runs *)
(* and interrupts take serials from one counter, and an interrupt reaches  *)
(* the runs that entered before it.  What an interrupt's reason says is    *)
(* left out.                                                               *)
(***************************************************************************)
EXTENDS Integers

\* Each turn has entered a run, and no interrupt is posted.  Only where a
\* serial stands among those of the interrupts matters.
AllEntered(all) ==
    [next |-> 1, interrupts |-> {}, runs |-> {[serial |-> 0, turn |-> t] : t \in all}]

\* A plausible slip: an interrupt reaches whoever runs there, entered when
\* it may.
ReachesAnyRun(i, r) == r.turn \in i.below

\* TurnInterrupt::reaches.
Reaches(i, r) == r.serial < i.serial /\ r.turn \in i.below

\* TurnRuns::enter.
Entered(s, t) ==
    [s EXCEPT !.next = @ + 1, !.runs = @ \cup {[serial |-> s.next, turn |-> t]}]

\* TurnRunState::prune.
Pruned(s) ==
    [s EXCEPT !.interrupts = {i \in @ : \E r \in s.runs : Reaches(i, r)}]

\* TurnRun::drop.
Left(s, t) == Pruned([s EXCEPT !.runs = {r \in @ : r.turn # t}])

\* TurnRuns::interrupt, which posts nothing that reaches nobody.
InterruptOf(s, below) == [serial |-> s.next, below |-> below]
ReachesSome(s, below) == \E r \in s.runs : Reaches(InterruptOf(s, below), r)
Posted(s, below) ==
    [s EXCEPT !.next = @ + 1,
              !.interrupts = IF ReachesSome(s, below) THEN @ \cup {InterruptOf(s, below)}
                             ELSE @]

\* TurnRuns::interrupted.
Interrupted(s, t) ==
    \E i \in s.interrupts, r \in s.runs : r.turn = t /\ Reaches(i, r)
=============================================================================
