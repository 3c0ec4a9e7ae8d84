------------------------- MODULE MCWorkCoordinator -------------------------
(* Small instances of WorkCoordinator. *)
EXTENDS WorkCoordinator, TLC

CONSTANTS host, other, worker, parent, child, lazy, promise, session

\* Every work belongs to one session.
OneSession == [w \in Works |-> session]

\* The hosts are alike.  Sound for safety only.
Hosts == Permutations({host, other})

=============================================================================
