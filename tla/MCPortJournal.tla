---------------------------- MODULE MCPortJournal ----------------------------
(* Small instances of PortJournal for TLC: the turns of two machines a and *)
(* b under one that wires a's output to b's input, and b's child c, which  *)
(* b may fork.                                                             *)
EXTENDS PortJournal, TLC

A == <<"a">>
B == <<"b">>
C == <<"b", "c">>
TwoTurns == {A, B}
Family == {A, B, C}

Wire(owner, from, to) == [owner |-> owner, from |-> from, to |-> to]

\* The parent of a and b feeds b from a; b feeds c, c answers to b, and b
\* may pass its input on to c.
AFeedsB == Wire(<<>>, Output(A), Input(B))
BFeedsC == Wire(B, Output(B), Input(C))
CFeedsB == Wire(B, Output(C), Input(B))
BPasses == Wire(B, Input(B), Input(C))
Wired == {AFeedsB, BFeedsC, CFeedsB}
MayWire == {BPasses}

Earlier == <<"earlier">>
OneEach == A :> <<>> @@ B :> <<Earlier>> @@ C :> <<Earlier>>
NoItems == [m \in Family |-> <<>>]

ToB == {B}
TwoSteps == A :> 1 @@ B :> 2
ThreeSteps == A :> 1 @@ B :> 3

FullCalls == A :> {"write", "fail"}
             @@ B :> {"read", "unread", "count", "survey", "write", "wire_add",
                      "wire_del", "wire_list", "clear", "fork", "nest", "retry"}
ClearCalls == A :> {} @@ B :> {"write", "clear", "fork"}
=============================================================================
