-------------------------- MODULE MCReflectionStore --------------------------
(* Small instances of ReflectionStore for TLC.                             *)
EXTENDS ReflectionStore, TLC

OnePath == {<<"a">>}
TwoPaths == {<<"a">>, <<"a", "b">>}
AllKinds == {"set", "rewrite", "remove"}
TwoLeaves == <<"a", "b">> :> "0" @@ <<"c">> :> "0"
EveryTurn == {Turns}
TurnSymmetry == Permutations(Turns)
=============================================================================
