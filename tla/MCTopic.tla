------------------------------ MODULE MCTopic -------------------------------
(* Values for the model checker: two kinds of messages, groups as model     *)
(* values that are interchangeable.                                         *)
EXTENDS Topic

CONSTANTS g1, g2

MCByte == {"0", "a", "b"}
MCMessages == {<<"a">>, <<"b", "b">>}
MCGroup == {g1, g2}
GroupSymmetry == Permutations(MCGroup)

=============================================================================
