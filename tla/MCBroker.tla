------------------------------ MODULE MCBroker ------------------------------
(* Values for the model checker: three topics, whose names are             *)
(* interchangeable, and one group.                                          *)
EXTENDS Broker

CONSTANTS n1, n2, n3, g1

MCName == {n1, n2, n3}
MCGroup == {g1}
NameSymmetry == Permutations(MCName)

=============================================================================
