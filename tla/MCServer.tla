------------------------------ MODULE MCServer ------------------------------
(* Values for the model checker: messages of one and of two bytes, bytes of *)
(* four values, connections as interchangeable model values.                *)
EXTENDS Server

CONSTANTS c1, c2

MCConn == {c1, c2}
MCOneConn == {c1}
MCMessage == {<<1>>, <<2, 3>>}
MCOversized == {<<1>>}
ConnSymmetry == Permutations(MCConn)

=============================================================================
