------------------------------ MODULE MCClient ------------------------------
(* Values for the model checker: a command line client next to a client that *)
(* sends ahead, reads when it likes and leaves when it likes.                *)
EXTENDS Client

CONSTANTS c1, c2

MCConn == {c1, c2}
MCCli == {c1}
MCMessage == {<<2, 3>>}
NoMessage == {}

=============================================================================
