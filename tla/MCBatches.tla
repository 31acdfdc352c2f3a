----------------------------- MODULE MCBatches ------------------------------
(* Values for the model checker: batches of no, one and two messages, one of *)
(* them with a message that no segment can hold.                             *)
EXTENDS Batches

CONSTANTS g1

MCByte == {"0", "a", "b", "c"}
TooLong == <<"c", "c", "c">>
MCMessages == {<<"a">>, <<"b", "b">>, TooLong}
MCBatch == {<<>>, <<<<"a">>>>, <<<<"b", "b">>, <<"a">>>>, <<<<"b", "b">>, <<"b", "b">>>>,
            <<<<"a">>, TooLong>>}
MCGroup == {g1}

=============================================================================
