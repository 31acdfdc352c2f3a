---------------------------- MODULE MCCommitlog -----------------------------
(* Values for the model checker: one-, two- and three-byte messages. *)
EXTENDS Commitlog

MCByte == {"0", "a", "b", "c"}
MCMessages == {<<"a">>, <<"b", "b">>}
MCMessagesWide == {<<"a">>, <<"b", "b">>, <<"c", "c", "c">>}

=============================================================================
