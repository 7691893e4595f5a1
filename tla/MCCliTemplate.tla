--------------------------- MODULE MCCliTemplate ---------------------------
(* Every command of the table, with every choice of its arguments present;  *)
(* values shorter than, as long as and longer than the tokens, with signs   *)
(* where the scan passes over them and where it reads them again.           *)
EXTENDS CliTemplate

MCValues == {<<>>, <<"%">>, Word("value", 7), Word("value", 12), Word("value", 30),
             Word("value", 20) \o <<"%", "value", "|", "value", "%">>,
             Word("value", 20) \o <<"%", "!", "value", "%">>}

MCPasswords == {<<>>, Word("value", 4)}
=============================================================================
