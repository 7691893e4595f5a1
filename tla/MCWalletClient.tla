--------------------------- MODULE MCWalletClient ---------------------------
(* Two devices, so that a process can begin with one and go on with another, *)
(* as model values; and a user who clicks on join a second time before the   *)
(* first click has led to anything.                                          *)
EXTENDS WalletClient
=============================================================================
