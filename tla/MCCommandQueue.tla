--------------------------- MODULE MCCommandQueue ---------------------------
(***************************************************************************)
(* Two posting threads, the GUI and the HTTP server, and three calls in    *)
(* flight: one thread blocked on the mutex while the queue holds two.  One *)
(* of the commands has no password.                                        *)
(***************************************************************************)
EXTENDS CommandQueue

CONSTANTS gui, http, r1, r2, r3

MCCallers == {gui, http}
MCRequests == {r1, r2, r3}
MCEncrypted == {r1, r2}
=============================================================================
