--------------------------- MODULE MCCommandServer ---------------------------
(* Small instances of CommandServer.                                       *)
EXTENDS CommandServer

CONSTANTS c1, c2
=============================================================================
