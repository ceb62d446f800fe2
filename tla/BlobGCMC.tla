------------------------------ MODULE BlobGCMC ------------------------------
EXTENDS BlobGC, TLC

CONSTANTS hourly, server, shell

(* The server's syncs and its collector; and a sync of a command line beside it. *)
OneProcess == [a \in Actors |-> server]

TwoProcesses == [a \in Actors |-> IF a \in Collectors THEN server ELSE shell]
=============================================================================
