---------------------------- MODULE MCProcesses ----------------------------
(***************************************************************************)
(* A small instance of Processes.                                          *)
(***************************************************************************)
EXTENDS Processes

CONSTANTS d1, d2

BothDaemons == {d1, d2}
=============================================================================
