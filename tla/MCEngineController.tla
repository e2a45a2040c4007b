-------------------------- MODULE MCEngineController --------------------------
(* A small instance of EngineController for TLC: two concurrent callers,   *)
(* and two slots for processes, so that one can be orphaned while another  *)
(* is running.                                                             *)
EXTENDS EngineController

CONSTANTS c1, c2, p1, p2

MCCallers == {c1, c2}
MCProcesses == {p1, p2}
=============================================================================
