--------------------------- MODULE EngineLifecycle ---------------------------
(***************************************************************************)
(* What IEngineController promises its user (the desktop view model and    *)
(* the benchmark runner): the state it shows, against the packet engine it *)
(* owns.  A resting state is never shown over an engine that is on, an     *)
(* engine is launched only when there is none, and Running or Stopping is  *)
(* shown only over an engine that was launched and is not yet collected.   *)
(*                                                                         *)
(* The contract is of the state shown, not of the exit's report: an engine *)
(* that dies while it is being declared Running is a "dead" engine under   *)
(* phase "Running" until somebody collects it.                             *)
(***************************************************************************)

CONSTANT
    KillMayFail     \* may the operating system refuse to kill an engine?

VARIABLES
    phase,          \* the EngineState shown
    engine          \* the engine owned: "none", "on", or "dead" and not collected

vars == <<phase, engine>>

Resting == {"Missing", "Stopped", "Faulted"}
EngineStates == Resting \cup {"Starting", "Running", "Stopping"}
Engines == {"none", "on", "dead"}

Init == phase \in {"Missing", "Stopped"} /\ engine = "none"

(* The engine: launched, ended by itself or by Kill, collected, or lost    *)
(* alive when Kill was refused.                                            *)
Launch  == phase = "Starting" /\ engine = "none" /\ engine' = "on" /\ UNCHANGED phase
Exit    == engine = "on" /\ engine' = "dead" /\ UNCHANGED phase
Collect == engine = "dead" /\ engine' = "none" /\ UNCHANGED phase
Lose    == KillMayFail /\ engine = "on" /\ engine' = "none" /\ UNCHANGED phase

(* The state shown: it rests only when the engine is off, and it is shown  *)
(* busy only when there is an engine (or, for Starting, when there is not).*)
Begin   == engine = "none" /\ phase' = "Starting" /\ UNCHANGED engine
Declare == engine # "none" /\ phase' \in {"Running", "Stopping"} /\ UNCHANGED engine
Rest    == engine # "on" /\ phase' \in Resting /\ UNCHANGED engine

Next == Launch \/ Exit \/ Collect \/ Lose \/ Begin \/ Declare \/ Rest

Spec == Init /\ [][Next]_vars

TypeOK == phase \in EngineStates /\ engine \in Engines

(* A user who is shown Missing, Stopped or Faulted has no engine running   *)
(* under this controller: what makes a second Start legitimate.            *)
RestMeansOff == phase \in Resting => engine # "on"
=============================================================================
