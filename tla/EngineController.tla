--------------------------- MODULE EngineController ---------------------------
(***************************************************************************)
(* UnifiedEngineController: the object through which the desktop program   *)
(* starts and stops the packet engine process.  Its asynchronous methods   *)
(* are serialised by a semaphore (_gate); the process's exit is reported   *)
(* by a callback on another thread that does not take the semaphore, and   *)
(* every change of State is notified after the lock that made it is        *)
(* released.                                                               *)
(*                                                                         *)
(* A call of StartAsync, StopAsync or DisposeAsync is a caller's program   *)
(* counter; one action is the code between two points at which another     *)
(* thread's step can be observed.  System.Diagnostics.Process is external: *)
(* it is modelled from what EngineProcess and the controller use of it.    *)
(***************************************************************************)

CONSTANTS
    Callers,        \* the callers of the controller (UI commands, benchmark, window closing)
    Processes,      \* slots for process objects and their operating system processes
    NoCaller,       \* nobody holds the gate
    NoProcess,      \* _process is null
    KillMayFail     \* may Process.Kill throw and leave the process alive?

ASSUME CallersAssumption ==
    NoCaller \notin Callers /\ NoProcess \notin Processes /\ Callers \cap Processes = {}
ASSUME KillAssumption == KillMayFail \in BOOLEAN

VARIABLES
    \* the controller
    gate,           \* the caller that holds _gate
    process,        \* _process
    state,          \* State
    disposed,       \* _disposed
    \* its callers
    op,             \* the method each caller is in
    pc,             \* where it is
    after,          \* where TerminateAndDisposeProcessAsync returns to
    \* notifications
    pending,        \* the StateChanged call each thread is in, or "none"
    seen,           \* the last state the subscriber was given
    \* the environment
    runtime,        \* are the engine's files all there?
    os,             \* each operating system process
    obj             \* each Process object

controller == <<gate, process, state, disposed>>
calls == <<op, pc, after>>
notices == <<pending, seen>>
environment == <<runtime, os, obj>>
vars == <<controller, calls, notices, environment>>

-----------------------------------------------------------------------------
EngineStates == {"Missing", "Stopped", "Starting", "Running", "Stopping", "Faulted"}
Threads == Callers \cup Processes       \* a process's Exited callback is a thread of its own
Ops == {"start", "stop", "dispose"}
Pcs == {"idle", "waiting", "enter",
        "plan", "create", "launch", "delay", "probe", "early", "declare", "catch",
        "stopping", "kill", "await", "abandon", "settle",
        "returning", "throwing"}
OsStates == {"none", "alive", "stubborn", "killed", "zero", "failed"}
ObjStates == {"none", "created", "watching", "handling", "deciding", "notifying", "raised"}

TypeOK ==
    /\ gate \in Callers \cup {NoCaller}
    /\ process \in Processes \cup {NoProcess}
    /\ state \in EngineStates
    /\ disposed \in BOOLEAN
    /\ op \in [Callers -> Ops \cup {"none"}]
    /\ pc \in [Callers -> Pcs]
    /\ after \in [Callers -> {"settle", "catch"}]
    /\ pending \in [Threads -> EngineStates \cup {"none"}]
    /\ seen \in EngineStates
    /\ runtime \in BOOLEAN
    /\ os \in [Processes -> OsStates]
    /\ obj \in [Processes -> ObjStates]

(* HasCompleteRuntime, as the constructor and the settling calls read it.  *)
RestingState == IF runtime THEN "Stopped" ELSE "Missing"

Init ==
    /\ gate = NoCaller
    /\ process = NoProcess
    /\ disposed = FALSE
    /\ op = [c \in Callers |-> "none"]
    /\ pc = [c \in Callers |-> "idle"]
    /\ after = [c \in Callers |-> "settle"]
    /\ pending = [t \in Threads |-> "none"]
    /\ runtime \in BOOLEAN
    /\ state = RestingState
    /\ seen = state
    /\ os = [p \in Processes |-> "none"]
    /\ obj = [p \in Processes |-> "none"]

-----------------------------------------------------------------------------
(* The operating system process p and the Process object that watches it.  *)

(* A process whose Kill was refused is stubborn; one that exited by itself *)
(* has left an exit code of zero or another.                               *)
Live(p) == os[p] \in {"alive", "stubborn", "killed"}

(* The Exited event has been raised, so HasExited is true: reading it on   *)
(* an exited process raises the event first, on whichever thread gets      *)
(* there before the others.                                                *)
Raised(p) == obj[p] \in {"handling", "deciding", "notifying", "raised"}

(* Exited handlers run under the Process object's own lock, which Dispose  *)
(* takes: no handler is running and Dispose can proceed.                   *)
LockFree(p) == obj[p] \notin {"handling", "deciding", "notifying"}

(* Process.Dispose: the object stops watching, and a process still alive   *)
(* goes on without it.                                                     *)
DisposeObject(p) ==
    /\ LockFree(p)
    /\ obj' = [obj EXCEPT ![p] = "none"]
    /\ os' = [os EXCEPT ![p] = IF Live(p) THEN @ ELSE "none"]

(* DisposeProcess                                                          *)
DisposeProcess ==
    IF process = NoProcess
    THEN UNCHANGED <<process, os, obj>>
    ELSE DisposeObject(process) /\ process' = NoProcess

(* SetState by thread t: the assignment and the choice of the handler are  *)
(* atomic; the handler is called afterwards, outside the lock.             *)
SetState(t, new) ==
    /\ state' = new
    /\ pending' = [pending EXCEPT ![t] = IF new = state THEN "none" ELSE new]

-----------------------------------------------------------------------------
(* Calls: how they begin, take the gate and end.                           *)

Goto(c, to) == pc' = [pc EXCEPT ![c] = to]

(* c holds the gate, is at a given point and is not inside a subscriber.   *)
At(c, from) == pc[c] = from /\ pending[c] = "none"

Call(c, o) ==
    /\ pc[c] = "idle"
    /\ op' = [op EXCEPT ![c] = o]
    /\ Goto(c, "waiting")
    /\ UNCHANGED <<controller, after, notices, environment>>

(* WaitAsync(cancellationToken) throws; DisposeAsync passes no token.      *)
CancelWait(c) ==
    /\ pc[c] = "waiting" /\ op[c] # "dispose"
    /\ op' = [op EXCEPT ![c] = "none"]
    /\ Goto(c, "idle")
    /\ UNCHANGED <<controller, after, notices, environment>>

Acquire(c) ==
    /\ pc[c] = "waiting" /\ gate = NoCaller
    /\ gate' = c
    /\ Goto(c, "enter")
    /\ UNCHANGED <<process, state, disposed, op, after, notices, environment>>

(* _gate.Release() of the finally block.  DisposeAsync sets _disposed just *)
(* before, on the path that returns.                                       *)
Release(c) ==
    /\ At(c, "returning") \/ At(c, "throwing")
    /\ gate' = NoCaller
    /\ disposed' = (disposed \/ (op[c] = "dispose" /\ pc[c] = "returning"))
    /\ op' = [op EXCEPT ![c] = "none"]
    /\ Goto(c, "idle")
    /\ UNCHANGED <<process, state, after, notices, environment>>

-----------------------------------------------------------------------------
(* StartAsync                                                              *)

(* Fault: the early return is forgotten. *)
StartEnterAlways(c) ==
    /\ At(c, "enter") /\ op[c] = "start"
    /\ IF disposed
       THEN Goto(c, "catch") /\ UNCHANGED <<process, os, obj>>
       ELSE Goto(c, "plan") /\ DisposeProcess
    /\ UNCHANGED <<gate, state, disposed, op, after, notices, runtime>>

(* Fault: ThrowIfDisposed is forgotten. *)
StartEnterDisposed(c) ==
    /\ At(c, "enter") /\ op[c] = "start"
    /\ \/ /\ process # NoProcess /\ Live(process)
          /\ Goto(c, "returning")
          /\ UNCHANGED <<process, os, obj>>
       \/ /\ process # NoProcess => Raised(process)
          /\ DisposeProcess
          /\ Goto(c, "plan")
    /\ UNCHANGED <<gate, state, disposed, op, after, notices, runtime>>

(* ThrowIfDisposed, the early return when an engine is running, and the    *)
(* disposal of one that has exited.                                        *)
StartEnter(c) ==
    /\ At(c, "enter") /\ op[c] = "start"
    /\ \/ /\ disposed
          /\ Goto(c, "catch")
          /\ UNCHANGED <<process, os, obj>>
       \/ /\ ~disposed /\ process # NoProcess /\ Live(process)
          /\ Goto(c, "returning")
          /\ UNCHANGED <<process, os, obj>>
       \/ /\ ~disposed /\ (process # NoProcess => Raised(process))
          /\ DisposeProcess
          /\ Goto(c, "plan")
    /\ UNCHANGED <<gate, state, disposed, op, after, notices, runtime>>

(* FindMissingFiles: Missing and an exception, or Starting.                *)
StartPlan(c) ==
    /\ At(c, "plan")
    /\ IF runtime
       THEN SetState(c, "Starting") /\ Goto(c, "create")
       ELSE SetState(c, "Missing") /\ Goto(c, "catch")
    /\ UNCHANGED <<gate, process, disposed, op, after, seen, environment>>

(* Create, AttachProcess and the assignment of _process.                   *)
StartCreate(c) ==
    /\ At(c, "create")
    /\ \E p \in Processes :
          /\ obj[p] = "none" /\ os[p] = "none"
          /\ obj' = [obj EXCEPT ![p] = "created"]
          /\ process' = p
    /\ Goto(c, "launch")
    /\ UNCHANGED <<gate, state, disposed, op, after, notices, runtime, os>>

(* process.Start() succeeds, and BeginReading with it; or BeginReading     *)
(* throws; or Start throws; or Start returns false.                        *)
StartLaunch(c) ==
    /\ At(c, "launch")
    /\ \/ /\ os' = [os EXCEPT ![process] = "alive"]
          /\ obj' = [obj EXCEPT ![process] = "watching"]
          /\ Goto(c, "delay") \/ Goto(c, "catch")
          /\ UNCHANGED process
       \/ Goto(c, "catch") /\ UNCHANGED <<process, os, obj>>
       \/ Goto(c, "early") /\ DisposeProcess
    /\ UNCHANGED <<gate, state, disposed, op, after, notices, runtime>>

(* Task.Delay elapses, or the token is cancelled.                          *)
StartDelay(c) ==
    /\ At(c, "delay")
    /\ \/ Goto(c, "probe") /\ UNCHANGED after
       \/ Goto(c, "kill") /\ after' = [after EXCEPT ![c] = "settle"]
    /\ UNCHANGED <<controller, op, notices, environment>>

(* The probe of HasExited after the delay.                                 *)
StartProbe(c) ==
    /\ At(c, "probe")
    /\ \/ /\ Live(process)
          /\ Goto(c, "declare")
          /\ UNCHANGED <<process, os, obj>>
       \/ /\ Raised(process)
          /\ DisposeProcess
          /\ Goto(c, "early")
    /\ UNCHANGED <<gate, state, disposed, op, after, notices, runtime>>

(* SetState(Faulted) of a launch refused or an early exit, then the throw. *)
StartEarlyExit(c) ==
    /\ At(c, "early")
    /\ SetState(c, "Faulted")
    /\ Goto(c, "catch")
    /\ UNCHANGED <<gate, process, disposed, op, after, seen, environment>>

(* Fault: State is assigned without SetState. *)
StartDeclareSilently(c) ==
    /\ At(c, "declare")
    /\ state' = "Running"
    /\ Goto(c, "returning")
    /\ UNCHANGED <<gate, process, disposed, op, after, notices, environment>>

StartDeclare(c) ==
    /\ At(c, "declare")
    /\ SetState(c, "Running")
    /\ Goto(c, "returning")
    /\ UNCHANGED <<gate, process, disposed, op, after, seen, environment>>

(* The catch block: HasExited throws on a process never started, which is  *)
(* disposed all the same; a started one is terminated, and its failure     *)
(* logged; then Faulted, unless the state already rests.                   *)
StartCatch(c) ==
    /\ At(c, "catch")
    /\ \/ /\ process # NoProcess /\ obj[process] = "created"
          /\ DisposeProcess
          /\ UNCHANGED <<pc, after, state, pending>>
       \/ /\ process # NoProcess /\ obj[process] # "created"
          /\ Goto(c, "kill")
          /\ after' = [after EXCEPT ![c] = "catch"]
          /\ UNCHANGED <<process, os, obj, state, pending>>
       \/ /\ process = NoProcess
          /\ IF state \in {"Missing", "Stopped"}
             THEN UNCHANGED <<state, pending>>
             ELSE SetState(c, "Faulted")
          /\ Goto(c, "throwing")
          /\ UNCHANGED <<process, os, obj, after>>
    /\ UNCHANGED <<gate, disposed, op, seen, runtime>>

-----------------------------------------------------------------------------
(* StopAsync, DisposeAsync and StopCoreAsync                               *)

StopEnter(c) ==
    /\ At(c, "enter") /\ op[c] \in {"stop", "dispose"}
    /\ \/ /\ disposed                   \* StopAsync throws, DisposeAsync returns
          /\ Goto(c, IF op[c] = "stop" THEN "throwing" ELSE "returning")
          /\ UNCHANGED <<process, os, obj>>
       \/ /\ ~disposed /\ (process # NoProcess => Raised(process))
          /\ DisposeProcess
          /\ Goto(c, "settle")
       \/ /\ ~disposed /\ process # NoProcess /\ Live(process)
          /\ \/ Goto(c, "stopping")
             \/ op[c] = "stop" /\ Goto(c, "throwing")      \* cancelled
          /\ UNCHANGED <<process, os, obj>>
    /\ UNCHANGED <<gate, state, disposed, op, after, notices, runtime>>

(* Fault: the resting state is shown before the kill. *)
StopBeginAtRest(c) ==
    /\ At(c, "stopping")
    /\ SetState(c, RestingState)
    /\ Goto(c, "kill")
    /\ after' = [after EXCEPT ![c] = "settle"]
    /\ UNCHANGED <<gate, process, disposed, op, seen, environment>>

StopBegin(c) ==
    /\ At(c, "stopping")
    /\ SetState(c, "Stopping")
    /\ Goto(c, "kill")
    /\ after' = [after EXCEPT ![c] = "settle"]
    /\ UNCHANGED <<gate, process, disposed, op, seen, environment>>

(* Fault: the final state is forgotten. *)
SettleNot(c) ==
    /\ At(c, "settle")
    /\ Goto(c, IF op[c] = "start" THEN "catch" ELSE "returning")
    /\ UNCHANGED <<controller, op, after, notices, environment>>

(* SetState(HasCompleteRuntime() ? Stopped : Missing); a cancelled start   *)
(* then rethrows.                                                          *)
Settle(c) ==
    /\ At(c, "settle")
    /\ SetState(c, RestingState)
    /\ Goto(c, IF op[c] = "start" THEN "catch" ELSE "returning")
    /\ UNCHANGED <<gate, process, disposed, op, after, seen, environment>>

-----------------------------------------------------------------------------
(* TerminateAndDisposeProcessAsync                                         *)

(* Fault: the wait is started without the Kill. *)
TerminateNot(c) ==
    /\ At(c, "kill")
    /\ Goto(c, "await")
    /\ UNCHANGED <<controller, op, after, notices, environment>>

(* Kill of a live process succeeds or throws; a process that has exited in *)
(* the meantime needs none.                                                *)
Terminate(c) ==
    /\ At(c, "kill")
    /\ \/ /\ Live(process)
          /\ os' = [os EXCEPT ![process] = "killed"]
          /\ Goto(c, "await")
       \/ /\ KillMayFail /\ Live(process)
          /\ os' = [os EXCEPT ![process] = "stubborn"]
          /\ Goto(c, "abandon")
       \/ ~Live(process) /\ Goto(c, "await") /\ UNCHANGED os
    /\ UNCHANGED <<controller, op, after, notices, runtime, obj>>

(* WaitForExitAsync completes once Exited was raised; then DisposeProcess. *)
AwaitExit(c) ==
    /\ At(c, "await") /\ Raised(process)
    /\ DisposeProcess
    /\ Goto(c, after[c])
    /\ UNCHANGED <<gate, state, disposed, op, after, notices, runtime>>

(* Kill threw: DisposeProcess all the same, and the exception goes on.     *)
Abandon(c) ==
    /\ At(c, "abandon")
    /\ DisposeProcess
    /\ Goto(c, IF op[c] = "start" THEN "catch" ELSE "throwing")
    /\ UNCHANGED <<gate, state, disposed, op, after, notices, runtime>>

-----------------------------------------------------------------------------
(* HandleExit, on the thread that raises the Exited event of p.            *)

HandleExit(p) ==
    /\ obj[p] = "handling"
    /\ obj' = [obj EXCEPT ![p] =
                  IF process = p /\ state \in {"Running", "Starting"} THEN "deciding" ELSE "raised"]
    /\ UNCHANGED <<controller, calls, notices, runtime, os>>

HandleExitSetState(p) ==
    /\ obj[p] = "deciding"
    /\ SetState(p, IF os[p] = "zero" THEN "Stopped" ELSE "Faulted")
    /\ obj' = [obj EXCEPT ![p] = "notifying"]
    /\ UNCHANGED <<gate, process, disposed, calls, seen, runtime, os>>

HandleExitReturn(p) ==
    /\ obj[p] = "notifying" /\ pending[p] = "none"
    /\ obj' = [obj EXCEPT ![p] = "raised"]
    /\ UNCHANGED <<controller, calls, notices, runtime, os>>

-----------------------------------------------------------------------------
(* The environment: exits, the raising of Exited, subscribers, files.      *)

ProcessExit(p) ==
    /\ Live(p)
    /\ \E code \in {"zero", "failed"} :
          /\ os[p] = "killed" => code = "failed"
          /\ os' = [os EXCEPT ![p] = IF obj[p] = "none" THEN "none" ELSE code]
    /\ UNCHANGED <<controller, calls, notices, runtime, obj>>

RaiseExited(p) ==
    /\ obj[p] = "watching" /\ ~Live(p)
    /\ obj' = [obj EXCEPT ![p] = "handling"]
    /\ UNCHANGED <<controller, calls, notices, runtime, os>>

(* handler?.Invoke(state) returns: the subscriber has been given it.       *)
Deliver(t) ==
    /\ pending[t] # "none"
    /\ seen' = pending[t]
    /\ pending' = [pending EXCEPT ![t] = "none"]
    /\ UNCHANGED <<controller, calls, environment>>

RuntimeChange ==
    /\ runtime' = ~runtime
    /\ UNCHANGED <<controller, calls, notices, os, obj>>

-----------------------------------------------------------------------------
StartStep(c) ==
    \/ StartEnter(c) \/ StartPlan(c) \/ StartCreate(c) \/ StartLaunch(c) \/ StartDelay(c)
    \/ StartProbe(c) \/ StartEarlyExit(c) \/ StartDeclare(c) \/ StartCatch(c)

StopStep(c) ==
    \/ StopEnter(c) \/ StopBegin(c) \/ Settle(c)
    \/ Terminate(c) \/ AwaitExit(c) \/ Abandon(c)

CallerStep(c) == StartStep(c) \/ StopStep(c) \/ Release(c)
HandlerStep(p) == HandleExit(p) \/ HandleExitSetState(p) \/ HandleExitReturn(p)

Next ==
    \/ \E c \in Callers :
          \/ \E o \in Ops : Call(c, o)
          \/ CancelWait(c) \/ Acquire(c) \/ CallerStep(c)
    \/ \E p \in Processes : HandlerStep(p) \/ ProcessExit(p) \/ RaiseExited(p)
    \/ \E t \in Threads : Deliver(t)
    \/ RuntimeChange

Spec == Init /\ [][Next]_vars

(* Every thread goes on: a call's continuation runs, a handler returns, a  *)
(* subscriber returns, a killed process exits and an exit is raised.       *)
(* SemaphoreSlim hands the gate to its asynchronous waiters in order, so a *)
(* call that goes on waiting gets it.                                      *)
Fairness ==
    /\ \A c \in Callers : WF_vars(CallerStep(c)) /\ SF_vars(Acquire(c))
    /\ \A p \in Processes :
          /\ WF_vars(HandlerStep(p)) /\ WF_vars(RaiseExited(p))
          /\ WF_vars(os[p] = "killed" /\ ProcessExit(p))
    /\ \A t \in Threads : WF_vars(Deliver(t))

FairSpec == Spec /\ Fairness

-----------------------------------------------------------------------------
(* Safety *)

(* Two packet engines never run together under one controller.  Every      *)
(* process alive is the one _process refers to, or one whose Kill the      *)
(* operating system refused.                                               *)
SingleEngine ==
    \A p \in Processes : Live(p) => p = process \/ os[p] = "stubborn"

(* What holds whenever no call is inside: no transient state is left       *)
(* behind, a process alive and attached is shown Running, and a state that *)
(* rests has no engine under it.  A refused Kill alone leaves Stopping.    *)
AtRest ==
    gate = NoCaller =>
        /\ state # "Starting"
        /\ state = "Stopping" => KillMayFail /\ process = NoProcess
        /\ process = NoProcess => state # "Running"
        /\ process # NoProcess => obj[process] # "created"
        /\ process # NoProcess /\ Live(process) => state = "Running"

(* A StopAsync or DisposeAsync that returns leaves nothing to stop, and a  *)
(* state that says so: an exit reported while the engine was being killed  *)
(* has not the last word.  One that throws has left a process attached     *)
(* only where the token was cancelled before the Kill.                     *)
StopDelivers ==
    \A c \in Callers :
        /\ pc[c] = "returning" /\ op[c] \in {"stop", "dispose"} =>
              process = NoProcess /\ state \in {"Stopped", "Missing"}
        /\ pc[c] = "throwing" /\ op[c] = "stop" /\ process # NoProcess =>
              state \in {"Running", "Stopped", "Faulted"} /\ ~disposed

(* A StartAsync that returns has an engine attached, which is shown Running *)
(* while it is alive; one that throws, by whichever path, leaves no engine *)
(* attached and a state that rests.                                        *)
StartDelivers ==
    \A c \in Callers : op[c] = "start" =>
        /\ pc[c] = "returning" =>
              /\ process # NoProcess
              /\ Live(process) => state = "Running"
        /\ pc[c] = "throwing" =>
              /\ process = NoProcess
              /\ state \in {"Missing", "Stopped", "Faulted"}

(* Whichever call ends delivers what its method promises, by every path    *)
(* out of it.                                                              *)
Delivers == StartDelivers /\ StopDelivers

(* No thread is inside a subscriber. *)
AllDelivered == \A t \in Threads : pending[t] = "none"

(* Notifications are sent outside the lock and can overtake one another.   *)
(* Still, when all is quiet, a subscriber shows Running over an engine     *)
(* that is alive, and another state than State only if it shows Running or *)
(* Stopping, or if State is the Running of an engine whose exit was lost.  *)
SeenAtRest ==
    gate = NoCaller /\ AllDelivered =>
        /\ seen = state \/ state = "Running" \/ seen \in {"Running", "Stopping"}
        /\ process # NoProcess /\ Live(process) => seen = "Running"

(* After DisposeAsync has returned the controller never owns an engine     *)
(* again, whatever is called and whichever callback is late.               *)
DisposedIsFinal ==
    [][disposed => disposed' /\ process' = NoProcess /\ state' \in {"Stopped", "Missing"}]_vars

(* The engine the controller owns, as EngineLifecycle sees it.             *)
OwnedEngine ==
    IF process = NoProcess \/ obj[process] = "created" THEN "none"
    ELSE IF Live(process) THEN "on" ELSE "dead"

Lifecycle == INSTANCE EngineLifecycle WITH phase <- state, engine <- OwnedEngine

(* The controller keeps the contract of EngineLifecycle: a resting state   *)
(* is never shown over an engine that is on, an engine is launched only    *)
(* when there is none, and one is lost only when its Kill was refused.     *)

Contract == Lifecycle!Spec

(* The tests' and the README's expectation of an unexpected exit: once the *)
(* exit of the engine has been handled and no call is inside, the engine   *)
(* is no longer shown Running.                                             *)
ExitIsReported ==
    gate = NoCaller /\ process # NoProcess /\ obj[process] = "raised" => state # "Running"

-----------------------------------------------------------------------------
(* Liveness *)

(* The model has no slot left for another process: a bound of the model.   *)
Exhausted == \A p \in Processes : os[p] = "stubborn"

(* Every call ends: no order of calls, exits, callbacks, notifications and *)
(* refusals of Kill leaves a caller waiting.                               *)
CallsEnd == \A c \in Callers : pc[c] # "idle" ~> pc[c] = "idle" \/ Exhausted

-----------------------------------------------------------------------------
(* The inductive invariant behind SingleEngine, AtRest, StopDelivers,      *)
(* StartDelivers, DisposedIsFinal and Contract.                            *)

(* The gate is held by exactly the caller that is inside. *)
Inside(c) == pc[c] \notin {"idle", "waiting"}
GateInv ==
    \A c \in Callers :
        /\ Inside(c) <=> gate = c
        /\ pc[c] # "idle" => op[c] \in Ops

(* Process objects: only _process refers to one, and the state of the      *)
(* object agrees with its process's.                                       *)
Attached == process # NoProcess
ObjectInv ==
    /\ Attached => obj[process] # "none"
    /\ \A p \in Processes :
          /\ obj[p] # "none" => p = process
          /\ obj[p] = "none" => os[p] \in {"none", "stubborn"}
          /\ obj[p] = "created" => os[p] = "none"
          /\ obj[p] = "watching" => os[p] # "none"
          /\ Raised(p) => os[p] \in {"zero", "failed"}
          /\ os[p] = "stubborn" => KillMayFail

(* What AtRest says, which also holds at a caller's first and last points. *)
RestInv ==
    /\ state # "Starting"
    /\ state = "Stopping" => KillMayFail /\ ~Attached
    /\ ~Attached => state # "Running"
    /\ Attached => obj[process] # "created"
    /\ Attached /\ Live(process) => state = "Running"

(* An engine launched, under a state that was s when it was last seen alive *)
EngineUnder(s) ==
    /\ Attached /\ obj[process] # "created"
    /\ state \in {s, "Stopped", "Faulted"}
    /\ Live(process) => state = s

StartPcs == {"plan", "create", "launch", "delay", "probe", "early", "declare", "catch"}

(* What the holder of the gate knows at each point. *)
CallInv(c) ==
    /\ pc[c] \in StartPcs => op[c] = "start"
    /\ pc[c] = "stopping" => op[c] # "start"
    /\ pc[c] \in {"enter", "stopping", "returning", "throwing"} => RestInv
    /\ pc[c] = "stopping" => Attached /\ obj[process] # "created"
    /\ pc[c] \in {"plan", "create", "early", "settle"} => ~Attached
    /\ pc[c] \in {"create", "launch"} => state = "Starting"
    /\ pc[c] = "launch" => Attached /\ obj[process] = "created"
    /\ pc[c] \in {"delay", "probe", "declare"} => EngineUnder("Starting")
    /\ pc[c] = "catch" =>
          ~Attached \/ (obj[process] = "created" /\ state = "Starting") \/ EngineUnder("Starting")
    /\ pc[c] \in {"kill", "await", "abandon"} =>
          EngineUnder(IF op[c] = "start" THEN "Starting" ELSE "Stopping")
    /\ pc[c] \in {"kill", "await"} /\ op[c] # "start" => after[c] = "settle"
    /\ pc[c] = "abandon" => os[process] \in {"stubborn", "zero", "failed"} /\ KillMayFail

DisposedInv ==
    disposed =>
        /\ ~Attached /\ state \in {"Stopped", "Missing"}
        /\ \A c \in Callers :
              Inside(c) => pc[c] \in {"enter", "catch", "returning", "throwing"}

IInv ==
    /\ TypeOK /\ GateInv /\ ObjectInv /\ DisposedInv
    /\ Attached => state # "Missing"
    /\ gate = NoCaller => RestInv
    /\ gate # NoCaller => CallInv(gate)
    /\ StopDelivers /\ StartDelivers

-----------------------------------------------------------------------------
(* The inductive invariant behind SeenAtRest, with IInv.                   *)

(* The exit handler of the attached engine has not changed State yet, or   *)
(* has had its chance to.                                                  *)
Unreported == Attached /\ obj[process] \in {"created", "watching", "handling", "deciding"}
Reported == Attached /\ obj[process] \in {"notifying", "raised"}

(* Two notifications are under way at most: the holder's and the handler's.*)
(* With an engine attached a holder announces Running or Stopping only.    *)
NoticesInv ==
    /\ \A c \in Callers : pending[c] # "none" =>
          /\ gate = c
          /\ Attached => pending[c] \in {"Running", "Stopping"}
    /\ \A p \in Processes : pending[p] # "none" =>
          obj[p] = "notifying" /\ pending[p] \in {"Stopped", "Faulted"}

(* The one that is not State's was sent before the other.                  *)
LatestInv ==
    /\ \A c \in Callers : pending[c] # "none" =>
          pending[c] = state \/ (Reported /\ state \in {"Stopped", "Faulted"})
    /\ \A p \in Processes : pending[p] # "none" =>
          pending[p] = state \/ state \in {"Running", "Stopping"}

(* What the subscriber has been left with when none is under way.          *)
QuietInv ==
    AllDelivered =>
        \/ seen = state
        \/ seen \in {"Running", "Stopping"} /\ state \in {"Stopped", "Faulted"}
        \/ state = "Running" /\ ~Unreported
        \/ state = "Stopping" /\ (Reported \/ \E c \in Callers : gate = c /\ pc[c] = "settle")

(* Stopping has been shown before the Kill that was refused.               *)
RefusedInv ==
    \A c \in Callers : pc[c] = "abandon" /\ op[c] # "start" =>
        /\ state = "Stopping" /\ seen = "Stopping" /\ AllDelivered
        /\ obj[process] \notin {"deciding", "notifying"}

SeenInv == NoticesInv /\ LatestInv /\ QuietInv /\ RefusedInv
=============================================================================
