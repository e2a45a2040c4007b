------------------------ MODULE EngineControllerProofs ------------------------
(***************************************************************************)
(* Proofs about EngineController, for any set of callers and of process    *)
(* slots.  IInv is inductive (one lemma per action, one step per part of   *)
(* IInv that the action can disturb); from it follow the type invariant,   *)
(* one engine at a time, what holds at rest, what a call delivers, the     *)
(* finality of DisposeAsync, and the refinement of EngineLifecycle.        *)
(***************************************************************************)
EXTENDS EngineController, TLAPS

USE CallersAssumption, KillAssumption
USE DEF EngineStates, Threads, Ops, Pcs, OsStates, ObjStates
USE DEF controller, calls, notices, environment, At, Goto, Live, Raised, Attached

-----------------------------------------------------------------------------
(* The caller inside holds the gate, and knows what its point says. *)
LEMMA HolderInside ==
    ASSUME IInv, NEW c \in Callers, Inside(c)
    PROVE  gate = c /\ CallInv(c) /\ \A d \in Callers : Inside(d) => d = c
BY DEF IInv, GateInv

-----------------------------------------------------------------------------
(* The steps of a caller that is inside. *)

LEMMA StartEnterInv ==
    ASSUME IInv, NEW c \in Callers, StartEnter(c)
    PROVE  IInv'
<1> USE DEF StartEnter, DisposeProcess, DisposeObject, LockFree
<1>1. gate = c /\ CallInv(c) /\ \A d \in Callers : Inside(d) => d = c
  BY HolderInside DEF Inside
<1>2. TypeOK'
  BY <1>1 DEF IInv, TypeOK, CallInv, EngineUnder, StartPcs
<1>3. GateInv' /\ ObjectInv'
  BY <1>1, <1>2 DEF IInv, TypeOK, GateInv, ObjectInv, CallInv, EngineUnder, Inside, StartPcs
<1>4. DisposedInv'
  BY <1>1, <1>2 DEF IInv, TypeOK, ObjectInv, DisposedInv, CallInv, Inside, StopDelivers
<1>5. (Attached => state # "Missing")' /\ (gate = NoCaller => RestInv)'
  BY <1>1, <1>2 DEF IInv, TypeOK, ObjectInv, CallInv, EngineUnder, RestInv
<1>6. (gate # NoCaller => CallInv(gate))'
  BY <1>1, <1>2 DEF IInv, TypeOK, GateInv, Inside, ObjectInv, DisposedInv, CallInv, EngineUnder, RestInv,
                    StartPcs
<1>7. StopDelivers' /\ StartDelivers'
  BY <1>1, <1>2, <1>3 DEF IInv, TypeOK, GateInv, ObjectInv, DisposedInv, CallInv, EngineUnder,
                          RestInv, Inside, StopDelivers, StartDelivers, StartPcs
<1>8. QED
  BY <1>2, <1>3, <1>4, <1>5, <1>6, <1>7 DEF IInv

LEMMA StartPlanInv ==
    ASSUME IInv, NEW c \in Callers, StartPlan(c)
    PROVE  IInv'
<1> USE DEF StartPlan, SetState
<1>1. gate = c /\ CallInv(c) /\ \A d \in Callers : Inside(d) => d = c
  BY HolderInside DEF Inside
<1>2. TypeOK'
  BY <1>1 DEF IInv, TypeOK, CallInv, EngineUnder, StartPcs
<1>3. GateInv' /\ ObjectInv'
  BY <1>1, <1>2 DEF IInv, TypeOK, GateInv, ObjectInv, CallInv, EngineUnder, Inside, StartPcs
<1>4. DisposedInv'
  BY <1>1, <1>2 DEF IInv, TypeOK, ObjectInv, DisposedInv, CallInv, Inside, StopDelivers
<1>5. (Attached => state # "Missing")' /\ (gate = NoCaller => RestInv)'
  BY <1>1, <1>2 DEF IInv, TypeOK, ObjectInv, CallInv, EngineUnder, RestInv
<1>6. (gate # NoCaller => CallInv(gate))'
  BY <1>1, <1>2 DEF IInv, TypeOK, GateInv, Inside, ObjectInv, DisposedInv, CallInv, EngineUnder, RestInv,
                    StartPcs
<1>7. StopDelivers' /\ StartDelivers'
  BY <1>1, <1>2, <1>3 DEF IInv, TypeOK, GateInv, ObjectInv, DisposedInv, CallInv, EngineUnder,
                          RestInv, Inside, StopDelivers, StartDelivers, StartPcs
<1>8. QED
  BY <1>2, <1>3, <1>4, <1>5, <1>6, <1>7 DEF IInv

LEMMA StartCreateInv ==
    ASSUME IInv, NEW c \in Callers, StartCreate(c)
    PROVE  IInv'
<1> USE DEF StartCreate
<1>1. gate = c /\ CallInv(c) /\ \A d \in Callers : Inside(d) => d = c
  BY HolderInside DEF Inside
<1>2. TypeOK'
  BY <1>1 DEF IInv, TypeOK, CallInv, EngineUnder, StartPcs
<1>3. GateInv' /\ ObjectInv'
  BY <1>1, <1>2 DEF IInv, TypeOK, GateInv, ObjectInv, CallInv, EngineUnder, Inside, StartPcs
<1>4. DisposedInv'
  BY <1>1, <1>2 DEF IInv, TypeOK, ObjectInv, DisposedInv, CallInv, Inside, StopDelivers
<1>5. (Attached => state # "Missing")' /\ (gate = NoCaller => RestInv)'
  BY <1>1, <1>2 DEF IInv, TypeOK, ObjectInv, CallInv, EngineUnder, RestInv
<1>6. (gate # NoCaller => CallInv(gate))'
  BY <1>1, <1>2 DEF IInv, TypeOK, GateInv, Inside, ObjectInv, DisposedInv, CallInv, EngineUnder, RestInv,
                    StartPcs
<1>7. StopDelivers' /\ StartDelivers'
  BY <1>1, <1>2, <1>3 DEF IInv, TypeOK, GateInv, ObjectInv, DisposedInv, CallInv, EngineUnder,
                          RestInv, Inside, StopDelivers, StartDelivers, StartPcs
<1>8. QED
  BY <1>2, <1>3, <1>4, <1>5, <1>6, <1>7 DEF IInv

LEMMA StartLaunchInv ==
    ASSUME IInv, NEW c \in Callers, StartLaunch(c)
    PROVE  IInv'
<1> USE DEF StartLaunch, DisposeProcess, DisposeObject, LockFree
<1>1. gate = c /\ CallInv(c) /\ \A d \in Callers : Inside(d) => d = c
  BY HolderInside DEF Inside
<1>2. TypeOK'
  BY <1>1 DEF IInv, TypeOK, CallInv, EngineUnder, StartPcs
<1>3. GateInv' /\ ObjectInv'
  BY <1>1, <1>2 DEF IInv, TypeOK, GateInv, ObjectInv, CallInv, EngineUnder, Inside, StartPcs
<1>4. DisposedInv'
  BY <1>1, <1>2 DEF IInv, TypeOK, ObjectInv, DisposedInv, CallInv, Inside, StopDelivers
<1>5. (Attached => state # "Missing")' /\ (gate = NoCaller => RestInv)'
  BY <1>1, <1>2 DEF IInv, TypeOK, ObjectInv, CallInv, EngineUnder, RestInv
<1>6. (gate # NoCaller => CallInv(gate))'
  BY <1>1, <1>2 DEF IInv, TypeOK, GateInv, Inside, ObjectInv, DisposedInv, CallInv, EngineUnder, RestInv,
                    StartPcs
<1>7. StopDelivers' /\ StartDelivers'
  BY <1>1, <1>2, <1>3 DEF IInv, TypeOK, GateInv, ObjectInv, DisposedInv, CallInv, EngineUnder,
                          RestInv, Inside, StopDelivers, StartDelivers, StartPcs
<1>8. QED
  BY <1>2, <1>3, <1>4, <1>5, <1>6, <1>7 DEF IInv

LEMMA StartDelayInv ==
    ASSUME IInv, NEW c \in Callers, StartDelay(c)
    PROVE  IInv'
<1> USE DEF StartDelay
<1>1. gate = c /\ CallInv(c) /\ \A d \in Callers : Inside(d) => d = c
  BY HolderInside DEF Inside
<1>2. TypeOK'
  BY <1>1 DEF IInv, TypeOK, CallInv, EngineUnder, StartPcs
<1>3. GateInv' /\ ObjectInv'
  BY <1>1, <1>2 DEF IInv, TypeOK, GateInv, ObjectInv, CallInv, EngineUnder, Inside, StartPcs
<1>4. DisposedInv'
  BY <1>1, <1>2 DEF IInv, TypeOK, ObjectInv, DisposedInv, CallInv, Inside, StopDelivers
<1>5. (Attached => state # "Missing")' /\ (gate = NoCaller => RestInv)'
  BY <1>1, <1>2 DEF IInv, TypeOK, ObjectInv, CallInv, EngineUnder, RestInv
<1>6. (gate # NoCaller => CallInv(gate))'
  BY <1>1, <1>2 DEF IInv, TypeOK, GateInv, Inside, ObjectInv, DisposedInv, CallInv, EngineUnder, RestInv,
                    StartPcs
<1>7. StopDelivers' /\ StartDelivers'
  BY <1>1, <1>2, <1>3 DEF IInv, TypeOK, GateInv, ObjectInv, DisposedInv, CallInv, EngineUnder,
                          RestInv, Inside, StopDelivers, StartDelivers, StartPcs
<1>8. QED
  BY <1>2, <1>3, <1>4, <1>5, <1>6, <1>7 DEF IInv

LEMMA StartProbeInv ==
    ASSUME IInv, NEW c \in Callers, StartProbe(c)
    PROVE  IInv'
<1> USE DEF StartProbe, DisposeProcess, DisposeObject, LockFree
<1>1. gate = c /\ CallInv(c) /\ \A d \in Callers : Inside(d) => d = c
  BY HolderInside DEF Inside
<1>2. TypeOK'
  BY <1>1 DEF IInv, TypeOK, CallInv, EngineUnder, StartPcs
<1>3. GateInv' /\ ObjectInv'
  BY <1>1, <1>2 DEF IInv, TypeOK, GateInv, ObjectInv, CallInv, EngineUnder, Inside, StartPcs
<1>4. DisposedInv'
  BY <1>1, <1>2 DEF IInv, TypeOK, ObjectInv, DisposedInv, CallInv, Inside, StopDelivers
<1>5. (Attached => state # "Missing")' /\ (gate = NoCaller => RestInv)'
  BY <1>1, <1>2 DEF IInv, TypeOK, ObjectInv, CallInv, EngineUnder, RestInv
<1>6. (gate # NoCaller => CallInv(gate))'
  BY <1>1, <1>2 DEF IInv, TypeOK, GateInv, Inside, ObjectInv, DisposedInv, CallInv, EngineUnder, RestInv,
                    StartPcs
<1>7. StopDelivers' /\ StartDelivers'
  BY <1>1, <1>2, <1>3 DEF IInv, TypeOK, GateInv, ObjectInv, DisposedInv, CallInv, EngineUnder,
                          RestInv, Inside, StopDelivers, StartDelivers, StartPcs
<1>8. QED
  BY <1>2, <1>3, <1>4, <1>5, <1>6, <1>7 DEF IInv

LEMMA StartEarlyExitInv ==
    ASSUME IInv, NEW c \in Callers, StartEarlyExit(c)
    PROVE  IInv'
<1> USE DEF StartEarlyExit, SetState
<1>1. gate = c /\ CallInv(c) /\ \A d \in Callers : Inside(d) => d = c
  BY HolderInside DEF Inside
<1>2. TypeOK'
  BY <1>1 DEF IInv, TypeOK, CallInv, EngineUnder, StartPcs
<1>3. GateInv' /\ ObjectInv'
  BY <1>1, <1>2 DEF IInv, TypeOK, GateInv, ObjectInv, CallInv, EngineUnder, Inside, StartPcs
<1>4. DisposedInv'
  BY <1>1, <1>2 DEF IInv, TypeOK, ObjectInv, DisposedInv, CallInv, Inside, StopDelivers
<1>5. (Attached => state # "Missing")' /\ (gate = NoCaller => RestInv)'
  BY <1>1, <1>2 DEF IInv, TypeOK, ObjectInv, CallInv, EngineUnder, RestInv
<1>6. (gate # NoCaller => CallInv(gate))'
  BY <1>1, <1>2 DEF IInv, TypeOK, GateInv, Inside, ObjectInv, DisposedInv, CallInv, EngineUnder, RestInv,
                    StartPcs
<1>7. StopDelivers' /\ StartDelivers'
  BY <1>1, <1>2, <1>3 DEF IInv, TypeOK, GateInv, ObjectInv, DisposedInv, CallInv, EngineUnder,
                          RestInv, Inside, StopDelivers, StartDelivers, StartPcs
<1>8. QED
  BY <1>2, <1>3, <1>4, <1>5, <1>6, <1>7 DEF IInv

LEMMA StartDeclareInv ==
    ASSUME IInv, NEW c \in Callers, StartDeclare(c)
    PROVE  IInv'
<1> USE DEF StartDeclare, SetState
<1>1. gate = c /\ CallInv(c) /\ \A d \in Callers : Inside(d) => d = c
  BY HolderInside DEF Inside
<1>2. TypeOK'
  BY <1>1 DEF IInv, TypeOK, CallInv, EngineUnder, StartPcs
<1>3. GateInv' /\ ObjectInv'
  BY <1>1, <1>2 DEF IInv, TypeOK, GateInv, ObjectInv, CallInv, EngineUnder, Inside, StartPcs
<1>4. DisposedInv'
  BY <1>1, <1>2 DEF IInv, TypeOK, ObjectInv, DisposedInv, CallInv, Inside, StopDelivers
<1>5. (Attached => state # "Missing")' /\ (gate = NoCaller => RestInv)'
  BY <1>1, <1>2 DEF IInv, TypeOK, ObjectInv, CallInv, EngineUnder, RestInv
<1>6. (gate # NoCaller => CallInv(gate))'
  BY <1>1, <1>2 DEF IInv, TypeOK, GateInv, Inside, ObjectInv, DisposedInv, CallInv, EngineUnder, RestInv,
                    StartPcs
<1>7. StopDelivers' /\ StartDelivers'
  BY <1>1, <1>2, <1>3 DEF IInv, TypeOK, GateInv, ObjectInv, DisposedInv, CallInv, EngineUnder,
                          RestInv, Inside, StopDelivers, StartDelivers, StartPcs
<1>8. QED
  BY <1>2, <1>3, <1>4, <1>5, <1>6, <1>7 DEF IInv

LEMMA StartCatchInv ==
    ASSUME IInv, NEW c \in Callers, StartCatch(c)
    PROVE  IInv'
<1> USE DEF StartCatch, SetState, DisposeProcess, DisposeObject, LockFree
<1>1. gate = c /\ CallInv(c) /\ \A d \in Callers : Inside(d) => d = c
  BY HolderInside DEF Inside
<1>2. TypeOK'
  BY <1>1 DEF IInv, TypeOK, CallInv, EngineUnder, StartPcs
<1>3. GateInv' /\ ObjectInv'
  BY <1>1, <1>2 DEF IInv, TypeOK, GateInv, ObjectInv, CallInv, EngineUnder, Inside, StartPcs
<1>4. DisposedInv'
  BY <1>1, <1>2 DEF IInv, TypeOK, ObjectInv, DisposedInv, CallInv, Inside, StopDelivers
<1>5. (Attached => state # "Missing")' /\ (gate = NoCaller => RestInv)'
  BY <1>1, <1>2 DEF IInv, TypeOK, ObjectInv, CallInv, EngineUnder, RestInv
<1>6. (gate # NoCaller => CallInv(gate))'
  BY <1>1, <1>2 DEF IInv, TypeOK, GateInv, Inside, ObjectInv, DisposedInv, CallInv, EngineUnder, RestInv,
                    StartPcs
<1>7. StopDelivers' /\ StartDelivers'
  BY <1>1, <1>2, <1>3 DEF IInv, TypeOK, GateInv, ObjectInv, DisposedInv, CallInv, EngineUnder,
                          RestInv, Inside, StopDelivers, StartDelivers, StartPcs
<1>8. QED
  BY <1>2, <1>3, <1>4, <1>5, <1>6, <1>7 DEF IInv

LEMMA StopEnterInv ==
    ASSUME IInv, NEW c \in Callers, StopEnter(c)
    PROVE  IInv'
<1> USE DEF StopEnter, DisposeProcess, DisposeObject, LockFree
<1>1. gate = c /\ CallInv(c) /\ \A d \in Callers : Inside(d) => d = c
  BY HolderInside DEF Inside
<1>2. TypeOK'
  BY <1>1 DEF IInv, TypeOK, CallInv, EngineUnder, StartPcs
<1>3. GateInv' /\ ObjectInv'
  BY <1>1, <1>2 DEF IInv, TypeOK, GateInv, ObjectInv, CallInv, EngineUnder, Inside, StartPcs
<1>4. DisposedInv'
  BY <1>1, <1>2 DEF IInv, TypeOK, ObjectInv, DisposedInv, CallInv, Inside, StopDelivers
<1>5. (Attached => state # "Missing")' /\ (gate = NoCaller => RestInv)'
  BY <1>1, <1>2 DEF IInv, TypeOK, ObjectInv, CallInv, EngineUnder, RestInv
<1>6. (gate # NoCaller => CallInv(gate))'
  BY <1>1, <1>2 DEF IInv, TypeOK, GateInv, Inside, ObjectInv, DisposedInv, CallInv, EngineUnder, RestInv,
                    StartPcs
<1>7. StopDelivers' /\ StartDelivers'
  BY <1>1, <1>2, <1>3 DEF IInv, TypeOK, GateInv, ObjectInv, DisposedInv, CallInv, EngineUnder,
                          RestInv, Inside, StopDelivers, StartDelivers, StartPcs
<1>8. QED
  BY <1>2, <1>3, <1>4, <1>5, <1>6, <1>7 DEF IInv

LEMMA StopBeginInv ==
    ASSUME IInv, NEW c \in Callers, StopBegin(c)
    PROVE  IInv'
<1> USE DEF StopBegin, SetState
<1>1. gate = c /\ CallInv(c) /\ \A d \in Callers : Inside(d) => d = c
  BY HolderInside DEF Inside
<1>2. TypeOK'
  BY <1>1 DEF IInv, TypeOK, CallInv, EngineUnder, StartPcs
<1>3. GateInv' /\ ObjectInv'
  BY <1>1, <1>2 DEF IInv, TypeOK, GateInv, ObjectInv, CallInv, EngineUnder, Inside, StartPcs
<1>4. DisposedInv'
  BY <1>1, <1>2 DEF IInv, TypeOK, ObjectInv, DisposedInv, CallInv, Inside, StopDelivers
<1>5. (Attached => state # "Missing")' /\ (gate = NoCaller => RestInv)'
  BY <1>1, <1>2 DEF IInv, TypeOK, ObjectInv, CallInv, EngineUnder, RestInv
<1>6. (gate # NoCaller => CallInv(gate))'
  BY <1>1, <1>2 DEF IInv, TypeOK, GateInv, Inside, ObjectInv, DisposedInv, CallInv, EngineUnder, RestInv,
                    StartPcs
<1>7. StopDelivers' /\ StartDelivers'
  BY <1>1, <1>2, <1>3 DEF IInv, TypeOK, GateInv, ObjectInv, DisposedInv, CallInv, EngineUnder,
                          RestInv, Inside, StopDelivers, StartDelivers, StartPcs
<1>8. QED
  BY <1>2, <1>3, <1>4, <1>5, <1>6, <1>7 DEF IInv

LEMMA SettleInv ==
    ASSUME IInv, NEW c \in Callers, Settle(c)
    PROVE  IInv'
<1> USE DEF Settle, SetState, RestingState
<1>1. gate = c /\ CallInv(c) /\ \A d \in Callers : Inside(d) => d = c
  BY HolderInside DEF Inside
<1>2. TypeOK'
  BY <1>1 DEF IInv, TypeOK, CallInv, EngineUnder, StartPcs
<1>3. GateInv' /\ ObjectInv'
  BY <1>1, <1>2 DEF IInv, TypeOK, GateInv, ObjectInv, CallInv, EngineUnder, Inside, StartPcs
<1>4. DisposedInv'
  BY <1>1, <1>2 DEF IInv, TypeOK, ObjectInv, DisposedInv, CallInv, Inside, StopDelivers
<1>5. (Attached => state # "Missing")' /\ (gate = NoCaller => RestInv)'
  BY <1>1, <1>2 DEF IInv, TypeOK, ObjectInv, CallInv, EngineUnder, RestInv
<1>6. (gate # NoCaller => CallInv(gate))'
  BY <1>1, <1>2 DEF IInv, TypeOK, GateInv, Inside, ObjectInv, DisposedInv, CallInv, EngineUnder, RestInv,
                    StartPcs
<1>7. StopDelivers' /\ StartDelivers'
  BY <1>1, <1>2, <1>3 DEF IInv, TypeOK, GateInv, ObjectInv, DisposedInv, CallInv, EngineUnder,
                          RestInv, Inside, StopDelivers, StartDelivers, StartPcs
<1>8. QED
  BY <1>2, <1>3, <1>4, <1>5, <1>6, <1>7 DEF IInv

LEMMA TerminateInv ==
    ASSUME IInv, NEW c \in Callers, Terminate(c)
    PROVE  IInv'
<1> USE DEF Terminate
<1>1. gate = c /\ CallInv(c) /\ \A d \in Callers : Inside(d) => d = c
  BY HolderInside DEF Inside
<1>2. TypeOK'
  BY <1>1 DEF IInv, TypeOK, CallInv, EngineUnder, StartPcs
<1>3. GateInv' /\ ObjectInv'
  BY <1>1, <1>2 DEF IInv, TypeOK, GateInv, ObjectInv, CallInv, EngineUnder, Inside, StartPcs
<1>4. DisposedInv'
  BY <1>1, <1>2 DEF IInv, TypeOK, ObjectInv, DisposedInv, CallInv, Inside, StopDelivers
<1>5. (Attached => state # "Missing")' /\ (gate = NoCaller => RestInv)'
  BY <1>1, <1>2 DEF IInv, TypeOK, ObjectInv, CallInv, EngineUnder, RestInv
<1>6. (gate # NoCaller => CallInv(gate))'
  BY <1>1, <1>2 DEF IInv, TypeOK, GateInv, Inside, ObjectInv, DisposedInv, CallInv, EngineUnder, RestInv,
                    StartPcs
<1>7. StopDelivers' /\ StartDelivers'
  BY <1>1, <1>2, <1>3 DEF IInv, TypeOK, GateInv, ObjectInv, DisposedInv, CallInv, EngineUnder,
                          RestInv, Inside, StopDelivers, StartDelivers, StartPcs
<1>8. QED
  BY <1>2, <1>3, <1>4, <1>5, <1>6, <1>7 DEF IInv

LEMMA AwaitExitInv ==
    ASSUME IInv, NEW c \in Callers, AwaitExit(c)
    PROVE  IInv'
<1> USE DEF AwaitExit, DisposeProcess, DisposeObject, LockFree
<1>1. gate = c /\ CallInv(c) /\ \A d \in Callers : Inside(d) => d = c
  BY HolderInside DEF Inside
<1>2. TypeOK'
  BY <1>1 DEF IInv, TypeOK, CallInv, EngineUnder, StartPcs
<1>3. GateInv' /\ ObjectInv'
  BY <1>1, <1>2 DEF IInv, TypeOK, GateInv, ObjectInv, CallInv, EngineUnder, Inside, StartPcs
<1>4. DisposedInv'
  BY <1>1, <1>2 DEF IInv, TypeOK, ObjectInv, DisposedInv, CallInv, Inside, StopDelivers
<1>5. (Attached => state # "Missing")' /\ (gate = NoCaller => RestInv)'
  BY <1>1, <1>2 DEF IInv, TypeOK, ObjectInv, CallInv, EngineUnder, RestInv
<1>6. (gate # NoCaller => CallInv(gate))'
  BY <1>1, <1>2 DEF IInv, TypeOK, GateInv, Inside, ObjectInv, DisposedInv, CallInv, EngineUnder, RestInv,
                    StartPcs
<1>7. StopDelivers' /\ StartDelivers'
  BY <1>1, <1>2, <1>3 DEF IInv, TypeOK, GateInv, ObjectInv, DisposedInv, CallInv, EngineUnder,
                          RestInv, Inside, StopDelivers, StartDelivers, StartPcs
<1>8. QED
  BY <1>2, <1>3, <1>4, <1>5, <1>6, <1>7 DEF IInv

LEMMA AbandonInv ==
    ASSUME IInv, NEW c \in Callers, Abandon(c)
    PROVE  IInv'
<1> USE DEF Abandon, DisposeProcess, DisposeObject, LockFree
<1>1. gate = c /\ CallInv(c) /\ \A d \in Callers : Inside(d) => d = c
  BY HolderInside DEF Inside
<1>2. TypeOK'
  BY <1>1 DEF IInv, TypeOK, CallInv, EngineUnder, StartPcs
<1>3. GateInv' /\ ObjectInv'
  BY <1>1, <1>2 DEF IInv, TypeOK, GateInv, ObjectInv, CallInv, EngineUnder, Inside, StartPcs
<1>4. DisposedInv'
  BY <1>1, <1>2 DEF IInv, TypeOK, ObjectInv, DisposedInv, CallInv, Inside, StopDelivers
<1>5. (Attached => state # "Missing")' /\ (gate = NoCaller => RestInv)'
  BY <1>1, <1>2 DEF IInv, TypeOK, ObjectInv, CallInv, EngineUnder, RestInv
<1>6. (gate # NoCaller => CallInv(gate))'
  BY <1>1, <1>2 DEF IInv, TypeOK, GateInv, Inside, ObjectInv, DisposedInv, CallInv, EngineUnder, RestInv,
                    StartPcs
<1>7. StopDelivers' /\ StartDelivers'
  BY <1>1, <1>2, <1>3 DEF IInv, TypeOK, GateInv, ObjectInv, DisposedInv, CallInv, EngineUnder,
                          RestInv, Inside, StopDelivers, StartDelivers, StartPcs
<1>8. QED
  BY <1>2, <1>3, <1>4, <1>5, <1>6, <1>7 DEF IInv

LEMMA ReleaseInv ==
    ASSUME IInv, NEW c \in Callers, Release(c)
    PROVE  IInv'
<1> USE DEF Release
<1>1. gate = c /\ CallInv(c) /\ \A d \in Callers : Inside(d) => d = c
  BY HolderInside DEF Inside
<1>2. TypeOK'
  BY <1>1 DEF IInv, TypeOK, CallInv, EngineUnder, StartPcs
<1>3. GateInv' /\ ObjectInv'
  BY <1>1, <1>2 DEF IInv, TypeOK, GateInv, ObjectInv, CallInv, EngineUnder, Inside, StartPcs
<1>4. DisposedInv'
  BY <1>1, <1>2 DEF IInv, TypeOK, ObjectInv, DisposedInv, CallInv, Inside, StopDelivers
<1>5. (Attached => state # "Missing")' /\ (gate = NoCaller => RestInv)'
  BY <1>1, <1>2 DEF IInv, TypeOK, ObjectInv, CallInv, EngineUnder, RestInv
<1>6. (gate # NoCaller => CallInv(gate))'
  BY <1>1, <1>2 DEF IInv, TypeOK, GateInv, Inside, ObjectInv, DisposedInv, CallInv, EngineUnder, RestInv,
                    StartPcs
<1>7. StopDelivers' /\ StartDelivers'
  BY <1>1, <1>2, <1>3 DEF IInv, TypeOK, GateInv, ObjectInv, DisposedInv, CallInv, EngineUnder,
                          RestInv, Inside, StopDelivers, StartDelivers, StartPcs
<1>8. QED
  BY <1>2, <1>3, <1>4, <1>5, <1>6, <1>7 DEF IInv

-----------------------------------------------------------------------------
(* The steps of callers outside, of the exit handler and of the environment. *)

LEMMA CallBeginsInv ==
    ASSUME IInv, NEW c \in Callers, NEW o \in Ops, Call(c, o)
    PROVE  IInv'
<1> USE DEF Call
<1>1. TypeOK'
  BY DEF IInv, TypeOK
<1>2. GateInv' /\ ObjectInv'
  BY <1>1 DEF IInv, TypeOK, GateInv, ObjectInv, Inside
<1>3. DisposedInv'
  BY <1>1 DEF IInv, TypeOK, ObjectInv, DisposedInv, Inside
<1>4. (Attached => state # "Missing")' /\ (gate = NoCaller => RestInv)'
  BY <1>1 DEF IInv, TypeOK, ObjectInv, RestInv
<1>5. (gate # NoCaller => CallInv(gate))'
  BY <1>1, <1>2 DEF IInv, TypeOK, GateInv, Inside, ObjectInv, DisposedInv, CallInv, EngineUnder, RestInv,
                    StartPcs
<1>6. StopDelivers' /\ StartDelivers'
  BY <1>1, <1>2 DEF IInv, TypeOK, GateInv, ObjectInv, DisposedInv, CallInv, EngineUnder, RestInv,
                    Inside, StopDelivers, StartDelivers, StartPcs
<1>7. QED
  BY <1>1, <1>2, <1>3, <1>4, <1>5, <1>6 DEF IInv

LEMMA CancelWaitInv ==
    ASSUME IInv, NEW c \in Callers, CancelWait(c)
    PROVE  IInv'
<1> USE DEF CancelWait
<1>1. TypeOK'
  BY DEF IInv, TypeOK
<1>2. GateInv' /\ ObjectInv'
  BY <1>1 DEF IInv, TypeOK, GateInv, ObjectInv, Inside
<1>3. DisposedInv'
  BY <1>1 DEF IInv, TypeOK, ObjectInv, DisposedInv, Inside
<1>4. (Attached => state # "Missing")' /\ (gate = NoCaller => RestInv)'
  BY <1>1 DEF IInv, TypeOK, ObjectInv, RestInv
<1>5. (gate # NoCaller => CallInv(gate))'
  BY <1>1, <1>2 DEF IInv, TypeOK, GateInv, Inside, ObjectInv, DisposedInv, CallInv, EngineUnder, RestInv,
                    StartPcs
<1>6. StopDelivers' /\ StartDelivers'
  BY <1>1, <1>2 DEF IInv, TypeOK, GateInv, ObjectInv, DisposedInv, CallInv, EngineUnder, RestInv,
                    Inside, StopDelivers, StartDelivers, StartPcs
<1>7. QED
  BY <1>1, <1>2, <1>3, <1>4, <1>5, <1>6 DEF IInv

LEMMA AcquireInv ==
    ASSUME IInv, NEW c \in Callers, Acquire(c)
    PROVE  IInv'
<1> USE DEF Acquire
<1>1. TypeOK'
  BY DEF IInv, TypeOK
<1>2. GateInv' /\ ObjectInv'
  BY <1>1 DEF IInv, TypeOK, GateInv, ObjectInv, Inside
<1>3. DisposedInv'
  BY <1>1 DEF IInv, TypeOK, ObjectInv, DisposedInv, Inside
<1>4. (Attached => state # "Missing")' /\ (gate = NoCaller => RestInv)'
  BY <1>1 DEF IInv, TypeOK, ObjectInv, RestInv
<1>5. (gate # NoCaller => CallInv(gate))'
  BY <1>1, <1>2 DEF IInv, TypeOK, GateInv, Inside, ObjectInv, DisposedInv, CallInv, EngineUnder, RestInv,
                    StartPcs
<1>6. StopDelivers' /\ StartDelivers'
  BY <1>1, <1>2 DEF IInv, TypeOK, GateInv, ObjectInv, DisposedInv, CallInv, EngineUnder, RestInv,
                    Inside, StopDelivers, StartDelivers, StartPcs
<1>7. QED
  BY <1>1, <1>2, <1>3, <1>4, <1>5, <1>6 DEF IInv

LEMMA HandleExitInv ==
    ASSUME IInv, NEW p \in Processes, HandleExit(p)
    PROVE  IInv'
<1> USE DEF HandleExit
<1>1. TypeOK'
  BY DEF IInv, TypeOK
<1>2. GateInv' /\ ObjectInv'
  BY <1>1 DEF IInv, TypeOK, GateInv, ObjectInv, Inside
<1>3. DisposedInv'
  BY <1>1 DEF IInv, TypeOK, ObjectInv, DisposedInv, Inside
<1>4. (Attached => state # "Missing")' /\ (gate = NoCaller => RestInv)'
  BY <1>1 DEF IInv, TypeOK, ObjectInv, RestInv
<1>5. (gate # NoCaller => CallInv(gate))'
  BY <1>1, <1>2 DEF IInv, TypeOK, GateInv, Inside, ObjectInv, DisposedInv, CallInv, EngineUnder, RestInv,
                    StartPcs
<1>6. StopDelivers' /\ StartDelivers'
  BY <1>1, <1>2 DEF IInv, TypeOK, GateInv, ObjectInv, DisposedInv, CallInv, EngineUnder, RestInv,
                    Inside, StopDelivers, StartDelivers, StartPcs
<1>7. QED
  BY <1>1, <1>2, <1>3, <1>4, <1>5, <1>6 DEF IInv

LEMMA HandleExitSetStateInv ==
    ASSUME IInv, NEW p \in Processes, HandleExitSetState(p)
    PROVE  IInv'
<1> USE DEF HandleExitSetState, SetState
<1>1. TypeOK'
  BY DEF IInv, TypeOK
<1>2. GateInv' /\ ObjectInv'
  BY <1>1 DEF IInv, TypeOK, GateInv, ObjectInv, Inside
<1>3. DisposedInv'
  BY <1>1 DEF IInv, TypeOK, ObjectInv, DisposedInv, Inside
<1>4. (Attached => state # "Missing")' /\ (gate = NoCaller => RestInv)'
  BY <1>1 DEF IInv, TypeOK, ObjectInv, RestInv
<1>5. (gate # NoCaller => CallInv(gate))'
  BY <1>1, <1>2 DEF IInv, TypeOK, GateInv, Inside, ObjectInv, DisposedInv, CallInv, EngineUnder, RestInv,
                    StartPcs
<1>6. StopDelivers' /\ StartDelivers'
  BY <1>1, <1>2 DEF IInv, TypeOK, GateInv, ObjectInv, DisposedInv, CallInv, EngineUnder, RestInv,
                    Inside, StopDelivers, StartDelivers, StartPcs
<1>7. QED
  BY <1>1, <1>2, <1>3, <1>4, <1>5, <1>6 DEF IInv

LEMMA HandleExitReturnInv ==
    ASSUME IInv, NEW p \in Processes, HandleExitReturn(p)
    PROVE  IInv'
<1> USE DEF HandleExitReturn
<1>1. TypeOK'
  BY DEF IInv, TypeOK
<1>2. GateInv' /\ ObjectInv'
  BY <1>1 DEF IInv, TypeOK, GateInv, ObjectInv, Inside
<1>3. DisposedInv'
  BY <1>1 DEF IInv, TypeOK, ObjectInv, DisposedInv, Inside
<1>4. (Attached => state # "Missing")' /\ (gate = NoCaller => RestInv)'
  BY <1>1 DEF IInv, TypeOK, ObjectInv, RestInv
<1>5. (gate # NoCaller => CallInv(gate))'
  BY <1>1, <1>2 DEF IInv, TypeOK, GateInv, Inside, ObjectInv, DisposedInv, CallInv, EngineUnder, RestInv,
                    StartPcs
<1>6. StopDelivers' /\ StartDelivers'
  BY <1>1, <1>2 DEF IInv, TypeOK, GateInv, ObjectInv, DisposedInv, CallInv, EngineUnder, RestInv,
                    Inside, StopDelivers, StartDelivers, StartPcs
<1>7. QED
  BY <1>1, <1>2, <1>3, <1>4, <1>5, <1>6 DEF IInv

LEMMA ProcessExitInv ==
    ASSUME IInv, NEW p \in Processes, ProcessExit(p)
    PROVE  IInv'
<1> USE DEF ProcessExit
<1>1. TypeOK'
  BY DEF IInv, TypeOK
<1>2. GateInv' /\ ObjectInv'
  BY <1>1 DEF IInv, TypeOK, GateInv, ObjectInv, Inside
<1>3. DisposedInv'
  BY <1>1 DEF IInv, TypeOK, ObjectInv, DisposedInv, Inside
<1>4. (Attached => state # "Missing")' /\ (gate = NoCaller => RestInv)'
  BY <1>1 DEF IInv, TypeOK, ObjectInv, RestInv
<1>5. (gate # NoCaller => CallInv(gate))'
  BY <1>1, <1>2 DEF IInv, TypeOK, GateInv, Inside, ObjectInv, DisposedInv, CallInv, EngineUnder, RestInv,
                    StartPcs
<1>6. StopDelivers' /\ StartDelivers'
  BY <1>1, <1>2 DEF IInv, TypeOK, GateInv, ObjectInv, DisposedInv, CallInv, EngineUnder, RestInv,
                    Inside, StopDelivers, StartDelivers, StartPcs
<1>7. QED
  BY <1>1, <1>2, <1>3, <1>4, <1>5, <1>6 DEF IInv

LEMMA RaiseExitedInv ==
    ASSUME IInv, NEW p \in Processes, RaiseExited(p)
    PROVE  IInv'
<1> USE DEF RaiseExited
<1>1. TypeOK'
  BY DEF IInv, TypeOK
<1>2. GateInv' /\ ObjectInv'
  BY <1>1 DEF IInv, TypeOK, GateInv, ObjectInv, Inside
<1>3. DisposedInv'
  BY <1>1 DEF IInv, TypeOK, ObjectInv, DisposedInv, Inside
<1>4. (Attached => state # "Missing")' /\ (gate = NoCaller => RestInv)'
  BY <1>1 DEF IInv, TypeOK, ObjectInv, RestInv
<1>5. (gate # NoCaller => CallInv(gate))'
  BY <1>1, <1>2 DEF IInv, TypeOK, GateInv, Inside, ObjectInv, DisposedInv, CallInv, EngineUnder, RestInv,
                    StartPcs
<1>6. StopDelivers' /\ StartDelivers'
  BY <1>1, <1>2 DEF IInv, TypeOK, GateInv, ObjectInv, DisposedInv, CallInv, EngineUnder, RestInv,
                    Inside, StopDelivers, StartDelivers, StartPcs
<1>7. QED
  BY <1>1, <1>2, <1>3, <1>4, <1>5, <1>6 DEF IInv

LEMMA DeliverInv ==
    ASSUME IInv, NEW t \in Threads, Deliver(t)
    PROVE  IInv'
<1> USE DEF Deliver
<1>1. TypeOK'
  BY DEF IInv, TypeOK
<1>2. GateInv' /\ ObjectInv'
  BY <1>1 DEF IInv, TypeOK, GateInv, ObjectInv, Inside
<1>3. DisposedInv'
  BY <1>1 DEF IInv, TypeOK, ObjectInv, DisposedInv, Inside
<1>4. (Attached => state # "Missing")' /\ (gate = NoCaller => RestInv)'
  BY <1>1 DEF IInv, TypeOK, ObjectInv, RestInv
<1>5. (gate # NoCaller => CallInv(gate))'
  BY <1>1, <1>2 DEF IInv, TypeOK, GateInv, Inside, ObjectInv, DisposedInv, CallInv, EngineUnder, RestInv,
                    StartPcs
<1>6. StopDelivers' /\ StartDelivers'
  BY <1>1, <1>2 DEF IInv, TypeOK, GateInv, ObjectInv, DisposedInv, CallInv, EngineUnder, RestInv,
                    Inside, StopDelivers, StartDelivers, StartPcs
<1>7. QED
  BY <1>1, <1>2, <1>3, <1>4, <1>5, <1>6 DEF IInv

LEMMA RuntimeChangeInv ==
    ASSUME IInv, RuntimeChange
    PROVE  IInv'
<1> USE DEF RuntimeChange
<1>1. TypeOK'
  BY DEF IInv, TypeOK
<1>2. GateInv' /\ ObjectInv'
  BY <1>1 DEF IInv, TypeOK, GateInv, ObjectInv, Inside
<1>3. DisposedInv'
  BY <1>1 DEF IInv, TypeOK, ObjectInv, DisposedInv, Inside
<1>4. (Attached => state # "Missing")' /\ (gate = NoCaller => RestInv)'
  BY <1>1 DEF IInv, TypeOK, ObjectInv, RestInv
<1>5. (gate # NoCaller => CallInv(gate))'
  BY <1>1, <1>2 DEF IInv, TypeOK, GateInv, Inside, ObjectInv, DisposedInv, CallInv, EngineUnder, RestInv,
                    StartPcs
<1>6. StopDelivers' /\ StartDelivers'
  BY <1>1, <1>2 DEF IInv, TypeOK, GateInv, ObjectInv, DisposedInv, CallInv, EngineUnder, RestInv,
                    Inside, StopDelivers, StartDelivers, StartPcs
<1>7. QED
  BY <1>1, <1>2, <1>3, <1>4, <1>5, <1>6 DEF IInv

-----------------------------------------------------------------------------
(* IInv is inductive. *)

LEMMA InitIInv == Init => IInv
<1> SUFFICES ASSUME Init PROVE IInv
  OBVIOUS
<1> USE DEF Init, RestingState
<1>1. TypeOK
  BY DEF TypeOK
<1>2. GateInv /\ ObjectInv /\ DisposedInv
  BY DEF GateInv, Inside, ObjectInv, DisposedInv
<1>3. ~Attached /\ gate = NoCaller /\ RestInv
  BY DEF RestInv
<1>4. StopDelivers /\ StartDelivers
  BY DEF StopDelivers, StartDelivers
<1>5. QED
  BY <1>1, <1>2, <1>3, <1>4 DEF IInv

LEMMA NextIInv == IInv /\ [Next]_vars => IInv'
<1> SUFFICES ASSUME IInv, [Next]_vars PROVE IInv'
  OBVIOUS
<1>1. ASSUME NEW c \in Callers, NEW o \in Ops, Call(c, o) PROVE IInv'
  BY <1>1, CallBeginsInv
<1>2. ASSUME NEW c \in Callers, CancelWait(c) \/ Acquire(c) PROVE IInv'
  BY <1>2, CancelWaitInv, AcquireInv
<1>3. ASSUME NEW c \in Callers, StartStep(c) PROVE IInv'
  BY <1>3, StartEnterInv, StartPlanInv, StartCreateInv, StartLaunchInv, StartDelayInv,
     StartProbeInv, StartEarlyExitInv, StartDeclareInv, StartCatchInv DEF StartStep
<1>4. ASSUME NEW c \in Callers, StopStep(c) \/ Release(c) PROVE IInv'
  BY <1>4, StopEnterInv, StopBeginInv, SettleInv, TerminateInv, AwaitExitInv, AbandonInv, ReleaseInv
     DEF StopStep
<1>5. ASSUME NEW p \in Processes, HandlerStep(p) PROVE IInv'
  BY <1>5, HandleExitInv, HandleExitSetStateInv, HandleExitReturnInv DEF HandlerStep
<1>6. ASSUME NEW p \in Processes, ProcessExit(p) \/ RaiseExited(p) PROVE IInv'
  BY <1>6, ProcessExitInv, RaiseExitedInv
<1>7. ASSUME NEW t \in Threads, Deliver(t) PROVE IInv'
  BY <1>7, DeliverInv
<1>8. CASE RuntimeChange
  BY <1>8, RuntimeChangeInv
<1>9. CASE UNCHANGED vars
  BY <1>9 DEF vars, IInv, TypeOK, GateInv, Inside, ObjectInv, DisposedInv, RestInv, CallInv,
              EngineUnder, StartPcs, StopDelivers, StartDelivers
<1>10. QED
  BY <1>1, <1>2, <1>3, <1>4, <1>5, <1>6, <1>7, <1>8, <1>9 DEF Next, CallerStep

(* The inductive invariant holds in every reachable state. *)
THEOREM Inductive == Spec => []IInv
BY InitIInv, NextIInv, PTL DEF Spec

-----------------------------------------------------------------------------
(* What follows from it. *)

(* Every variable keeps its type. *)
THEOREM TypeCorrect == Spec => []TypeOK
<1>1. IInv => TypeOK
  BY DEF IInv
<1>2. QED
  BY <1>1, Inductive, PTL

(* Two packet engines never run together under one controller, unless the  *)
(* operating system refused to kill one of them.                           *)
THEOREM OneEngine == Spec => []SingleEngine
<1>1. IInv => SingleEngine
  BY DEF IInv, ObjectInv, TypeOK, SingleEngine
<1>2. QED
  BY <1>1, Inductive, PTL

(* No transient state outlives the calls, and a state that rests is shown  *)
(* over no engine.                                                         *)
THEOREM RestsProperly == Spec => []AtRest
<1>1. IInv => AtRest
  BY DEF IInv, RestInv, AtRest
<1>2. QED
  BY <1>1, Inductive, PTL

(* What StartAsync and StopAsync leave behind, by every path out of them.  *)
THEOREM CallsDeliver == Spec => []Delivers
<1>1. IInv => Delivers
  BY DEF IInv, Delivers
<1>2. QED
  BY <1>1, Inductive, PTL

(* Once disposed, the controller owns no engine and rests, for ever.       *)
THEOREM DisposeIsFinal == Spec => DisposedIsFinal
<1>1. IInv /\ IInv' /\ [Next]_vars =>
        [disposed => disposed' /\ process' = NoProcess /\ state' \in {"Stopped", "Missing"}]_vars
  <2> SUFFICES ASSUME IInv, IInv', Next, disposed
               PROVE  disposed' /\ process' = NoProcess /\ state' \in {"Stopped", "Missing"}
    OBVIOUS
  <2>1. disposed'
    BY DEF Next, Call, CancelWait, Acquire, CallerStep, Release, StartStep, StartEnter, StartPlan,
           StartCreate, StartLaunch, StartDelay, StartProbe, StartEarlyExit, StartDeclare, StartCatch,
           StopStep, StopEnter, StopBegin, Settle, Terminate, AwaitExit, Abandon,
           HandlerStep, HandleExit, HandleExitSetState, HandleExitReturn,
           ProcessExit, RaiseExited, Deliver, RuntimeChange
  <2>2. QED
    BY <2>1 DEF IInv, DisposedInv
<1>2. QED
  BY <1>1, Inductive, PTL DEF Spec, DisposedIsFinal

-----------------------------------------------------------------------------
(* The refinement of EngineLifecycle: a step of the controller is a step   *)
(* of the lifecycle it refines or leaves it alone.                         *)

USE DEF OwnedEngine
USE DEF Lifecycle!vars, Lifecycle!Next, Lifecycle!Launch, Lifecycle!Exit, Lifecycle!Collect,
        Lifecycle!Lose, Lifecycle!Begin, Lifecycle!Declare, Lifecycle!Rest, Lifecycle!Resting

LEMMA InitRefines == Init => Lifecycle!Init
BY DEF Init, RestingState, Lifecycle!Init

(* Every step of a caller that changes neither State, nor _process, nor a  *)
(* process leaves the lifecycle alone; the others are taken one by one.    *)
LEMMA CallerRefines ==
    ASSUME IInv, NEW c \in Callers, CallerStep(c)
    PROVE  [Lifecycle!Next]_Lifecycle!vars
<1>1. TypeOK /\ ObjectInv
  BY DEF IInv
<1>2. CASE StartEnter(c)
  BY <1>1, <1>2, HolderInside DEF StartEnter, DisposeProcess, DisposeObject, LockFree, Inside, TypeOK, ObjectInv, CallInv, EngineUnder,
     RestInv, StartPcs
<1>3. CASE StartPlan(c)
  BY <1>1, <1>3, HolderInside DEF StartPlan, SetState, Inside, TypeOK, ObjectInv, CallInv, EngineUnder,
     RestInv, StartPcs
<1>4. CASE StartCreate(c)
  BY <1>1, <1>4, HolderInside DEF StartCreate, Inside, TypeOK, ObjectInv, CallInv, EngineUnder,
     RestInv, StartPcs
<1>5. CASE StartLaunch(c)
  BY <1>1, <1>5, HolderInside DEF StartLaunch, DisposeProcess, DisposeObject, LockFree, Inside, TypeOK, ObjectInv, CallInv, EngineUnder,
     RestInv, StartPcs
<1>6. CASE StartDelay(c)
  BY <1>1, <1>6, HolderInside DEF StartDelay, Inside, TypeOK, ObjectInv, CallInv, EngineUnder,
     RestInv, StartPcs
<1>7. CASE StartProbe(c)
  BY <1>1, <1>7, HolderInside DEF StartProbe, DisposeProcess, DisposeObject, LockFree, Inside, TypeOK, ObjectInv, CallInv, EngineUnder,
     RestInv, StartPcs
<1>8. CASE StartEarlyExit(c)
  BY <1>1, <1>8, HolderInside DEF StartEarlyExit, SetState, Inside, TypeOK, ObjectInv, CallInv, EngineUnder,
     RestInv, StartPcs
<1>9. CASE StartDeclare(c)
  BY <1>1, <1>9, HolderInside DEF StartDeclare, SetState, Inside, TypeOK, ObjectInv, CallInv, EngineUnder,
     RestInv, StartPcs
<1>10. CASE StartCatch(c)
  BY <1>1, <1>10, HolderInside DEF StartCatch, SetState, DisposeProcess, DisposeObject, LockFree, Inside, TypeOK, ObjectInv, CallInv, EngineUnder,
     RestInv, StartPcs
<1>11. CASE StopEnter(c)
  BY <1>1, <1>11, HolderInside DEF StopEnter, DisposeProcess, DisposeObject, LockFree, Inside, TypeOK, ObjectInv, CallInv, EngineUnder,
     RestInv, StartPcs
<1>12. CASE StopBegin(c)
  BY <1>1, <1>12, HolderInside DEF StopBegin, SetState, Inside, TypeOK, ObjectInv, CallInv, EngineUnder,
     RestInv, StartPcs
<1>13. CASE Settle(c)
  BY <1>1, <1>13, HolderInside DEF Settle, SetState, RestingState, Inside, TypeOK, ObjectInv, CallInv, EngineUnder,
     RestInv, StartPcs
<1>14. CASE Terminate(c)
  BY <1>1, <1>14, HolderInside DEF Terminate, Inside, TypeOK, ObjectInv, CallInv, EngineUnder,
     RestInv, StartPcs
<1>15. CASE AwaitExit(c)
  BY <1>1, <1>15, HolderInside DEF AwaitExit, DisposeProcess, DisposeObject, LockFree, Inside, TypeOK, ObjectInv, CallInv, EngineUnder,
     RestInv, StartPcs
<1>16. CASE Abandon(c)
  BY <1>1, <1>16, HolderInside DEF Abandon, DisposeProcess, DisposeObject, LockFree, Inside, TypeOK, ObjectInv, CallInv, EngineUnder,
     RestInv, StartPcs
<1>17. CASE Release(c)
  BY <1>1, <1>17, HolderInside DEF Release, Inside, TypeOK, ObjectInv, CallInv, EngineUnder,
     RestInv, StartPcs
<1>18. QED
  BY <1>2, <1>3, <1>4, <1>5, <1>6, <1>7, <1>8, <1>9, <1>10, <1>11, <1>12, <1>13, <1>14, <1>15, <1>16, <1>17 DEF CallerStep, StartStep, StopStep

LEMMA StepRefines == IInv /\ [Next]_vars => [Lifecycle!Next]_Lifecycle!vars
<1> SUFFICES ASSUME IInv, [Next]_vars PROVE [Lifecycle!Next]_Lifecycle!vars
  OBVIOUS
<1>1. TypeOK /\ ObjectInv
  BY DEF IInv
<1>2. ASSUME NEW c \in Callers, CallerStep(c) PROVE [Lifecycle!Next]_Lifecycle!vars
  BY <1>2, CallerRefines
<1>3. ASSUME NEW c \in Callers, CancelWait(c) \/ Acquire(c) \/ \E o \in Ops : Call(c, o)
      PROVE  [Lifecycle!Next]_Lifecycle!vars
  BY <1>3 DEF Call, CancelWait, Acquire
<1>4. ASSUME NEW p \in Processes, HandlerStep(p) PROVE [Lifecycle!Next]_Lifecycle!vars
  BY <1>1, <1>4 DEF HandlerStep, HandleExit, HandleExitSetState, HandleExitReturn, SetState,
                    TypeOK, ObjectInv
<1>5. ASSUME NEW p \in Processes, ProcessExit(p) PROVE [Lifecycle!Next]_Lifecycle!vars
  BY <1>1, <1>5 DEF ProcessExit, TypeOK, ObjectInv
<1>6. ASSUME NEW p \in Processes, RaiseExited(p) PROVE [Lifecycle!Next]_Lifecycle!vars
  BY <1>1, <1>6 DEF RaiseExited, TypeOK, ObjectInv
<1>7. CASE RuntimeChange \/ \E t \in Threads : Deliver(t)
  BY <1>7 DEF RuntimeChange, Deliver
<1>8. CASE UNCHANGED vars
  BY <1>8 DEF vars
<1>9. CASE Next
  BY <1>2, <1>3, <1>4, <1>5, <1>6, <1>7, <1>9 DEF Next
<1>10. QED
  BY <1>8, <1>9

(* The controller implements the contract: in particular no resting state  *)
(* is ever shown over an engine that is on.                                *)
THEOREM KeepsContract == Spec => Contract
<1>1. Init => Lifecycle!Init
  BY InitRefines
<1>2. IInv /\ [Next]_vars => [Lifecycle!Next]_Lifecycle!vars
  BY StepRefines
<1>3. Spec => []IInv
  BY Inductive
<1>4. Spec => Init /\ [][Next]_vars
  BY DEF Spec
<1> HIDE DEF Lifecycle!Init, Lifecycle!Next, Lifecycle!vars
<1>5. Spec => Lifecycle!Init /\ [][Lifecycle!Next]_Lifecycle!vars
  BY <1>1, <1>2, <1>3, <1>4, PTL
<1> QED
  BY <1>5 DEF Contract, Lifecycle!Spec

-----------------------------------------------------------------------------
(* What the subscriber has seen: SeenInv is inductive under IInv.          *)

(* The facts about the holder's point and the attached process that the    *)
(* steps need.                                                             *)
LEMMA HolderKnows ==
    ASSUME IInv, NEW c \in Callers, Inside(c)
    PROVE  /\ gate = c /\ \A d \in Callers : Inside(d) => d = c
           /\ CallInv(c) /\ ObjectInv /\ TypeOK
BY HolderInside DEF IInv

LEMMA StartEnterSeen ==
    ASSUME IInv, IInv', SeenInv, NEW c \in Callers, StartEnter(c)
    PROVE  SeenInv'
<1> USE DEF StartEnter, DisposeProcess, DisposeObject, LockFree
<1>1. /\ gate = c /\ \A d \in Callers : Inside(d) => d = c
      /\ CallInv(c) /\ ObjectInv /\ TypeOK
  BY HolderKnows DEF Inside
<1>2. TypeOK'
  BY DEF IInv
<1>3. NoticesInv' /\ LatestInv'
  BY <1>1, <1>2 DEF TypeOK, CallInv, RestInv, EngineUnder, ObjectInv, StartPcs, SeenInv, NoticesInv,
                    LatestInv, Reported, Unreported
<1>4. QuietInv'
  BY <1>1, <1>2 DEF TypeOK, CallInv, RestInv, EngineUnder, ObjectInv, StartPcs, SeenInv, NoticesInv,
                    LatestInv, QuietInv, AllDelivered, RefusedInv, Reported, Unreported
<1>5. RefusedInv'
  BY <1>1, <1>2 DEF TypeOK, CallInv, RestInv, EngineUnder, ObjectInv, StartPcs, SeenInv, NoticesInv,
                    QuietInv, AllDelivered, RefusedInv, Inside, Reported, Unreported
<1>6. QED
  BY <1>3, <1>4, <1>5 DEF SeenInv

LEMMA StartPlanSeen ==
    ASSUME IInv, IInv', SeenInv, NEW c \in Callers, StartPlan(c)
    PROVE  SeenInv'
<1> USE DEF StartPlan, SetState
<1>1. /\ gate = c /\ \A d \in Callers : Inside(d) => d = c
      /\ CallInv(c) /\ ObjectInv /\ TypeOK
  BY HolderKnows DEF Inside
<1>2. TypeOK'
  BY DEF IInv
<1>3. NoticesInv' /\ LatestInv'
  BY <1>1, <1>2 DEF TypeOK, CallInv, RestInv, EngineUnder, ObjectInv, StartPcs, SeenInv, NoticesInv,
                    LatestInv, Reported, Unreported
<1>4. QuietInv'
  BY <1>1, <1>2 DEF TypeOK, CallInv, RestInv, EngineUnder, ObjectInv, StartPcs, SeenInv, NoticesInv,
                    LatestInv, QuietInv, AllDelivered, RefusedInv, Reported, Unreported
<1>5. RefusedInv'
  BY <1>1, <1>2 DEF TypeOK, CallInv, RestInv, EngineUnder, ObjectInv, StartPcs, SeenInv, NoticesInv,
                    QuietInv, AllDelivered, RefusedInv, Inside, Reported, Unreported
<1>6. QED
  BY <1>3, <1>4, <1>5 DEF SeenInv

LEMMA StartCreateSeen ==
    ASSUME IInv, IInv', SeenInv, NEW c \in Callers, StartCreate(c)
    PROVE  SeenInv'
<1> USE DEF StartCreate
<1>1. /\ gate = c /\ \A d \in Callers : Inside(d) => d = c
      /\ CallInv(c) /\ ObjectInv /\ TypeOK
  BY HolderKnows DEF Inside
<1>2. TypeOK'
  BY DEF IInv
<1>3. NoticesInv' /\ LatestInv'
  BY <1>1, <1>2 DEF TypeOK, CallInv, RestInv, EngineUnder, ObjectInv, StartPcs, SeenInv, NoticesInv,
                    LatestInv, Reported, Unreported
<1>4. QuietInv'
  BY <1>1, <1>2 DEF TypeOK, CallInv, RestInv, EngineUnder, ObjectInv, StartPcs, SeenInv, NoticesInv,
                    LatestInv, QuietInv, AllDelivered, RefusedInv, Reported, Unreported
<1>5. RefusedInv'
  BY <1>1, <1>2 DEF TypeOK, CallInv, RestInv, EngineUnder, ObjectInv, StartPcs, SeenInv, NoticesInv,
                    QuietInv, AllDelivered, RefusedInv, Inside, Reported, Unreported
<1>6. QED
  BY <1>3, <1>4, <1>5 DEF SeenInv

LEMMA StartLaunchSeen ==
    ASSUME IInv, IInv', SeenInv, NEW c \in Callers, StartLaunch(c)
    PROVE  SeenInv'
<1> USE DEF StartLaunch, DisposeProcess, DisposeObject, LockFree
<1>1. /\ gate = c /\ \A d \in Callers : Inside(d) => d = c
      /\ CallInv(c) /\ ObjectInv /\ TypeOK
  BY HolderKnows DEF Inside
<1>2. TypeOK'
  BY DEF IInv
<1>3. NoticesInv' /\ LatestInv'
  BY <1>1, <1>2 DEF TypeOK, CallInv, RestInv, EngineUnder, ObjectInv, StartPcs, SeenInv, NoticesInv,
                    LatestInv, Reported, Unreported
<1>4. QuietInv'
  BY <1>1, <1>2 DEF TypeOK, CallInv, RestInv, EngineUnder, ObjectInv, StartPcs, SeenInv, NoticesInv,
                    LatestInv, QuietInv, AllDelivered, RefusedInv, Reported, Unreported
<1>5. RefusedInv'
  BY <1>1, <1>2 DEF TypeOK, CallInv, RestInv, EngineUnder, ObjectInv, StartPcs, SeenInv, NoticesInv,
                    QuietInv, AllDelivered, RefusedInv, Inside, Reported, Unreported
<1>6. QED
  BY <1>3, <1>4, <1>5 DEF SeenInv

LEMMA StartDelaySeen ==
    ASSUME IInv, IInv', SeenInv, NEW c \in Callers, StartDelay(c)
    PROVE  SeenInv'
<1> USE DEF StartDelay
<1>1. /\ gate = c /\ \A d \in Callers : Inside(d) => d = c
      /\ CallInv(c) /\ ObjectInv /\ TypeOK
  BY HolderKnows DEF Inside
<1>2. TypeOK'
  BY DEF IInv
<1>3. NoticesInv' /\ LatestInv'
  BY <1>1, <1>2 DEF TypeOK, CallInv, RestInv, EngineUnder, ObjectInv, StartPcs, SeenInv, NoticesInv,
                    LatestInv, Reported, Unreported
<1>4. QuietInv'
  BY <1>1, <1>2 DEF TypeOK, CallInv, RestInv, EngineUnder, ObjectInv, StartPcs, SeenInv, NoticesInv,
                    LatestInv, QuietInv, AllDelivered, RefusedInv, Reported, Unreported
<1>5. RefusedInv'
  BY <1>1, <1>2 DEF TypeOK, CallInv, RestInv, EngineUnder, ObjectInv, StartPcs, SeenInv, NoticesInv,
                    QuietInv, AllDelivered, RefusedInv, Inside, Reported, Unreported
<1>6. QED
  BY <1>3, <1>4, <1>5 DEF SeenInv

LEMMA StartProbeSeen ==
    ASSUME IInv, IInv', SeenInv, NEW c \in Callers, StartProbe(c)
    PROVE  SeenInv'
<1> USE DEF StartProbe, DisposeProcess, DisposeObject, LockFree
<1>1. /\ gate = c /\ \A d \in Callers : Inside(d) => d = c
      /\ CallInv(c) /\ ObjectInv /\ TypeOK
  BY HolderKnows DEF Inside
<1>2. TypeOK'
  BY DEF IInv
<1>3. NoticesInv' /\ LatestInv'
  BY <1>1, <1>2 DEF TypeOK, CallInv, RestInv, EngineUnder, ObjectInv, StartPcs, SeenInv, NoticesInv,
                    LatestInv, Reported, Unreported
<1>4. QuietInv'
  BY <1>1, <1>2 DEF TypeOK, CallInv, RestInv, EngineUnder, ObjectInv, StartPcs, SeenInv, NoticesInv,
                    LatestInv, QuietInv, AllDelivered, RefusedInv, Reported, Unreported
<1>5. RefusedInv'
  BY <1>1, <1>2 DEF TypeOK, CallInv, RestInv, EngineUnder, ObjectInv, StartPcs, SeenInv, NoticesInv,
                    QuietInv, AllDelivered, RefusedInv, Inside, Reported, Unreported
<1>6. QED
  BY <1>3, <1>4, <1>5 DEF SeenInv

LEMMA StartEarlyExitSeen ==
    ASSUME IInv, IInv', SeenInv, NEW c \in Callers, StartEarlyExit(c)
    PROVE  SeenInv'
<1> USE DEF StartEarlyExit, SetState
<1>1. /\ gate = c /\ \A d \in Callers : Inside(d) => d = c
      /\ CallInv(c) /\ ObjectInv /\ TypeOK
  BY HolderKnows DEF Inside
<1>2. TypeOK'
  BY DEF IInv
<1>3. NoticesInv' /\ LatestInv'
  BY <1>1, <1>2 DEF TypeOK, CallInv, RestInv, EngineUnder, ObjectInv, StartPcs, SeenInv, NoticesInv,
                    LatestInv, Reported, Unreported
<1>4. QuietInv'
  BY <1>1, <1>2 DEF TypeOK, CallInv, RestInv, EngineUnder, ObjectInv, StartPcs, SeenInv, NoticesInv,
                    LatestInv, QuietInv, AllDelivered, RefusedInv, Reported, Unreported
<1>5. RefusedInv'
  BY <1>1, <1>2 DEF TypeOK, CallInv, RestInv, EngineUnder, ObjectInv, StartPcs, SeenInv, NoticesInv,
                    QuietInv, AllDelivered, RefusedInv, Inside, Reported, Unreported
<1>6. QED
  BY <1>3, <1>4, <1>5 DEF SeenInv

LEMMA StartDeclareSeen ==
    ASSUME IInv, IInv', SeenInv, NEW c \in Callers, StartDeclare(c)
    PROVE  SeenInv'
<1> USE DEF StartDeclare, SetState
<1>1. /\ gate = c /\ \A d \in Callers : Inside(d) => d = c
      /\ CallInv(c) /\ ObjectInv /\ TypeOK
  BY HolderKnows DEF Inside
<1>2. TypeOK'
  BY DEF IInv
<1>3. NoticesInv' /\ LatestInv'
  BY <1>1, <1>2 DEF TypeOK, CallInv, RestInv, EngineUnder, ObjectInv, StartPcs, SeenInv, NoticesInv,
                    LatestInv, Reported, Unreported
<1>4. QuietInv'
  BY <1>1, <1>2 DEF TypeOK, CallInv, RestInv, EngineUnder, ObjectInv, StartPcs, SeenInv, NoticesInv,
                    LatestInv, QuietInv, AllDelivered, RefusedInv, Reported, Unreported
<1>5. RefusedInv'
  BY <1>1, <1>2 DEF TypeOK, CallInv, RestInv, EngineUnder, ObjectInv, StartPcs, SeenInv, NoticesInv,
                    QuietInv, AllDelivered, RefusedInv, Inside, Reported, Unreported
<1>6. QED
  BY <1>3, <1>4, <1>5 DEF SeenInv

LEMMA StartCatchSeen ==
    ASSUME IInv, IInv', SeenInv, NEW c \in Callers, StartCatch(c)
    PROVE  SeenInv'
<1> USE DEF StartCatch, SetState, DisposeProcess, DisposeObject, LockFree
<1>1. /\ gate = c /\ \A d \in Callers : Inside(d) => d = c
      /\ CallInv(c) /\ ObjectInv /\ TypeOK
  BY HolderKnows DEF Inside
<1>2. TypeOK'
  BY DEF IInv
<1>3. NoticesInv' /\ LatestInv'
  BY <1>1, <1>2 DEF TypeOK, CallInv, RestInv, EngineUnder, ObjectInv, StartPcs, SeenInv, NoticesInv,
                    LatestInv, Reported, Unreported
<1>4. QuietInv'
  BY <1>1, <1>2 DEF TypeOK, CallInv, RestInv, EngineUnder, ObjectInv, StartPcs, SeenInv, NoticesInv,
                    LatestInv, QuietInv, AllDelivered, RefusedInv, Reported, Unreported
<1>5. RefusedInv'
  BY <1>1, <1>2 DEF TypeOK, CallInv, RestInv, EngineUnder, ObjectInv, StartPcs, SeenInv, NoticesInv,
                    QuietInv, AllDelivered, RefusedInv, Inside, Reported, Unreported
<1>6. QED
  BY <1>3, <1>4, <1>5 DEF SeenInv

LEMMA StopEnterSeen ==
    ASSUME IInv, IInv', SeenInv, NEW c \in Callers, StopEnter(c)
    PROVE  SeenInv'
<1> USE DEF StopEnter, DisposeProcess, DisposeObject, LockFree
<1>1. /\ gate = c /\ \A d \in Callers : Inside(d) => d = c
      /\ CallInv(c) /\ ObjectInv /\ TypeOK
  BY HolderKnows DEF Inside
<1>2. TypeOK'
  BY DEF IInv
<1>3. NoticesInv' /\ LatestInv'
  BY <1>1, <1>2 DEF TypeOK, CallInv, RestInv, EngineUnder, ObjectInv, StartPcs, SeenInv, NoticesInv,
                    LatestInv, Reported, Unreported
<1>4. QuietInv'
  BY <1>1, <1>2 DEF TypeOK, CallInv, RestInv, EngineUnder, ObjectInv, StartPcs, SeenInv, NoticesInv,
                    LatestInv, QuietInv, AllDelivered, RefusedInv, Reported, Unreported
<1>5. RefusedInv'
  BY <1>1, <1>2 DEF TypeOK, CallInv, RestInv, EngineUnder, ObjectInv, StartPcs, SeenInv, NoticesInv,
                    QuietInv, AllDelivered, RefusedInv, Inside, Reported, Unreported
<1>6. QED
  BY <1>3, <1>4, <1>5 DEF SeenInv

LEMMA StopBeginSeen ==
    ASSUME IInv, IInv', SeenInv, NEW c \in Callers, StopBegin(c)
    PROVE  SeenInv'
<1> USE DEF StopBegin, SetState
<1>1. /\ gate = c /\ \A d \in Callers : Inside(d) => d = c
      /\ CallInv(c) /\ ObjectInv /\ TypeOK
  BY HolderKnows DEF Inside
<1>2. TypeOK'
  BY DEF IInv
<1>3. NoticesInv' /\ LatestInv'
  BY <1>1, <1>2 DEF TypeOK, CallInv, RestInv, EngineUnder, ObjectInv, StartPcs, SeenInv, NoticesInv,
                    LatestInv, Reported, Unreported
<1>4. QuietInv'
  BY <1>1, <1>2 DEF TypeOK, CallInv, RestInv, EngineUnder, ObjectInv, StartPcs, SeenInv, NoticesInv,
                    LatestInv, QuietInv, AllDelivered, RefusedInv, Reported, Unreported
<1>5. RefusedInv'
  BY <1>1, <1>2 DEF TypeOK, CallInv, RestInv, EngineUnder, ObjectInv, StartPcs, SeenInv, NoticesInv,
                    QuietInv, AllDelivered, RefusedInv, Inside, Reported, Unreported
<1>6. QED
  BY <1>3, <1>4, <1>5 DEF SeenInv

LEMMA SettleSeen ==
    ASSUME IInv, IInv', SeenInv, NEW c \in Callers, Settle(c)
    PROVE  SeenInv'
<1> USE DEF Settle, SetState, RestingState
<1>1. /\ gate = c /\ \A d \in Callers : Inside(d) => d = c
      /\ CallInv(c) /\ ObjectInv /\ TypeOK
  BY HolderKnows DEF Inside
<1>2. TypeOK'
  BY DEF IInv
<1>3. NoticesInv' /\ LatestInv'
  BY <1>1, <1>2 DEF TypeOK, CallInv, RestInv, EngineUnder, ObjectInv, StartPcs, SeenInv, NoticesInv,
                    LatestInv, Reported, Unreported
<1>4. QuietInv'
  BY <1>1, <1>2 DEF TypeOK, CallInv, RestInv, EngineUnder, ObjectInv, StartPcs, SeenInv, NoticesInv,
                    LatestInv, QuietInv, AllDelivered, RefusedInv, Reported, Unreported
<1>5. RefusedInv'
  BY <1>1, <1>2 DEF TypeOK, CallInv, RestInv, EngineUnder, ObjectInv, StartPcs, SeenInv, NoticesInv,
                    QuietInv, AllDelivered, RefusedInv, Inside, Reported, Unreported
<1>6. QED
  BY <1>3, <1>4, <1>5 DEF SeenInv

LEMMA TerminateSeen ==
    ASSUME IInv, IInv', SeenInv, NEW c \in Callers, Terminate(c)
    PROVE  SeenInv'
<1> USE DEF Terminate
<1>1. /\ gate = c /\ \A d \in Callers : Inside(d) => d = c
      /\ CallInv(c) /\ ObjectInv /\ TypeOK
  BY HolderKnows DEF Inside
<1>2. TypeOK'
  BY DEF IInv
<1>3. NoticesInv' /\ LatestInv'
  BY <1>1, <1>2 DEF TypeOK, CallInv, RestInv, EngineUnder, ObjectInv, StartPcs, SeenInv, NoticesInv,
                    LatestInv, Reported, Unreported
<1>4. QuietInv'
  BY <1>1, <1>2 DEF TypeOK, CallInv, RestInv, EngineUnder, ObjectInv, StartPcs, SeenInv, NoticesInv,
                    LatestInv, QuietInv, AllDelivered, RefusedInv, Reported, Unreported
<1>5. RefusedInv'
  BY <1>1, <1>2 DEF TypeOK, CallInv, RestInv, EngineUnder, ObjectInv, StartPcs, SeenInv, NoticesInv,
                    QuietInv, AllDelivered, RefusedInv, Inside, Reported, Unreported
<1>6. QED
  BY <1>3, <1>4, <1>5 DEF SeenInv

LEMMA AwaitExitSeen ==
    ASSUME IInv, IInv', SeenInv, NEW c \in Callers, AwaitExit(c)
    PROVE  SeenInv'
<1> USE DEF AwaitExit, DisposeProcess, DisposeObject, LockFree
<1>1. /\ gate = c /\ \A d \in Callers : Inside(d) => d = c
      /\ CallInv(c) /\ ObjectInv /\ TypeOK
  BY HolderKnows DEF Inside
<1>2. TypeOK'
  BY DEF IInv
<1>3. NoticesInv' /\ LatestInv'
  BY <1>1, <1>2 DEF TypeOK, CallInv, RestInv, EngineUnder, ObjectInv, StartPcs, SeenInv, NoticesInv,
                    LatestInv, Reported, Unreported
<1>4. QuietInv'
  BY <1>1, <1>2 DEF TypeOK, CallInv, RestInv, EngineUnder, ObjectInv, StartPcs, SeenInv, NoticesInv,
                    LatestInv, QuietInv, AllDelivered, RefusedInv, Reported, Unreported
<1>5. RefusedInv'
  BY <1>1, <1>2 DEF TypeOK, CallInv, RestInv, EngineUnder, ObjectInv, StartPcs, SeenInv, NoticesInv,
                    QuietInv, AllDelivered, RefusedInv, Inside, Reported, Unreported
<1>6. QED
  BY <1>3, <1>4, <1>5 DEF SeenInv

LEMMA AbandonSeen ==
    ASSUME IInv, IInv', SeenInv, NEW c \in Callers, Abandon(c)
    PROVE  SeenInv'
<1> USE DEF Abandon, DisposeProcess, DisposeObject, LockFree
<1>1. /\ gate = c /\ \A d \in Callers : Inside(d) => d = c
      /\ CallInv(c) /\ ObjectInv /\ TypeOK
  BY HolderKnows DEF Inside
<1>2. TypeOK'
  BY DEF IInv
<1>3. NoticesInv' /\ LatestInv'
  BY <1>1, <1>2 DEF TypeOK, CallInv, RestInv, EngineUnder, ObjectInv, StartPcs, SeenInv, NoticesInv,
                    LatestInv, Reported, Unreported
<1>4. QuietInv'
  BY <1>1, <1>2 DEF TypeOK, CallInv, RestInv, EngineUnder, ObjectInv, StartPcs, SeenInv, NoticesInv,
                    LatestInv, QuietInv, AllDelivered, RefusedInv, Reported, Unreported
<1>5. RefusedInv'
  BY <1>1, <1>2 DEF TypeOK, CallInv, RestInv, EngineUnder, ObjectInv, StartPcs, SeenInv, NoticesInv,
                    QuietInv, AllDelivered, RefusedInv, Inside, Reported, Unreported
<1>6. QED
  BY <1>3, <1>4, <1>5 DEF SeenInv

LEMMA ReleaseSeen ==
    ASSUME IInv, IInv', SeenInv, NEW c \in Callers, Release(c)
    PROVE  SeenInv'
<1> USE DEF Release
<1>1. /\ gate = c /\ \A d \in Callers : Inside(d) => d = c
      /\ CallInv(c) /\ ObjectInv /\ TypeOK
  BY HolderKnows DEF Inside
<1>2. TypeOK'
  BY DEF IInv
<1>3. NoticesInv' /\ LatestInv'
  BY <1>1, <1>2 DEF TypeOK, CallInv, RestInv, EngineUnder, ObjectInv, StartPcs, SeenInv, NoticesInv,
                    LatestInv, Reported, Unreported
<1>4. QuietInv'
  BY <1>1, <1>2 DEF TypeOK, CallInv, RestInv, EngineUnder, ObjectInv, StartPcs, SeenInv, NoticesInv,
                    LatestInv, QuietInv, AllDelivered, RefusedInv, Reported, Unreported
<1>5. RefusedInv'
  BY <1>1, <1>2 DEF TypeOK, CallInv, RestInv, EngineUnder, ObjectInv, StartPcs, SeenInv, NoticesInv,
                    QuietInv, AllDelivered, RefusedInv, Inside, Reported, Unreported
<1>6. QED
  BY <1>3, <1>4, <1>5 DEF SeenInv

LEMMA CallBeginsSeen ==
    ASSUME IInv, IInv', SeenInv, NEW c \in Callers, NEW o \in Ops, Call(c, o)
    PROVE  SeenInv'
<1> USE DEF Call
<1>1. TypeOK /\ TypeOK' /\ ObjectInv /\ GateInv /\ (gate # NoCaller => CallInv(gate))
  BY DEF IInv
<1>2. NoticesInv' /\ LatestInv'
  BY <1>1 DEF TypeOK, GateInv, Inside, ObjectInv, SeenInv, NoticesInv, LatestInv, Reported, Unreported
<1>3. QuietInv'
  BY <1>1 DEF TypeOK, GateInv, Inside, ObjectInv, SeenInv, NoticesInv, LatestInv, QuietInv, AllDelivered,
              Reported, Unreported
<1>4. RefusedInv'
  BY <1>1 DEF TypeOK, GateInv, Inside, ObjectInv, SeenInv, NoticesInv, QuietInv, AllDelivered,
              RefusedInv, Reported, Unreported
<1>5. QED
  BY <1>2, <1>3, <1>4 DEF SeenInv

LEMMA CancelWaitSeen ==
    ASSUME IInv, IInv', SeenInv, NEW c \in Callers, CancelWait(c)
    PROVE  SeenInv'
<1> USE DEF CancelWait
<1>1. TypeOK /\ TypeOK' /\ ObjectInv /\ GateInv /\ (gate # NoCaller => CallInv(gate))
  BY DEF IInv
<1>2. NoticesInv' /\ LatestInv'
  BY <1>1 DEF TypeOK, GateInv, Inside, ObjectInv, SeenInv, NoticesInv, LatestInv, Reported, Unreported
<1>3. QuietInv'
  BY <1>1 DEF TypeOK, GateInv, Inside, ObjectInv, SeenInv, NoticesInv, LatestInv, QuietInv, AllDelivered,
              Reported, Unreported
<1>4. RefusedInv'
  BY <1>1 DEF TypeOK, GateInv, Inside, ObjectInv, SeenInv, NoticesInv, QuietInv, AllDelivered,
              RefusedInv, Reported, Unreported
<1>5. QED
  BY <1>2, <1>3, <1>4 DEF SeenInv

LEMMA AcquireSeen ==
    ASSUME IInv, IInv', SeenInv, NEW c \in Callers, Acquire(c)
    PROVE  SeenInv'
<1> USE DEF Acquire
<1>1. TypeOK /\ TypeOK' /\ ObjectInv /\ GateInv /\ (gate # NoCaller => CallInv(gate))
  BY DEF IInv
<1>2. NoticesInv' /\ LatestInv'
  BY <1>1 DEF TypeOK, GateInv, Inside, ObjectInv, SeenInv, NoticesInv, LatestInv, Reported, Unreported
<1>3. QuietInv'
  BY <1>1 DEF TypeOK, GateInv, Inside, ObjectInv, SeenInv, NoticesInv, LatestInv, QuietInv, AllDelivered,
              Reported, Unreported
<1>4. RefusedInv'
  BY <1>1 DEF TypeOK, GateInv, Inside, ObjectInv, SeenInv, NoticesInv, QuietInv, AllDelivered,
              RefusedInv, Reported, Unreported
<1>5. QED
  BY <1>2, <1>3, <1>4 DEF SeenInv

LEMMA HandleExitSeen ==
    ASSUME IInv, IInv', SeenInv, NEW p \in Processes, HandleExit(p)
    PROVE  SeenInv'
<1> USE DEF HandleExit
<1>1. TypeOK /\ TypeOK' /\ ObjectInv /\ GateInv /\ (gate # NoCaller => CallInv(gate))
  BY DEF IInv
<1>2. NoticesInv' /\ LatestInv'
  BY <1>1 DEF TypeOK, GateInv, Inside, ObjectInv, SeenInv, NoticesInv, LatestInv, Reported, Unreported
<1>3. QuietInv'
  BY <1>1 DEF TypeOK, GateInv, Inside, ObjectInv, SeenInv, NoticesInv, LatestInv, QuietInv, AllDelivered,
              Reported, Unreported
<1>4. RefusedInv'
  BY <1>1 DEF TypeOK, GateInv, Inside, ObjectInv, SeenInv, NoticesInv, QuietInv, AllDelivered,
              RefusedInv, Reported, Unreported
<1>5. QED
  BY <1>2, <1>3, <1>4 DEF SeenInv

LEMMA HandleExitSetStateSeen ==
    ASSUME IInv, IInv', SeenInv, NEW p \in Processes, HandleExitSetState(p)
    PROVE  SeenInv'
<1> USE DEF HandleExitSetState, SetState
<1>1. TypeOK /\ TypeOK' /\ ObjectInv /\ GateInv /\ (gate # NoCaller => CallInv(gate))
  BY DEF IInv
<1>2. NoticesInv' /\ LatestInv'
  BY <1>1 DEF TypeOK, GateInv, Inside, ObjectInv, SeenInv, NoticesInv, LatestInv, Reported, Unreported
<1>3. QuietInv'
  BY <1>1 DEF TypeOK, GateInv, Inside, ObjectInv, SeenInv, NoticesInv, LatestInv, QuietInv, AllDelivered,
              Reported, Unreported
<1>4. RefusedInv'
  BY <1>1 DEF TypeOK, GateInv, Inside, ObjectInv, SeenInv, NoticesInv, QuietInv, AllDelivered,
              RefusedInv, Reported, Unreported
<1>5. QED
  BY <1>2, <1>3, <1>4 DEF SeenInv

LEMMA HandleExitReturnSeen ==
    ASSUME IInv, IInv', SeenInv, NEW p \in Processes, HandleExitReturn(p)
    PROVE  SeenInv'
<1> USE DEF HandleExitReturn
<1>1. TypeOK /\ TypeOK' /\ ObjectInv /\ GateInv /\ (gate # NoCaller => CallInv(gate))
  BY DEF IInv
<1>2. NoticesInv' /\ LatestInv'
  BY <1>1 DEF TypeOK, GateInv, Inside, ObjectInv, SeenInv, NoticesInv, LatestInv, Reported, Unreported
<1>3. QuietInv'
  BY <1>1 DEF TypeOK, GateInv, Inside, ObjectInv, SeenInv, NoticesInv, LatestInv, QuietInv, AllDelivered,
              Reported, Unreported
<1>4. RefusedInv'
  BY <1>1 DEF TypeOK, GateInv, Inside, ObjectInv, SeenInv, NoticesInv, QuietInv, AllDelivered,
              RefusedInv, Reported, Unreported
<1>5. QED
  BY <1>2, <1>3, <1>4 DEF SeenInv

LEMMA ProcessExitSeen ==
    ASSUME IInv, IInv', SeenInv, NEW p \in Processes, ProcessExit(p)
    PROVE  SeenInv'
<1> USE DEF ProcessExit
<1>1. TypeOK /\ TypeOK' /\ ObjectInv /\ GateInv /\ (gate # NoCaller => CallInv(gate))
  BY DEF IInv
<1>2. NoticesInv' /\ LatestInv'
  BY <1>1 DEF TypeOK, GateInv, Inside, ObjectInv, SeenInv, NoticesInv, LatestInv, Reported, Unreported
<1>3. QuietInv'
  BY <1>1 DEF TypeOK, GateInv, Inside, ObjectInv, SeenInv, NoticesInv, LatestInv, QuietInv, AllDelivered,
              Reported, Unreported
<1>4. RefusedInv'
  BY <1>1 DEF TypeOK, GateInv, Inside, ObjectInv, SeenInv, NoticesInv, QuietInv, AllDelivered,
              RefusedInv, Reported, Unreported
<1>5. QED
  BY <1>2, <1>3, <1>4 DEF SeenInv

LEMMA RaiseExitedSeen ==
    ASSUME IInv, IInv', SeenInv, NEW p \in Processes, RaiseExited(p)
    PROVE  SeenInv'
<1> USE DEF RaiseExited
<1>1. TypeOK /\ TypeOK' /\ ObjectInv /\ GateInv /\ (gate # NoCaller => CallInv(gate))
  BY DEF IInv
<1>2. NoticesInv' /\ LatestInv'
  BY <1>1 DEF TypeOK, GateInv, Inside, ObjectInv, SeenInv, NoticesInv, LatestInv, Reported, Unreported
<1>3. QuietInv'
  BY <1>1 DEF TypeOK, GateInv, Inside, ObjectInv, SeenInv, NoticesInv, LatestInv, QuietInv, AllDelivered,
              Reported, Unreported
<1>4. RefusedInv'
  BY <1>1 DEF TypeOK, GateInv, Inside, ObjectInv, SeenInv, NoticesInv, QuietInv, AllDelivered,
              RefusedInv, Reported, Unreported
<1>5. QED
  BY <1>2, <1>3, <1>4 DEF SeenInv

LEMMA DeliverSeen ==
    ASSUME IInv, IInv', SeenInv, NEW t \in Threads, Deliver(t)
    PROVE  SeenInv'
<1> USE DEF Deliver
<1>1. TypeOK /\ TypeOK' /\ ObjectInv /\ GateInv /\ (gate # NoCaller => CallInv(gate))
  BY DEF IInv
<1>2. NoticesInv' /\ LatestInv'
  BY <1>1 DEF TypeOK, GateInv, Inside, ObjectInv, SeenInv, NoticesInv, LatestInv, Reported, Unreported
<1>3. QuietInv'
  BY <1>1 DEF TypeOK, GateInv, Inside, ObjectInv, SeenInv, NoticesInv, LatestInv, QuietInv, AllDelivered,
              Reported, Unreported
<1>4. RefusedInv'
  BY <1>1 DEF TypeOK, GateInv, Inside, ObjectInv, SeenInv, NoticesInv, QuietInv, AllDelivered,
              RefusedInv, Reported, Unreported
<1>5. QED
  BY <1>2, <1>3, <1>4 DEF SeenInv

LEMMA RuntimeChangeSeen ==
    ASSUME IInv, IInv', SeenInv, RuntimeChange
    PROVE  SeenInv'
<1> USE DEF RuntimeChange
<1>1. TypeOK /\ TypeOK' /\ ObjectInv /\ GateInv /\ (gate # NoCaller => CallInv(gate))
  BY DEF IInv
<1>2. NoticesInv' /\ LatestInv'
  BY <1>1 DEF TypeOK, GateInv, Inside, ObjectInv, SeenInv, NoticesInv, LatestInv, Reported, Unreported
<1>3. QuietInv'
  BY <1>1 DEF TypeOK, GateInv, Inside, ObjectInv, SeenInv, NoticesInv, LatestInv, QuietInv, AllDelivered,
              Reported, Unreported
<1>4. RefusedInv'
  BY <1>1 DEF TypeOK, GateInv, Inside, ObjectInv, SeenInv, NoticesInv, QuietInv, AllDelivered,
              RefusedInv, Reported, Unreported
<1>5. QED
  BY <1>2, <1>3, <1>4 DEF SeenInv

LEMMA InitSeen == Init => SeenInv
BY DEF Init, SeenInv, NoticesInv, LatestInv, QuietInv, AllDelivered, RefusedInv

LEMMA NextSeen == IInv /\ IInv' /\ SeenInv /\ [Next]_vars => SeenInv'
<1> SUFFICES ASSUME IInv, IInv', SeenInv, [Next]_vars PROVE SeenInv'
  OBVIOUS
<1>1. ASSUME NEW c \in Callers, NEW o \in Ops, Call(c, o) PROVE SeenInv'
  BY <1>1, CallBeginsSeen
<1>2. ASSUME NEW c \in Callers, CancelWait(c) \/ Acquire(c) PROVE SeenInv'
  BY <1>2, CancelWaitSeen, AcquireSeen
<1>3. ASSUME NEW c \in Callers, StartStep(c) PROVE SeenInv'
  BY <1>3, StartEnterSeen, StartPlanSeen, StartCreateSeen, StartLaunchSeen, StartDelaySeen,
     StartProbeSeen, StartEarlyExitSeen, StartDeclareSeen, StartCatchSeen DEF StartStep
<1>4. ASSUME NEW c \in Callers, StopStep(c) \/ Release(c) PROVE SeenInv'
  BY <1>4, StopEnterSeen, StopBeginSeen, SettleSeen, TerminateSeen, AwaitExitSeen, AbandonSeen,
     ReleaseSeen DEF StopStep
<1>5. ASSUME NEW p \in Processes, HandlerStep(p) PROVE SeenInv'
  BY <1>5, HandleExitSeen, HandleExitSetStateSeen, HandleExitReturnSeen DEF HandlerStep
<1>6. ASSUME NEW p \in Processes, ProcessExit(p) \/ RaiseExited(p) PROVE SeenInv'
  BY <1>6, ProcessExitSeen, RaiseExitedSeen
<1>7. ASSUME NEW t \in Threads, Deliver(t) PROVE SeenInv'
  BY <1>7, DeliverSeen
<1>8. CASE RuntimeChange
  BY <1>8, RuntimeChangeSeen
<1>9. CASE UNCHANGED vars
  BY <1>9 DEF vars, SeenInv, NoticesInv, LatestInv, QuietInv, AllDelivered, RefusedInv, Reported, Unreported
<1>10. QED
  BY <1>1, <1>2, <1>3, <1>4, <1>5, <1>6, <1>7, <1>8, <1>9 DEF Next, CallerStep

(* However notifications overtake one another, a subscriber is left with a *)
(* live engine shown Running, and shows another state than State only if   *)
(* it shows Running or Stopping, or if State is the Running of an engine   *)
(* whose exit it missed (SetState calls the handler outside the lock).     *)
THEOREM SeenProperly == Spec => []SeenAtRest
<1>1. IInv /\ SeenInv => SeenAtRest
  <2> SUFFICES ASSUME IInv, SeenInv, gate = NoCaller, AllDelivered
               PROVE  /\ seen = state \/ state = "Running" \/ seen \in {"Running", "Stopping"}
                      /\ process # NoProcess /\ Live(process) => seen = "Running"
    BY DEF SeenAtRest
  <2>1. RestInv /\ ObjectInv /\ TypeOK /\ QuietInv
    BY DEF IInv, SeenInv
  <2>2. QED
    BY <2>1 DEF RestInv, ObjectInv, TypeOK, QuietInv, Reported, Unreported
<1>2. Spec => []SeenInv
  BY Inductive, InitSeen, NextSeen, PTL DEF Spec
<1>3. QED
  BY <1>1, <1>2, Inductive, PTL
=============================================================================
