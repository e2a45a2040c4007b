------------------------------ MODULE TimerPool ------------------------------
(***************************************************************************)
(* nfq2/timer.c: the timers that Lua sets, and the walk that runs those    *)
(* that are due.  A timer's function may set and delete any timer, its own *)
(* too, while the walk stands on it.                                       *)
(*                                                                         *)
(* The pool is a set of [n, name, period, oneshot, due], n being the       *)
(* number a timer was created with.  uthash keeps the order of insertion,  *)
(* which is that of the numbers; a pointer to a timer is its n, 0 being    *)
(* NULL.                                                                   *)
(***************************************************************************)
EXTENDS Integers, Sequences, FiniteSets

CONSTANTS
    Names, Periods, \* what timer_set may be called with
    MaxCreated,     \* bound on timers created
    MaxTime         \* bound on the clock

ASSUME TimerAssumption ==
    /\ MaxCreated \in Nat /\ MaxTime \in Nat \ {0}
    /\ Periods \subseteq 1..MaxTime

VARIABLES
    now,            \* boottime_ms
    pool,           \* params.timers
    created,        \* timer_n
    dirty,          \* params.timers_dirty
    walk,           \* the locals of TimerPoolRun
    ran             \* timers run in this walk, in order

timerVars == <<now, pool, created, dirty, walk, ran>>

\* 0x7FFFFFFFFFFFFFFF: later than any timer is due.
Never == MaxTime + MaxTime + 1

Idle == [on |-> FALSE, calling |-> FALSE, bt |-> 0, elem |-> 0, tmp |-> 0, min |-> 0]

TimersInit ==
    /\ now = 1 /\ pool = {} /\ created = 0 /\ dirty = FALSE
    /\ walk = Idle /\ ran = <<>>

Numbers(p) == {t.n : t \in p}
Timer(p, n) == CHOOSE t \in p : t.n = n

First(p) ==
    IF p = {} THEN 0 ELSE CHOOSE n \in Numbers(p) : \A m \in Numbers(p) : n <= m

\* The next in the hash's order; what follows a timer that is gone is not known.
After(p, n) == IF n \in Numbers(p) THEN First({t \in p : t.n > n}) ELSE 0

Delete(p, n) == {t \in p : t.n # n}

Least(a, b) == IF a < b THEN a ELSE b

\* TimerPoolNext, from the pool p.
Soonest(p) == CHOOSE d \in {t.due : t \in p} : \A t \in p : d <= t.due

-----------------------------------------------------------------------------
\* timer_set and timer_del, from a timer's function or a packet's.

Others(name) == {t \in pool : t.name # name}

SetTimer(name, period, oneshot) ==
    /\ created < MaxCreated
    /\ created' = created + 1
    /\ pool' = Others(name) \cup
         {[n |-> created + 1, name |-> name, period |-> period, oneshot |-> oneshot,
           due |-> now + period]}
    /\ dirty' = TRUE

DelTimer(name) ==
    /\ pool' = Others(name)
    /\ dirty' = (dirty \/ Others(name) # pool)
    /\ UNCHANGED created

LuaSetsTimers ==
    /\ \E name \in Names :
         \/ DelTimer(name)
         \/ \E period \in Periods, oneshot \in BOOLEAN : SetTimer(name, period, oneshot)
    /\ UNCHANGED <<now, walk, ran>>

-----------------------------------------------------------------------------
\* TimerPoolRun

\* From the label `again': a walk of the pool p from its first timer.
Again(p) ==
    [on |-> TRUE, calling |-> FALSE, bt |-> walk.bt, elem |-> First(p),
     tmp |-> After(p, First(p)), min |-> Never]

StartWalk ==
    /\ ~walk.on /\ pool # {}
    /\ walk' = [Again(pool) EXCEPT !.bt = now]
    /\ dirty' = FALSE
    /\ ran' = <<>>
    /\ UNCHANGED <<now, pool, created>>

\* elem = tmp, tmp = tmp->next; min as far as elem counts for it.
Advanced(p, min) ==
    [walk EXCEPT !.calling = FALSE, !.elem = walk.tmp, !.tmp = After(p, walk.tmp), !.min = min]

Standing == Timer(pool, walk.elem)
OnTimer == walk.on /\ ~walk.calling /\ walk.elem \in Numbers(pool)
IsDue == OnTimer /\ walk.bt >= Standing.due

AgainNever(isDirty) == FALSE

\* The function touched timers: the walk's pointers may be gone.
MustRestart(isDirty) == isDirty

\* The timer is still there under its name and number: the function has left it.
Left == walk.elem \in Numbers(pool)

Postponed ==
    {IF t.n = walk.elem THEN [t EXCEPT !.due = walk.bt + t.period] ELSE t : t \in pool}

\* The pool when the timer walked on has been run: one that failed or is to run
\* once goes, another is due a period from the walk's time.
Afterwards(failed) ==
    IF ~Left THEN pool
    ELSE IF failed \/ Standing.oneshot THEN Delete(pool, walk.elem) ELSE Postponed

\* The least time to come: a timer that was deleted is not counted.
Counted(p) ==
    IF walk.elem \in Numbers(p) THEN Least(walk.min, Timer(p, walk.elem).due) ELSE walk.min

CallTimer ==
    /\ IsDue
    /\ walk' = [walk EXCEPT !.calling = TRUE]
    /\ ran' = Append(ran, walk.elem)
    /\ UNCHANGED <<now, pool, created, dirty>>

TimerReturns(failed) ==
    /\ walk.calling
    /\ pool' = Afterwards(failed)
    /\ dirty' = (dirty /\ ~MustRestart(dirty))
    /\ walk' = IF MustRestart(dirty) THEN Again(pool') ELSE Advanced(pool', Counted(pool'))
    /\ UNCHANGED <<now, created, ran>>

\* Its name could not be copied: it is not run.
NoMemory ==
    /\ IsDue
    /\ pool' = Afterwards(FALSE)
    /\ walk' = Advanced(pool', Counted(pool'))
    /\ UNCHANGED <<now, created, dirty, ran>>

PassBy ==
    /\ OnTimer /\ ~IsDue
    /\ walk' = Advanced(pool, Counted(pool))
    /\ UNCHANGED <<now, pool, created, dirty, ran>>

\* The value TimerPoolRun returns, when the walk is over.
WalkOver == walk.on /\ ~walk.calling /\ walk.elem = 0
NextDue == IF pool = {} THEN 0 ELSE walk.min

Walk ==
    \/ CallTimer \/ (\E failed \in BOOLEAN : TimerReturns(failed))
    \/ NoMemory
    \/ PassBy

-----------------------------------------------------------------------------
\* The walk never stands on a timer that is gone, nor goes on to one, whatever
\* the functions do (TimerPoolRun, 87-164).
WalkOnTimers ==
    walk.on /\ ~walk.calling => {walk.elem, walk.tmp} \subseteq Numbers(pool) \cup {0}

\* A walk runs no timer twice, and leaves none that is due; what it returns is
\* when the next one is due.
WalkRunsDue ==
    /\ \A i, j \in DOMAIN ran : i # j => ran[i] # ran[j]
    /\ WalkOver => /\ \A t \in pool : t.due > walk.bt
                   /\ NextDue = IF pool = {} THEN 0 ELSE Soonest(pool)

-----------------------------------------------------------------------------
\* What holds of the pool and of the walk at every step.

Timers ==
    [n : 1..created, name : Names, period : Periods, oneshot : BOOLEAN,
     due : 1 .. (MaxTime + MaxTime)]

Walks ==
    [on : BOOLEAN, calling : BOOLEAN, bt : 0..now, elem : 0..created, tmp : 0..created,
     min : 0..Never]

TimersTypeOK ==
    /\ now \in 1..MaxTime /\ created \in 0..MaxCreated /\ dirty \in BOOLEAN
    /\ pool \subseteq Timers /\ walk \in Walks
    /\ ran \in Seq(Nat) /\ \A i \in DOMAIN ran : ran[i] \in 1..created

NumbersUnique == \A t, u \in pool : t.n = u.n => t = u

\* What the walk has behind it.
Passed(t) == walk.elem = 0 \/ t.n < walk.elem

\* As long as no function touches the timers: the walk stands on one, knows the
\* next, and has counted what it has passed.
WalkKept ==
    /\ walk.elem \in Numbers(pool) \cup {0} /\ walk.tmp = After(pool, walk.elem)
    /\ \A t \in pool : Passed(t) => t.due > walk.bt /\ walk.min <= t.due
    /\ walk.min = Never \/ \E t \in pool : Passed(t) /\ t.due = walk.min

\* Touched, they are while a function runs.
WalkSound ==
    /\ walk.calling => walk.on /\ walk.elem # 0
    /\ walk.on /\ dirty => walk.calling
    /\ walk.on /\ ~dirty => WalkKept

\* A timer that has been run, and is not running, is not due in this walk again.
RanOnce ==
    /\ ~walk.on => ran = <<>>
    /\ \A i, j \in DOMAIN ran : i # j => ran[i] # ran[j]
    /\ \A t \in pool : (\E i \in DOMAIN ran : ran[i] = t.n) =>
         t.due > walk.bt \/ (walk.calling /\ t.n = walk.elem)

TimersInv == TimersTypeOK /\ NumbersUnique /\ WalkSound /\ RanOnce
=============================================================================
