------------------------------- MODULE NfqMain -------------------------------
(***************************************************************************)
(* nfq2/nfqws.c: the start, the packet loop, the signals and the end of    *)
(* nfqws2 on its three systems: a netfilter queue ("nfq"), a divert socket *)
(* ("divert") and WinDivert ("windivert").  One thread, interrupted by     *)
(* signal handlers: SIGHUP asks for the lists to be loaded again, SIGINT   *)
(* and SIGTERM ask it to quit.  Between packets it runs Lua's timers.      *)
(***************************************************************************)
EXTENDS TimerPool

CONSTANTS
    Systems,        \* those to be checked
    MaxHups,        \* bound on SIGHUPs
    Garbage         \* what the uninitialized e may hold

ASSUME NfqMainAssumption ==
    /\ Systems \subseteq {"nfq", "offline", "divert", "windivert"}
    /\ MaxHups \in Nat

VARIABLES
    os,             \* the system
    pc,             \* where the program is
    step,           \* the step of the start
    held,           \* what has been acquired and not been released
    code,           \* "none", or what the program ended with
    quit, reload,   \* bQuit, bReload
    eno,            \* e: "ENOBUFS" or another value
    wait,           \* bt_next, 0 being none
    sel,            \* a packet is to be received
    queue,          \* packets in the kernel's queue
    present,        \* windivert: the logical network is there
    hups,           \* SIGHUPs received
    asked           \* a SIGHUP came that no load has begun after

flags == <<quit, reload, hups, asked>>
setup == <<os, step, held, present>>
poolVars == <<now, pool, created, walk, ran>>
vars == <<timerVars, setup, pc, code, flags, eno, wait, sel, queue>>

-----------------------------------------------------------------------------
\* The start: what each step acquires ("" if nothing), in the code's order.
NfqStart ==
    <<"pidfile", "", "", "", "rawsend", "lua", "buffers", "socket", "queue", "wlan", "">>

\* nfq_main without interception.
OfflineStart == <<"pidfile", "", "", "", "rawsend", "", "lua">>

DivertStart == <<"pidfile", "divert", "rawsend", "", "", "", "lua", "">>

\* What comes before the loop of win_main.
WindivertStart == <<"", "dark", "buffers">>

Start(s) ==
    CASE s = "nfq" -> NfqStart [] s = "offline" -> OfflineStart
      [] s = "divert" -> DivertStart [] s = "windivert" -> WindivertStart

\* The step that writes and closes the pid file (write_pidfile), and the one
\* before which the signal handlers are set (catch_signals).
PidStep(s) == CASE s = "nfq" -> 11 [] s = "offline" -> 6 [] s = "divert" -> 8
                [] s = "windivert" -> 0
SignalStep(s) == CASE s = "nfq" -> 6 [] s = "offline" -> 7 [] s = "divert" -> 7
                   [] s = "windivert" -> 4

RawsendKept(s) == {"pidfile", "buffers", "queue", "socket", "lua", "wlan", "divert", "dark"}

\* What the end of the main function releases.
Released(s) ==
    CASE s \in {"nfq", "offline"} ->
           {"pidfile", "buffers", "queue", "socket", "lua", "wlan", "rawsend"}
      [] s = "divert" -> {"pidfile", "divert", "lua", "rawsend"}
      [] s = "windivert" -> {"buffers", "dark", "lua", "rawsend"}

Init ==
    /\ TimersInit
    /\ os \in Systems /\ pc = "start" /\ step = 1 /\ held = {} /\ code = "none"
    /\ quit = FALSE /\ reload = FALSE /\ wait = 0 /\ sel = FALSE
    /\ eno \in (IF os = "nfq" THEN Garbage ELSE {"other"})  \* e is nfq_main's
    /\ queue = 0 /\ present = TRUE /\ hups = 0 /\ asked = FALSE

StepDone ==
    /\ pc = "start"
    /\ held' = (held \cup ({Start(os)[step]} \ {""}))
                 \ (IF step = PidStep(os) THEN {"pidfile"} ELSE {})
    /\ step' = step + 1
    /\ pc' = IF step < Len(Start(os)) THEN "start"
             ELSE IF os = "windivert" THEN "network" ELSE "top"
    /\ UNCHANGED <<timerVars, os, present, code, flags, eno, wait, sel, queue>>

\* Without a pid file, at the very start, nothing else has been acquired.
StepFails ==
    /\ pc = "start"
    /\ code' = "error"
    /\ pc' = IF step = 1 THEN "ended" ELSE "cleanup"
    /\ UNCHANGED <<timerVars, setup, flags, eno, wait, sel, queue>>

Cleanup ==
    /\ pc = "cleanup"
    /\ held' = held \ Released(os)
    /\ pc' = "ended"
    /\ UNCHANGED <<timerVars, os, step, present, code, flags, eno, wait, sel, queue>>

Leave(c) == pc' = "cleanup" /\ code' = c
GoTo(label) == pc' = label /\ UNCHANGED code

-----------------------------------------------------------------------------
\* win_main: waits for the logical network, opens the filter, then the sandbox
\* and, the first time, Lua.
NetworkThere ==
    /\ pc = "network" /\ present
    /\ held' = held \cup {"rawsend", "lua"}
    /\ pc' = "top" /\ wait' = 0
    /\ UNCHANGED <<timerVars, os, step, present, code, flags, eno, sel, queue>>

\* windivert_init, win_sandbox or lua_init failed.
FilterFails ==
    /\ pc = "network" /\ present
    /\ \E opened \in {{}, {"rawsend"}} : held' = held \cup opened
    /\ Leave("error")
    /\ UNCHANGED <<timerVars, os, step, present, flags, eno, wait, sel, queue>>

NetworkQuit ==
    /\ pc = "network" /\ ~present /\ quit
    /\ Leave("ok")
    /\ UNCHANGED <<timerVars, setup, flags, eno, wait, sel, queue>>

NetworkChanges ==
    /\ os = "windivert" /\ pc \in {"network", "top", "select"}
    /\ present' = ~present
    /\ UNCHANGED <<timerVars, os, step, held, pc, code, flags, eno, wait, sel, queue>>

-----------------------------------------------------------------------------
QuitUnseen == FALSE

\* nfq's inner loop looks at bQuit after select only, when there are timers.
SeesQuit == quit /\ (os = "nfq" => pool = {})

Gone == os = "windivert" /\ ~present
Recounts == pool # {} /\ (wait = 0 \/ (os = "windivert" /\ dirty))
NextWait ==
    IF pool = {} THEN (IF os = "divert" THEN wait ELSE 0)
    ELSE IF Recounts THEN Soonest(pool) ELSE wait

\* The top of the loop: nfq without timers goes to the queue itself, WinDivert
\* first runs the timers that are due, the others wait.
Top ==
    /\ pc = "top"
    /\ \/ SeesQuit /\ Leave("ok") /\ UNCHANGED <<wait, dirty, sel, held>>
       \/ /\ ~SeesQuit /\ os = "offline" /\ pool = {}
          /\ Leave("ok") /\ UNCHANGED <<wait, dirty, sel, held>>
       \/ /\ ~SeesQuit /\ Gone
          /\ GoTo("network") /\ held' = held \ {"rawsend"}
          /\ UNCHANGED <<wait, dirty, sel>>
       \/ /\ ~SeesQuit /\ ~Gone /\ ~(os = "offline" /\ pool = {})
          /\ wait' = NextWait
          /\ dirty' = (dirty /\ ~Recounts)
          /\ sel' = (os = "nfq" /\ pool = {})
          /\ GoTo(CASE os = "nfq" /\ pool = {} -> "reload"
                    [] os = "windivert" /\ pool # {} /\ now >= NextWait -> "run"
                    [] OTHER -> "select")
          /\ UNCHANGED held
    /\ UNCHANGED <<poolVars, os, step, present, flags, eno, queue>>

\* The wait is over: a packet has come or a timer is due.  WinDivert's runs the
\* timers and goes on, and takes its packet before it looks at bReload.
Selected ==
    /\ pc = "select"
    /\ sel' = (queue > 0)
    /\ queue > 0 \/ (pool # {} /\ now >= wait)
    /\ IF quit /\ os # "windivert" THEN Leave("ok")
       ELSE GoTo(CASE os # "windivert" -> "reload" [] queue = 0 -> "run" [] OTHER -> "recv")
    /\ UNCHANGED <<timerVars, setup, flags, eno, wait, queue>>

\* WinDivert's looks at bQuit and at the network every 50 ms.
Polled ==
    /\ pc = "select" /\ os = "windivert" /\ (quit \/ ~present)
    /\ GoTo("top")
    /\ UNCHANGED <<timerVars, setup, flags, eno, wait, sel, queue>>

-----------------------------------------------------------------------------
WantedForPacket == reload /\ sel
Wanted == reload

\* ReloadCheck: LoadAllHostLists and LoadAllIpsets, or exit(200).
LoadLists ==
    /\ pc = "reload" /\ Wanted
    /\ asked' = FALSE
    /\ \/ GoTo("clear")
       \/ pc' = "ended" /\ code' = "lists"
    /\ UNCHANGED <<timerVars, setup, quit, reload, hups, eno, wait, sel, queue>>

ReloadDone ==
    /\ \/ pc = "reload" /\ ~Wanted
       \/ pc = "clear"
    /\ reload' = FALSE
    /\ GoTo(CASE ~sel -> "run" [] os = "windivert" -> "handle" [] OTHER -> "recv")
    /\ UNCHANGED <<timerVars, setup, quit, hups, asked, eno, wait, sel, queue>>

Receive ==
    /\ pc = "recv" /\ queue > 0
    /\ queue' = queue - 1
    /\ GoTo(IF os = "windivert" THEN "reload" ELSE "handle")
    /\ UNCHANGED <<timerVars, setup, flags, eno, wait, sel>>

\* ENOBUFS, which the loop survives, or another error.  Divert's goes on to the
\* timers.
ReceiveFails ==
    /\ pc = "recv"
    /\ \E e \in {"ENOBUFS", "other"} :
         /\ IF e = "other" THEN Leave("error")
            ELSE IF os = "nfq" /\ quit THEN Leave("ok")
            ELSE GoTo(IF os = "divert" THEN "run" ELSE "top")
         /\ eno' = (IF os = "nfq" THEN e ELSE eno)
    /\ UNCHANGED <<timerVars, setup, flags, wait, sel, queue>>

\* processPacketData returns.
Handle ==
    /\ pc = "handle"
    /\ GoTo(IF os = "windivert" THEN "top" ELSE "run")
    /\ UNCHANGED <<timerVars, setup, flags, eno, wait, sel, queue>>

\* Lua code is running: the scripts of lua_init, a packet's strategies or a
\* timer's function.
InLua ==
    \/ pc = "start" /\ Start(os)[step] = "lua"
    \/ pc = "network" /\ present /\ "lua" \notin held
    \/ pc = "handle"
    \/ walk.calling

\* It calls timer_set or timer_del.
LuaCalls ==
    /\ InLua
    /\ LuaSetsTimers
    /\ UNCHANGED <<setup, pc, code, flags, eno, wait, sel, queue>>

\* The handling touched the timers, and none is due: when the next one is due is
\* to be found again.
MustForget(isDirty) == isDirty

RunTimers ==
    /\ pc = "run" /\ ~walk.on
    /\ \/ /\ pool # {} /\ (os \in {"nfq", "divert"} => now >= wait)
          /\ StartWalk
          /\ UNCHANGED <<pc, wait>>
       \/ /\ pool = {} \/ (os \in {"nfq", "divert"} /\ now < wait)
          /\ wait' = IF pool # {} /\ MustForget(dirty) THEN 0 ELSE wait
          /\ pc' = "top"
          /\ UNCHANGED timerVars
    /\ UNCHANGED <<setup, code, flags, eno, sel, queue>>

WalkStep ==
    /\ pc = "run" /\ Walk
    /\ UNCHANGED <<setup, pc, code, flags, eno, wait, sel, queue>>

TimersRun ==
    /\ pc = "run" /\ WalkOver
    /\ wait' = NextDue
    /\ walk' = Idle /\ ran' = <<>>
    /\ GoTo(IF os = "windivert" THEN "select" ELSE "top")
    /\ UNCHANGED <<now, pool, created, dirty, setup, flags, eno, sel, queue>>

-----------------------------------------------------------------------------
\* A signal's handler has run while the program was where it is, and has left
\* bQuit as isQuit.  It may have interrupted a wait: NoInterceptLoop's sleep is
\* over, select is called again unless bQuit is set, and after nfq's recv the
\* loop's condition reads e.
Interrupted(isQuit) ==
    \/ UNCHANGED <<pc, code>>
    \/ /\ pc = "select" /\ os # "windivert" /\ queue = 0
       /\ IF isQuit THEN Leave("ok") ELSE GoTo(IF os = "offline" THEN "reload" ELSE "top")
    \/ /\ pc = "recv" /\ os = "nfq" /\ queue = 0
       /\ IF eno # "ENOBUFS" THEN Leave("error")
          ELSE IF isQuit THEN Leave("ok") ELSE GoTo("top")

Catching == step >= SignalStep(os) /\ pc \notin {"cleanup", "ended"} /\ ~quit

\* onhup.  While ReloadCheck is about to clear bReload, the request is lost.
Hup ==
    /\ Catching /\ hups < MaxHups
    /\ reload' = TRUE /\ hups' = hups + 1
    /\ asked' = (asked \/ pc # "clear")
    /\ Interrupted(FALSE)
    /\ UNCHANGED <<timerVars, setup, quit, eno, wait, sel, queue>>

\* onint, onterm
Term ==
    /\ Catching
    /\ quit' = TRUE
    /\ Interrupted(TRUE)
    /\ UNCHANGED <<timerVars, setup, reload, hups, asked, eno, wait, sel, queue>>

\* The environment: a packet comes, time passes.
Arrive ==
    /\ os # "offline" /\ queue = 0 /\ pc \notin {"start", "network", "cleanup", "ended"}
    /\ queue' = 1
    /\ UNCHANGED <<timerVars, setup, pc, code, flags, eno, wait, sel>>

Tick ==
    /\ now < MaxTime /\ pc \notin {"start", "cleanup", "ended"}
    /\ now' = now + 1
    /\ UNCHANGED <<pool, created, dirty, walk, ran, setup, pc, code, flags, eno, wait,
                   sel, queue>>

Step ==
    \/ StepDone \/ StepFails \/ Cleanup
    \/ NetworkThere \/ FilterFails \/ NetworkQuit
    \/ Top \/ Selected \/ Polled
    \/ LoadLists \/ ReloadDone \/ Receive \/ ReceiveFails \/ Handle
    \/ LuaCalls \/ RunTimers \/ WalkStep \/ TimersRun

Next == Step \/ Hup \/ Term \/ Arrive \/ Tick \/ NetworkChanges

\* The program goes on; packets keep coming, and not all of them are too large to
\* be received; the clock goes on up to its bound.
Spec == Init /\ [][Next]_vars /\ WF_vars(Step) /\ WF_vars(Arrive) /\ WF_vars(Tick)
             /\ SF_vars(Receive)

-----------------------------------------------------------------------------
\* The loop waits for a packet exactly until the soonest timer, although packets'
\* and timers' functions create and delete timers (bt_next and timers_dirty:
\* nfq_main 532-592, dvt_main 731-818, windivert_recv_filter 1619-1633).
SleepsUntilDue == pc = "select" /\ pool # {} => wait = Soonest(pool)

\* Each timer is run when it is due, and once: the walk of the pool is sound
\* whatever the functions do to it, and the loop does not sleep past the next.
TimersOnTime == WalkOnTimers /\ WalkRunsDue /\ SleepsUntilDue

\* Whatever step of the start, the loop or the filter's opening fails, and
\* wherever the program is told to quit, it leaves nothing open (the labels err
\* to ex); a failed load of the lists exits on the spot.
EndsClean == pc = "ended" /\ code # "lists" => held = {}

\* A program told to quit does, at the latest with the next packet (bQuit,
\* 118-137 and where it is read).  NoInterceptLoop has no packets: it ends at its
\* next timer.
QuitEnds == quit ~> pc = "ended" \/ (os = "offline" /\ now = MaxTime)

\* A SIGHUP makes the lists be loaded again (onhup, ReloadCheck), unless it comes
\* between a load's end and bReload's reset (Hup), the program ends, or the
\* logical network is gone; NoInterceptLoop as above.
HupServed == asked ~> ~asked \/ pc = "ended" \/ ~present \/ (os = "offline" /\ now = MaxTime)

\* Each signal has its effect in the end.
SignalsServed == QuitEnds /\ HupServed

\* "HUP received ! Lists will be reloaded.": a SIGHUP does not end the program.
HupSurvives == [][hups' # hups => pc' # "cleanup"]_vars

-----------------------------------------------------------------------------
\* Why: what holds at every step.

Places ==
    {"start", "network", "top", "select", "reload", "clear", "recv", "handle", "run",
     "cleanup", "ended"}

PlaceTypeOK ==
    /\ os \in Systems /\ pc \in Places /\ wait \in 0 .. Never /\ sel \in BOOLEAN
    /\ step \in 1 .. Len(Start(os)) + 1 /\ held \subseteq Released(os)
    /\ code \in {"none", "ok", "error", "lists"} /\ quit \in BOOLEAN /\ reload \in BOOLEAN
    /\ eno \in Garbage \cup {"ENOBUFS", "other"} /\ queue \in 0..1 /\ present \in BOOLEAN
    /\ hups \in 0..MaxHups /\ asked \in BOOLEAN

\* The wait that the loop knows is right, or the pool has been touched since, which
\* the loop will see (wait 0, or the flag) before it waits.
Known == wait = Soonest(pool) /\ ~dirty

WaitKnown ==
    /\ walk.on => pc = "run"
    /\ pc = "start" => wait = 0
    /\ pc = "top" /\ pool # {} => wait = 0 \/ Known \/ (os = "windivert" /\ dirty)
    /\ pc \in {"select", "reload", "clear", "recv"} /\ pool # {} => Known
    /\ (pc = "handle" \/ (pc = "run" /\ ~walk.on)) /\ pool # {} => Known \/ dirty

\* Only WinDivert's waits for the network; what is held is what the end releases.
HoldsKnown ==
    /\ pc = "network" => os = "windivert"
    /\ pc = "start" => step <= Len(Start(os)) /\ (step = 1 => held = {})
    /\ pc = "ended" /\ code # "lists" => held = {}

IInv == TimersInv /\ PlaceTypeOK /\ WaitKnown /\ HoldsKnown
=============================================================================
