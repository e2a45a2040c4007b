-------------------------------- MODULE Mdig --------------------------------
(***************************************************************************)
(* mdig/mdig.c: names are read from stdin, resolved by several threads and *)
(* their addresses printed.  One mutex (flock) serialises the reading of   *)
(* lines and everything that is printed; it is held while a thread waits   *)
(* for the next line.  Another (slock) protects the statistics.            *)
(*                                                                         *)
(* A line is what one fgets returns (a longer line is several of them):    *)
(*   [kind |-> "empty" | "bad"]               nothing, or no valid name    *)
(*   [kind |-> "name"]                        a name to resolve            *)
(*   [kind |-> "net", family, addr, bits]     an address, or a network     *)
(* A network of Full(family) bits is printed as an address; one of more    *)
(* bits is not valid.  Both logs and --stats are given, and what reads      *)
(* stdout reads on: without a log or --stats the step writes nothing.      *)
(***************************************************************************)
EXTENDS Integers, Sequences, SequencesExt

CONSTANTS
    MaxThreads,     \* --threads
    MaxTries,       \* --eagain
    Every,          \* --stats
    Families,       \* --family: a subset of {4, 6}
    Full,           \* the bits of an address of each family
    Inputs,         \* the files that may be read: sequences of lines
    Answers,        \* what a name may resolve to: sequences of networks
    Nobody          \* a free mutex

Threads == 1..MaxThreads

MdigParameters ==
    /\ MaxThreads \in 1..100 /\ MaxTries \in 1..1000 /\ Every \in Nat \ {0}
    /\ Families # {} /\ Families \subseteq {4, 6}
    /\ Nobody \notin Threads

VARIABLES
    input,          \* the file
    next,           \* the line the next fgets returns
    flock,          \* its holder
    main,           \* where run_threads is
    created,        \* threads created so far
    pc,             \* where t_resolver is, for each thread
    line,           \* the line being handled
    ok,             \* is_ok
    tries,          \* attempts to resolve it
    printing,       \* addresses of the line still to be printed
    stdout,         \* what has been printed
    resolved,       \* lines in the log of the resolved
    failed,         \* lines in the log of the failed
    stats,          \* stats_ct, stats_ct_ok
    seen,           \* the counts stat_plus has read under slock
    shown,          \* the counts printed to stderr
    code            \* the exit code

io == <<input, next>>
logs == <<stdout, resolved, failed>>
work == <<line, ok, tries, printing>>
counts == <<stats, seen, shown>>
mdigVars == <<io, flock, main, created, pc, work, logs, counts, code>>

\* main, 517-628: with a log that cannot be created nothing is read.
MdigInit ==
    /\ input \in Inputs /\ next = 1
    /\ flock = Nobody /\ created = 0
    /\ \/ main = "create" /\ code = 0
       \/ main = "done" /\ code = 5
    /\ pc = [t \in Threads |-> "none"]
    /\ line = [t \in Threads |-> 0]
    /\ ok = [t \in Threads |-> FALSE]
    /\ tries = [t \in Threads |-> 0]
    /\ printing = [t \in Threads |-> <<>>]
    /\ stdout = <<>> /\ resolved = <<>> /\ failed = <<>>
    /\ stats = [ct |-> 0, ok |-> 0]
    /\ seen = [t \in Threads |-> [ct |-> 0, ok |-> 0]]
    /\ shown = <<>>

-----------------------------------------------------------------------------
\* run_threads

CreateThread ==
    /\ main = "create" /\ created < MaxThreads
    /\ created' = created + 1
    /\ pc' = [pc EXCEPT ![created + 1] = "get"]
    /\ UNCHANGED <<io, flock, main, work, logs, counts, code>>

\* The message about the failure waits for flock.
CreateFails ==
    /\ main = "create" /\ created < MaxThreads /\ flock = Nobody
    /\ main' = "join"
    /\ UNCHANGED <<io, flock, created, pc, work, logs, counts, code>>

CreateDone ==
    /\ main = "create" /\ created = MaxThreads
    /\ main' = "join"
    /\ UNCHANGED <<io, flock, created, pc, work, logs, counts, code>>

JoinAny ==
    /\ main = "join" /\ (created = 0 \/ \E t \in 1..created : pc[t] = "ended")
    /\ main' = "done"
    /\ shown' = Append(shown, stats)
    /\ code' = IF created = 0 THEN 12 ELSE 0
    /\ UNCHANGED <<io, flock, created, pc, work, logs, stats, seen>>

\* Every thread that was created is waited for.
Join ==
    /\ main = "join" /\ \A t \in 1..created : pc[t] = "ended"
    /\ main' = "done"
    /\ shown' = Append(shown, stats)
    /\ code' = IF created = 0 THEN 12 ELSE 0
    /\ UNCHANGED <<io, flock, created, pc, work, logs, stats, seen>>

-----------------------------------------------------------------------------
\* t_resolver

\* interlocked_get_dom: the mutex is taken, and held while fgets waits.  When a
\* line comes is up to who writes stdin: it is seen by no one but fgets.
LockInput(t) ==
    /\ pc[t] = "get" /\ flock = Nobody
    /\ flock' = t
    /\ pc' = [pc EXCEPT ![t] = "fgets"]
    /\ UNCHANGED <<io, main, created, work, logs, counts, code>>

Valid(l) == l.family \in Families /\ l.bits <= Full[l.family]

\* What is done with a line before any other thread can see it.
AfterRead(l) ==
    CASE l.kind = "empty" -> "stat"
      [] l.kind = "name" -> "resolve"
      [] l.kind = "net" /\ Valid(l) -> "print"
      [] OTHER -> "log"

OkKept(t) == ok[t]

\* is_ok of a line that has just been read.
OkAtFirst(t) == FALSE

ReadLine(t) ==
    /\ pc[t] = "fgets" /\ next <= Len(input)
    /\ LET l == input[next] IN
         /\ pc' = [pc EXCEPT ![t] = AfterRead(l)]
         /\ printing' = [printing EXCEPT ![t] =
                            IF AfterRead(l) = "print" THEN <<l>> ELSE <<>>]
    /\ line' = [line EXCEPT ![t] = next]
    /\ ok' = [ok EXCEPT ![t] = OkAtFirst(t)]
    /\ tries' = [tries EXCEPT ![t] = 0]
    /\ next' = next + 1
    /\ flock' = Nobody
    /\ UNCHANGED <<input, main, created, logs, counts, code>>

ReadEndLocked(t) ==
    /\ pc[t] = "fgets" /\ next > Len(input)
    /\ pc' = [pc EXCEPT ![t] = "ended"]
    /\ UNCHANGED <<io, flock, main, created, work, logs, counts, code>>

ReadEnd(t) ==
    /\ pc[t] = "fgets" /\ next > Len(input)
    /\ flock' = Nobody
    /\ pc' = [pc EXCEPT ![t] = "ended"]
    /\ UNCHANGED <<io, main, created, work, logs, counts, code>>

\* getaddrinfo answers EAI_AGAIN, and is asked again while attempts are left.
ResolveAgain(t) ==
    /\ pc[t] = "resolve"
    /\ tries' = [tries EXCEPT ![t] = @ + 1]
    /\ pc' = [pc EXCEPT ![t] = IF tries[t] + 1 < MaxTries THEN "resolve" ELSE "log"]
    /\ UNCHANGED <<io, flock, main, created, line, ok, printing, logs, counts, code>>

ResolveFails(t) ==
    /\ pc[t] = "resolve"
    /\ pc' = [pc EXCEPT ![t] = "log"]
    /\ UNCHANGED <<io, flock, main, created, work, logs, counts, code>>

Resolve(t) ==
    /\ pc[t] = "resolve"
    /\ \E a \in Answers :
         /\ \A i \in 1..Len(a) : a[i].family \in Families
         /\ printing' = [printing EXCEPT ![t] = a]
    /\ pc' = [pc EXCEPT ![t] = "print"]
    /\ UNCHANGED <<io, flock, main, created, line, ok, tries, logs, counts, code>>

\* print_addrinfo: each address takes the mutex for itself.
PrintAddress(t) ==
    /\ pc[t] = "print" /\ flock = Nobody
    /\ stdout' = Append(stdout, Head(printing[t]))
    /\ printing' = [printing EXCEPT ![t] = Tail(@)]
    /\ LET last == Len(printing[t]) = 1 IN
         /\ ok' = [ok EXCEPT ![t] = last]
         /\ pc' = [pc EXCEPT ![t] = IF last THEN "log" ELSE "print"]
    /\ UNCHANGED <<io, flock, main, created, line, tries, resolved, failed, counts, code>>

Log(t) ==
    /\ pc[t] = "log" /\ flock = Nobody
    /\ IF ok[t] THEN resolved' = Append(resolved, line[t]) /\ UNCHANGED failed
                ELSE failed' = Append(failed, line[t]) /\ UNCHANGED resolved
    /\ pc' = [pc EXCEPT ![t] = "stat"]
    /\ UNCHANGED <<io, flock, main, created, work, stdout, counts, code>>

\* stat_plus: counted under slock; printed after it is released, from the copy.
Count(t) ==
    /\ pc[t] = "stat"
    /\ stats' = [ct |-> stats.ct + 1, ok |-> stats.ok + IF ok[t] THEN 1 ELSE 0]
    /\ seen' = [seen EXCEPT ![t] = stats']
    /\ pc' = [pc EXCEPT ![t] = IF stats'.ct % Every = 0 THEN "progress" ELSE "get"]
    /\ UNCHANGED <<io, flock, main, created, work, logs, shown, code>>

ShowUnlocked(t) == stats

\* The counts that stat_print is given.
Showing(t) == seen[t]

Progress(t) ==
    /\ pc[t] = "progress" /\ flock = Nobody
    /\ shown' = Append(shown, Showing(t))
    /\ pc' = [pc EXCEPT ![t] = "get"]
    /\ UNCHANGED <<io, flock, main, created, work, logs, stats, seen, code>>

Resolver(t) ==
    \/ LockInput(t) \/ ReadLine(t) \/ ReadEnd(t)
    \/ ResolveAgain(t) \/ ResolveFails(t) \/ Resolve(t)
    \/ PrintAddress(t) \/ Log(t) \/ Count(t) \/ Progress(t)

RunThreads == CreateThread \/ CreateFails \/ CreateDone \/ Join

MdigNext == RunThreads \/ \E t \in Threads : Resolver(t)

MdigFairness ==
    /\ WF_mdigVars(RunThreads)
    /\ \A t \in Threads : WF_mdigVars(Resolver(t))

-----------------------------------------------------------------------------
Handled(log) == {log[i] : i \in 1..Len(log)}

\* A line is reported once and as what became of it: it is in one log, once; a
\* resolved line's addresses were all printed before (t_resolver, 197-287); when
\* mdig ends well, every line that is not empty is in a log.
LinesReportedOnce ==
    /\ IsInjective(resolved \o failed)
    /\ \A i \in Handled(resolved) :
         /\ input[i].kind \in {"net", "name"}
         /\ input[i].kind = "net" => Contains(stdout, input[i])
    /\ (main = "done" /\ code = 0) =>
         Handled(resolved \o failed) = {i \in 1..Len(input) : input[i].kind # "empty"}

\* Each multiple of --stats is reported once, with the counts it had, however
\* the threads overtake each other between counting and printing (stat_plus,
\* 170-183), and the last report is the total.
ProgressComplete ==
    (main = "done" /\ code = 0) =>
      /\ shown[Len(shown)] = [ct |-> Len(input), ok |-> Len(resolved)]
      /\ \A n \in 1..(Len(input) \div Every) :
           \E i \in 1..(Len(shown) - 1) :
             \A j \in 1..(Len(shown) - 1) : shown[j].ct = n * Every <=> j = i
=============================================================================
