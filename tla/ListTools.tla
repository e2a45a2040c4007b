----------------------------- MODULE ListTools ------------------------------
(***************************************************************************)
(* The pipeline that makes an ipset from a list of names: mdig's stdout is *)
(* ip2net's stdin (ipset/def.sh, 89-103 and 160-166).                      *)
(***************************************************************************)
EXTENDS Ip2net

CONSTANTS MaxThreads, MaxTries, Every, Families, Inputs, Answers, Nobody

VARIABLES
    input, next, flock, main, created, pc, line, ok, tries, printing,
    resolved, failed, stats, seen, shown, code

M == INSTANCE Mdig WITH Full <- Width, stdout <- stdin

\* What mdig prints, a valid network or the addresses of a name, are lines that
\* the writer of the pipe may write; a name that resolves has an address.
ASSUME PipeAssumption ==
    /\ M!MdigParameters
    /\ \A file \in Inputs :
         /\ file \in Seq([kind : {"empty", "bad", "name"}]
                         \cup [kind : {"net"}, family : {4, 6}, addr : Nat, bits : Nat])
         /\ \A i \in DOMAIN file :
              (file[i].kind = "net" /\ M!Valid(file[i])) => file[i] \in Lines
    /\ \A a \in Answers : a # <<>> /\ a \in Seq({l \in Lines : l.kind = "net"})

namesVars == <<input, next, flock, main, created, pc, line, ok, tries, printing,
               stdin, resolved, failed, stats, seen, shown, code>>
vars == <<namesVars, eof, toolVars>>

Init ==
    /\ M!MdigInit
    /\ eof = (main = "done")
    /\ ToolInit

MdigStep == M!MdigNext /\ eof' = (main' = "done") /\ UNCHANGED toolVars
Ip2netStep == Tool /\ UNCHANGED <<namesVars, eof>>
Finished == main = "done" /\ phase \in {"done", "failed"} /\ UNCHANGED vars

Next == MdigStep \/ Ip2netStep \/ Finished

Spec == Init /\ [][Next]_vars

FairSpec == Spec /\ M!MdigFairness /\ WF_vars(Ip2netStep)

-----------------------------------------------------------------------------
\* Whatever the threads overtake each other at, each line is in one log once and
\* each multiple of --stats is reported once.
ReportedOnce == M!LinesReportedOnce /\ M!ProgressComplete

\* Both end, however slowly the list of names comes.
ToolsEnd == <>(main = "done" /\ phase \in {"done", "failed"})

\* To ip2net, mdig is a writer like any other.
IsWriter == Ip2netSpec
=============================================================================
