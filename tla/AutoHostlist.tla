----------------------------- MODULE AutoHostlist -----------------------------
(***************************************************************************)
(* nfq2/desync.c: the automatic host list.  A connection to a host that is *)
(* in no list is watched; when connections to the host have failed often   *)
(* enough in a time, the lists are loaded once more, and unless that puts  *)
(* the host in one, it is added to the automatic list, in memory and in    *)
(* the file.                                                               *)
(***************************************************************************)
EXTENDS HostLists

CONSTANTS
    Flows,              \* connections at a time
    FailThreshold,      \* hostlist_auto_fail_threshold
    FailTime,           \* hostlist_auto_fail_time
    RetransThreshold,   \* hostlist_auto_retrans_threshold
    UdpOut, UdpIn,      \* hostlist_auto_udp_out, hostlist_auto_udp_in
    MaxHups             \* bound on SIGHUPs

\* An UdpOut of 0, which nothing of UDP is judged with, is not modelled.
ASSUME AutoAssumption ==
    /\ {FailThreshold, FailTime, RetransThreshold, UdpOut, MaxHups} \subseteq Nat \ {0}
    /\ UdpIn \in Nat

VARIABLES
    flow,           \* the connections: [host, udp, state, out, in]
    fails,          \* hostlist_auto_fail_counters: [n, expire], n = 0 being none
    log,            \* a host's failures since it last worked or was added: [time, first],
                    \* first being that of the packet the host was known by
    added,          \* the hosts that were written to the file and not taken out of memory
                    \* by a SIGHUP that found a file without them
    judged,         \* verdicts on each connection
    hups            \* SIGHUPs received

autoVars == <<flow, fails, log, judged, hups, added>>
vars == <<auto, fileVars, now, mem, job, ended, autoVars>>

NoFlow == [host |-> "", udp |-> FALSE, state |-> "none", out |-> 0, in |-> 0]
NoCounter == [n |-> 0, expire |-> 0]

Init ==
    /\ ListsInit
    /\ flow = [f \in Flows |-> NoFlow]
    /\ fails = [h \in Hosts |-> NoCounter]
    /\ log = [h \in Hosts |-> <<>>]
    /\ judged = [f \in Flows |-> 0]
    /\ hups = 0 /\ added = {}

Host == job.host

\* The connection's state; of one that is not watched, nothing else matters.
Settled(f, state) ==
    [flow EXCEPT ![f] = IF state = "watched" THEN [@ EXCEPT !.state = state]
                        ELSE [NoFlow EXCEPT !.state = state]]
Settle(state) == flow' = Settled(job.flow, state)
Ready == job.kind = "idle" /\ ~ended

-----------------------------------------------------------------------------
\* LoadAllHostLists and LoadAllIpsets at the start and after SIGHUP: a list that
\* cannot be read ends the program.

StartDone ==
    /\ \/ Loaded("start")
       \/ Loaded("hup")
    /\ job' = Idle
    /\ UNCHANGED <<auto, fileVars, now, mem, ended, autoVars>>

LoadFatal ==
    /\ job.kind \in {"start", "hup"} /\ ReadFails
    /\ ended' = TRUE
    /\ UNCHANGED <<auto, fileVars, now, job, autoVars>>

\* ReloadCheck: no signature is known any more.
InFile(h) == \E i \in 1..Len(disk["auto"].items) : disk["auto"].items[i].name = h
Hup ==
    /\ Ready /\ hups < MaxHups
    /\ hups' = hups + 1
    /\ mem' = [f \in Files |-> [mem[f] EXCEPT !.sig = NoSig]]
    /\ job' = Job("hup", Lists \o Ipsets)
    /\ added' = IF disk["auto"].state = "gone" THEN added ELSE {h \in added : InFile(h)}
    /\ UNCHANGED <<auto, fileVars, now, ended, flow, fails, log, judged>>

-----------------------------------------------------------------------------
\* Failures of a host.

UnPurged(pool) == pool

\* HostFailPoolPurgeRateLimited, which every packet of a profile calls: that it
\* runs once in a second changes nothing, as times are in seconds.
Purged(pool) ==
    [h \in Hosts |-> IF now >= pool[h].expire THEN NoCounter ELSE pool[h]]

\* HostFailPoolFind or HostFailPoolAdd, and one failure more.
Counted(pool, h) ==
    IF pool[h].n = 0 THEN [n |-> 1, expire |-> now + FailTime]
    ELSE [pool[h] EXCEPT !.n = @ + 1]

\* Of the last failures, so many.
Recent(times, n) == IF Len(times) > n THEN Tail(times) ELSE times

\* auto_hostlist_failed
Failed(f, pool, first) ==
    LET h == flow[f].host
        c == Counted(pool, h)
        enough == c.n >= FailThreshold
    IN  /\ fails' = [pool EXCEPT ![h] = IF enough THEN NoCounter ELSE c]
        /\ log' = [log EXCEPT ![h] = Recent(Append(@, [time |-> now, first |-> first]),
                                            IF enough THEN FailThreshold ELSE FailThreshold - 1)]
        /\ judged' = [judged EXCEPT ![f] = @ + 1]
        /\ job' = IF enough THEN For(f, h, Job("recheck", Lists)) ELSE Idle

\* auto_hostlist_reset_fail_counter
Worked(f, pool) ==
    LET h == flow[f].host IN
    /\ fails' = [pool EXCEPT ![h] = NoCounter]
    /\ log' = [log EXCEPT ![h] = <<>>]
    /\ judged' = [judged EXCEPT ![f] = @ + 1]
    /\ job' = Idle

NotJudged(pool) == fails' = pool /\ job' = Idle /\ UNCHANGED <<log, judged>>

StillWatched(state) == state

\* failure_detect_finalized
Finalized(state) == "final"

\* process_udp_fail: so many packets of the client and of the server, counted from
\* the first of the connection.
UdpJudged(f, pool, first, out, in) ==
    \/ /\ in > UdpIn
       /\ flow' = Settled(f, "final") /\ Worked(f, pool)
    \/ /\ in <= UdpIn /\ out >= UdpOut
       /\ flow' = Settled(f, Finalized(flow[f].state)) /\ Failed(f, pool, first)
    \/ /\ in <= UdpIn /\ out < UdpOut
       /\ flow' = [flow EXCEPT ![f] = [@ EXCEPT !.state = "watched", !.out = out, !.in = in]]
       /\ NotJudged(pool)

-----------------------------------------------------------------------------
\* A connection's host is discovered: dp_find, and in it dp_match, which loads
\* the lists of the profile.
Open(f, h, udp) ==
    /\ Ready
    /\ flow' = [flow EXCEPT ![f] = [NoFlow EXCEPT !.host = h, !.udp = udp, !.state = "found"]]
    /\ judged' = [judged EXCEPT ![f] = 0]
    /\ job' = For(f, h, Job("find", Lists \o Ipsets))
    /\ UNCHANGED <<auto, fileVars, now, mem, ended, fails, log, hups, added>>

\* The profile is the connection's if it has an automatic list or no list, or the
\* host passes; dp_rediscovery then loads and checks the lists if that was not
\* done and they are not empty.
FindDone ==
    /\ Loaded("find")
    /\ IF ~IpsetCheck(Host)
         THEN Settle("skipped") /\ job' = Idle
         ELSE IF AllEmpty(HostFiles)
           THEN Settle("applied") /\ job' = Idle
         ELSE IF auto
           THEN job' = For(job.flow, Host, Job("check", Lists)) /\ UNCHANGED flow
         ELSE Settle(IF HostlistCheck(Host) THEN "applied" ELSE "skipped") /\ job' = Idle
    /\ UNCHANGED <<auto, fileVars, now, mem, ended, fails, log, judged, hups, added>>

FindFails ==
    /\ job.kind = "find" /\ ReadFails
    /\ Settle("skipped") /\ job' = Idle
    /\ UNCHANGED <<auto, fileVars, now, ended, fails, log, judged, hups, added>>

\* hostname_ah_check
Watched(passes, isExcluded) ==
    IF passes THEN "applied" ELSE IF isExcluded THEN "skipped" ELSE "watched"

\* The same packet is judged at once if it is of UDP, with those of both sides that
\* went before it (so many that they decide count like more).  It has purged the
\* profile's pool only if its name was cached: otherwise it came by another profile.
Before == (1..UdpOut) \X (0..(UdpIn + 1))
Concluded(state) ==
    IF state = "watched" /\ flow[job.flow].udp
    THEN \E n \in Before, pool \in {fails, Purged(fails)} :
           UdpJudged(job.flow, pool, TRUE, n[1], n[2])
    ELSE Settle(state) /\ NotJudged(fails)

CheckDone ==
    /\ Loaded("check")
    /\ Concluded(Watched(HostlistCheck(Host), Excluded(Host)))
    /\ UNCHANGED <<auto, fileVars, now, mem, ended, hups, added>>

\* HostlistCheck is false then, and has excluded nothing.
CheckFails ==
    /\ job.kind = "check" /\ ReadFails
    /\ Concluded(Watched(FALSE, FALSE))
    /\ UNCHANGED <<auto, fileVars, now, ended, hups, added>>

-----------------------------------------------------------------------------
\* A packet of a connection that is watched.  It has its profile, whose pool it
\* purges.

Judging(f, udp) ==
    /\ Ready /\ flow[f].state = "watched" /\ flow[f].udp = udp
    /\ UNCHANGED <<auto, fileVars, now, mem, ended, hups, added>>

\* auto_hostlist_retrans: a retransmission of the client.
Retransmission(f) ==
    /\ Judging(f, FALSE)
    /\ IF flow[f].out + 1 >= RetransThreshold
         THEN /\ flow' = Settled(f, Finalized(flow[f].state))
              /\ Failed(f, Purged(fails), FALSE)
         ELSE flow' = [flow EXCEPT ![f].out = @ + 1] /\ NotJudged(Purged(fails))

\* The client or the server has gone past the sequence number of a success.
PastMaxSeq(f) ==
    /\ Judging(f, FALSE)
    /\ flow' = Settled(f, "final")
    /\ Worked(f, Purged(fails))

\* An RST or a redirect from the server, early.
Refused(f) ==
    /\ Judging(f, FALSE)
    /\ flow' = Settled(f, Finalized(flow[f].state))
    /\ Failed(f, Purged(fails), FALSE)

\* A packet of the client or of the server.
UdpPacket(f) ==
    /\ Judging(f, TRUE)
    /\ UdpJudged(f, Purged(fails), FALSE, flow[f].out + 1, flow[f].in)

UdpReply(f) ==
    /\ Judging(f, TRUE)
    /\ UdpJudged(f, Purged(fails), FALSE, flow[f].out, flow[f].in + 1)

-----------------------------------------------------------------------------
NotInserted(m, h) == m

Inserted(m, h) == [m EXCEPT !["auto"].items = @ \cup {[name |-> h, strict |-> FALSE]}]

\* The addition: unless the host passes or is excluded now, it goes into memory,
Adding(kind) == job' = [job EXCEPT !.kind = kind, !.todo = <<>>, !.step = "add"]

RecheckDone ==
    /\ Loaded("recheck")
    /\ IF HostlistCheck(Host) \/ Excluded(Host) THEN job' = Idle /\ UNCHANGED mem
       ELSE /\ Adding("append")
            /\ mem' = Inserted(mem, Host)
    /\ UNCHANGED <<auto, fileVars, now, ended, autoVars>>

\* also if the lists could not be loaded: HostlistCheck is false then,
RecheckFails ==
    /\ job.kind = "recheck" /\ ReadFails
    /\ Adding("insert")
    /\ UNCHANGED <<auto, fileVars, now, ended, autoVars>>

InsertAfterFailure ==
    /\ job.kind = "insert"
    /\ Adding("append")
    /\ mem' = Inserted(mem, Host)
    /\ UNCHANGED <<auto, fileVars, now, ended, autoVars>>

\* to the end of the file, which is created if it is gone,
AppendToFile ==
    /\ job.kind = "append"
    /\ IF disk["auto"].state = "closed"
         THEN job' = Idle /\ UNCHANGED <<disk, seen, added>>
         ELSE LET d == [Written("auto", Append(disk["auto"].items,
                                               [name |-> Host, strict |-> FALSE]))
                          EXCEPT !.state = IF disk["auto"].state = "broken"
                                           THEN "broken" ELSE "ok"]
              IN  /\ disk' = [disk EXCEPT !["auto"] = d]
                  /\ seen' = [seen EXCEPT !["auto"] = @ \cup {Sig(d)}]
                  /\ added' = added \cup {Host}
                  /\ Adding("sign")
    /\ log' = [log EXCEPT ![Host] = <<>>]
    /\ UNCHANGED <<auto, edits, now, mem, ended, flow, fails, judged, hups>>

OldSignature(f) == mem[f].sig

\* and the file's signature becomes that of memory.
SignatureAdded(f) == IF disk[f].state = "gone" THEN NoSig ELSE Sig(disk[f])

SignAfter ==
    /\ job.kind = "sign"
    /\ mem' = [mem EXCEPT !["auto"].sig = SignatureAdded("auto")]
    /\ job' = Idle
    /\ UNCHANGED <<auto, fileVars, now, ended, autoVars>>

-----------------------------------------------------------------------------
Load == LoadStep /\ UNCHANGED <<auto, fileVars, now, ended, autoVars>>

Other ==
    /\ \E f \in Files : Edit(f) \/ Access(f)
    /\ UNCHANGED <<auto, now, mem, job, ended, autoVars>>

\* Time passes between packets.
Tick ==
    /\ Ready /\ now < MaxTime /\ now' = now + 1
    /\ UNCHANGED <<auto, fileVars, mem, job, ended, autoVars>>

Work ==
    \/ Load \/ StartDone \/ LoadFatal
    \/ FindDone \/ FindFails \/ CheckDone \/ CheckFails
    \/ RecheckDone \/ RecheckFails \/ InsertAfterFailure \/ AppendToFile \/ SignAfter

Connect == \E f \in Flows, h \in Hosts, udp \in BOOLEAN : Open(f, h, udp)

Judge ==
    \E f \in Flows :
        Retransmission(f) \/ PastMaxSeq(f) \/ Refused(f) \/ UdpPacket(f) \/ UdpReply(f)

Next == Work \/ Connect \/ Judge \/ Hup \/ Other \/ Tick

\* Once it has begun something the program ends it, and connections keep coming.
Spec == Init /\ [][Next]_vars /\ WF_vars(Work) /\ WF_vars(Connect)

-----------------------------------------------------------------------------
TypeOK ==
    /\ \A f \in Files : mem[f].items \subseteq Item \cup {Impossible}
    /\ job.todo \in Seq(Files \cup {"fill"})
    /\ \A f \in Flows : flow[f].state \in {"none", "found", "applied", "skipped",
                                           "watched", "final"}

\* Memory whose signature is the file's has what the file has, whatever was done
\* to the file between the calls of LoadHostList (stat, open, read: 109-146).
SignatureMeansContent ==
    \A f \in Files \ {"auto"} :
        disk[f].state \in {"ok", "closed"} /\ mem[f].sig = Sig(disk[f])
          /\ ~(job.step = "sign" /\ Current = f) =>
            mem[f].items = Pool(disk[f].items)

\* A profile with an automatic list never applies to a host for want of hosts in
\* its lists (NonEmptyHostlist, 162-178): neither when the file is emptied or
\* damaged, nor before the first addition.
AutoNeverCatchesAll ==
    auto /\ (Loaded("check") \/ Loaded("recheck")) =>
        (HostlistCheck(Host) => \E f \in Included : Found(f, Host))

\* What is in memory of the lists is what the files had, or less.
MemoryInv == TypeOK /\ SignatureMeansContent /\ AutoNeverCatchesAll

\* A host is added only if it has failed FailThreshold times with no success between,
\* and these failures came in less than FailTime of the first of them ("all failed
\* attemps must be within these seconds", nfqws.c:1902; not of the one before, as
\* manual.en.md:892 has it), except those that the packet brought by which the host
\* became known: it has come by another profile and has purged that one's counters
\* only, so that it counts on what has expired (desync.c:1268, 1413).
Within(h) ==
    LET n == Len(log[h]) IN
    /\ n >= FailThreshold
    /\ \A i \in (n - FailThreshold + 1)..n :
         log[h][i].first \/ log[h][i].time - log[h][n - FailThreshold + 1].time < FailTime
AddedForCause == job.kind = "append" => Within(Host)

\* A connection is judged once, by whatever comes first
\* (failure_detect_finalized).
JudgedOnce == \A f \in Flows : judged[f] <= 1

\* A host that the program has written to the file stays in memory, though the file
\* is closed, taken away or made anew by the next addition, which is taken for what
\* is in memory (desync.c:449-459): until a SIGHUP that finds a file without it.  So
\* as long as nobody else writes the file, and unless a read of it that had begun
\* failed (LoadHostList, 130-136).
InMemory(h) == \E item \in mem["auto"].items : item.name = h
AutoKeepsAdded ==
    "auto" \notin Edited /\ ~mem["auto"].lost => \A h \in added : InMemory(h)

\* "rechecking %s to avoid duplicates" (desync.c:443): when the lists could be
\* loaded, the host that is then added is not in the file.
RecheckAvoids ==
    [][job.kind = "recheck" /\ job'.kind = "append"
         /\ "auto" \notin Edited /\ ~mem["auto"].lost => ~InFile(Host)]_vars

\* "Hostlist and ipset files are reloaded automatically when modified"
\* (docs/manual.en.md:868): a readable file is in memory in the end, unless the
\* program has ended, or a list that is read before it stays damaged: the read that
\* fails is begun again at each packet and those after it are never come to
\* (dp_match, 218).  Nor so the automatic list, whose signature is taken anew when
\* the program adds to it (SignAfter).
Ahead(f) ==
    IF f = "user" THEN Included \ {"user"} ELSE HostFiles
Reloaded(f) ==
    <>[](disk[f].state = "ok" /\ \A g \in Ahead(f) : disk[g].state # "broken") =>
        <>[](ended \/ mem[f].items \ {Impossible} = Pool(disk[f].items))
ListsReloaded == Reloaded("user") /\ Reloaded("ipset")

-----------------------------------------------------------------------------
\* Why: what holds at every step.

Sigs == [time : Nat, size : Nat]
Kinds == {"start", "hup", "find", "check", "recheck", "insert", "append", "sign", "idle"}
Steps == {"stat", "open", "read", "sign", "add"}
States == {"none", "found", "applied", "skipped", "watched", "final"}

DiskFile ==
    [items : Seq(Item), time : Nat \ {0}, state : {"ok", "closed", "broken", "gone"}]
MemFile == [items : SUBSET (Item \cup {Impossible}), sig : Sigs, lost : BOOLEAN]
Jobs ==
    [kind : Kinds, todo : Seq(Files \cup {"fill"}), step : Steps, sig : Sigs,
     flow : Flows \cup {""}, host : Hosts \cup {""}]
Connection ==
    [host : Hosts \cup {""}, udp : BOOLEAN, state : States, out : Nat, in : Nat]

TypesInv ==
    /\ auto \in BOOLEAN /\ now \in Nat \ {0} /\ ended \in BOOLEAN
    /\ disk \in [Files -> DiskFile] /\ seen \in [Files -> SUBSET Sigs]
    /\ mem \in [Files -> MemFile] /\ job \in Jobs
    /\ flow \in [Flows -> Connection] /\ fails \in [Hosts -> [n : Nat, expire : Nat]]
    /\ log \in [Hosts -> Seq([time : Nat, first : BOOLEAN])] /\ added \subseteq Hosts
    /\ judged \in [Flows -> 0..1]

\* What the program does belongs to a connection, and in a load to a file.
JobInv ==
    /\ job.kind \notin {"start", "hup", "idle"} => job.flow \in Flows /\ job.host \in Hosts
    /\ job.step \in {"open", "read", "sign"} => job.todo # <<>> /\ Current \in Files
    /\ job.kind \in {"insert", "append", "sign", "idle"} => job.todo = <<>>

\* Only a profile with an automatic list has its hosts checked or watched.
AutoInv ==
    job.kind \in {"check", "recheck"} \/ (\E f \in Flows : flow[f].state = "watched") => auto

\* A connection that may still be judged has not been.
JudgedInv ==
    /\ job.kind \in {"find", "check"} =>
         judged[job.flow] = 0 /\ flow[job.flow].host = job.host
    /\ \A f \in Flows : flow[f].state = "watched" => judged[f] = 0 /\ flow[f].host \in Hosts

\* The failures that count are the last in the log, and expire with the first of
\* them; what is about to be added has had enough.
CountedInv ==
    /\ \A h \in Hosts :
         LET n == fails[h].n
             times == log[h]
         IN  n > 0 => /\ n < FailThreshold /\ n <= Len(times)
                      /\ fails[h].expire = times[Len(times) - n + 1].time + FailTime
                      /\ \A i \in (Len(times) - n + 1)..Len(times) :
                           times[i].first \/ times[i].time < fails[h].expire
    /\ job.kind \in {"recheck", "insert", "append"} => Within(Host) /\ fails[Host].n = 0

\* The host is in memory before it is in the file; the automatic list is not left
\* empty.
FileInMemory ==
    "auto" \notin Edited /\ ~mem["auto"].lost => \A h \in Hosts : InFile(h) => InMemory(h)
AddedInv ==
    /\ AutoKeepsAdded /\ FileInMemory
    /\ job.kind = "append" => InMemory(Host)

\* While nobody else writes it, it is read only when its signature is not the known
\* one: after a SIGHUP, and then all that count as added are in it.
Stale == disk["auto"].state # "gone" /\ mem["auto"].sig # Sig(disk["auto"])
StaleInv ==
    "auto" \notin Edited =>
        /\ Stale /\ job.kind # "sign" => \A h \in added : InFile(h)
        /\ job.step \in {"open", "read", "sign"} /\ Current = "auto" =>
             disk["auto"].state = "gone" \/ Stale
FilledInv ==
    auto /\ job.kind \in {"check", "recheck"} =>
        IF job.todo = <<>> THEN mem["auto"].items # {}
        ELSE job.todo[Len(job.todo)] = "fill"

\* As no file has a signature twice, one that is known, or was taken before the
\* read, is that of what was read.
At(f, steps) == job.step \in steps /\ Current = f
Known(f) ==
    /\ disk[f].state # "gone" => Sig(disk[f]) \in seen[f]
    /\ mem[f].sig \in seen[f] \cup {NoSig}
    /\ At(f, {"open", "read", "sign"}) => job.sig \in seen[f]
Signed(f) ==
    /\ At(f, {"open", "read", "sign"}) => mem[f].sig # Sig(disk[f])
    /\ At(f, {"sign"}) /\ job.sig = Sig(disk[f]) => mem[f].items = Pool(disk[f].items)
    /\ ~At(f, {"sign"}) /\ mem[f].sig = Sig(disk[f]) => mem[f].items = Pool(disk[f].items)
SignedInv ==
    Distinct =>
        \A f \in Files : Known(f) /\ (f # "auto" /\ disk[f].state # "gone" => Signed(f))

IInv ==
    /\ TypesInv /\ JobInv /\ AutoInv /\ JudgedInv /\ CountedInv
    /\ AddedInv /\ StaleInv /\ FilledInv /\ SignedInv
=============================================================================
