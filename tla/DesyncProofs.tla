---------------------------- MODULE DesyncProofs ----------------------------
(***************************************************************************)
(* What is proved of the two things nfq2/desync.c decides of a host's      *)
(* connections, which share nothing: AutoHostlist (with HostLists), when a *)
(* host is added to the automatic list and what the lists in memory are    *)
(* worth, and LuaPlan, which profile and which Lua instances a packet      *)
(* meets and what becomes of it.                                           *)
(***************************************************************************)
EXTENDS AutoHostlist, LuaPlan, SequenceTheorems, WellFoundedInduction, TLAPS

USE DEF Files

-----------------------------------------------------------------------------
\* The lists

LEMMA ListsTyped ==
    ASSUME auto \in BOOLEAN
    PROVE  /\ Lists \in Seq(Files \cup {"fill"}) /\ Lists \o Ipsets \in Seq(Files \cup {"fill"})
           /\ Lists # <<>> /\ Lists[Len(Lists)] = "fill"
<1>1. Ipsets \in Seq(Files \cup {"fill"})
  BY DEF Ipsets
<1>2. CASE auto
  <2>1. Lists = <<"auto", "user", "fill", "exclude", "fill">>
    BY <1>2 DEF Lists
  <2>2. /\ Lists \in Seq(Files \cup {"fill"}) /\ Lists # <<>>
        /\ Lists[Len(Lists)] = "fill"
    BY <2>1
  <2> QED
    BY <1>1, <2>2
<1>3. CASE ~auto
  <2>1. Lists = <<"user", "fill", "exclude", "fill">>
    BY <1>3 DEF Lists
  <2>2. /\ Lists \in Seq(Files \cup {"fill"}) /\ Lists # <<>>
        /\ Lists[Len(Lists)] = "fill"
    BY <2>1
  <2> QED
    BY <1>1, <2>2
<1> QED
  BY <1>2, <1>3

LEMMA PoolTyped ==
    ASSUME NEW items \in Seq(Item) PROVE Pool(items) \subseteq Item
BY DEF Pool

LEMMA SigTyped ==
    ASSUME NEW d \in DiskFile PROVE Sig(d) \in Sigs /\ Sig(d) # NoSig
BY DEF DiskFile, Sig, Sigs, NoSig

LEMMA JobsTyped ==
    /\ NoSig \in Sigs
    /\ Idle \in Jobs
    /\ \A kind \in Kinds, todo \in Seq(Files \cup {"fill"}) : Job(kind, todo) \in Jobs
    /\ \A j \in Jobs, f \in Flows, h \in Hosts : For(f, h, j) \in Jobs
<1>1. NoSig \in Sigs
  BY DEF NoSig, Sigs
<1>2. \A kind \in Kinds, todo \in Seq(Files \cup {"fill"}) : Job(kind, todo) \in Jobs
  BY <1>1 DEF Job, Jobs, Steps
<1>3. Idle \in Jobs
  <2>1. <<>> \in Seq(Files \cup {"fill"})
    OBVIOUS
  <2> QED
    BY <1>2, <2>1 DEF Idle, Kinds
<1>4. \A j \in Jobs, f \in Flows, h \in Hosts : For(f, h, j) \in Jobs
  BY DEF For, Jobs
<1> QED
  BY <1>1, <1>2, <1>3, <1>4

-----------------------------------------------------------------------------
\* Types, one lemma for each group of actions.

Failure == [time : Nat, first : BOOLEAN]
Pools == {fails, Purged(fails)}

LEMMA FileTyped ==
    ASSUME TypesInv, NEW f \in Files
    PROVE  /\ disk[f].items \in Seq(Item) /\ disk[f].time \in Nat \ {0}
           /\ Sig(disk[f]) \in Sigs /\ Sig(disk[f]) # NoSig
           /\ mem[f].items \subseteq Item \cup {Impossible} /\ mem[f].sig \in Sigs
           /\ Pool(disk[f].items) \subseteq Item
<1>1. disk[f] \in DiskFile /\ mem[f] \in MemFile
  BY DEF TypesInv
<1>2. disk[f].items \in Seq(Item) /\ disk[f].time \in Nat \ {0}
  BY <1>1 DEF DiskFile
<1>3. mem[f].items \subseteq Item \cup {Impossible} /\ mem[f].sig \in Sigs
  BY <1>1 DEF MemFile
<1> QED
  BY <1>1, <1>2, <1>3, SigTyped, PoolTyped

\* A load goes on.
LEMMA PassTyped ==
    ASSUME job \in Jobs, job.todo # <<>>, PassOn
    PROVE  job' \in Jobs
<1>1. Tail(job.todo) \in Seq(Files \cup {"fill"})
  <2>1. job.todo \in Seq(Files \cup {"fill"})
    BY DEF Jobs
  <2> QED
    BY <2>1
<1> QED
  BY <1>1, JobsTyped DEF PassOn, Jobs, Steps

LEMMA StepTyped ==
    ASSUME job \in Jobs, NEW step \in Steps, NEW sig \in Sigs
    PROVE  /\ [job EXCEPT !.step = step] \in Jobs
           /\ [job EXCEPT !.step = step, !.sig = sig] \in Jobs
BY DEF Jobs

LEMMA MemTyped ==
    ASSUME mem \in [Files -> MemFile], NEW f \in Files,
           NEW items \in SUBSET (Item \cup {Impossible}), NEW sig \in Sigs, NEW lost \in BOOLEAN
    PROVE  /\ [mem EXCEPT ![f].items = items] \in [Files -> MemFile]
           /\ [mem EXCEPT ![f].items = items, ![f].lost = lost] \in [Files -> MemFile]
           /\ [mem EXCEPT ![f].sig = sig] \in [Files -> MemFile]
BY DEF MemFile

LEMMA LoadTypes ==
    ASSUME TypesInv, JobInv, Load PROVE TypesInv'
<1>1. job \in Jobs /\ mem \in [Files -> MemFile] /\ auto \in BOOLEAN
  BY DEF TypesInv
<1>2. UNCHANGED <<auto, fileVars, now, ended, autoVars>>
  BY DEF Load
<1>3. ASSUME NEW step, Loading(step) PROVE job.todo # <<>> /\ Current \in Files
  <2>1. job.todo # <<>> /\ Current # "fill"
    BY <1>3 DEF Loading, Doing
  <2>2. job.todo \in Seq(Files \cup {"fill"})
    BY <1>1 DEF Jobs
  <2>3. Current \in Files \cup {"fill"}
    BY <2>1, <2>2 DEF Current
  <2> QED
    BY <2>1, <2>3
<1>4. job' \in Jobs /\ mem' \in [Files -> MemFile]
  <2>1. CASE Stat
    <3>1. job.todo # <<>> /\ Current \in Files
      BY <1>3, <2>1 DEF Stat
    <3>2. CASE PassOn
      BY <1>1, <2>1, <3>1, <3>2, PassTyped DEF Stat
    <3>3. CASE job' = [job EXCEPT !.step = "open", !.sig = Sig(disk[Current])]
      BY <1>1, <2>1, <3>1, <3>3, StepTyped, FileTyped DEF Stat, Steps
    <3> QED
      BY <2>1, <3>2, <3>3 DEF Stat
  <2>2. CASE OpenTest
    <3>1. job.todo # <<>>
      BY <1>3, <2>2 DEF OpenTest
    <3>2. job' \in Jobs
      BY <1>1, <2>2, <3>1, PassTyped, StepTyped, JobsTyped DEF OpenTest, Steps
    <3> QED
      BY <1>1, <2>2, <3>2 DEF OpenTest
  <2>3. CASE Read
    <3>1. Current \in Files
      BY <1>3, <2>3 DEF Read
    <3>2. Pool(disk[Current].items) \in SUBSET (Item \cup {Impossible})
      BY <3>1, FileTyped
    <3>3. mem' \in [Files -> MemFile]
      BY <1>1, <2>3, <3>1, <3>2, MemTyped, JobsTyped DEF Read
    <3>4. job' \in Jobs
      BY <1>1, <2>3, StepTyped, JobsTyped DEF Read, Steps
    <3> QED
      BY <3>3, <3>4
  <2>4. CASE Sign
    <3>1. Current \in Files /\ job.todo # <<>>
      BY <1>3, <2>4 DEF Sign
    <3>2. job.sig \in Sigs
      BY <1>1 DEF Jobs
    <3>3. mem' \in [Files -> MemFile]
      BY <1>1, <2>4, <3>1, <3>2, MemTyped DEF Sign, SignatureRead
    <3> QED
      BY <1>1, <2>4, <3>1, <3>3, PassTyped DEF Sign
  <2>5. CASE Fill
    <3>1. job.todo # <<>>
      BY <2>5 DEF Fill, Doing
    <3>2. mem' \in [Files -> MemFile]
      BY <1>1, <2>5, MemTyped, JobsTyped DEF Fill, Filled
    <3> QED
      BY <1>1, <2>5, <3>1, <3>2, PassTyped DEF Fill
  <2> QED
    BY <2>1, <2>2, <2>3, <2>4, <2>5 DEF Load, LoadStep
<1> QED
  BY <1>2, <1>4 DEF TypesInv, fileVars, autoVars

LEMMA FailTyped ==
    ASSUME TypesInv, JobInv, ReadFails
    PROVE  /\ mem' \in [Files -> MemFile] /\ Current \in Files
           /\ mem' = [mem EXCEPT ![Current].items = {}, ![Current].lost = TRUE]
<1>1. Current \in Files
  BY DEF ReadFails, Loading, Doing, JobInv
<1> QED
  BY <1>1, MemTyped, JobsTyped DEF ReadFails, TypesInv

LEMMA ConnectionTyped ==
    ASSUME flow \in [Flows -> Connection], NEW f \in Flows, NEW state \in States
    PROVE  /\ Settled(f, state) \in [Flows -> Connection]
           /\ \A g \in Flows : g # f => Settled(f, state)[g] = flow[g]
           /\ Settled(f, state)[f].state = state
           /\ state = "watched" => Settled(f, state)[f].host = flow[f].host
<1>1. NoFlow \in Connection
  BY DEF NoFlow, Connection, States
<1>2. [flow[f] EXCEPT !.state = state] \in Connection
      /\ [NoFlow EXCEPT !.state = state] \in Connection
  BY <1>1 DEF Connection
<1>3. /\ [NoFlow EXCEPT !.state = state].state = state
      /\ [flow[f] EXCEPT !.state = state].state = state
      /\ [flow[f] EXCEPT !.state = state].host = flow[f].host
  BY <1>1 DEF Connection
<1> QED
  BY <1>2, <1>3 DEF Settled

LEMMA AddingTyped ==
    ASSUME job \in Jobs, NEW kind \in Kinds, Adding(kind) PROVE job' \in Jobs
<1>1. <<>> \in Seq(Files \cup {"fill"})
  OBVIOUS
<1> QED
  BY <1>1 DEF Adding, Jobs, Steps

LEMMA InsertedTyped ==
    ASSUME mem \in [Files -> MemFile], NEW h \in Hosts
    PROVE  Inserted(mem, h) \in [Files -> MemFile]
<1> DEFINE items == mem["auto"].items \cup {[name |-> h, strict |-> FALSE]}
<1>1. items \in SUBSET (Item \cup {Impossible})
  <2>1. mem["auto"] \in MemFile
    OBVIOUS
  <2>2. [name |-> h, strict |-> FALSE] \in Item
    BY DEF Item
  <2> QED
    BY <2>1, <2>2 DEF MemFile
<1>2. Inserted(mem, h) = [mem EXCEPT !["auto"].items = items]
  BY DEF Inserted
<1>3. "auto" \in Files /\ mem["auto"] \in MemFile
  OBVIOUS
<1> HIDE DEF items
<1>4. [mem["auto"] EXCEPT !.items = items] \in MemFile
  BY <1>1, <1>3 DEF MemFile
<1> QED
  BY <1>2, <1>3, <1>4

LEMMA SettleTypes ==
    ASSUME TypesInv, JobInv, FindDone \/ FindFails PROVE TypesInv'
<1>1. /\ job.flow \in Flows /\ Host \in Hosts /\ job \in Jobs /\ auto \in BOOLEAN
      /\ UNCHANGED <<auto, fileVars, now, ended, fails, log, judged, added>>
  BY DEF FindDone, FindFails, Loaded, JobInv, Host, TypesInv
<1>2. flow' = flow \/ \E state \in {"applied", "skipped"} : Settle(state)
  BY DEF FindDone, FindFails
<1>3. flow' \in [Flows -> Connection]
  BY <1>1, <1>2, ConnectionTyped DEF Settle, TypesInv, States
<1>4. job' \in Jobs
  <2>1. job' = Idle \/ job' = For(job.flow, Host, Job("check", Lists))
    BY DEF FindDone, FindFails
  <2>2. For(job.flow, Host, Job("check", Lists)) \in Jobs
    BY <1>1, ListsTyped, JobsTyped DEF Kinds
  <2> QED
    BY <2>1, <2>2, JobsTyped
<1>5. mem' \in [Files -> MemFile]
  <2>1. CASE FindFails
    BY <2>1, FailTyped DEF FindFails
  <2>2. CASE FindDone
    BY <2>2 DEF FindDone, TypesInv
  <2> QED
    BY <2>1, <2>2
<1> QED
  BY <1>1, <1>3, <1>4, <1>5 DEF TypesInv, fileVars

LEMMA AddTypes ==
    ASSUME TypesInv, JobInv,
           RecheckDone \/ RecheckFails \/ InsertAfterFailure \/ AppendToFile \/ SignAfter
    PROVE  TypesInv'
<1>1. /\ Host \in Hosts /\ job \in Jobs /\ mem \in [Files -> MemFile]
      /\ UNCHANGED <<auto, now, ended, flow, fails, judged>>
  BY DEF RecheckDone, RecheckFails, InsertAfterFailure, AppendToFile, SignAfter, Loaded,
         JobInv, Host, TypesInv, autoVars
<1>2. job' \in Jobs
  <2>1. job' = Idle \/ \E kind \in Kinds : Adding(kind)
    BY DEF RecheckDone, RecheckFails, InsertAfterFailure, AppendToFile, SignAfter, Kinds
  <2> QED
    BY <1>1, <2>1, AddingTyped, JobsTyped
<1>3. mem' \in [Files -> MemFile]
  <2>1. CASE RecheckFails
    BY <2>1, FailTyped DEF RecheckFails
  <2>2. CASE RecheckDone \/ InsertAfterFailure
    BY <1>1, <2>2, InsertedTyped DEF RecheckDone, InsertAfterFailure
  <2>3. CASE AppendToFile
    BY <1>1, <2>3 DEF AppendToFile
  <2>4. CASE SignAfter
    <3>1. SignatureAdded("auto") \in Sigs
      BY FileTyped, JobsTyped DEF SignatureAdded
    <3> QED
      BY <1>1, <2>4, <3>1, MemTyped, JobsTyped DEF SignAfter
  <2> QED
    BY <2>1, <2>2, <2>3, <2>4
<1>4. disk' \in [Files -> DiskFile] /\ seen' \in [Files -> SUBSET Sigs]
      /\ log' \in [Hosts -> Seq(Failure)] /\ added' \subseteq Hosts
  <2>1. CASE AppendToFile
    <3> DEFINE d == [Written("auto", Append(disk["auto"].items,
                                            [name |-> Host, strict |-> FALSE]))
                       EXCEPT !.state = IF disk["auto"].state = "broken"
                                        THEN "broken" ELSE "ok"]
    <3>1. Append(disk["auto"].items, [name |-> Host, strict |-> FALSE]) \in Seq(Item)
      BY <1>1, FileTyped DEF Item
    <3>2. d \in DiskFile /\ now \in Nat \ {0}
      BY <3>1 DEF DiskFile, Written, TypesInv
    <3>3. /\ added' \subseteq added \cup {Host}
          /\ \/ /\ disk' = [disk EXCEPT !["auto"] = d]
                /\ seen' = [seen EXCEPT !["auto"] = @ \cup {Sig(d)}]
             \/ UNCHANGED <<disk, seen>>
      BY <2>1 DEF AppendToFile
    <3>4. Sig(d) \in Sigs
      BY <3>2, SigTyped
    <3> HIDE DEF d
    <3>5. disk' \in [Files -> DiskFile] /\ seen' \in [Files -> SUBSET Sigs]
      BY <3>2, <3>3, <3>4 DEF TypesInv
    <3>6. log' \in [Hosts -> Seq(Failure)]
      <4>1. log' = [log EXCEPT ![Host] = <<>>] /\ <<>> \in Seq(Failure)
        BY <2>1 DEF AppendToFile
      <4> QED
        BY <4>1 DEF TypesInv, Failure
    <3>7. added' \subseteq Hosts
      BY <1>1, <3>3 DEF TypesInv
    <3> QED
      BY <3>5, <3>6, <3>7
  <2>2. CASE ~AppendToFile
    BY <2>2 DEF RecheckDone, RecheckFails, InsertAfterFailure, SignAfter, fileVars, autoVars,
                TypesInv, Failure
  <2> QED
    BY <2>1, <2>2
<1> QED
  BY <1>1, <1>2, <1>3, <1>4 DEF TypesInv, Failure

\* The failures of a host, at a failure and at a success.
LEMMA PurgedTyped ==
    ASSUME TypesInv, NEW pool \in Pools
    PROVE  /\ pool \in [Hosts -> [n : Nat, expire : Nat]]
           /\ \A h \in Hosts : Counted(pool, h) \in [n : Nat, expire : Nat]
           /\ NoCounter \in [n : Nat, expire : Nat]
<1>1. NoCounter \in [n : Nat, expire : Nat]
  BY DEF NoCounter
<1>2. pool \in [Hosts -> [n : Nat, expire : Nat]]
  BY <1>1 DEF Pools, Purged, TypesInv
<1>3. now \in Nat /\ FailTime \in Nat
  BY AutoAssumption DEF TypesInv
<1>4. ASSUME NEW h \in Hosts PROVE Counted(pool, h) \in [n : Nat, expire : Nat]
  <2>1. pool[h] \in [n : Nat, expire : Nat] /\ now + FailTime \in Nat
    BY <1>2, <1>3
  <2> QED
    BY <2>1 DEF Counted
<1> QED
  BY <1>1, <1>2, <1>4

LEMMA RecentTyped ==
    ASSUME NEW times \in Seq(Failure), NEW n, times # <<>>
    PROVE  Recent(times, n) \in Seq(Failure)
BY DEF Recent

LEMMA FailedTypes ==
    ASSUME TypesInv, NEW f \in Flows, NEW pool \in Pools, NEW first \in BOOLEAN,
           judged[f] = 0, flow[f].host \in Hosts, Failed(f, pool, first)
    PROVE  /\ fails' \in [Hosts -> [n : Nat, expire : Nat]] /\ log' \in [Hosts -> Seq(Failure)]
           /\ judged' \in [Flows -> 0..1] /\ job' \in Jobs
<1> DEFINE h == flow[f].host
           c == Counted(pool, h)
           enough == c.n >= FailThreshold
           new == [time |-> now, first |-> first]
<1>1. h \in Hosts
  OBVIOUS
<1>2. /\ fails' = [pool EXCEPT ![h] = IF enough THEN NoCounter ELSE c]
      /\ log' = [log EXCEPT ![h] = Recent(Append(@, new), IF enough THEN FailThreshold
                                                           ELSE FailThreshold - 1)]
      /\ judged' = [judged EXCEPT ![f] = @ + 1]
      /\ job' = IF enough THEN For(f, h, Job("recheck", Lists)) ELSE Idle
  BY DEF Failed
<1>3. c \in [n : Nat, expire : Nat]
  BY <1>1, PurgedTyped
<1> HIDE DEF c
<1>4. fails' \in [Hosts -> [n : Nat, expire : Nat]]
  BY <1>2, <1>3, PurgedTyped
<1>5. log' \in [Hosts -> Seq(Failure)]
  <2>1. log[h] \in Seq(Failure) /\ new \in Failure
    BY <1>1 DEF TypesInv, Failure
  <2> HIDE DEF new
  <2>2. Append(log[h], new) \in Seq(Failure) /\ Append(log[h], new) # <<>>
    BY <2>1
  <2>3. \A n : Recent(Append(log[h], new), n) \in Seq(Failure)
    BY <2>2, RecentTyped
  <2> QED
    BY <1>2, <2>3 DEF TypesInv, Failure
<1>6. judged' \in [Flows -> 0..1]
  BY <1>1, <1>2 DEF TypesInv
<1>7. job' \in Jobs
  <2>1. Lists \in Seq(Files \cup {"fill"})
    BY ListsTyped DEF TypesInv
  <2>2. Job("recheck", Lists) \in Jobs
    BY <2>1, JobsTyped DEF Kinds
  <2>3. For(f, h, Job("recheck", Lists)) \in Jobs
    BY <1>1, <2>2, JobsTyped
  <2> QED
    BY <1>2, <2>3, JobsTyped
<1> QED
  BY <1>4, <1>5, <1>6, <1>7

LEMMA WorkedTypes ==
    ASSUME TypesInv, NEW f \in Flows, NEW pool \in Pools,
           judged[f] = 0, flow[f].host \in Hosts, Worked(f, pool)
    PROVE  /\ fails' \in [Hosts -> [n : Nat, expire : Nat]] /\ log' \in [Hosts -> Seq(Failure)]
           /\ judged' \in [Flows -> 0..1] /\ job' \in Jobs
<1>1. <<>> \in Seq(Failure)
  OBVIOUS
<1>2. fails' \in [Hosts -> [n : Nat, expire : Nat]]
  BY PurgedTyped DEF Worked
<1>3. log' \in [Hosts -> Seq(Failure)]
  BY <1>1 DEF Worked, TypesInv, Failure
<1>4. judged' \in [Flows -> 0..1]
  BY DEF Worked, TypesInv
<1> QED
  BY <1>2, <1>3, <1>4, JobsTyped DEF Worked

\* What becomes of a connection and of its host when it is judged or not.
Judgement(f, pool, first) ==
    /\ flow' \in [Flows -> Connection] /\ \A g \in Flows \ {f} : flow'[g] = flow[g]
    /\ \/ Failed(f, pool, first) /\ flow'[f].state = "final"
       \/ Worked(f, pool) /\ flow'[f].state = "final"
       \/ NotJudged(pool) /\ (flow'[f].state = "watched" => flow'[f].host = flow[f].host)

LEMMA FinalIs ==
    ASSUME flow \in [Flows -> Connection], NEW f \in Flows, NEW pool, NEW first,
           flow' = Settled(f, "final"), Failed(f, pool, first) \/ Worked(f, pool)
    PROVE  Judgement(f, pool, first)
<1>1. /\ Settled(f, "final") \in [Flows -> Connection]
      /\ \A g \in Flows : g # f => Settled(f, "final")[g] = flow[g]
      /\ Settled(f, "final")[f].state = "final"
  BY ConnectionTyped DEF States
<1> QED
  BY <1>1 DEF Judgement

LEMMA UdpIs ==
    ASSUME TypesInv, NEW f \in Flows, NEW pool, NEW first, NEW out \in Nat, NEW in \in Nat,
           UdpJudged(f, pool, first, out, in)
    PROVE  Judgement(f, pool, first)
<1>1. flow \in [Flows -> Connection] /\ flow[f] \in Connection
  BY DEF TypesInv
<1>2. CASE /\ flow' = Settled(f, "final")
           /\ Failed(f, pool, first) \/ Worked(f, pool)
  BY <1>1, <1>2, FinalIs
<1>3. CASE /\ flow' = [flow EXCEPT ![f] =
                         [flow[f] EXCEPT !.state = "watched", !.out = out, !.in = in]]
           /\ NotJudged(pool)
  <2>1. /\ [flow[f] EXCEPT !.state = "watched", !.out = out, !.in = in] \in Connection
        /\ [flow[f] EXCEPT !.state = "watched", !.out = out, !.in = in].host = flow[f].host
    BY <1>1 DEF Connection, States
  <2> QED
    BY <1>1, <1>3, <2>1 DEF Judgement
<1> QED
  BY <1>1, <1>2, <1>3 DEF UdpJudged, Finalized

\* What a packet of a watched connection does, and the check that finds its host to
\* be watched: it is judged, for good or bad, or counted.
LEMMA JudgeIs ==
    ASSUME TypesInv, JobInv, JudgedInv, Judge \/ CheckDone \/ CheckFails
    PROVE  /\ UNCHANGED <<auto, fileVars, now, ended, added>>
           /\ \/ mem' = mem /\ job.step # "sign" /\ job.kind \in {"idle", "check"}
              \/ ReadFails /\ job.kind = "check"
           /\ \E f \in Flows, pool \in Pools, first \in BOOLEAN :
                /\ flow[f].host \in Hosts /\ judged[f] = 0
                /\ flow[f].state = "watched" \/ job.kind = "check"
                /\ first \/ pool = Purged(fails)
                /\ Judgement(f, pool, first)
<1>1. CASE Judge
  <2>1. PICK f \in Flows :
          Retransmission(f) \/ PastMaxSeq(f) \/ Refused(f) \/ UdpPacket(f) \/ UdpReply(f)
    BY <1>1 DEF Judge
  <2>2. /\ UNCHANGED <<auto, fileVars, now, ended, added, mem>> /\ job.kind = "idle"
        /\ flow[f].state = "watched"
    BY <2>1 DEF Retransmission, PastMaxSeq, Refused, UdpPacket, UdpReply, Judging, Ready
  <2>3. job.step # "sign" /\ flow[f].host \in Hosts /\ judged[f] = 0
    BY <2>2 DEF JobInv, JudgedInv
  <2>4. flow \in [Flows -> Connection] /\ flow[f] \in Connection
    BY DEF TypesInv
  <2>5. flow[f].out \in Nat /\ flow[f].in \in Nat
    BY <2>4 DEF Connection
  <2>6. flow[f].out + 1 \in Nat /\ flow[f].in + 1 \in Nat
    BY <2>5
  <2>7. Judgement(f, Purged(fails), FALSE)
    <3>1. CASE UdpPacket(f) \/ UdpReply(f)
      BY <2>5, <2>6, <3>1, UdpIs DEF UdpPacket, UdpReply
    <3>2. CASE Retransmission(f) \/ PastMaxSeq(f) \/ Refused(f)
      <4>1. CASE /\ flow' = Settled(f, "final")
                 /\ Failed(f, Purged(fails), FALSE) \/ Worked(f, Purged(fails))
        BY <2>4, <4>1, FinalIs
      <4>2. CASE flow' = [flow EXCEPT ![f].out = flow[f].out + 1] /\ NotJudged(Purged(fails))
        <5>1. flow' = [flow EXCEPT ![f] = [flow[f] EXCEPT !.out = flow[f].out + 1]]
          BY <2>4, <4>2
        <5>2. /\ [flow[f] EXCEPT !.out = flow[f].out + 1] \in Connection
              /\ [flow[f] EXCEPT !.out = flow[f].out + 1].host = flow[f].host
          BY <2>4, <2>6 DEF Connection
        <5> QED
          BY <2>4, <4>2, <5>1, <5>2 DEF Judgement
      <4> QED
        BY <3>2, <4>1, <4>2 DEF Retransmission, PastMaxSeq, Refused, Finalized
    <3> QED
      BY <2>1, <3>1, <3>2
  <2> QED
    BY <2>2, <2>3, <2>7 DEF Pools
<1>2. CASE CheckDone \/ CheckFails
  <2>1. /\ job.kind = "check" /\ UNCHANGED <<auto, fileVars, now, ended, added>>
        /\ (mem' = mem /\ job.step = "stat") \/ ReadFails
    BY <1>2 DEF CheckDone, CheckFails, Loaded
  <2>2. job.flow \in Flows /\ flow[job.flow].host \in Hosts /\ judged[job.flow] = 0
    BY <2>1 DEF JobInv, JudgedInv
  <2>3. PICK state \in {"applied", "skipped", "watched"} : Concluded(state)
    BY <1>2 DEF CheckDone, CheckFails, Watched
  <2>4. \E pool \in Pools : Judgement(job.flow, pool, TRUE)
    <3>1. CASE Settle(state) /\ NotJudged(fails)
      <4>1. /\ Settled(job.flow, state) \in [Flows -> Connection]
            /\ \A g \in Flows : g # job.flow => Settled(job.flow, state)[g] = flow[g]
            /\ Settled(job.flow, state)[job.flow].state = state
            /\ state = "watched" =>
                 Settled(job.flow, state)[job.flow].host = flow[job.flow].host
        BY <2>2, ConnectionTyped DEF TypesInv, States
      <4>2. Judgement(job.flow, fails, TRUE)
        BY <3>1, <4>1 DEF Judgement, Settle
      <4> QED
        BY <4>2 DEF Pools
    <3>2. CASE \E n \in Before, pool \in {fails, Purged(fails)} :
                 UdpJudged(job.flow, pool, TRUE, n[1], n[2])
      <4>1. PICK n \in Before, pool \in Pools : UdpJudged(job.flow, pool, TRUE, n[1], n[2])
        BY <3>2 DEF Pools
      <4>2. n[1] \in Nat /\ n[2] \in Nat
        BY AutoAssumption DEF Before
      <4> QED
        BY <2>2, <4>1, <4>2, UdpIs
    <3> QED
      BY <2>3, <3>1, <3>2 DEF Concluded
  <2> QED
    BY <2>1, <2>2, <2>4
<1> QED
  BY <1>1, <1>2

\* What the job then is.
LEMMA DecidedJob ==
    ASSUME NEW f, NEW pool, NEW first, Judgement(f, pool, first)
    PROVE  job' = Idle \/ job' = For(f, flow[f].host, Job("recheck", Lists))
BY DEF Judgement, Failed, Worked, NotJudged

LEMMA TypesNext ==
    ASSUME TypesInv, JobInv, JudgedInv, [Next]_vars PROVE TypesInv'
<1>1. CASE Load
  BY <1>1, LoadTypes
<1>2. CASE FindDone \/ FindFails
  BY <1>2, SettleTypes
<1>3. CASE RecheckDone \/ RecheckFails \/ InsertAfterFailure \/ AppendToFile \/ SignAfter
  BY <1>3, AddTypes
<1>4. CASE Judge \/ CheckDone \/ CheckFails
  <2>1. UNCHANGED <<auto, fileVars, now, ended, added>> /\ (mem' = mem \/ ReadFails)
    BY <1>4, JudgeIs
  <2>2. mem' \in [Files -> MemFile]
    BY <2>1, FailTyped DEF TypesInv
  <2>3. PICK f \in Flows, pool \in Pools, first \in BOOLEAN :
          flow[f].host \in Hosts /\ judged[f] = 0 /\ Judgement(f, pool, first)
    BY <1>4, JudgeIs
  <2>4. flow' \in [Flows -> Connection]
    BY <2>3 DEF Judgement
  <2>5. /\ fails' \in [Hosts -> [n : Nat, expire : Nat]] /\ log' \in [Hosts -> Seq(Failure)]
        /\ judged' \in [Flows -> 0..1] /\ job' \in Jobs
    <3>1. CASE NotJudged(pool)
      BY <3>1, PurgedTyped, JobsTyped DEF NotJudged, TypesInv, Failure
    <3>2. CASE Failed(f, pool, first)
      BY <2>3, <3>2, FailedTypes
    <3>3. CASE Worked(f, pool)
      BY <2>3, <3>3, WorkedTypes
    <3> QED
      BY <2>3, <3>1, <3>2, <3>3 DEF Judgement
  <2> QED
    BY <2>1, <2>2, <2>4, <2>5 DEF TypesInv, fileVars, Failure
<1>5. CASE Hup
  <2>1. job' \in Jobs
    BY <1>5, ListsTyped, JobsTyped DEF Hup, TypesInv, Kinds
  <2>2. mem' \in [Files -> MemFile]
    BY <1>5, JobsTyped DEF Hup, TypesInv, MemFile
  <2>3. added' \subseteq Hosts
    BY <1>5 DEF Hup, TypesInv
  <2> QED
    BY <1>5, <2>1, <2>2, <2>3 DEF Hup, TypesInv, fileVars
<1>6. CASE Connect
  <2>1. PICK f \in Flows, h \in Hosts, udp \in BOOLEAN : Open(f, h, udp)
    BY <1>6 DEF Connect
  <2>2. job' \in Jobs
    <3>1. Job("find", Lists \o Ipsets) \in Jobs
      BY ListsTyped, JobsTyped DEF TypesInv, Kinds
    <3> QED
      BY <2>1, <3>1, JobsTyped DEF Open
  <2>3. flow' \in [Flows -> Connection] /\ judged' \in [Flows -> 0..1]
    <3>1. [NoFlow EXCEPT !.host = h, !.udp = udp, !.state = "found"] \in Connection
      BY DEF NoFlow, Connection, States
    <3> QED
      BY <2>1, <3>1 DEF Open, TypesInv
  <2> QED
    BY <2>1, <2>2, <2>3 DEF Open, TypesInv, fileVars
<1>7. CASE Other
  <2>1. UNCHANGED <<auto, now, mem, job, ended, autoVars>>
    BY <1>7 DEF Other
  <2>2. PICK f \in Files : Edit(f) \/ Access(f)
    BY <1>7 DEF Other
  <2>3. disk[f] \in DiskFile /\ now \in Nat \ {0} /\ <<>> \in Seq(Item)
    BY DEF TypesInv
  <2>4. \E d \in DiskFile :
          /\ disk' = [disk EXCEPT ![f] = d]
          /\ seen' = [seen EXCEPT ![f] = @ \cup {Sig(d)}] \/ seen' = seen
    <3>1. CASE Edit(f)
      <4>1. PICK items \in Contents, state \in {"ok", "broken"} :
              /\ disk' = [disk EXCEPT ![f] = [Written(f, items) EXCEPT !.state = state]]
              /\ seen' = [seen EXCEPT ![f] =
                            @ \cup {Sig([Written(f, items) EXCEPT !.state = state])}]
        BY <3>1 DEF Edit
      <4>2. items \in Seq(Item)
        BY ListAssumption
      <4>3. [Written(f, items) EXCEPT !.state = state] \in DiskFile
        BY <2>3, <4>2 DEF Written, DiskFile
      <4> QED
        BY <4>1, <4>3
    <3>2. CASE Access(f)
      <4>1. PICK state \in {"ok", "closed", "gone"} :
              disk' = [disk EXCEPT ![f].state = state,
                                   ![f].items = IF state = "gone" THEN <<>> ELSE @]
        BY <3>2 DEF Access
      <4> DEFINE d == [disk[f] EXCEPT !.state = state,
                                      !.items = IF state = "gone" THEN <<>> ELSE @]
      <4>2. d \in DiskFile
        BY <2>3 DEF DiskFile
      <4>3. disk' = [disk EXCEPT ![f] = d]
        BY <4>1 DEF TypesInv
      <4>4. seen' = seen
        BY <3>2 DEF Access
      <4> QED
        BY <4>2, <4>3, <4>4
    <3> QED
      BY <2>2, <3>1, <3>2
  <2>5. disk' \in [Files -> DiskFile] /\ seen' \in [Files -> SUBSET Sigs]
    BY <2>4, SigTyped DEF TypesInv
  <2> QED
    BY <2>1, <2>5 DEF TypesInv, autoVars
<1>8. CASE Tick
  BY <1>8 DEF Tick, TypesInv, fileVars, autoVars
<1>9. CASE StartDone
  BY <1>9, JobsTyped DEF StartDone, TypesInv, fileVars, autoVars
<1>10. CASE LoadFatal
  BY <1>10, FailTyped DEF LoadFatal, TypesInv, fileVars, autoVars
<1>11. CASE UNCHANGED vars
  BY <1>11 DEF vars, TypesInv, fileVars, autoVars
<1> QED
  BY <1>1, <1>2, <1>3, <1>4, <1>5, <1>6, <1>7, <1>8, <1>9, <1>10, <1>11 DEF Next, Work

-----------------------------------------------------------------------------
\* Whose job it is, and who is judged.

LEMMA LoadIs ==
    ASSUME TypesInv, Load
    PROVE  /\ job.todo # <<>> /\ job.kind # "idle" /\ UNCHANGED <<auto, fileVars, now, ended, autoVars>>
           /\ job'.kind = job.kind /\ job'.flow = job.flow /\ job'.host = job.host
           /\ \/ PassOn /\ job'.step = "stat" /\ job'.todo = Tail(job.todo)
              \/ /\ job'.todo = job.todo /\ job'.step \in {"open", "read", "sign"}
                 /\ Current # "fill"
<1>1. job.todo # <<>> /\ job.kind # "idle"
  BY DEF Load, LoadStep, Stat, OpenTest, Read, Sign, Fill, Loading, Doing
<1>2. \/ PassOn
      \/ Current # "fill" /\ \E step \in {"open", "read", "sign"}, sig \in Sigs :
            \/ job' = [job EXCEPT !.step = step]
            \/ job' = [job EXCEPT !.step = step, !.sig = sig]
  <2>1. Stat => PassOn \/ (/\ Current \in Files
                           /\ job' = [job EXCEPT !.step = "open", !.sig = Sig(disk[Current])])
    <3>1. job.todo \in Seq(Files \cup {"fill"})
      BY DEF TypesInv, Jobs
    <3>2. Current \in Files \cup {"fill"}
      BY <1>1, <3>1 DEF Current
    <3> QED
      BY <3>2 DEF Stat, Loading
  <2>2. Stat => PassOn \/ (Current # "fill" /\ \E sig \in Sigs : job' = [job EXCEPT !.step = "open", !.sig = sig])
    BY <2>1, FileTyped
  <2> QED
    BY <2>2, JobsTyped DEF Load, LoadStep, OpenTest, Read, Sign, Fill, Loading
<1>3. job \in Jobs
  BY DEF TypesInv
<1>4. PassOn => /\ job'.kind = job.kind /\ job'.flow = job.flow /\ job'.host = job.host
                /\ job'.step = "stat" /\ job'.todo = Tail(job.todo)
  BY <1>3 DEF PassOn, Jobs
<1>5. \A step \in {"open", "read", "sign"}, sig \in Sigs :
        (\/ job' = [job EXCEPT !.step = step] \/ job' = [job EXCEPT !.step = step, !.sig = sig])
        => /\ job'.kind = job.kind /\ job'.flow = job.flow /\ job'.host = job.host
           /\ job'.step = step /\ job'.todo = job.todo
  BY <1>3 DEF Jobs
<1> QED
  BY <1>1, <1>2, <1>4, <1>5 DEF Load

LEMMA JobIs ==
    ASSUME NEW kind, NEW todo, NEW f, NEW h
    PROVE  /\ Job(kind, todo).kind = kind /\ Job(kind, todo).todo = todo
           /\ Job(kind, todo).step = "stat"
           /\ For(f, h, Job(kind, todo)).kind = kind /\ For(f, h, Job(kind, todo)).todo = todo
           /\ For(f, h, Job(kind, todo)).step = "stat"
           /\ For(f, h, Job(kind, todo)).flow = f /\ For(f, h, Job(kind, todo)).host = h
           /\ Idle.kind = "idle" /\ Idle.todo = <<>> /\ Idle.step = "stat"
BY DEF Job, For, Idle

LEMMA AddingIs ==
    ASSUME job \in Jobs, NEW kind, Adding(kind)
    PROVE  /\ job'.kind = kind /\ job'.todo = <<>> /\ job'.step = "add"
           /\ job'.flow = job.flow /\ job'.host = job.host
BY DEF Adding, Jobs

LEMMA JobNext ==
    ASSUME TypesInv, JobInv, JudgedInv, [Next]_vars PROVE JobInv'
<1>1. CASE Load
  <2>1. CASE job'.step = "stat" /\ job'.todo = Tail(job.todo)
    BY <1>1, <2>1, LoadIs DEF JobInv
  <2>2. CASE /\ job'.todo = job.todo /\ job'.step \in {"open", "read", "sign"}
             /\ Current # "fill"
    <3>1. job.todo # <<>> /\ job.todo \in Seq(Files \cup {"fill"})
      BY <1>1, LoadIs DEF TypesInv, Jobs
    <3>2. Current \in Files
      BY <2>2, <3>1 DEF Current
    <3>3. Current' = Current
      BY <2>2 DEF Current
    <3> QED
      BY <1>1, <2>2, <3>1, <3>2, <3>3, LoadIs DEF JobInv
  <2> QED
    BY <1>1, <2>1, <2>2, LoadIs
<1>2. CASE job' = job
  BY <1>2 DEF JobInv, Current
<1>3. CASE job' = Idle
  BY <1>3, JobIs DEF JobInv
<1>4. CASE \E kind \in {"insert", "append", "sign"} : Adding(kind) /\ job.kind \in Kinds \ {"start", "hup", "idle"}
  BY <1>4, AddingIs DEF JobInv, TypesInv
<1>5. ASSUME NEW kind \in {"find", "check", "recheck"}, NEW todo, NEW f \in Flows, NEW h \in Hosts,
             job' = For(f, h, Job(kind, todo))
      PROVE  JobInv'
  BY <1>5, JobIs DEF JobInv
<1>6. CASE Hup
  <2>1. job' = Job("hup", Lists \o Ipsets)
    BY <1>6 DEF Hup
  <2> QED
    BY <2>1, JobIs DEF JobInv
<1>7. CASE Judge \/ CheckDone \/ CheckFails
  <2>1. PICK f \in Flows, pool \in Pools, first \in BOOLEAN :
          flow[f].host \in Hosts /\ Judgement(f, pool, first)
    BY <1>7, JudgeIs
  <2>2. job' = Idle \/ job' = For(f, flow[f].host, Job("recheck", Lists))
    BY <2>1, DecidedJob
  <2>3. CASE job' = For(f, flow[f].host, Job("recheck", Lists))
    BY <1>5, <2>1, <2>3
  <2> QED
    BY <1>3, <2>2, <2>3
<1>8. CASE FindDone \/ FindFails
  <2>1. job' = Idle \/ job' = For(job.flow, Host, Job("check", Lists))
    BY <1>8 DEF FindDone, FindFails
  <2>2. job.flow \in Flows /\ Host \in Hosts
    BY <1>8 DEF FindDone, FindFails, Loaded, JobInv, Host
  <2>3. CASE job' = For(job.flow, Host, Job("check", Lists))
    BY <1>5, <2>2, <2>3
  <2> QED
    BY <1>3, <2>1, <2>3
<1>9. CASE RecheckDone \/ RecheckFails \/ InsertAfterFailure \/ AppendToFile \/ SignAfter
  BY <1>3, <1>4, <1>9 DEF RecheckDone, RecheckFails, InsertAfterFailure, AppendToFile,
     SignAfter, Loaded, Kinds
<1>10. CASE Connect
  <2>1. PICK f \in Flows, h \in Hosts : job' = For(f, h, Job("find", Lists \o Ipsets))
    BY <1>10 DEF Connect, Open
  <2> QED
    BY <1>5, <2>1
<1> QED
  BY <1>1, <1>2, <1>3, <1>6, <1>7, <1>8, <1>9, <1>10
     DEF Next, Work, StartDone, LoadFatal, Other, Tick, vars

LEMMA JudgedNext ==
    ASSUME TypesInv, JobInv, JudgedInv, [Next]_vars PROVE JudgedInv'
<1>1. CASE Load
  BY <1>1, LoadIs DEF JudgedInv, autoVars
<1>2. CASE UNCHANGED <<flow, judged>> /\ job'.kind \notin {"find", "check"}
  BY <1>2 DEF JudgedInv
<1>3. CASE UNCHANGED <<flow, judged, job>>
  BY <1>3 DEF JudgedInv
<1>4. CASE FindDone \/ FindFails
  <2>1. /\ job.flow \in Flows /\ job.host \in Hosts /\ judged' = judged
        /\ judged[job.flow] = 0 /\ flow[job.flow].host = job.host
    BY <1>4 DEF FindDone, FindFails, Loaded, JobInv, JudgedInv
  <2>2. CASE flow' = flow /\ job' = For(job.flow, Host, Job("check", Lists))
    BY <2>1, <2>2, JobIs DEF JudgedInv, Host
  <2>3. CASE (\E state \in {"applied", "skipped"} : Settle(state)) /\ job' = Idle
    <3>1. PICK state \in {"applied", "skipped"} : flow' = Settled(job.flow, state)
      BY <2>3 DEF Settle
    <3>2. flow \in [Flows -> Connection] /\ state \in States /\ state # "watched"
      BY DEF TypesInv, States
    <3>3. /\ \A g \in Flows : g # job.flow => flow'[g] = flow[g]
          /\ flow'[job.flow].state # "watched"
      BY <2>1, <3>1, <3>2, ConnectionTyped
    <3> QED
      BY <2>1, <2>3, <3>3, JobIs DEF JudgedInv
  <2> QED
    BY <1>4, <2>2, <2>3 DEF FindDone, FindFails
<1>5. CASE Judge \/ CheckDone \/ CheckFails
  <2>1. PICK f \in Flows, pool \in Pools, first \in BOOLEAN :
          flow[f].host \in Hosts /\ judged[f] = 0 /\ Judgement(f, pool, first)
    BY <1>5, JudgeIs
  <2>2. job'.kind \notin {"find", "check"}
    BY <2>1, DecidedJob, JobIs
  <2>3. \A g \in Flows : g # f => judged'[g] = judged[g] /\ flow'[g] = flow[g]
    BY <2>1 DEF Judgement, Failed, Worked, NotJudged, TypesInv
  <2>4. flow'[f].state = "watched" => judged'[f] = 0 /\ flow'[f].host \in Hosts
    BY <2>1 DEF Judgement, NotJudged
  <2> QED
    BY <2>2, <2>3, <2>4 DEF JudgedInv
<1>6. CASE Connect
  <2>1. PICK f \in Flows, h \in Hosts, udp \in BOOLEAN : Open(f, h, udp)
    BY <1>6 DEF Connect
  <2> DEFINE new == [NoFlow EXCEPT !.host = h, !.udp = udp, !.state = "found"]
  <2>2. new.host = h /\ new.state = "found"
    BY DEF NoFlow
  <2>3. flow' = [flow EXCEPT ![f] = new] /\ judged' = [judged EXCEPT ![f] = 0]
        /\ job' = For(f, h, Job("find", Lists \o Ipsets))
    BY <2>1 DEF Open
  <2> HIDE DEF new
  <2>4. judged'[f] = 0 /\ flow'[f] = new
        /\ \A g \in Flows : g # f => judged'[g] = judged[g] /\ flow'[g] = flow[g]
    BY <2>3 DEF TypesInv
  <2> QED
    BY <2>2, <2>3, <2>4, JobIs DEF JudgedInv
<1>7. CASE RecheckDone \/ RecheckFails \/ InsertAfterFailure \/ AppendToFile \/ SignAfter
  <2>1. UNCHANGED <<flow, judged>>
    BY <1>7 DEF RecheckDone, RecheckFails, InsertAfterFailure, AppendToFile, SignAfter, autoVars
  <2>2. job' = Idle \/ \E kind \in {"insert", "append", "sign"} : Adding(kind)
    BY <1>7 DEF RecheckDone, RecheckFails, InsertAfterFailure, AppendToFile, SignAfter
  <2> QED
    BY <1>2, <2>1, <2>2, JobIs, AddingIs DEF TypesInv
<1>8. CASE Hup \/ StartDone
  BY <1>2, <1>8, JobIs DEF Hup, StartDone, autoVars
<1> QED
  BY <1>1, <1>3, <1>4, <1>5, <1>6, <1>7, <1>8
     DEF Next, Work, LoadFatal, Other, Tick, vars, autoVars

-----------------------------------------------------------------------------
\* What a connection, a SIGHUP and the end of a load make of the job.
LEMMA BeginsIs ==
    ASSUME Connect \/ Hup \/ StartDone PROVE job'.kind \in {"find", "hup", "idle"}
<1>1. CASE Connect
  <2>1. PICK f \in Flows, h \in Hosts : job' = For(f, h, Job("find", Lists \o Ipsets))
    BY <1>1 DEF Connect, Open
  <2> QED
    BY <2>1, JobIs
<1>2. CASE Hup
  <2>1. job' = Job("hup", Lists \o Ipsets)
    BY <1>2 DEF Hup
  <2> QED
    BY <2>1, JobIs
<1>3. CASE StartDone
  BY <1>3, JobIs DEF StartDone
<1> QED
  BY <1>1, <1>2, <1>3

-----------------------------------------------------------------------------
\* The failures that count.

\* With one failure more, the last n + 1 are the last n and that one.
LastOnes(times, t, n, r) ==
    /\ r \in Seq(Failure) /\ Len(r) >= n + 1 /\ r[Len(r)] = t
    /\ \A k \in 1..n : r[Len(r) - k] = times[Len(times) - k + 1]

LEMMA RecentIs ==
    ASSUME NEW times \in Seq(Failure), NEW t \in Failure, NEW n \in Nat, NEW m \in Nat,
           n <= Len(times), n + 1 <= m
    PROVE  LastOnes(times, t, n, Recent(Append(times, t), m))
<1> USE DEF LastOnes
<1> DEFINE app == Append(times, t)
           len == Len(times)
<1>1. /\ app \in Seq(Failure) /\ Len(app) = len + 1 /\ app[len + 1] = t /\ len \in Nat
      /\ \A i \in 1..len : app[i] = times[i]
  OBVIOUS
<1>2. CASE len + 1 > m
  <2>1. Recent(app, m) = Tail(app)
    BY <1>1, <1>2 DEF Recent
  <2>2. app # <<>>
    BY <1>1
  <2>3. /\ Tail(app) \in Seq(Failure) /\ Len(Tail(app)) = len
        /\ \A i \in 1..len : Tail(app)[i] = app[i + 1]
    BY <1>1, <2>2
  <2>4. len \in 1..len /\ len >= n + 1
    BY <1>1, <1>2
  <2>5. Tail(app)[len] = t
    BY <1>1, <2>3, <2>4
  <2>6. ASSUME NEW k \in 1..n PROVE Tail(app)[len - k] = times[len - k + 1]
    <3>1. len - k \in 1..len /\ len - k + 1 \in 1..len
      BY <1>1, <2>4
    <3> QED
      BY <1>1, <2>3, <3>1
  <2> QED
    BY <1>1, <2>1, <2>3, <2>4, <2>5, <2>6
<1>3. CASE ~(len + 1 > m)
  <2>1. Recent(app, m) = app
    BY <1>1, <1>3 DEF Recent
  <2>2. ASSUME NEW k \in 1..n PROVE app[len + 1 - k] = times[len - k + 1]
    <3>1. len + 1 - k \in 1..len /\ len + 1 - k = len - k + 1
      BY <1>1
    <3> QED
      BY <1>1, <3>1
  <2> QED
    BY <1>1, <2>1, <2>2
<1> QED
  BY <1>2, <1>3

LEMMA PurgedIs ==
    ASSUME TypesInv, NEW pool \in Pools, NEW h \in Hosts
    PROVE  /\ pool[h] = fails[h] \/ pool[h].n = 0
           /\ pool = Purged(fails) => pool[h].n = 0 \/ now < pool[h].expire
BY DEF Pools, Purged, NoCounter, TypesInv

LEMMA FailedCounts ==
    ASSUME TypesInv, CountedInv, NEW f \in Flows, NEW pool \in Pools, NEW first \in BOOLEAN,
           flow[f].host \in Hosts, first \/ pool = Purged(fails), Failed(f, pool, first)
    PROVE  CountedInv'
<1> DEFINE h == flow[f].host
           p == pool[h]
           c == Counted(pool, h)
           enough == c.n >= FailThreshold
           times == log[h]
           new == [time |-> now, first |-> first]
           m == IF enough THEN FailThreshold ELSE FailThreshold - 1
           r == Recent(Append(times, new), m)
<1>1. h \in Hosts /\ now \in Nat /\ times \in Seq(Failure) /\ new \in Failure
  BY DEF TypesInv, Failure
<1>2. FailThreshold \in Nat \ {0} /\ FailTime \in Nat \ {0}
  BY AutoAssumption
<1>3. /\ fails' = [pool EXCEPT ![h] = IF enough THEN NoCounter ELSE c]
      /\ log' = [log EXCEPT ![h] = r]
      /\ job' = IF enough THEN For(f, h, Job("recheck", Lists)) ELSE Idle
  BY DEF Failed
<1>4. /\ p \in [n : Nat, expire : Nat] /\ c \in [n : Nat, expire : Nat]
      /\ pool \in [Hosts -> [n : Nat, expire : Nat]]
      /\ log \in [Hosts -> Seq(Failure)]
  BY <1>1, PurgedTyped DEF TypesInv, Failure
<1>5. /\ p.n \in Nat /\ p.expire \in Nat
      /\ p.n > 0 => /\ p.n < FailThreshold /\ p.n <= Len(times) /\ (first \/ now < p.expire)
                    /\ p.expire = times[Len(times) - p.n + 1].time + FailTime
                    /\ \A i \in (Len(times) - p.n + 1)..Len(times) :
                         times[i].first \/ times[i].time < p.expire
  <2>1. /\ p = fails[h] \/ p.n = 0
        /\ p.n > 0 => first \/ now < p.expire
    BY <1>1, <1>4, PurgedIs
  <2> QED
    BY <1>1, <1>4, <2>1 DEF CountedInv
<1>6. /\ c.n = p.n + 1
      /\ p.n = 0 => c.expire = now + FailTime
      /\ p.n > 0 => c.expire = p.expire
  BY <1>4 DEF Counted
<1> HIDE DEF h, p, c
<1>7. p.n <= Len(times) /\ p.n + 1 <= m /\ m \in Nat
  BY <1>1, <1>2, <1>5, <1>6
<1>8. new.time = now /\ new.first = first
  OBVIOUS
<1> HIDE DEF times, m, r, new
<1>9. /\ r \in Seq(Failure) /\ Len(r) >= p.n + 1 /\ r[Len(r)] = new
      /\ \A k \in 1..(p.n) : r[Len(r) - k] = times[Len(times) - k + 1]
  <2>1. r = Recent(Append(times, new), m)
    BY DEF r
  <2>2. LastOnes(times, new, p.n, Recent(Append(times, new), m))
    BY <1>1, <1>5, <1>7, RecentIs
  <2> QED
    BY <2>1, <2>2 DEF LastOnes
<1> HIDE DEF r
<1>10. log'[h] = r /\ \A g \in Hosts : g # h => log'[g] = log[g] /\ fails'[g] = pool[g]
  BY <1>1, <1>3, <1>4
<1>11. Len(r) \in Nat /\ Len(times) \in Nat
  BY <1>1, <1>9
\* All that count came before they expire, with the first of them.
<1>12. /\ c.expire = r[Len(r) - p.n].time + FailTime
       /\ \A i \in (Len(r) - p.n)..Len(r) : r[i].first \/ r[i].time < c.expire
  <2>1. CASE p.n = 0
    <3>1. Len(r) - p.n = Len(r)
      BY <1>11, <2>1
    <3>2. c.expire = now + FailTime /\ now < now + FailTime
      BY <1>1, <1>2, <1>6, <2>1
    <3>3. ASSUME NEW i \in (Len(r) - p.n)..Len(r) PROVE i = Len(r)
      BY <1>11, <3>1
    <3> QED
      BY <1>8, <1>9, <3>1, <3>2, <3>3
  <2>2. CASE p.n > 0
    <3>1. p.n \in 1..(p.n)
      BY <1>5, <2>2
    <3>2. r[Len(r) - p.n] = times[Len(times) - p.n + 1]
      BY <1>9, <3>1
    <3>3. c.expire = p.expire /\ (first \/ now < c.expire)
      BY <1>5, <1>6, <2>2
    <3>4. ASSUME NEW i \in (Len(r) - p.n)..Len(r) PROVE r[i].first \/ r[i].time < c.expire
      <4>1. CASE i = Len(r)
        BY <1>8, <1>9, <3>3, <4>1
      <4>2. CASE i # Len(r)
        <5>1. Len(r) - i \in 1..(p.n) /\ Len(r) - (Len(r) - i) = i
          BY <1>5, <1>11, <4>2
        <5>2. r[i] = times[Len(times) - (Len(r) - i) + 1]
          BY <1>9, <5>1
        <5>3. Len(times) - (Len(r) - i) + 1 \in (Len(times) - p.n + 1)..Len(times)
          BY <1>5, <1>11, <5>1
        <5> QED
          BY <1>5, <2>2, <3>3, <5>2, <5>3
      <4> QED
        BY <4>1, <4>2
    <3> QED
      BY <1>5, <2>2, <3>2, <3>3, <3>4
  <2> QED
    BY <1>5, <2>1, <2>2
<1>13. ASSUME NEW g \in Hosts, fails'[g].n > 0
       PROVE  /\ fails'[g].n < FailThreshold /\ fails'[g].n <= Len(log'[g])
              /\ fails'[g].expire = log'[g][Len(log'[g]) - fails'[g].n + 1].time + FailTime
              /\ \A i \in (Len(log'[g]) - fails'[g].n + 1)..Len(log'[g]) :
                   log'[g][i].first \/ log'[g][i].time < fails'[g].expire
  <2>1. CASE g # h
    <3>1. pool[g].n \in Nat
      BY <1>4
    <3>2. fails'[g] = fails[g] /\ log'[g] = log[g]
      BY <1>10, <1>13, <2>1, <3>1, PurgedIs
    <3> QED
      BY <1>13, <3>2 DEF CountedInv
  <2>2. CASE g = h
    <3>1. ~enough /\ fails'[h] = c
      <4>1. fails'[h] = IF enough THEN NoCounter ELSE c
        BY <1>1, <1>3, <1>4
      <4> QED
        BY <1>13, <2>2, <4>1 DEF NoCounter
    <3>2. c.n < FailThreshold /\ c.n \in Nat /\ c.n <= Len(r)
      BY <1>2, <1>5, <1>6, <1>9, <3>1
    <3>3. Len(r) - c.n + 1 = Len(r) - p.n
      BY <1>5, <1>6, <1>11
    <3> QED
      BY <1>10, <1>12, <2>2, <3>1, <3>2, <3>3
  <2> QED
    BY <2>1, <2>2
<1>14. CASE enough
  <2>1. fails'[h].n = 0
    BY <1>1, <1>3, <1>4, <1>14 DEF NoCounter
  <2>2. p.n + 1 = FailThreshold
    BY <1>2, <1>5, <1>6, <1>14
  <2>3. Len(r) - FailThreshold + 1 = Len(r) - p.n /\ Len(r) >= FailThreshold
    BY <1>2, <1>5, <1>9, <1>11, <2>2
  <2>4. ASSUME NEW i \in (Len(r) - p.n)..Len(r)
        PROVE  r[i].first \/ r[i].time - r[Len(r) - p.n].time < FailTime
    <3>1. i \in 1..Len(r) /\ Len(r) - p.n \in 1..Len(r)
      BY <1>5, <1>9, <1>11
    <3>2. r[i].time \in Nat /\ r[Len(r) - p.n].time \in Nat
      <4>1. r[i] \in Failure /\ r[Len(r) - p.n] \in Failure
        BY <1>9, <3>1
      <4> QED
        BY <4>1 DEF Failure
    <3>3. r[i].first \/ r[i].time < r[Len(r) - p.n].time + FailTime
      BY <1>12
    <3> QED
      BY <1>2, <3>2, <3>3
  <2>5. Host' = h
    BY <1>3, <1>14, JobIs DEF Host
  <2>6. Within(Host)'
    BY <1>10, <2>3, <2>4, <2>5 DEF Within
  <2> QED
    BY <1>13, <2>1, <2>5, <2>6 DEF CountedInv
<1>15. CASE ~enough
  <2>1. job'.kind = "idle"
    BY <1>3, <1>15, JobIs
  <2> QED
    BY <1>13, <2>1 DEF CountedInv
<1> QED
  BY <1>14, <1>15

LEMMA CountedNext ==
    ASSUME TypesInv, JobInv, JudgedInv, CountedInv, [Next]_vars PROVE CountedInv'
<1> DEFINE Adds == {"recheck", "insert", "append"}
<1>1. ASSUME UNCHANGED <<log, fails>>,
             \/ job'.kind \notin Adds
             \/ job'.kind \in Adds /\ job.kind \in Adds /\ job'.host = job.host
      PROVE  CountedInv'
  <2>1. ASSUME job'.kind \in Adds PROVE Within(Host)' /\ fails'[Host'].n = 0
    <3>1. Host' = Host /\ job.kind \in Adds
      BY <1>1, <2>1 DEF Host
    <3> QED
      BY <1>1, <3>1 DEF CountedInv, Within
  <2> QED
    BY <1>1, <2>1 DEF CountedInv
<1>2. ASSUME UNCHANGED <<log, fails, job>> PROVE CountedInv'
  BY <1>1, <1>2 DEF CountedInv, Within, Host
<1>3. CASE Load
  BY <1>1, <1>3, LoadIs DEF autoVars
<1>4. CASE FindDone \/ FindFails
  <2>1. job' = Idle \/ job' = For(job.flow, Host, Job("check", Lists))
    BY <1>4 DEF FindDone, FindFails
  <2>2. job'.kind \notin Adds
    BY <2>1, JobIs
  <2> QED
    BY <1>1, <1>4, <2>2 DEF FindDone, FindFails
<1>5. CASE Connect \/ Hup \/ StartDone
  <2>1. job'.kind \in {"find", "hup", "idle"}
    BY <1>5, BeginsIs
  <2>2. job'.kind \notin Adds
    BY <2>1
  <2> QED
    BY <1>1, <1>5, <2>2 DEF Connect, Open, Hup, StartDone, autoVars
<1>6. CASE RecheckDone \/ RecheckFails \/ InsertAfterFailure \/ SignAfter
  <2>1. UNCHANGED <<log, fails>>
    BY <1>6 DEF RecheckDone, RecheckFails, InsertAfterFailure, SignAfter, autoVars
  <2>2. \/ job' = Idle
        \/ job.kind \in Adds /\ \E kind \in {"insert", "append"} : Adding(kind)
    BY <1>6 DEF RecheckDone, RecheckFails, InsertAfterFailure, SignAfter, Loaded
  <2> QED
    BY <1>1, <2>1, <2>2, JobIs, AddingIs DEF TypesInv
<1>7. CASE AppendToFile
  <2>1. job' = Idle \/ Adding("sign")
    BY <1>7 DEF AppendToFile
  <2>2. job'.kind \in {"idle", "sign"}
    BY <2>1, JobIs, AddingIs DEF TypesInv
  <2>3. Host \in Hosts /\ fails[Host].n = 0 /\ fails' = fails
    BY <1>7 DEF AppendToFile, JobInv, CountedInv, Host
  <2>4. \A g \in Hosts : g # Host => log'[g] = log[g]
    BY <1>7, <2>3 DEF AppendToFile, TypesInv
  <2> QED
    BY <2>2, <2>3, <2>4 DEF CountedInv
<1>8. CASE Judge \/ CheckDone \/ CheckFails
  <2>1. PICK f \in Flows, pool \in Pools, first \in BOOLEAN :
          /\ flow[f].host \in Hosts /\ (first \/ pool = Purged(fails))
          /\ Judgement(f, pool, first)
    BY <1>8, JudgeIs
  <2>2. CASE Failed(f, pool, first)
    BY <2>1, <2>2, FailedCounts
  <2>3. ASSUME NEW g \in Hosts, fails'[g] = pool[g] \/ fails'[g] = NoCounter,
               fails'[g].n > 0
        PROVE  fails'[g] = fails[g]
    BY <2>3, PurgedIs DEF NoCounter
  <2>4. CASE Worked(f, pool)
    <3>1. /\ \A g \in Hosts : fails'[g] = pool[g] \/ fails'[g] = NoCounter
          /\ \A g \in Hosts : g # flow[f].host => log'[g] = log[g]
          /\ fails'[flow[f].host] = NoCounter
      BY <2>1, <2>4, PurgedTyped DEF Worked, TypesInv
    <3>2. ASSUME NEW g \in Hosts, fails'[g].n > 0
          PROVE  fails'[g] = fails[g] /\ log'[g] = log[g]
      <4>1. g # flow[f].host
        BY <3>1, <3>2 DEF NoCounter
      <4> QED
        BY <2>3, <3>1, <3>2, <4>1
    <3>3. job'.kind = "idle"
      BY <2>4, JobIs DEF Worked
    <3> QED
      BY <3>2, <3>3 DEF CountedInv
  <2>5. CASE NotJudged(pool)
    <3>1. job'.kind = "idle" /\ log' = log /\ fails' = pool
      BY <2>5, JobIs DEF NotJudged
    <3> QED
      BY <2>3, <3>1 DEF CountedInv
  <2> QED
    BY <2>1, <2>2, <2>4, <2>5 DEF Judgement
<1> QED
  BY <1>2, <1>3, <1>4, <1>5, <1>6, <1>7, <1>8
     DEF Next, Work, LoadFatal, Other, Tick, vars, autoVars

-----------------------------------------------------------------------------
\* The automatic list is not left empty.

LEMMA FilledNext ==
    ASSUME TypesInv, JobInv, JudgedInv, FilledInv, [Next]_vars PROVE FilledInv'
<1>1. ASSUME auto' = auto, mem' = mem, job' = job PROVE FilledInv'
  BY <1>1 DEF FilledInv
<1>2. ASSUME job'.kind \notin {"check", "recheck"} PROVE FilledInv'
  BY <1>2 DEF FilledInv
<1>3. ASSUME job'.kind \in {"check", "recheck"}, job'.todo = Lists PROVE FilledInv'
  <2>1. Lists # <<>> /\ Lists[Len(Lists)] = "fill"
    BY ListsTyped DEF TypesInv
  <2> QED
    BY <1>3, <2>1 DEF FilledInv
<1>4. CASE Load
  <2>1. job.todo \in Seq(Files \cup {"fill"}) /\ job.todo # <<>>
    BY <1>4, LoadIs DEF TypesInv, Jobs
  <2>2. job'.kind = job.kind /\ auto' = auto
    BY <1>4, LoadIs
  <2>3. ASSUME auto, job.kind \in {"check", "recheck"}
        PROVE  job.todo[Len(job.todo)] = "fill"
    BY <2>1, <2>3 DEF FilledInv
  <2>4. CASE job'.todo = job.todo
    BY <2>1, <2>2, <2>3, <2>4 DEF FilledInv
  <2>5. CASE PassOn /\ job'.todo = Tail(job.todo)
    <3>1. CASE Len(job.todo) > 1
      <4>1. Tail(job.todo) # <<>>
            /\ Tail(job.todo)[Len(Tail(job.todo))] = job.todo[Len(job.todo)]
        <5>1. \A q \in Seq(Files \cup {"fill"}) :
                Len(q) > 1 => Tail(q) # <<>> /\ Tail(q)[Len(Tail(q))] = q[Len(q)]
          OBVIOUS
        <5> QED
          BY <2>1, <3>1, <5>1
      <4> QED
        BY <2>2, <2>3, <2>5, <4>1 DEF FilledInv
    <3>2. CASE Len(job.todo) = 1
      <4>1. ASSUME auto, job.kind \in {"check", "recheck"} PROVE mem'["auto"].items # {}
        <5>1. Current = "fill"
          BY <2>1, <2>3, <3>2, <4>1 DEF Current
        <5>2. mem' = Filled(mem)
          BY <1>4, <5>1 DEF Load, LoadStep, Stat, OpenTest, Read, Sign, Loading, Fill
        <5>3. mem \in [Files -> MemFile] /\ "auto" \in Files
          BY DEF TypesInv
        <5> QED
          BY <4>1, <5>2, <5>3 DEF Filled, MemFile
      <4> QED
        BY <2>1, <2>2, <2>5, <3>2, <4>1 DEF FilledInv
    <3>3. Len(job.todo) \in Nat /\ Len(job.todo) # 0
      BY <2>1
    <3>4. \A n \in Nat : n # 0 => n > 1 \/ n = 1
      OBVIOUS
    <3>5. Len(job.todo) > 1 \/ Len(job.todo) = 1
      BY <3>3, <3>4
    <3> QED
      BY <3>1, <3>2, <3>5
  <2> QED
    BY <1>4, <2>4, <2>5, LoadIs
<1>5. CASE FindDone \/ FindFails
  <2>1. job' = Idle \/ job' = For(job.flow, Host, Job("check", Lists))
    BY <1>5 DEF FindDone, FindFails
  <2> QED
    BY <1>2, <1>3, <2>1, JobIs
<1>6. CASE Judge \/ CheckDone \/ CheckFails
  <2>1. \E f, pool, first : Judgement(f, pool, first)
    BY <1>6, JudgeIs
  <2>2. job' = Idle \/ \E f : job' = For(f, flow[f].host, Job("recheck", Lists))
    BY <2>1, DecidedJob
  <2> QED
    BY <1>2, <1>3, <2>2, JobIs
<1>7. CASE RecheckDone \/ RecheckFails \/ InsertAfterFailure \/ AppendToFile \/ SignAfter
  <2>1. job' = Idle \/ \E kind \in {"insert", "append", "sign"} : Adding(kind)
    BY <1>7 DEF RecheckDone, RecheckFails, InsertAfterFailure, AppendToFile, SignAfter
  <2> QED
    BY <1>2, <2>1, JobIs, AddingIs DEF TypesInv
<1>8. CASE Connect \/ Hup \/ StartDone
  BY <1>2, <1>8, BeginsIs
<1>9. CASE LoadFatal
  <2>1. job.kind \in {"start", "hup"} /\ job' = job
    BY <1>9 DEF LoadFatal
  <2> QED
    BY <1>2, <2>1
<1> QED
  BY <1>1, <1>4, <1>5, <1>6, <1>7, <1>8, <1>9 DEF Next, Work, Other, Tick, vars

-----------------------------------------------------------------------------
\* What has been added stays in memory.

LEMMA LeastOf ==
    ASSUME NEW S \in SUBSET Nat, S # {}
    PROVE  \E m \in S : \A n \in S : m <= n
<1>1. PICK m \in S : \A n \in S : ~(<<n, m>> \in OpToRel(<, Nat))
  BY WFMin, NatLessThanWellFounded
<1>2. ASSUME NEW n \in S PROVE m <= n
  <2>1. ~(n < m)
    BY <1>1 DEF OpToRel
  <2> QED
    BY <2>1
<1> QED
  BY <1>2

\* Every name of a file is that of an item of its pool: the first of the name.
LEMMA PoolKeeps ==
    ASSUME NEW items, items \in Seq(Item), NEW i \in 1..Len(items)
    PROVE  \E item \in Pool(items) : item.name = items[i].name
<1> DEFINE same == {k \in 1..Len(items) : items[k].name = items[i].name}
<1>1. same \in SUBSET Nat /\ i \in same
  OBVIOUS
<1>2. PICK k \in same : \A n \in same : k <= n
  BY <1>1, LeastOf
<1>3. ASSUME NEW j \in 1..(k - 1) PROVE items[j].name # items[k].name
  <2>1. j \in 1..Len(items) /\ j < k /\ k \in Nat /\ items[k].name = items[i].name
    BY <1>2
  <2>2. j \notin same
    BY <1>2, <2>1
  <2> QED
    BY <2>1, <2>2
<1>4. k \in 1..Len(items) /\ items[k].name = items[i].name
  BY <1>2
<1>5. items[k] \in Pool(items)
  BY <1>3, <1>4 DEF Pool
<1> QED
  BY <1>4, <1>5

\* What happens to the file of the automatic list, if only the program writes it.
LEMMA OtherFiles ==
    ASSUME TypesInv, "auto" \notin Edited, Other
    PROVE  disk'["auto"].items \in {disk["auto"].items, <<>>}
<1>1. PICK f \in Files : Edit(f) \/ Access(f)
  BY DEF Other
<1>2. disk \in [Files -> DiskFile] /\ "auto" \in Files
  BY DEF TypesInv
<1>3. CASE Edit(f)
  <2>1. f # "auto" /\ \E d : disk' = [disk EXCEPT ![f] = d]
    BY <1>3 DEF Edit
  <2> QED
    BY <1>2, <2>1
<1>4. CASE Access(f)
  <2>1. PICK state \in {"ok", "closed", "gone"} :
          disk' = [disk EXCEPT ![f].state = state,
                               ![f].items = IF state = "gone" THEN <<>> ELSE @]
    BY <1>4 DEF Access
  <2> QED
    BY <1>2, <2>1 DEF DiskFile
<1> QED
  BY <1>1, <1>3, <1>4

LEMMA InsertedIs ==
    ASSUME mem \in [Files -> MemFile], NEW h \in Hosts, mem' = Inserted(mem, h)
    PROVE  /\ mem'["auto"].lost = mem["auto"].lost /\ InMemory(h)'
           /\ \A g : InMemory(g) => InMemory(g)'
<1> DEFINE item == [name |-> h, strict |-> FALSE]
<1>1. mem["auto"] \in MemFile
  BY JobsTyped
<1>2. /\ mem'["auto"].items = mem["auto"].items \cup {item}
      /\ mem'["auto"].lost = mem["auto"].lost
  BY <1>1 DEF Inserted, MemFile
<1>3. item.name = h /\ item \in mem'["auto"].items
  BY <1>2
<1> QED
  BY <1>2, <1>3 DEF InMemory

LEMMA AddedNext ==
    ASSUME TypesInv, JobInv, JudgedInv, AddedInv, StaleInv, [Next]_vars PROVE AddedInv'
<1>1. ASSUME \/ job'.kind # "append"
             \/ job' = job /\ mem' = mem
             \/ job'.host = job.host /\ job.host \in Hosts /\ mem' = Inserted(mem, Host)
      PROVE  job'.kind = "append" => InMemory(Host)'
  <2>1. CASE job' = job /\ mem' = mem
    BY <2>1 DEF AddedInv, InMemory, Host
  <2>2. CASE job'.host = job.host /\ job.host \in Hosts /\ mem' = Inserted(mem, Host)
    BY <2>2, InsertedIs DEF TypesInv, InMemory, Host
  <2> QED
    BY <1>1, <2>1, <2>2
<1> DEFINE Kept == AutoKeepsAdded /\ FileInMemory
<1>2. ASSUME disk' = disk, added' \subseteq added, mem["auto"].lost => mem'["auto"].lost,
             \A h \in Hosts : InMemory(h) => InMemory(h)'
      PROVE  Kept'
  BY <1>2 DEF AddedInv, AutoKeepsAdded, FileInMemory, InFile, InMemory, TypesInv
<1>3. ASSUME disk' = disk, added' \subseteq added, mem'["auto"] = mem["auto"]
      PROVE  Kept'
  BY <1>2, <1>3 DEF InMemory
<1>4. mem \in [Files -> MemFile] /\ disk \in [Files -> DiskFile] /\ "auto" \in Files
  BY DEF TypesInv
<1>5. disk["auto"].items \in Seq(Item)
  BY <1>4 DEF DiskFile
<1>6. ASSUME ReadFails PROVE mem["auto"].lost => mem'["auto"].lost
  BY <1>4, <1>6, FailTyped DEF MemFile
<1>7. ASSUME ReadFails, disk' = disk, added' = added PROVE Kept'
  <2>1. CASE Current = "auto"
    <3>1. mem'["auto"].lost
      BY <1>4, <1>7, <2>1, FailTyped DEF MemFile
    <3> QED
      BY <3>1 DEF AutoKeepsAdded, FileInMemory
  <2>2. CASE Current # "auto"
    <3>1. mem'["auto"] = mem["auto"]
      BY <1>4, <1>7, <2>2, FailTyped
    <3> QED
      BY <1>3, <1>7, <3>1
  <2> QED
    BY <2>1, <2>2
<1>8. CASE Load
  <2>1. disk' = disk /\ added' = added /\ job.todo # <<>> /\ job'.kind = job.kind
    BY <1>8, LoadIs DEF fileVars, autoVars
  <2>2. job.kind # "append"
    BY <2>1 DEF JobInv
  <2>3. Kept'
    <3>1. CASE Stat \/ OpenTest
      BY <1>3, <2>1, <3>1 DEF Stat, OpenTest
    <3>2. CASE Read /\ Current = "auto"
      <4>1. mem'["auto"].items = Pool(disk["auto"].items)
        BY <1>4, <3>2 DEF Read, MemFile
      <4>2. ASSUME NEW h \in Hosts, InFile(h)' PROVE InMemory(h)'
        <5>1. PICK i \in 1..Len(disk["auto"].items) : disk["auto"].items[i].name = h
          BY <2>1, <4>2 DEF InFile
        <5> QED
          BY <1>5, <4>1, <5>1, PoolKeeps DEF InMemory
      <4>3. ASSUME "auto" \notin Edited, NEW h \in added PROVE InFile(h)'
        <5>1. job.step = "read" /\ disk["auto"].state = "ok"
          BY <3>2 DEF Read, Readable, Loading, Doing
        <5>2. Stale /\ job.kind # "sign"
          BY <2>1, <3>2, <4>3, <5>1 DEF StaleInv, JobInv
        <5>3. InFile(h)
          BY <4>3, <5>2 DEF StaleInv
        <5> QED
          BY <2>1, <5>3 DEF InFile
      <4>4. added \subseteq Hosts
        BY DEF TypesInv
      <4> QED
        BY <2>1, <4>2, <4>3, <4>4 DEF AutoKeepsAdded, FileInMemory, InMemory
    <3>3. CASE Read /\ Current # "auto"
      BY <1>3, <1>4, <2>1, <3>3 DEF Read
    <3>4. CASE Sign
      BY <1>2, <1>4, <2>1, <3>4 DEF Sign, MemFile, InMemory
    <3>5. CASE Fill
      <4>1. mem'["auto"].lost = mem["auto"].lost
        BY <1>4, <3>5 DEF Fill, Filled, MemFile
      <4>2. ASSUME NEW h \in Hosts, InMemory(h) PROVE InMemory(h)'
        <5>1. mem["auto"].items # {}
          BY <4>2 DEF InMemory
        <5> QED
          BY <3>5, <4>2, <5>1 DEF Fill, Filled, InMemory
      <4> QED
        BY <1>2, <2>1, <4>1, <4>2
    <3> QED
      BY <1>8, <3>1, <3>2, <3>3, <3>4, <3>5 DEF Load, LoadStep
  <2> QED
    BY <2>1, <2>2, <2>3 DEF AddedInv
<1>9. CASE FindDone
  <2>1. job' = Idle \/ job' = For(job.flow, Host, Job("check", Lists))
    BY <1>9 DEF FindDone
  <2>2. job'.kind # "append"
    BY <2>1, JobIs
  <2>3. disk' = disk /\ mem' = mem /\ added' = added
    BY <1>9 DEF FindDone, fileVars
  <2> QED
    BY <1>3, <2>2, <2>3 DEF AddedInv
<1>10. CASE FindFails
  <2>1. job'.kind # "append" /\ ReadFails /\ disk' = disk /\ added' = added
    BY <1>10, JobIs DEF FindFails, fileVars
  <2> QED
    BY <1>7, <2>1 DEF AddedInv
<1>11. CASE LoadFatal
  <2>1. job.kind # "append" /\ job' = job /\ ReadFails /\ disk' = disk /\ added' = added
    BY <1>11 DEF LoadFatal, fileVars, autoVars
  <2> QED
    BY <1>7, <2>1 DEF AddedInv
<1>12. CASE Judge \/ CheckDone \/ CheckFails
  <2>1. disk' = disk /\ added' = added /\ (mem' = mem \/ ReadFails)
    BY <1>12, JudgeIs DEF fileVars
  <2>2. \E f, pool, first : Judgement(f, pool, first)
    BY <1>12, JudgeIs
  <2>3. job' = Idle \/ \E f : job' = For(f, flow[f].host, Job("recheck", Lists))
    BY <2>2, DecidedJob
  <2>4. job'.kind # "append"
    BY <2>3, JobIs
  <2> QED
    BY <1>3, <1>7, <2>1, <2>4 DEF AddedInv
<1>13. CASE Connect \/ StartDone
  <2>1. job'.kind # "append" /\ disk' = disk /\ mem' = mem /\ added' = added
    BY <1>13, BeginsIs DEF Connect, Open, StartDone, fileVars, autoVars
  <2> QED
    BY <1>3, <2>1 DEF AddedInv
<1>14. CASE Hup
  <2>1. job'.kind # "append" /\ disk' = disk /\ added' \subseteq added
    BY <1>14, JobIs DEF Hup, fileVars
  <2>2. mem'["auto"].items = mem["auto"].items /\ mem'["auto"].lost = mem["auto"].lost
    BY <1>4, <1>14 DEF Hup, MemFile
  <2> QED
    BY <1>2, <2>1, <2>2 DEF AddedInv, InMemory
<1>15. CASE RecheckFails
  <2>1. job'.kind # "append" /\ ReadFails /\ disk' = disk /\ added' = added
    BY <1>15, AddingIs DEF RecheckFails, TypesInv, fileVars, autoVars
  <2> QED
    BY <1>7, <2>1 DEF AddedInv
<1>16. CASE RecheckDone \/ InsertAfterFailure
  <2>1. disk' = disk /\ added' = added /\ Host \in Hosts
    BY <1>16 DEF RecheckDone, InsertAfterFailure, Loaded, JobInv, Host, fileVars, autoVars
  <2>2. CASE job' = Idle /\ mem' = mem
    BY <1>3, <2>1, <2>2, JobIs DEF AddedInv
  <2>3. CASE Adding("append") /\ mem' = Inserted(mem, Host)
    <3>1. job'.host = job.host
      BY <2>3, AddingIs DEF TypesInv
    <3>2. Kept'
      BY <1>2, <1>4, <2>1, <2>3, InsertedIs
    <3> QED
      BY <1>1, <2>1, <2>3, <3>1, <3>2 DEF AddedInv, Host
  <2> QED
    BY <1>16, <2>2, <2>3 DEF RecheckDone, InsertAfterFailure
<1>17. CASE AppendToFile
  <2>1. mem' = mem /\ job'.kind # "append"
    <3>1. mem' = mem /\ (job' = Idle \/ Adding("sign"))
      BY <1>17 DEF AppendToFile
    <3>2. job'.kind \in {"idle", "sign"}
      BY <3>1, JobIs, AddingIs DEF TypesInv
    <3> QED
      BY <3>1, <3>2
  <2>2. InMemory(Host)
    BY <1>17 DEF AppendToFile, AddedInv
  <2>3. disk' = disk \/ disk'["auto"].items = Append(disk["auto"].items, [name |-> Host, strict |-> FALSE])
    BY <1>4, <1>17 DEF AppendToFile, Written
  <2>4. ASSUME NEW h \in Hosts, InFile(h)' PROVE InFile(h) \/ h = Host
    <3>1. CASE disk' = disk
      BY <2>4, <3>1 DEF InFile
    <3>2. CASE disk'["auto"].items = Append(disk["auto"].items, [name |-> Host, strict |-> FALSE])
      <4> DEFINE items == disk["auto"].items
                 new == [name |-> Host, strict |-> FALSE]
      <4>1. PICK i \in 1..Len(Append(items, new)) : Append(items, new)[i].name = h
        BY <2>4, <3>2 DEF InFile
      <4>2. new.name = Host
        OBVIOUS
      <4> HIDE DEF new
      <4>3. \/ i \in 1..Len(items) /\ Append(items, new)[i] = items[i]
            \/ Append(items, new)[i] = new
        BY <1>5, <4>1
      <4> QED
        BY <4>1, <4>2, <4>3 DEF InFile
    <3> QED
      BY <2>3, <3>1, <3>2
  <2>5. added' \subseteq added \cup {Host}
    BY <1>17 DEF AppendToFile
  <2> QED
    BY <2>1, <2>2, <2>4, <2>5 DEF AddedInv, AutoKeepsAdded, FileInMemory, InMemory
<1>18. CASE SignAfter
  <2>1. disk' = disk /\ added' = added /\ job'.kind # "append"
    BY <1>18, JobIs DEF SignAfter, fileVars, autoVars
  <2>2. mem'["auto"].items = mem["auto"].items /\ mem'["auto"].lost = mem["auto"].lost
    BY <1>4, <1>18 DEF SignAfter, MemFile
  <2> QED
    BY <1>2, <2>1, <2>2 DEF AddedInv, InMemory
<1>19. CASE Other
  <2>1. mem' = mem /\ job' = job /\ added' = added
    BY <1>19 DEF Other, autoVars
  <2>2. ASSUME NEW h \in Hosts, "auto" \notin Edited, InFile(h)' PROVE InFile(h)
    <3>1. disk'["auto"].items # <<>>
      BY <2>2 DEF InFile
    <3> QED
      BY <1>19, <2>2, <3>1, OtherFiles DEF InFile
  <2> QED
    BY <1>1, <2>1, <2>2 DEF AddedInv, AutoKeepsAdded, FileInMemory, InMemory
<1>20. CASE Tick \/ UNCHANGED vars
  <2>1. disk' = disk /\ mem' = mem /\ job' = job /\ added' = added
    BY <1>20 DEF Tick, vars, fileVars, autoVars
  <2> QED
    BY <1>1, <1>3, <2>1 DEF AddedInv
<1> QED
  BY <1>8, <1>9, <1>10, <1>11, <1>12, <1>13, <1>14, <1>15, <1>16, <1>17, <1>18, <1>19, <1>20
     DEF Next, Work

\* Nothing but SIGHUP and an addition makes the signature of memory another than the
\* file's, and an addition makes it the file's again.
LEMMA StaleNext ==
    ASSUME TypesInv, JobInv, JudgedInv, StaleInv, [Next]_vars PROVE StaleInv'
<1>1. SUFFICES ASSUME "auto" \notin Edited PROVE StaleInv'
  BY DEF StaleInv
<1> DEFINE Reads == job.step \in {"open", "read", "sign"} /\ Current = "auto"
           All == \A h \in added : InFile(h)
<1>2. /\ mem \in [Files -> MemFile] /\ disk \in [Files -> DiskFile] /\ "auto" \in Files
      /\ job \in Jobs
  BY DEF TypesInv
<1>3. /\ Stale /\ job.kind # "sign" => All
      /\ Reads => disk["auto"].state = "gone" \/ Stale
  BY <1>1 DEF StaleInv
<1>4. ASSUME disk' = disk, added' \subseteq added, mem'["auto"].sig = mem["auto"].sig,
             \/ job'.kind = job.kind /\ (Reads' => Reads)
             \/ job.kind # "sign" /\ ~Reads'
      PROVE  StaleInv'
  <2>1. Stale' = Stale
    BY <1>4 DEF Stale, Sig
  <2>2. All => All'
    BY <1>4 DEF InFile
  <2> QED
    BY <1>3, <1>4, <2>1, <2>2 DEF StaleInv
<1>5. ASSUME ReadFails PROVE mem'["auto"].sig = mem["auto"].sig
  BY <1>2, <1>5, FailTyped DEF MemFile
<1>6. ASSUME job'.step \in {"stat", "add"} PROVE ~Reads'
  BY <1>6
<1>7. ASSUME job.kind \in {"insert", "append", "sign", "idle"} PROVE ~Reads
  BY <1>7 DEF JobInv
<1>8. CASE Load
  <2>1. /\ disk' = disk /\ added' = added /\ job'.kind = job.kind /\ job.kind # "sign"
        /\ job.todo # <<>>
    BY <1>8, LoadIs DEF fileVars, autoVars, JobInv
  <2>2. PassOn => ~Reads'
    BY <1>2, <1>6 DEF PassOn, Jobs
  <2>3. CASE Stat
    <3>1. mem' = mem
      BY <2>3 DEF Stat
    <3>2. CASE PassOn
      BY <1>4, <2>1, <2>2, <3>1, <3>2
    <3>3. CASE job' = [job EXCEPT !.step = "open", !.sig = Sig(disk[Current])] /\ ~PassOn
      <4>1. Current' = Current
        BY <1>2, <3>3 DEF Current, Jobs
      <4>2. Current = "auto" => Stale
        BY <2>3, <3>3 DEF Stat, Stale
      <4>3. Stale' = Stale /\ (All => All')
        BY <2>1, <3>1 DEF Stale, Sig, InFile
      <4> QED
        BY <1>3, <2>1, <4>1, <4>2, <4>3 DEF StaleInv
    <3> QED
      BY <2>3, <3>2, <3>3 DEF Stat
  <2>4. CASE OpenTest
    <3>1. mem' = mem /\ job.step = "open"
      BY <2>4 DEF OpenTest, Loading, Doing
    <3>2. CASE PassOn
      BY <1>4, <2>1, <2>2, <3>1, <3>2
    <3>3. CASE job' = [job EXCEPT !.step = "read"]
      <4>1. Reads' => Reads
        BY <1>2, <3>1, <3>3 DEF Current, Jobs
      <4> QED
        BY <1>4, <2>1, <3>1, <4>1
    <3> QED
      BY <2>4, <3>2, <3>3 DEF OpenTest
  <2>5. CASE Read
    <3>1. Reads' => Reads
      BY <1>2, <2>5 DEF Read, Loading, Doing, Current, Jobs
    <3>2. mem'["auto"].sig = mem["auto"].sig
      BY <1>2, <2>5 DEF Read, MemFile
    <3> QED
      BY <1>4, <2>1, <3>1, <3>2
  <2>6. CASE Sign
    <3>1. PassOn /\ job.step = "sign" /\ mem' = [mem EXCEPT ![Current].sig = SignatureRead(Current)]
      BY <2>6 DEF Sign, Loading, Doing
    <3>2. CASE Current # "auto"
      <4>1. mem'["auto"] = mem["auto"]
        BY <1>2, <3>1, <3>2
      <4> QED
        BY <1>4, <2>1, <2>2, <3>1, <4>1
    <3>3. CASE Current = "auto"
      <4>1. disk["auto"].state = "gone" \/ All
        BY <1>3, <2>1, <3>1, <3>3
      <4>2. Stale' => All'
        BY <2>1, <4>1 DEF Stale, InFile
      <4> QED
        BY <2>2, <3>1, <4>2 DEF StaleInv
    <3> QED
      BY <3>2, <3>3
  <2>7. CASE Fill
    <3>1. PassOn /\ mem'["auto"].sig = mem["auto"].sig
      BY <1>2, <2>7 DEF Fill, Filled, MemFile
    <3> QED
      BY <1>4, <2>1, <2>2, <3>1
  <2> QED
    BY <1>8, <2>3, <2>4, <2>5, <2>6, <2>7 DEF Load, LoadStep
<1>9. CASE StartDone \/ FindDone \/ FindFails
  <2>1. /\ disk' = disk /\ added' = added /\ job.kind # "sign"
        /\ mem' = mem \/ ReadFails
        /\ job' = Idle \/ job' = For(job.flow, Host, Job("check", Lists))
    BY <1>9 DEF StartDone, FindDone, FindFails, Loaded, fileVars, autoVars
  <2>2. ~Reads'
    BY <1>6, <2>1, JobIs
  <2> QED
    BY <1>4, <1>5, <2>1, <2>2
<1>10. CASE Judge \/ CheckDone \/ CheckFails
  <2>1. \E f, pool, first : Judgement(f, pool, first)
    BY <1>10, JudgeIs
  <2>2. job' = Idle \/ \E f : job' = For(f, flow[f].host, Job("recheck", Lists))
    BY <2>1, DecidedJob
  <2>3. ~Reads'
    BY <1>6, <2>2, JobIs
  <2>4. disk' = disk /\ added' = added /\ job.kind # "sign" /\ (mem' = mem \/ ReadFails)
    BY <1>10, JudgeIs DEF fileVars
  <2> QED
    BY <1>4, <1>5, <2>3, <2>4
<1>11. CASE Connect
  <2>1. PICK g \in Flows, h \in Hosts : job' = For(g, h, Job("find", Lists \o Ipsets))
    BY <1>11 DEF Connect, Open
  <2>2. ~Reads'
    BY <1>6, <2>1, JobIs
  <2>3. disk' = disk /\ added' = added /\ mem' = mem /\ job.kind # "sign"
    BY <1>11 DEF Connect, Open, Ready, fileVars
  <2> QED
    BY <1>4, <2>2, <2>3
<1>12. CASE Hup
  <2>1. ~Reads'
    <3>1. job' = Job("hup", Lists \o Ipsets)
      BY <1>12 DEF Hup
    <3> QED
      BY <1>6, <3>1, JobIs
  <2>2. Stale' => All'
    BY <1>12 DEF Hup, Stale, InFile, fileVars
  <2> QED
    BY <2>1, <2>2 DEF StaleInv
<1>13. CASE RecheckDone \/ RecheckFails \/ InsertAfterFailure
  <2>1. /\ disk' = disk /\ added' = added /\ job.kind # "sign"
        /\ mem' = mem \/ ReadFails \/ mem' = Inserted(mem, Host)
        /\ job' = Idle \/ \E kind : Adding(kind)
    BY <1>13 DEF RecheckDone, RecheckFails, InsertAfterFailure, Loaded, fileVars, autoVars
  <2>2. ~Reads'
    BY <1>2, <1>6, <2>1, JobIs, AddingIs
  <2>3. mem' = Inserted(mem, Host) => mem'["auto"].sig = mem["auto"].sig
    BY <1>2 DEF Inserted, MemFile
  <2> QED
    BY <1>4, <1>5, <2>1, <2>2, <2>3
<1>14. CASE AppendToFile
  <2>1. /\ mem' = mem /\ job.kind = "append"
        /\ \/ job' = Idle /\ disk' = disk /\ added' = added
           \/ Adding("sign")
    BY <1>14 DEF AppendToFile
  <2>2. ~Reads'
    BY <1>2, <1>6, <2>1, JobIs, AddingIs
  <2>3. CASE Adding("sign")
    BY <1>2, <2>2, <2>3, AddingIs DEF StaleInv
  <2> QED
    BY <1>4, <2>1, <2>2, <2>3
<1>15. CASE SignAfter
  <2>1. ~Reads'
    BY <1>6, <1>15, JobIs DEF SignAfter
  <2>2. disk' = disk /\ mem'["auto"].sig = SignatureAdded("auto")
    BY <1>2, <1>15 DEF SignAfter, MemFile, fileVars
  <2>3. ~Stale'
    BY <2>2 DEF Stale, SignatureAdded, Sig
  <2> QED
    BY <2>1, <2>3 DEF StaleInv
<1>16. CASE Other
  <2>1. mem' = mem /\ job' = job /\ added' = added
    BY <1>16 DEF Other, autoVars
  <2>2. PICK f \in Files : Edit(f) \/ Access(f)
    BY <1>16 DEF Other
  <2>3. CASE disk'["auto"] = disk["auto"]
    <3>1. (Stale' = Stale) /\ (All => All') /\ (Reads' = Reads)
      BY <2>1, <2>3 DEF Stale, Sig, InFile, Current
    <3> QED
      BY <1>3, <2>1, <2>3, <3>1 DEF StaleInv
  <2>4. CASE Access(f) /\ f = "auto"
    <3>1. PICK state \in {"ok", "closed", "gone"} :
            disk' = [disk EXCEPT ![f].state = state,
                                 ![f].items = IF state = "gone" THEN <<>> ELSE @]
      BY <2>4 DEF Access
    <3>2. CASE state = "gone"
      <4>1. disk'["auto"].state = "gone"
        BY <1>2, <2>4, <3>1, <3>2 DEF DiskFile
      <4> QED
        BY <4>1 DEF StaleInv, Stale
    <3>3. CASE state # "gone"
      <4>1. /\ disk'["auto"].items = disk["auto"].items
            /\ disk'["auto"].time = disk["auto"].time
        BY <1>2, <2>4, <3>1, <3>3 DEF DiskFile
      <4>2. disk["auto"].state # "gone" /\ disk'["auto"].state # "gone"
        BY <1>2, <2>4, <3>1, <3>3 DEF Access, DiskFile
      <4>3. (Stale' = Stale) /\ (All => All') /\ (Reads' = Reads)
        BY <2>1, <4>1, <4>2 DEF Stale, Sig, InFile, Current
      <4> QED
        BY <1>3, <2>1, <4>2, <4>3 DEF StaleInv
    <3> QED
      BY <3>2, <3>3
  <2>5. disk'["auto"] = disk["auto"] \/ (Access(f) /\ f = "auto")
    BY <1>1, <1>2, <2>2 DEF Edit, Access
  <2> QED
    BY <2>3, <2>4, <2>5
<1>17. CASE LoadFatal \/ Tick \/ UNCHANGED vars
  <2>1. /\ disk' = disk /\ added' = added /\ job' = job
        /\ mem' = mem \/ ReadFails
    BY <1>17 DEF LoadFatal, Tick, vars, fileVars, autoVars
  <2>2. Reads' = Reads
    BY <2>1 DEF Current
  <2> QED
    BY <1>4, <1>5, <2>1, <2>2
<1> QED
  BY <1>8, <1>9, <1>10, <1>11, <1>12, <1>13, <1>14, <1>15, <1>16, <1>17 DEF Next, Work

-----------------------------------------------------------------------------
\* What is in memory, by its signature.

Right(f) == Known(f) /\ (f # "auto" /\ disk[f].state # "gone" => Signed(f))
Reading == {"open", "read", "sign"}

LEMMA NoSigIsNone == ASSUME TypesInv, NEW f \in Files PROVE Sig(disk[f]) # NoSig
<1>1. disk[f] \in DiskFile
  BY DEF TypesInv
<1>2. disk[f].time # 0
  BY <1>1 DEF DiskFile
<1> QED
  BY <1>2 DEF Sig, NoSig

\* A file and its memory as they were; what the program does with it too, unless
\* it does nothing with it any more.
LEMMA StaysRight ==
    ASSUME NEW f, Right(f), disk'[f] = disk[f], seen[f] \subseteq seen'[f],
           mem'[f].sig = mem[f].sig, f # "auto" => mem'[f].items = mem[f].items,
           \/ job'.step = job.step /\ Current' = Current /\ job'.sig = job.sig
           \/ ~At(f, Reading)' /\ ~At(f, {"sign"})
    PROVE  Right(f)'
<1>1. CASE job'.step = job.step /\ Current' = Current /\ job'.sig = job.sig
  BY <1>1 DEF Right, Known, Signed, At, Sig
<1>2. CASE ~At(f, Reading)' /\ ~At(f, {"sign"})
  BY <1>2 DEF Right, Known, Signed, At, Sig, Reading
<1> QED
  BY <1>1, <1>2

\* A file of new content has a signature that nothing else has.
LEMMA WrittenRight ==
    ASSUME TypesInv, NEW f \in Files, Right(f), mem' = mem, job' = job,
           seen[f] \subseteq seen'[f], Sig(disk'[f]) \in seen'[f], Sig(disk'[f]) # NoSig,
           f # "auto" => Sig(disk'[f]) \notin seen[f]
    PROVE  Right(f)'
<1>1. Known(f)'
  BY DEF Right, Known, At, Sig, Current
<1>2. ASSUME f # "auto" PROVE Signed(f)'
  <2>1. Sig(disk[f])' = Sig(disk'[f])
    BY DEF Sig
  <2>2. mem'[f].sig # Sig(disk[f])'
    BY <1>2, <2>1 DEF Right, Known
  <2>3. At(f, {"sign"})' => job'.sig # Sig(disk[f])'
    BY <1>2, <2>1 DEF Right, Known, At, Current
  <2> QED
    BY <2>2, <2>3 DEF Signed
<1> QED
  BY <1>1, <1>2 DEF Right

LEMMA LoadRight ==
    ASSUME TypesInv, JobInv, NEW f \in Files, Right(f), Load PROVE Right(f)'
<1>1. mem \in [Files -> MemFile] /\ mem[f] \in MemFile /\ job \in Jobs
  BY DEF TypesInv
<1>2. UNCHANGED <<disk, seen>> /\ job.todo # <<>>
  BY LoadIs DEF fileVars
<1>3. ASSUME PassOn PROVE ~At(f, Reading)'
  BY <1>1, <1>3 DEF PassOn, At, Reading, Jobs
<1>4. CASE Stat
  <2>1. job.step = "stat" /\ mem' = mem
    BY <1>4 DEF Stat, Loading, Doing
  <2>2. CASE PassOn
    BY <1>2, <1>3, <2>1, <2>2, StaysRight DEF At
  <2>3. CASE job' = [job EXCEPT !.step = "open", !.sig = Sig(disk[Current])]
    <3>1. job'.step = "open" /\ job'.sig = Sig(disk[Current]) /\ Current' = Current
      BY <1>1, <2>3 DEF Jobs, Current
    <3>2. CASE Current # f
      BY <1>2, <2>1, <3>1, <3>2, StaysRight DEF At
    <3>3. CASE Current = f
      <4>1. PassOn \/ (disk[f].state # "gone" /\ mem[f].sig # Sig(disk[f]))
        BY <1>4, <3>3 DEF Stat
      <4>2. CASE disk[f].state # "gone" /\ mem[f].sig # Sig(disk[f])
        <5>1. Known(f)'
          BY <1>2, <2>1, <3>1, <3>3, <4>2 DEF Right, Known, At, Sig
        <5>2. Signed(f)'
          BY <1>2, <2>1, <3>1, <4>2 DEF Signed, At, Sig
        <5> QED
          BY <5>1, <5>2 DEF Right
      <4> QED
        BY <2>2, <4>1, <4>2
    <3> QED
      BY <3>2, <3>3
  <2> QED
    BY <1>4, <2>2, <2>3 DEF Stat
<1>5. CASE OpenTest
  <2>1. job.step = "open" /\ mem' = mem
    BY <1>5 DEF OpenTest, Loading, Doing
  <2>2. CASE PassOn
    BY <1>2, <1>3, <2>1, <2>2, StaysRight DEF At
  <2>3. CASE job' = [job EXCEPT !.step = "read"]
    <3>1. job'.step = "read" /\ job'.sig = job.sig /\ Current' = Current
      BY <1>1, <2>3 DEF Jobs, Current
    <3> QED
      BY <1>2, <2>1, <3>1 DEF Right, Known, Signed, At, Sig
  <2> QED
    BY <1>5, <2>2, <2>3 DEF OpenTest
<1>6. CASE Read
  <2>1. job.step = "read"
    BY <1>6 DEF Read, Loading, Doing
  <2>2. job'.step = "sign" /\ job'.sig = job.sig /\ Current' = Current
    BY <1>1, <1>6 DEF Read, Jobs, Current
  <2>3. CASE Current # f
    <3>1. mem'[f] = mem[f]
      BY <1>1, <1>6, <2>3 DEF Read
    <3> QED
      BY <1>2, <2>1, <2>2, <2>3, <3>1, StaysRight DEF At
  <2>4. CASE Current = f
    <3>1. mem'[f].items = Pool(disk[f].items) /\ mem'[f].sig = mem[f].sig
      BY <1>1, <1>6, <2>4 DEF Read, MemFile
    <3> QED
      BY <1>2, <2>1, <2>2, <2>4, <3>1 DEF Right, Known, Signed, At, Sig
  <2> QED
    BY <2>3, <2>4
<1>7. CASE Sign
  <2>1. job.step = "sign" /\ PassOn
    BY <1>7 DEF Sign, Loading, Doing
  <2>2. ~At(f, Reading)'
    BY <1>3, <2>1
  <2>3. CASE Current # f
    <3>1. mem'[f] = mem[f]
      BY <1>1, <1>7, <2>3 DEF Sign
    <3> QED
      BY <1>2, <2>2, <2>3, <3>1, StaysRight DEF At
  <2>4. CASE Current = f
    <3>1. mem'[f].items = mem[f].items /\ mem'[f].sig = job.sig
      BY <1>1, <1>7, <2>4 DEF Sign, SignatureRead, MemFile
    <3> QED
      BY <1>2, <2>1, <2>2, <2>4, <3>1 DEF Right, Known, Signed, At, Sig, Reading
  <2> QED
    BY <2>3, <2>4
<1>8. CASE Fill
  <2>1. job.step = "stat" /\ PassOn
    BY <1>8 DEF Fill, Doing
  <2>2. mem'[f].sig = mem[f].sig /\ (f # "auto" => mem'[f].items = mem[f].items)
    BY <1>1, <1>8 DEF Fill, Filled, MemFile
  <2> QED
    BY <1>2, <1>3, <2>1, <2>2, StaysRight DEF At
<1> QED
  BY <1>4, <1>5, <1>6, <1>7, <1>8 DEF Load, LoadStep

LEMMA FailRight ==
    ASSUME TypesInv, JobInv, NEW f \in Files, Right(f), ReadFails, UNCHANGED <<disk, seen>>,
           job' = job \/ job'.step \in {"stat", "add"}
    PROVE  Right(f)'
<1>1. mem \in [Files -> MemFile] /\ mem[f] \in MemFile
  BY DEF TypesInv
<1>2. job.step = "read"
  BY DEF ReadFails, Loading, Doing
<1>3. \/ job'.step = job.step /\ Current' = Current /\ job'.sig = job.sig
      \/ ~At(f, Reading)' /\ ~At(f, {"sign"})
  BY <1>2 DEF At, Current, Reading
<1>4. CASE Current # f
  <2>1. mem'[f] = mem[f]
    BY <1>1, <1>4, FailTyped
  <2> QED
    BY <1>3, <2>1, StaysRight
<1>5. CASE Current = f
  <2>1. mem'[f].sig = mem[f].sig
    BY <1>1, <1>5, FailTyped DEF MemFile
  <2>2. At(f, {"open", "read", "sign"})
    BY <1>2, <1>5 DEF At
  <2> QED
    BY <1>2, <1>3, <2>1, <2>2 DEF Right, Known, Signed, At, Sig, Reading
<1> QED
  BY <1>4, <1>5

LEMMA OtherRight ==
    ASSUME TypesInv, NEW f \in Files, Right(f), Distinct, Other PROVE Right(f)'
<1>1. mem' = mem /\ job' = job
  BY DEF Other
<1>2. Current' = Current
  BY <1>1 DEF Current
<1>3. PICK g \in Files : Edit(g) \/ Access(g)
  BY DEF Other
<1>4. disk \in [Files -> DiskFile] /\ seen \in [Files -> SUBSET Sigs]
  BY DEF TypesInv
<1>5. CASE g # f
  <2>1. disk'[f] = disk[f] /\ seen'[f] = seen[f]
    BY <1>3, <1>4, <1>5 DEF Edit, Access
  <2> QED
    BY <1>1, <1>2, <2>1, StaysRight
<1>6. CASE g = f /\ Edit(f)
  <2>1. PICK items \in Contents, state \in {"ok", "broken"} :
          LET d == [Written(f, items) EXCEPT !.state = state] IN
          /\ Sig(d) \notin seen[f]
          /\ disk' = [disk EXCEPT ![f] = d]
          /\ seen' = [seen EXCEPT ![f] = @ \cup {Sig(d)}]
    BY <1>6 DEF Edit
  <2> DEFINE d == [Written(f, items) EXCEPT !.state = state]
  <2>2. Sig(d) # NoSig
    BY DEF Written, Sig, NoSig, TypesInv
  <2> HIDE DEF d
  <2>3. disk'[f] = d /\ seen'[f] = seen[f] \cup {Sig(d)} /\ Sig(d) \notin seen[f]
    BY <1>4, <2>1 DEF d
  <2> QED
    BY <1>1, <2>2, <2>3, WrittenRight
<1>7. CASE g = f /\ Access(f)
  <2>1. PICK state \in {"ok", "closed", "gone"} :
          disk' = [disk EXCEPT ![f].state = state,
                               ![f].items = IF state = "gone" THEN <<>> ELSE @]
    BY <1>7 DEF Access
  <2>2. disk[f].state # "gone" /\ seen' = seen
    BY <1>7 DEF Access
  <2>3. CASE state = "gone"
    <3>1. disk'[f].state = "gone"
      BY <1>4, <2>1, <2>3 DEF DiskFile
    <3> QED
      BY <1>1, <1>2, <2>2, <3>1 DEF Right, Known, At
  <2>4. CASE state # "gone"
    <3>1. disk'[f].items = disk[f].items /\ disk'[f].time = disk[f].time
      BY <1>4, <2>1, <2>4 DEF DiskFile
    <3>2. Sig(disk[f])' = Sig(disk[f])
      BY <3>1 DEF Sig
    <3> QED
      BY <1>1, <1>2, <2>2, <3>1, <3>2 DEF Right, Known, Signed, At
  <2> QED
    BY <2>3, <2>4
<1> QED
  BY <1>3, <1>5, <1>6, <1>7

LEMMA AddRight ==
    ASSUME TypesInv, JobInv, NEW f \in Files, Right(f),
           RecheckDone \/ InsertAfterFailure \/ AppendToFile \/ SignAfter
    PROVE  Right(f)'
<1>1. mem \in [Files -> MemFile] /\ mem[f] \in MemFile /\ job \in Jobs
      /\ disk \in [Files -> DiskFile] /\ seen \in [Files -> SUBSET Sigs]
  BY DEF TypesInv
<1>2. job' = Idle \/ \E kind : Adding(kind)
  BY DEF RecheckDone, InsertAfterFailure, AppendToFile, SignAfter
<1>3. job'.step \in {"stat", "add"}
  BY <1>1, <1>2, JobIs, AddingIs
<1>4. job.kind \in {"insert", "append", "sign"} \/ job.step = "stat"
  BY DEF RecheckDone, InsertAfterFailure, AppendToFile, SignAfter, Loaded
<1>5. job.step # "sign"
  BY <1>4 DEF JobInv
<1>6. ~At(f, Reading)' /\ ~At(f, {"sign"})
  BY <1>3, <1>5 DEF At, Reading
<1>7. CASE RecheckDone \/ InsertAfterFailure
  <2>1. UNCHANGED <<disk, seen>> /\ (mem' = mem \/ mem' = Inserted(mem, Host))
    BY <1>7 DEF RecheckDone, InsertAfterFailure, fileVars
  <2>2. mem'[f].sig = mem[f].sig /\ (f # "auto" => mem'[f].items = mem[f].items)
    BY <1>1, <2>1 DEF Inserted, MemFile
  <2> QED
    BY <1>6, <2>1, <2>2, StaysRight
<1>8. CASE AppendToFile
  <2>1. mem' = mem
    BY <1>8 DEF AppendToFile
  <2>2. \/ UNCHANGED <<disk, seen>>
        \/ \E d : /\ disk' = [disk EXCEPT !["auto"] = d]
                  /\ seen' = [seen EXCEPT !["auto"] = @ \cup {Sig(d)}]
    BY <1>8 DEF AppendToFile
  <2>3. CASE UNCHANGED <<disk, seen>> \/ f # "auto"
    <3>1. disk'[f] = disk[f] /\ seen'[f] = seen[f]
      BY <1>1, <2>2, <2>3
    <3> QED
      BY <1>6, <2>1, <3>1, StaysRight
  <2>4. CASE f = "auto" /\ ~UNCHANGED <<disk, seen>>
    <3>1. Sig(disk'[f]) \in seen'[f] /\ seen[f] \subseteq seen'[f]
      BY <1>1, <2>2, <2>4
    <3>2. Sig(disk[f])' = Sig(disk'[f])
      BY DEF Sig
    <3> QED
      BY <1>6, <2>1, <2>4, <3>1, <3>2 DEF Right, Known, At, Reading
  <2> QED
    BY <2>3, <2>4
<1>9. CASE SignAfter
  <2>1. UNCHANGED <<disk, seen>> /\ mem' = [mem EXCEPT !["auto"].sig = SignatureAdded("auto")]
    BY <1>9 DEF SignAfter, fileVars
  <2>2. CASE f # "auto"
    <3>1. mem'[f] = mem[f]
      BY <1>1, <2>1, <2>2
    <3> QED
      BY <1>6, <2>1, <3>1, StaysRight
  <2>3. CASE f = "auto"
    <3>1. mem'[f].sig = SignatureAdded(f)
      BY <1>1, <2>1, <2>3 DEF MemFile
    <3>2. SignatureAdded(f) \in seen[f] \cup {NoSig}
      BY DEF SignatureAdded, Right, Known
    <3>3. Sig(disk[f])' = Sig(disk[f])
      BY <2>1 DEF Sig
    <3> QED
      BY <1>6, <2>1, <2>3, <3>1, <3>2, <3>3 DEF Right, Known, At, Reading
  <2> QED
    BY <2>2, <2>3
<1> QED
  BY <1>7, <1>8, <1>9

LEMMA SignedNext ==
    ASSUME TypesInv, JobInv, JudgedInv, SignedInv, [Next]_vars PROVE SignedInv'
<1>1. SUFFICES ASSUME Distinct, NEW f \in Files PROVE Right(f)'
  BY DEF SignedInv, Right
<1>2. Right(f)
  BY <1>1 DEF SignedInv, Right
<1>3. CASE Load
  BY <1>2, <1>3, LoadRight
<1>4. CASE FindFails \/ RecheckFails \/ LoadFatal
  <2>1. ReadFails /\ UNCHANGED <<disk, seen>>
        /\ (job' = job \/ job' = Idle \/ Adding("insert"))
    BY <1>4 DEF FindFails, RecheckFails, LoadFatal, fileVars
  <2>2. job' = job \/ job'.step \in {"stat", "add"}
    BY <2>1, JobIs, AddingIs DEF TypesInv
  <2> QED
    BY <1>2, <2>1, <2>2, FailRight
<1>5. CASE RecheckDone \/ InsertAfterFailure \/ AppendToFile \/ SignAfter
  BY <1>2, <1>5, AddRight
<1>6. CASE Other
  BY <1>1, <1>2, <1>6, OtherRight
<1>7. ASSUME UNCHANGED <<disk, seen, mem>>,
             job' = job \/ (job.step # "sign" /\ job'.step = "stat")
      PROVE  Right(f)'
  <2>1. \/ job'.step = job.step /\ Current' = Current /\ job'.sig = job.sig
        \/ ~At(f, Reading)' /\ ~At(f, {"sign"})
    BY <1>7 DEF At, Current, Reading
  <2> QED
    BY <1>2, <1>7, <2>1, StaysRight
<1>8. ASSUME job.kind = "idle" PROVE job.step # "sign"
  BY <1>8 DEF JobInv
<1>9. CASE StartDone \/ FindDone
  <2>1. job.step # "sign" /\ UNCHANGED <<disk, seen, mem>>
        /\ (job' = Idle \/ job' = For(job.flow, Host, Job("check", Lists)))
    BY <1>9 DEF StartDone, FindDone, Loaded, fileVars
  <2> QED
    BY <1>7, <2>1, JobIs
<1>10. CASE Connect
  <2>1. PICK g \in Flows, h \in Hosts : job' = For(g, h, Job("find", Lists \o Ipsets))
    BY <1>10 DEF Connect, Open
  <2>2. job.step # "sign" /\ UNCHANGED <<disk, seen, mem>>
    BY <1>8, <1>10 DEF Connect, Open, Ready, fileVars
  <2> QED
    BY <1>7, <2>1, <2>2, JobIs
<1>11. CASE Judge \/ CheckDone \/ CheckFails
  <2>1. \E g, pool, first : Judgement(g, pool, first)
    BY <1>11, JudgeIs
  <2>2. job' = Idle \/ \E g : job' = For(g, flow[g].host, Job("recheck", Lists))
    BY <2>1, DecidedJob
  <2>3. job'.step = "stat"
    BY <2>2, JobIs
  <2>4. UNCHANGED <<disk, seen>> /\ ((mem' = mem /\ job.step # "sign") \/ ReadFails)
    BY <1>11, JudgeIs DEF fileVars
  <2> QED
    BY <1>2, <1>7, <2>3, <2>4, FailRight
<1>12. CASE Hup
  <2>1. UNCHANGED <<disk, seen>> /\ job' = Job("hup", Lists \o Ipsets)
    BY <1>12 DEF Hup, fileVars
  <2>2. mem'[f].sig = NoSig
    BY <1>12 DEF Hup, TypesInv, MemFile
  <2>3. ~At(f, Reading)'
    BY <2>1, JobIs DEF At, Reading
  <2>4. Sig(disk[f])' # NoSig /\ Sig(disk[f])' = Sig(disk[f])
    BY <2>1, NoSigIsNone DEF Sig
  <2> QED
    BY <1>2, <2>1, <2>2, <2>3, <2>4 DEF Right, Known, Signed, At, Reading
<1>13. CASE Tick \/ UNCHANGED vars
  BY <1>7, <1>13 DEF Tick, vars, fileVars
<1> QED
  BY <1>3, <1>4, <1>5, <1>6, <1>9, <1>10, <1>11, <1>12, <1>13 DEF Next, Work

-----------------------------------------------------------------------------
\* Whose hosts are watched.

LEMMA AutoNext ==
    ASSUME TypesInv, JobInv, JudgedInv, AutoInv, [Next]_vars PROVE AutoInv'
<1> DEFINE Checks(j) == j.kind \in {"check", "recheck"}
<1>1. auto' = auto
  <2>1. CASE Judge \/ CheckDone \/ CheckFails
    BY <2>1, JudgeIs
  <2> QED
    BY <2>1 DEF Next, Work, Load, StartDone, LoadFatal, FindDone, FindFails,
                RecheckDone, RecheckFails, InsertAfterFailure, AppendToFile,
                SignAfter, Connect, Open, Hup, Other, Tick, vars
<1>2. ASSUME flow' = flow, ~Checks(job') \/ job'.kind = job.kind PROVE AutoInv'
  BY <1>1, <1>2 DEF AutoInv
<1>3. CASE Load
  BY <1>2, <1>3, LoadIs DEF autoVars
<1>4. CASE FindDone \/ FindFails
  <2>1. CASE auto
    BY <1>1, <2>1 DEF AutoInv
  <2>2. CASE ~auto
    <3>1. job' = Idle
      BY <1>4, <2>2 DEF FindDone, FindFails
    <3>2. flow' = flow \/ \E state \in {"applied", "skipped"} : flow' = Settled(job.flow, state)
      BY <1>4 DEF FindDone, FindFails, Settle
    <3>3. job.flow \in Flows
      BY <1>4 DEF FindDone, FindFails, Loaded, JobInv
    <3>4. ASSUME NEW f \in Flows PROVE flow'[f].state # "watched"
      <4>1. flow[f].state # "watched"
        BY <2>2 DEF AutoInv
      <4>2. ASSUME NEW state \in {"applied", "skipped"}, flow' = Settled(job.flow, state)
            PROVE  flow'[f].state # "watched"
        <5>1. state \in States /\ state # "watched"
          BY <4>2 DEF States
        <5>2. flow \in [Flows -> Connection]
          BY DEF TypesInv
        <5>3. Settled(job.flow, state)[job.flow].state = state
          BY <3>3, <5>1, <5>2, ConnectionTyped
        <5>4. f # job.flow => Settled(job.flow, state)[f] = flow[f]
          BY <3>3, <5>1, <5>2, ConnectionTyped
        <5> QED
          BY <4>1, <4>2, <5>1, <5>3, <5>4
      <4> QED
        BY <3>2, <4>1, <4>2
    <3> QED
      BY <3>1, <3>4, JobIs DEF AutoInv
  <2> QED
    BY <2>1, <2>2
<1>5. CASE Judge \/ CheckDone \/ CheckFails
  <2>1. PICK f \in Flows : flow[f].state = "watched" \/ job.kind = "check"
    BY <1>5, JudgeIs
  <2> QED
    BY <1>1, <2>1 DEF AutoInv
<1>6. CASE Connect
  <2>1. PICK f \in Flows, h \in Hosts, udp \in BOOLEAN : Open(f, h, udp)
    BY <1>6 DEF Connect
  <2> DEFINE new == [NoFlow EXCEPT !.host = h, !.udp = udp, !.state = "found"]
  <2>2. new.state = "found"
    BY DEF NoFlow
  <2>3. flow' = [flow EXCEPT ![f] = new]
    BY <2>1 DEF Open
  <2> HIDE DEF new
  <2>4. \A g \in Flows : flow'[g].state = "watched" => flow[g].state = "watched"
    BY <2>2, <2>3 DEF TypesInv
  <2>5. ~Checks(job')
    BY <1>6, BeginsIs
  <2> QED
    BY <1>1, <2>4, <2>5 DEF AutoInv
<1>7. CASE RecheckDone \/ RecheckFails \/ InsertAfterFailure \/ AppendToFile \/ SignAfter
  <2>1. flow' = flow
    BY <1>7 DEF RecheckDone, RecheckFails, InsertAfterFailure, AppendToFile, SignAfter, autoVars
  <2>2. job' = Idle \/ \E kind \in {"insert", "append", "sign"} : Adding(kind)
    BY <1>7 DEF RecheckDone, RecheckFails, InsertAfterFailure, AppendToFile, SignAfter
  <2> QED
    BY <1>2, <2>1, <2>2, JobIs, AddingIs DEF TypesInv
<1>8. CASE Hup \/ StartDone
  <2>1. ~Checks(job') /\ flow' = flow
    BY <1>8, BeginsIs DEF Hup, StartDone, autoVars
  <2> QED
    BY <1>2, <2>1
<1> QED
  BY <1>2, <1>3, <1>4, <1>5, <1>6, <1>7, <1>8
     DEF Next, Work, LoadFatal, Other, Tick, vars, autoVars

-----------------------------------------------------------------------------
\* All of it.

LEMMA InitHolds == ASSUME Init PROVE IInv
<1>1. /\ auto \in BOOLEAN /\ now = 1 /\ ended = FALSE
      /\ \E items \in [Files -> UNION {Initial[f] : f \in Files}] :
           /\ \A f \in Files : items[f] \in Initial[f]
           /\ disk = [f \in Files |-> [items |-> items[f], time |-> 1, state |-> "ok"]]
      /\ seen = [f \in Files |-> {Sig(disk[f])}]
      /\ mem = [f \in Files |-> [items |-> {}, sig |-> NoSig, lost |-> FALSE]]
      /\ job = Job("start", Lists \o Ipsets)
      /\ flow = [f \in Flows |-> NoFlow]
      /\ fails = [h \in Hosts |-> NoCounter]
      /\ log = [h \in Hosts |-> <<>>]
      /\ judged = [f \in Flows |-> 0] /\ added = {}
  BY DEF Init, ListsInit
<1>2. disk \in [Files -> DiskFile]
  <2>1. ASSUME NEW f \in Files PROVE disk[f] \in DiskFile
    <3>1. PICK c \in Initial[f] : disk[f] = [items |-> c, time |-> 1, state |-> "ok"]
      BY <1>1
    <3>2. c \in Seq(Item)
      BY ListAssumption
    <3> QED
      BY <3>1, <3>2 DEF DiskFile
  <2> QED
    BY <1>1, <2>1
<1>3. ASSUME NEW f \in Files PROVE Sig(disk[f]) \in Sigs
  BY <1>2, SigTyped
<1>4. seen \in [Files -> SUBSET Sigs]
  BY <1>1, <1>3
<1>5. NoSig \in Sigs /\ Idle \in Jobs
  BY JobsTyped
<1>6. mem \in [Files -> MemFile]
  BY <1>1, <1>5 DEF MemFile
<1>7. job \in Jobs
  BY <1>1, ListsTyped, JobsTyped DEF Kinds
<1>8. flow \in [Flows -> Connection] /\ judged \in [Flows -> 0..1]
      /\ fails \in [Hosts -> [n : Nat, expire : Nat]]
  <2>1. NoFlow \in Connection /\ NoCounter \in [n : Nat, expire : Nat] /\ 0 \in 0..1
    BY DEF NoFlow, NoCounter, Connection, States
  <2> QED
    BY <1>1, <2>1
<1>9. log \in [Hosts -> Seq([time : Nat, first : BOOLEAN])]
  BY <1>1
<1>10. TypesInv
  <2>1. auto \in BOOLEAN /\ ended \in BOOLEAN /\ added \subseteq Hosts
    BY <1>1, Zenon
  <2>2. now \in Nat \ {0}
    BY <1>1
  <2> QED
    BY <1>2, <1>4, <1>6, <1>7, <1>8, <1>9, <2>1, <2>2, Zenon DEF TypesInv
<1>11. job.kind = "start" /\ job.step = "stat"
  BY <1>1, JobIs
<1>12. JobInv
  BY <1>11 DEF JobInv
<1>13. JudgedInv
  BY <1>1, <1>11 DEF JudgedInv, NoFlow
<1>14. CountedInv
  BY <1>1, <1>11 DEF CountedInv, NoCounter
<1>15. AddedInv
  <2>1. disk["auto"].items = <<>>
    BY <1>1, ListAssumption
  <2>2. ~ \E h \in Hosts : InFile(h)
    BY <2>1 DEF InFile
  <2> QED
    BY <1>1, <1>11, <2>2 DEF AddedInv, AutoKeepsAdded, FileInMemory
<1>16. FilledInv
  BY <1>11 DEF FilledInv
<1>17. SignedInv
  <2>1. ASSUME NEW f \in Files PROVE Right(f)
    <3>1. mem[f].sig = NoSig /\ Sig(disk[f]) \in seen[f] /\ Sig(disk[f]) # NoSig
      BY <1>1, <1>10, NoSigIsNone
    <3> QED
      BY <1>11, <3>1 DEF Right, Known, Signed, At
  <2> QED
    BY <2>1 DEF SignedInv, Right
<1>18. AutoInv
  BY <1>1, <1>11 DEF AutoInv, NoFlow
<1>19. StaleInv
  BY <1>1, <1>11 DEF StaleInv
<1> QED
  BY <1>10, <1>12, <1>13, <1>14, <1>15, <1>16, <1>17, <1>18, <1>19 DEF IInv

LEMMA NextHolds == ASSUME IInv, [Next]_vars PROVE IInv'
BY TypesNext, JobNext, AutoNext, JudgedNext, CountedNext, AddedNext, StaleNext, FilledNext,
   SignedNext
   DEF IInv

\* The inductive invariant of the lists and of the automatic list (hostlist.c,
\* desync.c): types, whose job it is, who may still be judged, which failures
\* count, what has been added, and what a signature tells of what is in memory.
THEOREM ListsInvariant == Spec => []IInv
<1>1. Init => IInv
  BY InitHolds
<1>2. IInv /\ [Next]_vars => IInv'
  BY NextHolds
<1> QED
  BY <1>1, <1>2, PTL DEF Spec

\* A host is added only for its last FailThreshold failures, with no success between,
\* and all of them in less than FailTime of the first, but for those that the packet
\* brought by which the host became known (auto_hostlist_failed, process_udp_fail,
\* desync.c 405-482, 590-640).
THEOREM Deserved == Spec => []AddedForCause
<1>1. IInv => AddedForCause
  BY DEF IInv, CountedInv, AddedForCause
<1> QED
  BY <1>1, ListsInvariant, PTL

\* No connection is judged twice (failure_detect_finalized, desync.c 484-640).
THEOREM Judged == Spec => []JudgedOnce
<1>1. IInv => JudgedOnce
  BY DEF IInv, TypesInv, JudgedOnce
<1> QED
  BY <1>1, ListsInvariant, PTL

\* A host that was added to the file stays in memory, though others close the file or
\* take it away and the next addition makes it anew: as long as nobody else writes it,
\* until a SIGHUP finds a file without the host, and unless a read of it that had begun
\* fails (desync.c 449-459, hostlist.c 109-146).
THEOREM StaysAdded == Spec => []AutoKeepsAdded
<1>1. IInv => AutoKeepsAdded
  BY DEF IInv, AddedInv
<1> QED
  BY <1>1, ListsInvariant, PTL

\* The recheck before an addition does what it says when nobody else writes the
\* automatic list and the last read of it did not fail: a host of the file is not added
\* again (desync.c 443-466).
THEOREM Rechecked == Spec => RecheckAvoids
<1> DEFINE Avoids == job.kind = "recheck" /\ job'.kind = "append"
                       /\ "auto" \notin Edited /\ ~mem["auto"].lost => ~InFile(Host)
<1>1. ASSUME IInv, [Next]_vars PROVE [Avoids]_vars
  <2>1. SUFFICES ASSUME Next, job.kind = "recheck", job'.kind = "append",
                        "auto" \notin Edited, ~mem["auto"].lost, InFile(Host)
                 PROVE  FALSE
    BY <1>1
  <2>2. TypesInv /\ JobInv /\ AddedInv
    BY <1>1 DEF IInv
  <2>3. RecheckDone
    <3>1. CASE Load
      BY <2>1, <2>2, <3>1, LoadIs
    <3>2. CASE RecheckFails
      BY <2>1, <2>2, <3>2, AddingIs DEF RecheckFails, TypesInv
    <3>3. CASE Judge \/ CheckDone \/ CheckFails
      BY <1>1, <2>1, <2>2, <3>3, JudgeIs DEF IInv
    <3> QED
      BY <2>1, <3>1, <3>2, <3>3
         DEF Next, Work, StartDone, LoadFatal, FindDone, FindFails,
             InsertAfterFailure, AppendToFile, SignAfter, Connect, Open, Hup, Other, Tick,
             Ready, Loaded
  <2>4. ~(HostlistCheck(Host) \/ Excluded(Host))
    BY <2>1, <2>3, JobIs DEF RecheckDone
  <2>5. "auto" \in Included /\ Host \in Hosts
    BY <1>1, <2>1, <2>2 DEF IInv, AutoInv, Included, JobInv, Host
  <2>6. ~Found("auto", Host)
    BY <2>4, <2>5 DEF HostlistCheck
  <2>7. InMemory(Host)
    BY <2>1, <2>2, <2>5 DEF AddedInv, FileInMemory, InMemory
  <2> QED
    BY <2>6, <2>7 DEF Found, InMemory
<1> QED
  BY <1>1, ListsInvariant, PTL DEF Spec, RecheckAvoids

\* Memory has what the files had, by the signatures, if no file is given a signature
\* it had before; an automatic list is never left empty, which would apply the
\* profile to every host (hostlist.c 109-278).
THEOREM MemoryAsRead ==
    ASSUME Distinct PROVE Spec => []MemoryInv
<1>1. IInv => TypeOK
  <2>1. SUFFICES ASSUME TypesInv PROVE TypeOK
    BY DEF IInv
  <2>2. \A f \in Files : mem[f].items \subseteq Item \cup {Impossible}
    BY <2>1 DEF TypesInv, MemFile
  <2>3. job.todo \in Seq(Files \cup {"fill"})
    BY <2>1 DEF TypesInv, Jobs
  <2>4. \A f \in Flows : flow[f].state \in States
    BY <2>1 DEF TypesInv, Connection
  <2> QED
    BY <2>2, <2>3, <2>4 DEF TypeOK, States
<1>2. IInv => SignatureMeansContent
  BY DEF IInv, SignedInv, Signed, At, SignatureMeansContent
<1>3. IInv => AutoNeverCatchesAll
  <2>1. SUFFICES ASSUME FilledInv, auto, Loaded("check") \/ Loaded("recheck"),
                        HostlistCheck(Host)
                 PROVE  \E f \in Included : Found(f, Host)
    BY DEF IInv, AutoNeverCatchesAll
  <2>2. mem["auto"].items # {}
    BY <2>1 DEF FilledInv, Loaded
  <2>3. "auto" \in Included
    BY <2>1 DEF Included
  <2> QED
    BY <2>1, <2>2, <2>3 DEF HostlistCheck, AllEmpty
<1>4. IInv => MemoryInv
  BY <1>1, <1>2, <1>3 DEF MemoryInv
<1> QED
  BY <1>4, ListsInvariant, PTL

(***************************************************************************)
(* LuaPlan, for all profiles, plans and ranges, every search, and any      *)
(* number of packets, related, delayed and replayed, with conntrack and    *)
(* without.                                                                *)
(***************************************************************************)

\* The inductive invariant

Places == [known : BOOLEAN, n : Nat, s : Nat, over : BOOLEAN]
Tracks == [dp : Profiles \cup {NoProfile}, searched : BOOLEAN, name : Names \cup {NoName},
           found : BOOLEAN, l7 : L7s, l7Found : BOOLEAN, cut : [Dirs -> BOOLEAN]]

PlanTyped ==
    /\ tracked \in BOOLEAN /\ cache \in Names \cup {NoName}
    /\ pos \in [Dirs -> Places]
    /\ track \in Tracks
    /\ held \in Seq([p : Packets, at : [Dirs -> Places]])
    /\ packet \in [dir : Dirs, payload : Payloads, at : Places]
    /\ next \in Nat /\ boss \in Nat /\ taken \in Seq(Nat)
    /\ verdict \in {"none", "pass", "modify", "drop"}
    /\ revealed \in Names \cup {NoName}
    /\ calls \in Seq([inst : Nat, result : Results])

\* Positions are known with conntrack only; those saved with a delayed packet
\* are not ahead of the connection's.
PositionsInv ==
    /\ \A d \in Dirs : pos[d].known = tracked
    /\ held # <<>> => tracked
    /\ \A i \in DOMAIN held, d \in Dirs :
         held[i].at[d].known = tracked /\ held[i].at[d].n <= pos[d].n
    /\ ~Free => packet.at.known = tracked

\* A connection that has been found by name has the profile of the name that was
\* revealed; before the first search nothing is cut off.
TrackInv ==
    /\ ~tracked => track.cut = AllUncut /\ revealed = NoName
    /\ ~track.searched => track.dp = NoProfile /\ track.cut = AllUncut /\ ~track.found
    /\ tracked => (track.found <=> revealed # NoName)
    /\ tracked /\ track.found =>
         /\ track.name = revealed /\ track.l7 = "tls" /\ track.l7Found
         /\ track.dp = Search[revealed, "tls"]

\* Where the loop and the orchestrator stand.
RunInv ==
    /\ Free => next = 0 /\ boss = 0 /\ calls = <<>>
    /\ ~Free /\ track.dp = NoProfile => next = 0 /\ calls = <<>>
    /\ next > 0 => track.dp \in Profiles /\ next \in DOMAIN Instances
    /\ next > 0 /\ boss = 0 => \A c \in DOMAIN calls : calls[c].inst < next
    /\ boss # 0 =>
         /\ boss = next /\ Instances[boss].kind # "plain" /\ Passes(boss)
         /\ \A k \in DOMAIN taken :
              /\ taken[k] \in DOMAIN Instances /\ boss < taken[k]
              /\ \A m \in DOMAIN taken : k < m => taken[k] < taken[m]
              /\ \A c \in DOMAIN calls : calls[c].inst < taken[k]

\* The loop, or the orchestrator that has the plan, has gone past the instance.
GoneBy(i) ==
    next = 0 \/ IF boss = 0 THEN i < next ELSE \A k \in DOMAIN taken : taken[k] # i

\* What has been called, and what has been gone past.
CalledInv ==
    /\ \A j, k \in DOMAIN calls : j < k /\ calls[k].inst # 0 => calls[j].inst < calls[k].inst
    /\ \A c \in DOMAIN calls : calls[c].inst # 0 => Passes(calls[c].inst)
    /\ ~Free /\ track.dp # NoProfile /\ ~track.cut[Dir] /\ ~AnyFailed =>
         \A i \in Due : GoneBy(i) => \E c \in DOMAIN calls : calls[c].inst = i

\* What the verdict is made of.
VerdictInv ==
    ~Free =>
      /\ AnyFailed => next = 0 /\ verdict = "pass"
      /\ ~AnyFailed =>
           /\ \A c \in DOMAIN calls : Rank(calls[c].result) <= Rank(verdict)
           /\ IF calls = <<>> THEN verdict = "pass" ELSE \E c \in DOMAIN calls : calls[c].result = verdict

PlanIInv == PlanTyped /\ PositionsInv /\ TrackInv /\ CutoffSound /\ RunInv /\ CalledInv /\ VerdictInv

-----------------------------------------------------------------------------
\* The operators

LEMMA PacketFields ==
    ASSUME NEW p \in Packets
    PROVE  /\ p.dir \in Dirs /\ p.payload \in Payloads /\ p.name \in Names \cup {NoName}
           /\ p.seq \in Nat /\ p.ack \in Nat /\ p.related \in BOOLEAN
           /\ p.name # NoName => p.payload = "tls"
           /\ p.related => p.payload = "unknown"
<1>1. PICK d \in Dirs :
        /\ p \in [dir : {d}, payload : Payloads, name : Names \cup {NoName},
                  seq : Seqs[d], ack : Acks[d], related : BOOLEAN]
        /\ p.name # NoName => p.payload = "tls" /\ d = "out"
        /\ p.related => p.payload = "unknown"
  BY DEF Packets
<1>2. Seqs[d] \in SUBSET Nat /\ Acks[d] \in SUBSET Nat
  BY LuaPlanAssumption
<1>3. p \in [dir : {d}, payload : Payloads, name : Names \cup {NoName},
             seq : Seqs[d], ack : Acks[d], related : BOOLEAN]
  BY <1>1
<1>4. p.dir = d /\ p.payload \in Payloads
  BY <1>3
<1>5. p.name \in Names \cup {NoName} /\ p.related \in BOOLEAN
  BY <1>3
<1>6. p.seq \in Seqs[d] /\ p.ack \in Acks[d]
  BY <1>3
<1>7. p.seq \in Nat /\ p.ack \in Nat
  BY <1>2, <1>6
<1>8. /\ p.name # NoName => p.payload = "tls"
      /\ p.related => p.payload = "unknown"
  BY <1>1
<1> QED
  BY <1>4, <1>5, <1>7, <1>8

LEMMA PlansTyped ==
    ASSUME NEW dp \in Profiles
    PROVE  /\ Len(Plan[dp]) \in Nat /\ DOMAIN Plan[dp] = 1 .. Len(Plan[dp])
           /\ \A i \in DOMAIN Plan[dp], d \in Dirs : Plan[dp][i].range[d] \in Ranges
<1> DEFINE I == [kind : {"plain", "replay", "choose"}, range : [Dirs -> Ranges], payloads : SUBSET Payloads]
<1>1. Plan[dp] \in Seq(I)
  BY LuaPlanAssumption
<1>2. \A x \in I, d \in Dirs : x.range[d] \in Ranges
  OBVIOUS
<1> HIDE DEF I
<1>3. /\ Len(Plan[dp]) \in Nat /\ DOMAIN Plan[dp] = 1 .. Len(Plan[dp])
      /\ \A i \in 1 .. Len(Plan[dp]) : Plan[dp][i] \in I
  BY <1>1
<1> QED
  BY <1>2, <1>3

LEMMA FedPositions ==
    ASSUME PlanTyped, PositionsInv, NEW p \in Packets
    PROVE  /\ Fed(p) \in [Dirs -> Places]
           /\ \A d \in Dirs : Fed(p)[d].known = tracked /\ pos[d].n <= Fed(p)[d].n
<1>1. \A q \in Places, s \in Nat : /\ Moved(q, s) \in Places /\ Moved(q, s).n = q.n
                                 /\ Moved(q, s).known = q.known
  BY LuaPlanAssumption DEF Moved, Places
<1>2. \A q \in Places : /\ [q EXCEPT !.n = @ + 1] \in Places /\ [q EXCEPT !.n = @ + 1].n = q.n + 1
                       /\ [q EXCEPT !.n = @ + 1].known = q.known
  BY DEF Places
<1>3. \A d \in Dirs : pos[d] \in Places /\ pos[d].known = tracked /\ pos[d].n \in Nat
  BY DEF PlanTyped, PositionsInv, Places
<1>4. CASE ~tracked \/ p.related
  BY <1>3, <1>4 DEF Fed, PlanTyped
<1>5. CASE ~(~tracked \/ p.related)
  <2> DEFINE to(d) == IF d = p.dir THEN Moved([pos[d] EXCEPT !.n = @ + 1], p.seq) ELSE Moved(pos[d], p.ack)
  <2>1. Fed(p) = [d \in Dirs |-> to(d)]
    BY <1>5 DEF Fed
  <2>2. p.seq \in Nat /\ p.ack \in Nat
    BY PacketFields
  <2>3. \A d \in Dirs : to(d) \in Places /\ to(d).known = tracked /\ pos[d].n <= to(d).n
    <3> TAKE d \in Dirs
    <3> DEFINE q == [pos[d] EXCEPT !.n = @ + 1]
    <3>1. q \in Places /\ q.n = pos[d].n + 1 /\ q.known = tracked
      BY <1>2, <1>3
    <3>2. CASE d = p.dir
      <4>1. to(d) = Moved(q, p.seq)
        BY <3>2
      <4> HIDE DEF q, to
      <4>2. Moved(q, p.seq) \in Places /\ Moved(q, p.seq).n = q.n /\ Moved(q, p.seq).known = q.known
        BY <1>1, <2>2, <3>1
      <4> QED
        BY <1>3, <3>1, <4>1, <4>2
    <3>3. CASE d # p.dir
      <4>1. to(d) = Moved(pos[d], p.ack)
        BY <3>3
      <4> HIDE DEF to
      <4>2. /\ Moved(pos[d], p.ack) \in Places /\ Moved(pos[d], p.ack).n = pos[d].n
            /\ Moved(pos[d], p.ack).known = pos[d].known
        BY <1>1, <1>3, <2>2
      <4> QED
        BY <1>3, <4>1, <4>2
    <3> QED
      BY <3>2, <3>3
  <2> QED
    BY <2>1, <2>3
<1> QED
  BY <1>4, <1>5

\* What a packet finds out about its connection.
LEMMA PlayedFacts ==
    ASSUME PlanTyped, TrackInv, NEW p \in Packets
    PROVE  /\ Played(p) \in Tracks /\ Played(p).searched
           /\ ~tracked => Played(p).cut = AllUncut
           /\ tracked /\ track.found => Played(p) = track
           /\ tracked /\ Played(p).found /\ ~track.found => p.name # NoName /\ Played(p).name = p.name
           /\ Played(p).found =>
                Played(p).l7 = "tls" /\ Played(p).l7Found /\ Played(p).dp = Search[Played(p).name, "tls"]
           /\ \A d \in Dirs : Played(p).cut[d] /\ Played(p).dp # NoProfile =>
                tracked /\ track.cut[d] /\ Played(p).dp = track.dp
<1> DEFINE old == IF tracked THEN track ELSE NewTrack
           t == Searched(old, p)
           u == Probed(t, p)
           v == Rediscovered(u, p)
<1>1. NewTrack \in Tracks /\ AllUncut \in [Dirs -> BOOLEAN]
  BY DEF NewTrack, Tracks, AllUncut, L7s
<1>2. /\ old \in Tracks
      /\ ~old.searched => old.dp = NoProfile /\ old.cut = AllUncut /\ ~old.found
      /\ ~tracked => old.cut = AllUncut /\ ~old.found /\ ~old.searched /\ old.dp = NoProfile
      /\ old.found => tracked /\ old.l7 = "tls" /\ old.l7Found /\ old.dp = Search[old.name, "tls"]
  BY <1>1 DEF PlanTyped, TrackInv, NewTrack
<1> HIDE DEF old
<1>3. /\ t \in Tracks /\ t.searched /\ t.cut = old.cut /\ t.found = old.found
      /\ t.l7 = old.l7 /\ t.l7Found = old.l7Found
      /\ (old.searched \/ old.dp # NoProfile) => t = old
      /\ \A d \in Dirs : t.cut[d] => t.dp = old.dp
  <2>1. CASE old.searched
    BY <1>2, <2>1 DEF Searched
  <2>2. CASE ~old.searched
    <3> DEFINE name == IF tracked /\ old.name = NoName /\ p.dir = "out" THEN cache ELSE old.name
    <3>1. t = [old EXCEPT !.name = name, !.dp = Search[name, old.l7], !.searched = TRUE]
      BY <1>2, <2>2 DEF Searched
    <3>2. name \in Names \cup {NoName} /\ Search[name, old.l7] \in Profiles \cup {NoProfile}
      <4>1. name \in Names \cup {NoName} /\ old.l7 \in L7s
        BY <1>2 DEF PlanTyped, Tracks
      <4> QED
        BY <4>1, LuaPlanAssumption
    <3>3. \A d \in Dirs : ~AllUncut[d]
      BY DEF AllUncut
    <3> HIDE DEF name
    <3> QED
      BY <1>2, <2>2, <3>1, <3>2, <3>3 DEF Tracks
  <2> QED
    BY <2>1, <2>2
<1> HIDE DEF t
<1>4. /\ u \in Tracks /\ u.searched /\ u.cut = t.cut /\ u.found = t.found /\ u.dp = t.dp
      /\ u.l7Found = t.l7Found /\ u.name = t.name /\ (t.l7 = "tls" => u = t)
      /\ p.name # NoName => u.l7 = "tls"
  BY <1>3, PacketFields DEF Probed, Tracks, L7s
<1> HIDE DEF u
<1>5. /\ v \in Tracks /\ v.searched
      /\ v.found /\ ~u.found => p.name # NoName /\ v.name = p.name
      /\ v.found /\ ~u.found => v.l7 = "tls" /\ v.l7Found /\ v.dp = Search[v.name, "tls"]
      /\ u.found /\ u.l7Found => v = u
      /\ u.dp # NoProfile => \A d \in Dirs : v.cut[d] /\ v.dp # NoProfile => u.cut[d] /\ v.dp = u.dp
      /\ u.cut = AllUncut => v.cut = AllUncut
  <2> DEFINE name == IF DiscoversName(u, p) THEN p.name ELSE u.name
             dp == Search[name, u.l7]
             w == [u EXCEPT !.l7Found = @ \/ DiscoversL7(u), !.found = @ \/ DiscoversName(u, p),
                            !.name = name, !.dp = dp, !.cut = Uncut(u, dp)]
  <2>1. v = IF DiscoversL7(u) \/ DiscoversName(u, p) THEN w ELSE u
    BY DEF Rediscovered
  <2>2. name \in Names \cup {NoName} /\ dp \in Profiles \cup {NoProfile}
    <3>1. name \in Names \cup {NoName} /\ u.l7 \in L7s
      BY <1>4, PacketFields DEF Tracks
    <3> QED
      BY <3>1, LuaPlanAssumption
  <2>3. /\ Uncut(u, dp) \in [Dirs -> BOOLEAN] /\ (u.cut = AllUncut => Uncut(u, dp) = AllUncut)
        /\ u.dp # NoProfile => \A d \in Dirs : Uncut(u, dp)[d] /\ dp # NoProfile => u.cut[d] /\ dp = u.dp
    BY <1>1, <1>4 DEF Uncut, Tracks, AllUncut
  <2>4. DiscoversName(u, p) => p.name # NoName /\ ~u.found
    BY DEF DiscoversName
  <2>5. DiscoversL7(u) => ~u.l7Found
    BY DEF DiscoversL7
  <2>6. u.l7 = "tls" => u.l7Found \/ DiscoversL7(u)
    BY DEF DiscoversL7
  <2>7. DiscoversL7(u) \in BOOLEAN /\ DiscoversName(u, p) \in BOOLEAN
    BY DEF DiscoversL7, DiscoversName
  <2>a. DiscoversName(u, p) => name = p.name
    OBVIOUS
  <2>b. dp = Search[name, u.l7]
    OBVIOUS
  <2> HIDE DEF name, dp
  <2>8. /\ w \in Tracks /\ w.searched = u.searched /\ w.name = name /\ w.l7 = u.l7 /\ w.dp = dp
        /\ w.cut = Uncut(u, dp) /\ w.found = (u.found \/ DiscoversName(u, p))
        /\ w.l7Found = (u.l7Found \/ DiscoversL7(u))
    BY <1>4, <2>2, <2>3, <2>7 DEF Tracks
  <2> HIDE DEF w
  <2>9. CASE DiscoversL7(u) \/ DiscoversName(u, p)
    <3>1. v = w
      BY <2>1, <2>9
    <3> QED
      BY <1>4, <2>3, <2>4, <2>5, <2>6, <2>8, <2>9, <2>a, <2>b, <3>1
  <2>10. CASE ~(DiscoversL7(u) \/ DiscoversName(u, p))
    BY <1>4, <2>1, <2>10
  <2> QED
    BY <2>9, <2>10
<1> HIDE DEF v
<1>6. Played(p) = IF p.related \/ t.dp = NoProfile THEN t ELSE v
  BY PacketFields DEF Played, old, t, u, v
<1>7. tracked => old = track
  BY DEF old
<1>8. old.found => old.searched
  BY <1>2
<1>9. CASE p.related \/ t.dp = NoProfile
  <2>1. Played(p) = t
    BY <1>6, <1>9
  <2>2. \A d \in Dirs : t.cut[d] => tracked
    BY <1>2, <1>3 DEF AllUncut
  <2> QED
    BY <1>2, <1>3, <1>7, <1>8, <2>1, <2>2
<1>10. CASE ~(p.related \/ t.dp = NoProfile)
  <2>1. Played(p) = v /\ u.dp # NoProfile
    BY <1>4, <1>6, <1>10
  <2>2. ~tracked => v.cut = AllUncut
    BY <1>2, <1>3, <1>4, <1>5
  <2>3. \A d \in Dirs : v.cut[d] /\ v.dp # NoProfile => tracked /\ old.cut[d] /\ v.dp = old.dp
    <3> TAKE d \in Dirs
    <3>1. HAVE v.cut[d] /\ v.dp # NoProfile
    <3>2. u.cut[d] /\ v.dp = u.dp
      BY <1>5, <2>1, <3>1
    <3>3. tracked
      BY <2>2, <3>1 DEF AllUncut
    <3> QED
      BY <1>3, <1>4, <3>2, <3>3
  <2>4. old.found => v = old
    BY <1>2, <1>3, <1>4, <1>5, <1>8
  <2>5. u.found = old.found
    BY <1>3, <1>4
  <2> QED
    BY <1>2, <1>5, <1>7, <2>1, <2>2, <2>3, <2>4, <2>5
<1> QED
  BY <1>9, <1>10

\* A counter that has passed the end of a range stays past it.
LEMMA StaysBeyond ==
    ASSUME NEW q \in Places, NEW r2 \in Places, q.known = r2.known, q.n <= r2.n,
           NEW r \in Ranges, r.to.mode # "s", ~ToOk(q, r)
    PROVE  ~ToOk(r2, r)
<1>1. q.n \in Nat /\ r2.n \in Nat /\ r.to.pos \in Nat
  BY DEF Places, Ranges, Positions
<1>2. ~Overflow(q, r.to.mode) /\ ~Overflow(r2, r.to.mode)
  BY DEF Overflow
<1>3. r.to.mode \notin {"x", "a"} => PosGet(q, r.to.mode) = q.n /\ PosGet(r2, r.to.mode) = r2.n
  BY DEF PosGet, Ranges, Positions
<1>4. CASE r.to.mode = "x"
  BY <1>4 DEF ToOk
<1>5. CASE r.to.mode = "a"
  BY <1>2, <1>5 DEF ToOk
<1>6. CASE r.to.mode \notin {"x", "a"}
  BY <1>1, <1>2, <1>3, <1>6 DEF ToOk
<1> QED
  BY <1>4, <1>5, <1>6

LEMMA CutWhenDoneFacts ==
    ASSUME NEW t \in Tracks, NEW p \in Packets, NEW at
    PROVE  LET c == CutWhenDone(t, p, at) IN
           /\ c \in Tracks /\ c.dp = t.dp /\ c.searched = t.searched /\ c.name = t.name
           /\ c.found = t.found /\ c.l7 = t.l7 /\ c.l7Found = t.l7Found
           /\ ~tracked => c = t
           /\ \A d \in Dirs : t.cut[d] => c.cut[d]
           /\ \A d \in Dirs : c.cut[d] => t.cut[d] \/ (tracked /\ d = p.dir /\ AllDone(t, p, at))
           /\ tracked /\ t.dp # NoProfile /\ Plan[t.dp] # <<>> /\ AllDone(t, p, at) => c.cut[p.dir]
<1> DEFINE c == CutWhenDone(t, p, at)
<1>1. p.dir \in Dirs
  BY PacketFields
<1>2. c = t \/ (c = [t EXCEPT !.cut[p.dir] = TRUE] /\ tracked /\ AllDone(t, p, at))
  BY DEF CutWhenDone
<1>3. c # t => \A d \in Dirs : c.cut[d] <=> (t.cut[d] \/ d = p.dir)
  BY <1>1, <1>2 DEF Tracks
<1>4. /\ c \in Tracks /\ c.dp = t.dp /\ c.searched = t.searched /\ c.name = t.name
      /\ c.found = t.found /\ c.l7 = t.l7 /\ c.l7Found = t.l7Found
  BY <1>1, <1>2 DEF Tracks
<1>5. ~tracked => c = t
  BY DEF CutWhenDone
<1>6. tracked /\ t.dp # NoProfile /\ Plan[t.dp] # <<>> /\ AllDone(t, p, at) => c.cut[p.dir]
  <2>1. SUFFICES ASSUME tracked, t.dp # NoProfile, Plan[t.dp] # <<>>, AllDone(t, p, at)
                 PROVE  c.cut[p.dir]
    OBVIOUS
  <2>2. CASE t.cut[p.dir]
    BY <1>1, <1>2, <2>2 DEF Tracks
  <2>3. CASE ~t.cut[p.dir]
    <3>1. c = [t EXCEPT !.cut[p.dir] = TRUE]
      BY <2>1, <2>3 DEF CutWhenDone
    <3> QED
      BY <1>1, <3>1 DEF Tracks
  <2> QED
    BY <2>2, <2>3
<1> QED
  BY <1>2, <1>3, <1>4, <1>5, <1>6

-----------------------------------------------------------------------------
\* The steps

LEMMA Entering ==
    ASSUME PlanIInv, Free,
           NEW p \in Packets, NEW at \in [Dirs -> Places], Enter(p, at),
           \A d \in Dirs : at[d].known = tracked /\ at[d].n <= pos'[d].n,
           pos' \in [Dirs -> Places],
           \A d \in Dirs : pos'[d].known = tracked /\ pos[d].n <= pos'[d].n,
           held' \in Seq([p : Packets, at : [Dirs -> Places]]),
           held' # <<>> => tracked,
           \A i \in DOMAIN held', d \in Dirs :
             held'[i].at[d].known = tracked /\ held'[i].at[d].n <= pos'[d].n
    PROVE  PlanIInv'
<1> DEFINE t == Played(p)
<1>1. PlanTyped /\ PositionsInv /\ TrackInv /\ CutoffSound /\ RunInv
  BY DEF PlanIInv
<1>2. /\ t \in Tracks /\ t.searched
      /\ ~tracked => t.cut = AllUncut
      /\ tracked /\ track.found => t = track
      /\ tracked /\ t.found /\ ~track.found => p.name # NoName /\ t.name = p.name
      /\ t.found => t.l7 = "tls" /\ t.l7Found /\ t.dp = Search[t.name, "tls"]
      /\ \A d \in Dirs : t.cut[d] /\ t.dp # NoProfile => tracked /\ track.cut[d] /\ t.dp = track.dp
  BY <1>1, PlayedFacts
<1>3. /\ track' = CutWhenDone(t, p, at)
      /\ cache' = IF tracked /\ ~p.related /\ t.found /\ ~track.found THEN t.name ELSE cache
      /\ revealed' = IF revealed = NoName /\ tracked /\ t.found THEN p.name ELSE revealed
      /\ packet' = [dir |-> p.dir, payload |-> p.payload, at |-> at[p.dir]]
      /\ next' = IF Offered(t, p, at) THEN 1 ELSE 0
      /\ verdict' = "pass" /\ calls' = <<>> /\ taken' = <<>> /\ boss' = 0
      /\ tracked' = tracked /\ cutC' = cutC /\ cutShim' = cutShim /\ stopped' = stopped
  BY DEF Enter, luaVars
<1>4. p.dir \in Dirs /\ p.payload \in Payloads /\ p.name \in Names \cup {NoName}
  BY PacketFields
<1> HIDE DEF t
<1>5. /\ track' \in Tracks /\ track'.dp = t.dp /\ track'.searched = t.searched /\ track'.name = t.name
      /\ track'.found = t.found /\ track'.l7 = t.l7 /\ track'.l7Found = t.l7Found
      /\ ~tracked => track' = t
      /\ \A d \in Dirs : t.cut[d] => track'.cut[d]
      /\ \A d \in Dirs : track'.cut[d] => t.cut[d] \/ (tracked /\ d = p.dir /\ AllDone(t, p, at))
      /\ tracked /\ t.dp # NoProfile /\ Plan[t.dp] # <<>> /\ AllDone(t, p, at) => track'.cut[p.dir]
  <2> DEFINE c == CutWhenDone(t, p, at)
  <2>1. track' = c
    BY <1>3
  <2>2. /\ c \in Tracks /\ c.dp = t.dp /\ c.searched = t.searched /\ c.name = t.name
        /\ c.found = t.found /\ c.l7 = t.l7 /\ c.l7Found = t.l7Found
        /\ ~tracked => c = t
        /\ \A d \in Dirs : t.cut[d] => c.cut[d]
        /\ \A d \in Dirs : c.cut[d] => t.cut[d] \/ (tracked /\ d = p.dir /\ AllDone(t, p, at))
        /\ tracked /\ t.dp # NoProfile /\ Plan[t.dp] # <<>> /\ AllDone(t, p, at) => c.cut[p.dir]
    BY <1>2, CutWhenDoneFacts
  <2> QED
    BY <2>1, <2>2
<1>6. t.dp \in Profiles \cup {NoProfile} /\ t.name \in Names \cup {NoName}
  BY <1>2 DEF Tracks
<1>7. PlanTyped'
  <2>1. packet' \in [dir : Dirs, payload : Payloads, at : Places]
    BY <1>3, <1>4
  <2>2. cache' \in Names \cup {NoName} /\ revealed' \in Names \cup {NoName} /\ tracked' \in BOOLEAN
    BY <1>1, <1>3, <1>4, <1>6 DEF PlanTyped
  <2>3. next' \in Nat /\ boss' \in Nat /\ taken' \in Seq(Nat) /\ calls' \in Seq([inst : Nat, result : Results])
    BY <1>3
  <2> QED
    BY <1>3, <1>5, <2>1, <2>2, <2>3 DEF PlanTyped
<1>8. PositionsInv'
  BY <1>3, <1>4 DEF PositionsInv
<1>9. TrackInv'
  <2>1. ~tracked => track'.cut = AllUncut /\ revealed' = NoName
    BY <1>1, <1>2, <1>3, <1>5 DEF TrackInv
  <2>2. tracked => (track'.found <=> revealed' # NoName)
    <3>1. CASE tracked /\ track.found
      BY <1>1, <1>2, <1>3, <1>5, <3>1 DEF TrackInv
    <3>2. CASE tracked /\ ~track.found
      BY <1>1, <1>2, <1>3, <1>5, <3>2 DEF TrackInv
    <3> QED
      BY <3>1, <3>2
  <2>3. tracked /\ t.found => t.name = revealed'
    <3>1. CASE tracked /\ track.found
      BY <1>1, <1>2, <1>3, <3>1 DEF TrackInv
    <3>2. CASE tracked /\ ~track.found
      BY <1>1, <1>2, <1>3, <3>2 DEF TrackInv
    <3> QED
      BY <3>1, <3>2
  <2> QED
    BY <1>2, <1>3, <1>5, <2>1, <2>2, <2>3 DEF TrackInv
<1>10. CutoffSound'
  <2>1. SUFFICES ASSUME NEW d \in Dirs, track'.cut[d], t.dp # NoProfile, <<t.dp, d>> \notin stopped,
                        NEW i \in DOMAIN Plan[t.dp]
                 PROVE  LET r == Plan[t.dp][i].range[d] IN
                        <<t.dp, i, d>> \in cutC \/ r.to.mode = "s" \/ ~ToOk(pos'[d], r)
    BY <1>3, <1>5 DEF CutoffSound
  <2> DEFINE r == Plan[t.dp][i].range[d]
  <2>2. r \in Ranges
    BY <1>6, <2>1, PlansTyped
  <2> HIDE DEF r
  <2>3. pos[d] \in Places /\ pos'[d] \in Places /\ at[d] \in Places
    BY <1>1 DEF PlanTyped
  <2>4. pos[d].known = tracked
    BY <1>1 DEF PositionsInv
  <2>5. CASE t.cut[d]
    <3>1. <<t.dp, i, d>> \in cutC \/ r.to.mode = "s" \/ ~ToOk(pos[d], r)
      BY <1>1, <1>2, <2>1, <2>5 DEF CutoffSound, r
    <3>2. r.to.mode # "s" /\ ~ToOk(pos[d], r) => ~ToOk(pos'[d], r)
      BY <2>2, <2>3, <2>4, StaysBeyond
    <3> QED
      BY <3>1, <3>2 DEF r
  <2>6. CASE tracked /\ d = p.dir /\ AllDone(t, p, at)
    <3>1. CutOff(t, i, d) \/ Beyond(at[d], r)
      BY <2>1, <2>6 DEF AllDone, r
    <3>2. CutOff(t, i, d) => <<t.dp, i, d>> \in cutC
      BY DEF CutOff
    <3>3. Beyond(at[d], r) => ~ToOk(at[d], r)
      BY <2>6 DEF Beyond
    <3>4. r.to.mode # "s" /\ ~ToOk(at[d], r) => ~ToOk(pos'[d], r)
      BY <2>2, <2>3, StaysBeyond
    <3> QED
      BY <3>1, <3>2, <3>3, <3>4 DEF r
  <2> QED
    BY <1>5, <2>1, <2>5, <2>6
<1>11. RunInv'
  <2>1. Offered(t, p, at) => t.dp # NoProfile /\ Plan[t.dp] # <<>>
    BY DEF Offered
  <2>2. t.dp \in Profiles /\ Plan[t.dp] # <<>> => 1 \in DOMAIN Plan[t.dp]
    BY LuaPlanAssumption
  <2>3. next' > 0 => Offered(t, p, at) /\ next' = 1
    BY <1>3
  <2> QED
    BY <1>3, <1>5, <1>6, <2>1, <2>2, <2>3 DEF RunInv, Free, Instances
<1>12. CalledInv'
  <2>1. DOMAIN calls' = {}
    BY <1>3
  <2>2. ASSUME t.dp # NoProfile, ~track'.cut[p.dir], NEW i \in DOMAIN Plan[t.dp], ~(next' > 0),
               Passes(i)'
        PROVE  FALSE
    <3>1. ~Offered(t, p, at)
      BY <1>3, <2>2
    <3>2. /\ InRange(at[p.dir], Plan[t.dp][i].range[p.dir])
          /\ p.payload \in Plan[t.dp][i].payloads
      BY <1>3, <1>5, <2>2 DEF Passes, Filter, Instances, Dir
    <3>3. Wants(t, i, p)
      BY <3>2 DEF Wants
    <3>4. Plan[t.dp] # <<>>
      BY <2>2
    <3>5. AllDone(t, p, at)
      BY <1>4, <1>5, <2>2, <3>1, <3>3, <3>4 DEF Offered
    <3>6. ~tracked
      BY <1>5, <2>2, <3>4, <3>5
    <3>7. Beyond(at[p.dir], Plan[t.dp][i].range[p.dir])
      BY <3>5, <3>6 DEF AllDone, CutOff
    <3> QED
      BY <3>2, <3>7 DEF Beyond, InRange
  <2>3. t.dp # NoProfile => \A i \in Expected' : i \in DOMAIN Plan[t.dp] /\ Passes(i)' /\ i >= 1
    <3>1. t.dp # NoProfile => DOMAIN Plan[t.dp] = 1 .. Len(Plan[t.dp]) /\ Len(Plan[t.dp]) \in Nat
      BY <1>6, PlansTyped
    <3>2. \A i \in Expected' : i \in DOMAIN Plan[t.dp] /\ Passes(i)'
      BY <1>5 DEF Expected, Instances
    <3> QED
      BY <3>1, <3>2
  <2>4. next' > 0 => next' = 1
    BY <1>3
  <2>5. ASSUME t.dp # NoProfile, ~track'.cut[p.dir], NEW i \in Due', GoneBy(i)'
        PROVE  FALSE
    <3>a. i \in Expected'
      BY DEF Due
    <3>b. next' = 0 \/ i < next'
      BY <1>3, <2>5 DEF GoneBy
    <3>1. i \in DOMAIN Plan[t.dp] /\ Passes(i)' /\ i >= 1
      BY <2>3, <2>5, <3>a
    <3>2. i \in Nat
      BY <1>6, <2>5, <3>1, PlansTyped
    <3>3. next' \in {0, 1}
      BY <1>3
    <3>4. ~(next' > 0)
      BY <3>1, <3>2, <3>3, <3>b
    <3> QED
      BY <2>2, <2>5, <3>1, <3>4
  <2> QED
    <3>1. track'.dp = t.dp /\ packet'.dir = p.dir
      BY <1>3, <1>5
    <3> QED
      BY <2>1, <2>5, <3>1 DEF CalledInv, Dir
<1>13. VerdictInv'
  BY <1>3 DEF VerdictInv, AnyFailed
<1> QED
  BY <1>7, <1>8, <1>9, <1>10, <1>11, <1>12, <1>13 DEF PlanIInv

LEMMA Receiving ==
    ASSUME PlanIInv, NEW p \in Packets, Receive(p)
    PROVE  PlanIInv'
<1>1. PlanTyped /\ PositionsInv
  BY DEF PlanIInv
<1>2. /\ Fed(p) \in [Dirs -> Places]
      /\ \A d \in Dirs : Fed(p)[d].known = tracked /\ pos[d].n <= Fed(p)[d].n
  BY <1>1, FedPositions
<1>3. Free /\ Enter(p, Fed(p)) /\ pos' = Fed(p) /\ held' = held
  BY DEF Receive
<1>4. \A d \in Dirs : Fed(p)[d].n \in Nat /\ pos[d].n \in Nat
  BY <1>1, <1>2 DEF PlanTyped, Places
<1>5. \A d \in Dirs : Fed(p)[d].n <= Fed(p)[d].n
  BY <1>4
<1>6. held \in Seq([p : Packets, at : [Dirs -> Places]])
  BY <1>1 DEF PlanTyped
<1>7. ASSUME NEW i \in DOMAIN held, NEW d \in Dirs
      PROVE  held[i].at[d].known = tracked /\ held[i].at[d].n <= Fed(p)[d].n
  <2>1. held[i] \in [p : Packets, at : [Dirs -> Places]]
    <3> DEFINE H == [p : Packets, at : [Dirs -> Places]]
    <3>1. held \in Seq(H)
      BY <1>6
    <3> HIDE DEF H
    <3>2. held[i] \in H
      BY <3>1
    <3> QED
      BY <3>2 DEF H
  <2>2. held[i].at[d] \in Places
    BY <2>1
  <2>3. held[i].at[d].n \in Nat
    BY <2>2 DEF Places
  <2>4. held[i].at[d].known = tracked /\ held[i].at[d].n <= pos[d].n
    BY <1>1 DEF PositionsInv
  <2> QED
    BY <1>2, <1>4, <2>3, <2>4
<1>8. held # <<>> => tracked
  BY <1>1 DEF PositionsInv
<1> QED
  BY <1>2, <1>3, <1>5, <1>6, <1>7, <1>8, Entering

LEMMA Replaying ==
    ASSUME PlanIInv, Replay
    PROVE  PlanIInv'
<1> DEFINE H == [p : Packets, at : [Dirs -> Places]]
           h == Head(held)
<1>1. PlanTyped /\ PositionsInv
  BY DEF PlanIInv
<1>2. Free /\ held # <<>> /\ held' = Tail(held) /\ Enter(h.p, h.at) /\ pos' = pos
  BY DEF Replay
<1>3. held \in Seq(H)
  BY <1>1 DEF PlanTyped
<1>4. h \in H /\ held[1] = h /\ 1 \in DOMAIN held
  <2> HIDE DEF H
  <2> QED
    BY <1>2, <1>3
<1>5. Tail(held) \in Seq(H) /\ \A i \in DOMAIN Tail(held) : i + 1 \in DOMAIN held /\ Tail(held)[i] = held[i + 1]
  <2> HIDE DEF H
  <2> QED
    BY <1>2, <1>3
<1>6. h.p \in Packets /\ h.at \in [Dirs -> Places]
  BY <1>4
<1>7. \A d \in Dirs : h.at[d].known = tracked /\ h.at[d].n <= pos[d].n
  BY <1>1, <1>4 DEF PositionsInv
<1>8. \A i \in DOMAIN held', d \in Dirs : held'[i].at[d].known = tracked /\ held'[i].at[d].n <= pos[d].n
  BY <1>1, <1>2, <1>5 DEF PositionsInv
<1>9. \A d \in Dirs : pos[d].known = tracked /\ pos[d].n <= pos[d].n
  BY <1>1 DEF PlanTyped, PositionsInv, Places
<1>10. tracked
  BY <1>1, <1>2 DEF PositionsInv
<1>11. pos \in [Dirs -> Places]
  BY <1>1 DEF PlanTyped
<1> HIDE DEF h
<1> QED
  BY <1>2, <1>5, <1>6, <1>7, <1>8, <1>9, <1>10, <1>11, Entering

\* Between packets nothing is called, and nothing has been.
LEMMA Resting ==
    ASSUME RunInv', Free'
    PROVE  CalledInv' /\ VerdictInv'
  BY DEF RunInv, CalledInv, VerdictInv, Free

LEMMA Holding ==
    ASSUME PlanIInv, NEW p \in Packets, Hold(p)
    PROVE  PlanIInv'
<1> DEFINE t == Searched(track, p)
           H == [p : Packets, at : [Dirs -> Places]]
<1>1. PlanTyped /\ PositionsInv /\ TrackInv /\ CutoffSound /\ RunInv
  BY DEF PlanIInv
<1>2. /\ Free /\ tracked /\ p.payload = "tls" /\ t.dp # NoProfile
      /\ pos' = Fed(p) /\ track' = Probed(t, p) /\ held' = Append(held, [p |-> p, at |-> Fed(p)])
      /\ UNCHANGED <<tracked, cache, cutC, cutShim, stopped, packet, next, taken, boss, verdict, calls, revealed>>
  BY DEF Hold, luaVars, planVars
<1>3. /\ Fed(p) \in [Dirs -> Places]
      /\ \A d \in Dirs : Fed(p)[d].known = tracked /\ pos[d].n <= Fed(p)[d].n
  BY <1>1, FedPositions
<1>4. /\ t \in Tracks /\ t.cut = track.cut /\ t.found = track.found /\ t.l7Found = track.l7Found /\ t.l7 = track.l7
      /\ track.searched => t = track
      /\ t.searched \/ t = track
      /\ \A d \in Dirs : t.cut[d] => t = track
  <2>1. CASE t = track
    BY <1>1, <2>1 DEF PlanTyped
  <2>2. CASE t # track
    <3> DEFINE name == IF tracked /\ track.name = NoName /\ p.dir = "out" THEN cache ELSE track.name
    <3>1. t = [track EXCEPT !.name = name, !.dp = Search[name, track.l7], !.searched = TRUE] /\ ~track.searched
      BY <2>2 DEF Searched
    <3>2. name \in Names \cup {NoName} /\ Search[name, track.l7] \in Profiles \cup {NoProfile}
      <4>1. name \in Names \cup {NoName} /\ track.l7 \in L7s
        BY <1>1 DEF PlanTyped, Tracks
      <4> QED
        BY <4>1, LuaPlanAssumption
    <3>3. track.cut = AllUncut
      BY <1>1, <3>1 DEF TrackInv
    <3> HIDE DEF name
    <3> QED
      BY <1>1, <3>1, <3>2, <3>3 DEF PlanTyped, Tracks, AllUncut
  <2> QED
    BY <2>1, <2>2
<1> HIDE DEF t
<1>5. /\ track' \in Tracks /\ track'.cut = t.cut /\ track'.found = t.found /\ track'.dp = t.dp
      /\ track'.searched = t.searched /\ track'.name = t.name /\ track'.l7Found = t.l7Found /\ track'.l7 = "tls"
  BY <1>2, <1>4 DEF Probed, Tracks, L7s
<1>6. PlanTyped'
  <2>1. held' \in Seq(H)
    <3>1. held \in Seq(H) /\ [p |-> p, at |-> Fed(p)] \in H
      BY <1>1, <1>3 DEF PlanTyped
    <3> HIDE DEF H
    <3> QED
      BY <1>2, <3>1
  <2> QED
    BY <1>1, <1>2, <1>3, <1>5, <2>1 DEF PlanTyped
<1>7. PositionsInv'
  <2>1. ASSUME NEW i \in DOMAIN held', NEW d \in Dirs
        PROVE  held'[i].at[d].known = tracked /\ held'[i].at[d].n <= Fed(p)[d].n
    <3>1. held \in Seq(H) /\ pos[d].n \in Nat /\ Fed(p)[d].n \in Nat
      BY <1>1, <1>3 DEF PlanTyped, Places
    <3>2. (i \in DOMAIN held /\ held'[i] = held[i]) \/ held'[i] = [p |-> p, at |-> Fed(p)]
      <4> HIDE DEF H
      <4> QED
        BY <1>2, <2>1, <3>1
    <3>3. CASE i \in DOMAIN held /\ held'[i] = held[i]
      <4>1. held[i] \in H
        <5> HIDE DEF H
        <5> QED
          BY <3>1, <3>3
      <4>2. held[i].at[d] \in Places
        BY <4>1
      <4>3. held[i].at[d].n \in Nat
        BY <4>2 DEF Places
      <4>4. held[i].at[d].known = tracked /\ held[i].at[d].n <= pos[d].n
        BY <1>1, <3>3 DEF PositionsInv
      <4> QED
        BY <1>3, <3>1, <3>3, <4>3, <4>4
    <3>4. CASE held'[i] = [p |-> p, at |-> Fed(p)]
      BY <1>3, <3>1, <3>4
    <3> QED
      BY <3>2, <3>3, <3>4
  <2>2. \A d \in Dirs : pos'[d].known = tracked'
    BY <1>2, <1>3
  <2>3. ~Free'
        => FALSE
    BY <1>2 DEF Free
  <2> QED
    BY <1>2, <2>1, <2>2, <2>3 DEF PositionsInv
<1>8. TrackInv'
  <2>1. track.found => t = track /\ track.searched
    BY <1>1, <1>4 DEF TrackInv
  <2>2. t.searched
    BY <1>1, <1>2, <1>4 DEF TrackInv
  <2> QED
    BY <1>1, <1>2, <1>4, <1>5, <2>1, <2>2 DEF TrackInv
<1>9. CutoffSound'
  <2>1. SUFFICES ASSUME NEW d \in Dirs, t.cut[d], t.dp # NoProfile, <<t.dp, d>> \notin stopped,
                        NEW i \in DOMAIN Plan[t.dp]
                 PROVE  LET r == Plan[t.dp][i].range[d] IN
                        <<t.dp, i, d>> \in cutC \/ r.to.mode = "s" \/ ~ToOk(Fed(p)[d], r)
    BY <1>2, <1>5 DEF CutoffSound
  <2> DEFINE r == Plan[t.dp][i].range[d]
  <2>2. t = track
    BY <1>4, <2>1
  <2>3. r \in Ranges
    <3>1. t.dp \in Profiles
      BY <1>4, <2>1 DEF Tracks
    <3> QED
      BY <2>1, <3>1, PlansTyped
  <2>4. <<t.dp, i, d>> \in cutC \/ r.to.mode = "s" \/ ~ToOk(pos[d], r)
    BY <1>1, <2>1, <2>2 DEF CutoffSound
  <2> HIDE DEF r
  <2>5. pos[d] \in Places /\ Fed(p)[d] \in Places /\ pos[d].known = tracked
    BY <1>1, <1>3 DEF PlanTyped, PositionsInv
  <2>6. r.to.mode # "s" /\ ~ToOk(pos[d], r) => ~ToOk(Fed(p)[d], r)
    BY <1>3, <2>3, <2>5, StaysBeyond
  <2> QED
    BY <2>4, <2>6 DEF r
<1>10. RunInv' /\ Free'
  BY <1>1, <1>2 DEF RunInv, Free
<1> QED
  BY <1>6, <1>7, <1>8, <1>9, <1>10, Resting DEF PlanIInv

LEMMA Delivering ==
    ASSUME PlanIInv, Deliver
    PROVE  PlanIInv'
<1>1. PlanTyped /\ PositionsInv /\ TrackInv /\ CutoffSound /\ RunInv
  BY DEF PlanIInv
<1>2. /\ packet' = NoPacket /\ verdict' = "none" /\ calls' = <<>> /\ taken' = <<>> /\ next = 0
      /\ track' = IF tracked THEN track ELSE NewTrack
      /\ UNCHANGED <<tracked, cache, pos, held, cutC, cutShim, stopped, next, boss, revealed>>
  BY DEF Deliver, luaVars, Decided
<1>3. NewTrack \in Tracks /\ NoPacket \in [dir : Dirs, payload : Payloads, at : Places]
  BY DEF NewTrack, Tracks, AllUncut, L7s, NoPacket, NoPos, Places, Dirs, Payloads
<1>4. PlanTyped'
  BY <1>1, <1>2, <1>3 DEF PlanTyped
<1>5. PositionsInv'
  BY <1>1, <1>2 DEF PositionsInv, Free
<1>6. TrackInv'
  BY <1>1, <1>2 DEF TrackInv, NewTrack
<1>7. CutoffSound'
  BY <1>1, <1>2 DEF CutoffSound, NewTrack, AllUncut
<1>8. RunInv' /\ Free'
  BY <1>1, <1>2 DEF RunInv, Free
<1> QED
  BY <1>4, <1>5, <1>6, <1>7, <1>8, Resting DEF PlanIInv

LEMMA CacheChanging ==
    ASSUME PlanIInv, NEW n \in Names \cup {NoName}, CacheChanges(n)
    PROVE  PlanIInv'
<1>1. PlanTyped /\ PositionsInv /\ TrackInv /\ CutoffSound /\ RunInv
  BY DEF PlanIInv
<1>2. /\ Free /\ cache' = n
      /\ UNCHANGED <<tracked, pos, track, held, cutC, cutShim, stopped,
                     packet, next, taken, boss, verdict, calls, revealed>>
  BY DEF CacheChanges, luaVars, planVars
<1>3. PlanTyped' /\ PositionsInv'
  BY <1>1, <1>2 DEF PlanTyped, PositionsInv, Free
<1>4. TrackInv' /\ CutoffSound'
  BY <1>1, <1>2 DEF TrackInv, CutoffSound
<1>5. RunInv' /\ Free'
  BY <1>1, <1>2 DEF RunInv, Free
<1> QED
  BY <1>3, <1>4, <1>5, Resting DEF PlanIInv

\* A packet is being handled, by an instance or an orchestrator.
LEMMA Running ==
    ASSUME PlanIInv, next > 0
    PROVE  /\ ~Free /\ track.dp \in Profiles /\ next \in DOMAIN Instances /\ ~AnyFailed
           /\ DOMAIN Instances = 1 .. Len(Instances) /\ Len(Instances) \in Nat /\ next \in Nat
           /\ Dir \in Dirs /\ track.dp # NoProfile
<1>1. PlanTyped /\ RunInv /\ VerdictInv
  BY DEF PlanIInv
<1>2. next \in Nat
  BY <1>1 DEF PlanTyped
<1>3. ~Free /\ track.dp \in Profiles /\ next \in DOMAIN Instances
  BY <1>1, <1>2 DEF RunInv
<1>4. ~AnyFailed
  BY <1>1, <1>2, <1>3 DEF VerdictInv
<1>5. DOMAIN Instances = 1 .. Len(Instances) /\ Len(Instances) \in Nat
  BY <1>3, PlansTyped DEF Instances
<1>6. Dir \in Dirs
  BY <1>1 DEF PlanTyped, Dir
<1> QED
  BY <1>2, <1>3, <1>4, <1>5, <1>6, LuaPlanAssumption

\* Steps that call nothing.
LEMMA Quietly ==
    ASSUME PlanIInv, next > 0,
           UNCHANGED <<tracked, connVars, luaVars, packet, verdict, calls, revealed>>,
           next' \in Nat, boss' \in Nat, taken' \in Seq(Nat), RunInv',
           ~track.cut[Dir] =>
             \A i \in Due : GoneBy(i)' => \E c \in DOMAIN calls : calls[c].inst = i
    PROVE  PlanIInv'
<1>1. PlanTyped /\ PositionsInv /\ TrackInv /\ CutoffSound /\ RunInv /\ CalledInv /\ VerdictInv
  BY DEF PlanIInv
<1>2. UNCHANGED <<tracked, cache, pos, track, held, cutC, cutShim, stopped, packet, verdict, calls, revealed>>
  BY DEF connVars, luaVars
<1>3. ~AnyFailed /\ ~Free
  BY Running
<1>4. PlanTyped' /\ PositionsInv'
  BY <1>1, <1>2 DEF PlanTyped, PositionsInv, Free
<1>5. TrackInv' /\ CutoffSound'
  <2>1. TrackInv'
    <3>a. tracked' = tracked
      BY <1>2
    <3>1. (tracked' <=> tracked) /\ track' = track /\ revealed' = revealed
      BY <1>2, <3>a
    <3> QED
      BY <1>1, <3>1 DEF TrackInv
  <2>2. CutoffSound'
    BY <1>1, <1>2 DEF CutoffSound
  <2> QED
    BY <2>1, <2>2
<1>6. Instances' = Instances /\ Dir' = Dir /\ AnyFailed' = AnyFailed
  BY <1>2 DEF Instances, Dir, AnyFailed
<1>7. \A i : Passes(i)' = Passes(i)
  BY <1>2, <1>6 DEF Passes, Filter
<1>8. Due' = Due
  BY <1>2, <1>6, <1>7 DEF Due, Expected, MayBeLeftOut, asked
<1>9. CalledInv'
  BY <1>1, <1>2, <1>6, <1>7, <1>8 DEF CalledInv
<1>10. VerdictInv'
  BY <1>1, <1>2, <1>3, <1>6 DEF VerdictInv, Free
<1> QED
  BY <1>4, <1>5, <1>9, <1>10 DEF PlanIInv

LEMMA CallsTyped ==
    ASSUME PlanTyped
    PROVE  /\ \A c \in DOMAIN calls : calls[c].inst \in Nat /\ calls[c].result \in Results
           /\ DOMAIN calls = 1 .. Len(calls) /\ Len(calls) \in Nat
<1> DEFINE C == [inst : Nat, result : Results]
<1>1. calls \in Seq(C)
  BY DEF PlanTyped
<1>2. \A x \in C : x.inst \in Nat /\ x.result \in Results
  OBVIOUS
<1> HIDE DEF C
<1> QED
  BY <1>1, <1>2

LEMMA Skipping ==
    ASSUME PlanIInv, Skip
    PROVE  PlanIInv'
<1>1. PlanTyped /\ RunInv /\ CalledInv
  BY DEF PlanIInv
<1>2. /\ next > 0 /\ boss = 0 /\ (CutOff(track, next, Dir) \/ ~Passes(next)) /\ next' = After(next)
      /\ UNCHANGED <<tracked, connVars, luaVars, packet, verdict, calls, revealed>>
      /\ boss' = boss /\ taken' = taken
  BY DEF Skip
<1>3. UNCHANGED <<track, calls, verdict>>
  BY <1>2 DEF connVars
<1>4. /\ ~Free /\ track.dp \in Profiles /\ next \in DOMAIN Instances /\ ~AnyFailed
      /\ DOMAIN Instances = 1 .. Len(Instances) /\ Len(Instances) \in Nat /\ next \in Nat
      /\ track.dp # NoProfile
  BY <1>2, Running
<1>5. \/ After(next) = 0 /\ next = Len(Instances)
      \/ After(next) = next + 1 /\ next + 1 \in DOMAIN Instances
  BY <1>4 DEF After
<1>6. boss' \in Nat /\ taken' \in Seq(Nat)
  BY <1>1, <1>2 DEF PlanTyped
<1>7. \A c \in DOMAIN calls : calls[c].inst < next /\ calls[c].inst \in Nat
  BY <1>1, <1>2, CallsTyped DEF RunInv
<1>8. RunInv'
  BY <1>2, <1>3, <1>4, <1>5, <1>7 DEF RunInv, Instances, Free
<1>9. next \notin Expected
  BY <1>2 DEF Expected, asked, CutOff
<1>10. ASSUME ~track.cut[Dir], NEW i \in Due, GoneBy(i)'
       PROVE  \E c \in DOMAIN calls : calls[c].inst = i
  <2>1. i \in DOMAIN Instances /\ i \in Expected
    BY DEF Due, Expected
  <2>2. next' = 0 \/ i < next'
    BY <1>2, <1>10 DEF GoneBy
  <2>3. i < next
    BY <1>2, <1>4, <1>5, <1>9, <2>1, <2>2
  <2>4. GoneBy(i)
    BY <1>2, <2>3 DEF GoneBy
  <2> QED
    BY <1>1, <1>4, <1>10, <2>4 DEF CalledInv
<1> QED
  BY <1>2, <1>4, <1>5, <1>6, <1>8, <1>10, Quietly

\* Who has the plan is where the loop stands.
LEMMA Led ==
    ASSUME PlanIInv, boss # 0
    PROVE  next > 0 /\ boss = next /\ Passes(boss)
<1>1. PlanTyped /\ RunInv
  BY DEF PlanIInv
<1> QED
  BY <1>1 DEF PlanTyped, RunInv

LEMMA TakingOver ==
    ASSUME PlanIInv, TakeOver
    PROVE  PlanIInv'
<1>1. PlanTyped /\ RunInv /\ CalledInv
  BY DEF PlanIInv
<1>2. /\ next > 0 /\ boss = 0 /\ Instances[next].kind # "plain" /\ Passes(next)
      /\ boss' = next /\ taken' = [k \in 1..(Len(Instances) - next) |-> next + k]
      /\ UNCHANGED <<tracked, connVars, luaVars, packet, verdict, calls, revealed>>
      /\ next' = next
  BY DEF TakeOver
<1>3. UNCHANGED <<track, calls, verdict>>
  BY <1>2 DEF connVars
<1>4. /\ ~Free /\ track.dp \in Profiles /\ next \in DOMAIN Instances
      /\ DOMAIN Instances = 1 .. Len(Instances) /\ Len(Instances) \in Nat /\ next \in Nat
      /\ track.dp # NoProfile
  BY <1>2, Running
<1>5. /\ taken' \in Seq(Nat) /\ DOMAIN taken' = 1 .. (Len(Instances) - next)
      /\ \A k \in DOMAIN taken' : taken'[k] = next + k /\ taken'[k] \in DOMAIN Instances
  <2>1. Len(Instances) - next \in Nat
    BY <1>4
  <2>2. \A k \in 1 .. (Len(Instances) - next) : next + k \in 1 .. Len(Instances) /\ next + k \in Nat
    BY <1>4
  <2>3. taken' \in [1 .. (Len(Instances) - next) -> Nat]
    BY <1>2, <2>2
  <2>4. taken' \in Seq(Nat)
    BY <2>1, <2>3
  <2> QED
    BY <1>2, <1>4, <2>2, <2>4
<1>6. \A c \in DOMAIN calls : calls[c].inst < next /\ calls[c].inst \in Nat
  BY <1>1, <1>2, CallsTyped DEF RunInv
<1>7. RunInv'
  <2>1. \A k \in DOMAIN taken' :
          /\ taken'[k] \in DOMAIN Instances /\ boss' < taken'[k]
          /\ \A m \in DOMAIN taken' : k < m => taken'[k] < taken'[m]
          /\ \A c \in DOMAIN calls : calls[c].inst < taken'[k]
    BY <1>2, <1>4, <1>5, <1>6
  <2>2. Instances' = Instances /\ Free' = Free
    BY <1>3 DEF Instances, Free
  <2>3. Passes(next)' = Passes(next)
    BY <1>2, <1>3, <2>2 DEF Passes, Filter, Dir
  <2> QED
    BY <1>2, <1>3, <1>4, <2>1, <2>2, <2>3 DEF RunInv
<1>8. ASSUME ~track.cut[Dir], NEW i \in Due, GoneBy(i)'
      PROVE  \E c \in DOMAIN calls : calls[c].inst = i
  <2>1. i \in DOMAIN Instances /\ i # next
    BY <1>2 DEF Due, Expected
  <2>2. \A k \in DOMAIN taken' : taken'[k] # i
    BY <1>2, <1>4, <1>8 DEF GoneBy
  <2>3. ~(i > next)
    <3> SUFFICES ASSUME i > next PROVE FALSE
      OBVIOUS
    <3>1. i - next \in DOMAIN taken' /\ next + (i - next) = i
      BY <1>4, <1>5, <2>1
    <3> QED
      BY <1>5, <2>2, <3>1
  <2>4. GoneBy(i)
    BY <1>2, <1>4, <2>1, <2>3 DEF GoneBy
  <2> QED
    BY <1>1, <1>4, <1>8, <2>4, Running DEF CalledInv
<1> QED
  BY <1>2, <1>4, <1>5, <1>7, <1>8, Quietly

LEMMA TailOf ==
    ASSUME NEW s \in Seq(Nat), s # <<>>
    PROVE  /\ Head(s) \in Nat /\ Tail(s) \in Seq(Nat) /\ 1 \in DOMAIN s /\ Head(s) = s[1]
           /\ \A k \in DOMAIN Tail(s) : k \in Nat /\ k >= 1 /\ k + 1 \in DOMAIN s /\ Tail(s)[k] = s[k + 1]
  OBVIOUS

LEMMA PlannedSkipping ==
    ASSUME PlanIInv, PlannedSkip
    PROVE  PlanIInv'
<1>1. PlanTyped /\ RunInv /\ CalledInv
  BY DEF PlanIInv
<1>2. /\ boss # 0 /\ taken # <<>> /\ taken' = Tail(taken)
      /\ ShimCut(Head(taken)) \/ ~Passes(Head(taken)) \/ Choosing
      /\ UNCHANGED <<tracked, connVars, luaVars, packet, verdict, calls, revealed>>
      /\ next' = next /\ boss' = boss
  BY DEF PlannedSkip
<1>3. next > 0 /\ boss = next /\ Passes(boss)
  BY <1>2, Led
<1>4. UNCHANGED <<track, calls, verdict>>
  BY <1>2 DEF connVars
<1>5. /\ Tail(taken) \in Seq(Nat)
      /\ \A k \in DOMAIN Tail(taken) : k \in Nat /\ k + 1 \in DOMAIN taken /\ Tail(taken)[k] = taken[k + 1]
  BY <1>1, <1>2, TailOf DEF PlanTyped
<1>6. next \in Nat /\ boss \in Nat
  BY <1>1 DEF PlanTyped
<1>7. RunInv'
  <2>1. \A k \in DOMAIN taken' :
          /\ taken'[k] \in DOMAIN Instances /\ boss' < taken'[k]
          /\ \A m \in DOMAIN taken' : k < m => taken'[k] < taken'[m]
          /\ \A c \in DOMAIN calls : calls[c].inst < taken'[k]
    BY <1>1, <1>2, <1>5 DEF RunInv
  <2> QED
    BY <1>1, <1>2, <1>3, <1>4, <2>1 DEF RunInv, Instances, Free, Passes, Filter, Dir
<1>8. Head(taken) \notin Due
  <2> DEFINE i == Head(taken)
  <2>1. i \in Nat /\ 1 \in DOMAIN taken /\ i = taken[1]
    BY <1>1, <1>2, TailOf DEF PlanTyped
  <2>2. \A c \in DOMAIN calls : calls[c].inst \in Nat /\ calls[c].inst < i
    BY <1>1, <1>2, <2>1, CallsTyped DEF RunInv
  <2>3. boss < i
    BY <1>1, <1>2, <2>1 DEF RunInv
  <2> SUFFICES i \notin Due
    OBVIOUS
  <2> HIDE DEF i
  <2>4. CASE ShimCut(i)
    BY <2>4 DEF ShimCut, Due, Expected, asked
  <2>5. CASE ~Passes(i)
    BY <2>5 DEF Due, Expected
  <2>6. CASE Choosing
    <3>1. PICK j \in {boss} \cup {calls[k].inst : k \in DOMAIN calls} :
                 j # 0 /\ Instances[j].kind = "choose"
      BY <2>6 DEF Choosing
    <3>2. j \in Nat /\ j < i
      BY <1>6, <2>2, <2>3
    <3>3. Passes(j)
      BY <1>1, <1>3, <3>1 DEF CalledInv
    <3>4. j \in 1..i - 1
      BY <2>1, <3>1, <3>2
    <3> QED
      BY <3>1, <3>3, <3>4 DEF MayBeLeftOut, Due
  <2> QED
    BY <1>2, <2>4, <2>5, <2>6 DEF i
<1>9. ASSUME ~track.cut[Dir], NEW i \in Due, GoneBy(i)'
      PROVE  \E c \in DOMAIN calls : calls[c].inst = i
  <2>1. \A k \in DOMAIN taken' : taken'[k] # i
    BY <1>2, <1>3, <1>6, <1>9 DEF GoneBy
  <2>2. \A k \in DOMAIN taken : k = 1 \/ (k - 1 \in DOMAIN Tail(taken) /\ taken[k] = Tail(taken)[k - 1])
    BY <1>1, <1>2 DEF PlanTyped
  <2>3. taken[1] # i
    BY <1>1, <1>2, <1>8, TailOf DEF PlanTyped
  <2>4. GoneBy(i)
    BY <1>2, <2>1, <2>2, <2>3 DEF GoneBy
  <2> QED
    BY <1>1, <1>3, <1>9, <2>4, Running DEF CalledInv
<1> QED
  BY <1>2, <1>3, <1>5, <1>6, <1>7, <1>9, Quietly

LEMMA Returning ==
    ASSUME PlanIInv, Return
    PROVE  PlanIInv'
<1>1. PlanTyped /\ RunInv /\ CalledInv
  BY DEF PlanIInv
<1>2. /\ boss # 0 /\ taken = <<>> /\ boss' = 0 /\ next' = 0 /\ taken' = taken
      /\ UNCHANGED <<tracked, connVars, luaVars, packet, verdict, calls, revealed>>
  BY DEF Return
<1>3. next > 0 /\ boss = next /\ Passes(boss)
  BY <1>2, Led
<1>4. UNCHANGED <<track, calls, verdict>>
  BY <1>2 DEF connVars
<1>5. ~Free /\ track.dp # NoProfile
  BY <1>3, Running
<1>6. RunInv'
  BY <1>2, <1>4, <1>5 DEF RunInv, Free
<1>7. taken' \in Seq(Nat) /\ next' \in Nat /\ boss' \in Nat
  BY <1>1, <1>2 DEF PlanTyped
<1>8. ASSUME ~track.cut[Dir], NEW i \in Due
      PROVE  \E c \in DOMAIN calls : calls[c].inst = i
  <2>1. GoneBy(i)
    BY <1>2 DEF Return, GoneBy
  <2> QED
    BY <1>1, <1>3, <1>5, <1>8, <2>1, Running DEF CalledInv
<1> QED
  BY <1>2, <1>3, <1>6, <1>7, <1>8, Quietly

\* An instance is called: what does not depend on who calls it.
LEMMA CallEffects ==
    ASSUME PlanIInv, next > 0, next' \in Nat,
           NEW i \in DOMAIN Instances, Passes(i), \A c \in DOMAIN calls : calls[c].inst < i,
           NEW result \in Results, NEW self, NEW all \in SUBSET Dirs, NEW viaShim \in BOOLEAN,
           Effects(i, result, self, all, viaShim), result = "error" => next' = 0,
           UNCHANGED <<tracked, cache, pos, held, packet, revealed>>
    PROVE  /\ calls' = Append(calls, [inst |-> i, result |-> result])
           /\ calls' \in Seq([inst : Nat, result : Results])
           /\ track' \in Tracks /\ verdict' \in {"pass", "modify", "drop"}
           /\ track'.dp = track.dp /\ Dir' = Dir /\ Instances' = Instances /\ ~Free'
           /\ \A d \in Dirs : track.cut[d] => track'.cut[d]
           /\ asked \subseteq asked' /\ \A k : Passes(k)' = Passes(k)
           /\ PositionsInv' /\ TrackInv' /\ CutoffSound' /\ VerdictInv'
           /\ \A j, k \in DOMAIN calls' : j < k /\ calls'[k].inst # 0 => calls'[j].inst < calls'[k].inst
           /\ \A c \in DOMAIN calls' : calls'[c].inst # 0 => Passes(calls'[c].inst)
<1>1. PlanTyped /\ PositionsInv /\ TrackInv /\ CutoffSound /\ RunInv /\ CalledInv /\ VerdictInv
  BY DEF PlanIInv
<1>2. /\ ~Free /\ track.dp \in Profiles /\ ~AnyFailed
      /\ DOMAIN Instances = 1 .. Len(Instances) /\ Len(Instances) \in Nat
      /\ Dir \in Dirs /\ track.dp # NoProfile
  BY Running
<1>3. /\ calls' = Append(calls, [inst |-> i, result |-> result])
      /\ cutC \subseteq cutC' /\ cutShim \subseteq cutShim'
      /\ track' = IF tracked THEN [track EXCEPT !.cut = [d \in Dirs |-> @[d] \/ d \in all]] ELSE track
      /\ stopped' = IF tracked THEN stopped \cup {<<track.dp, d>> : d \in all} ELSE stopped
      /\ verdict' = IF result = "error" THEN "pass" ELSE Aggregate(verdict, result)
  BY DEF Effects
<1>4. i \in Nat
  BY <1>2
<1>5. /\ DOMAIN calls = 1 .. Len(calls) /\ Len(calls) \in Nat
      /\ \A c \in DOMAIN calls : calls[c].inst \in Nat /\ calls[c].result \in Results
  BY <1>1, CallsTyped
<1>6. /\ calls' \in Seq([inst : Nat, result : Results])
      /\ DOMAIN calls' = 1 .. Len(calls) + 1
      /\ \A c \in DOMAIN calls : calls'[c] = calls[c]
      /\ calls'[Len(calls) + 1] = [inst |-> i, result |-> result]
  <2> DEFINE C == [inst : Nat, result : Results]
  <2>1. calls \in Seq(C) /\ [inst |-> i, result |-> result] \in C
    BY <1>1, <1>4 DEF PlanTyped
  <2> HIDE DEF C
  <2>2. calls' \in Seq(C)
    BY <1>3, <2>1
  <2>3. DOMAIN calls' = 1 .. Len(calls) + 1
    BY <1>3, <1>5, <2>1
  <2>4. \A c \in DOMAIN calls : calls'[c] = calls[c]
    BY <1>3, <1>5, <2>1
  <2>5. calls'[Len(calls) + 1] = [inst |-> i, result |-> result]
    BY <1>3, <1>5, <2>1
  <2> QED
    BY <2>2, <2>3, <2>4, <2>5 DEF C
<1>7. /\ track' \in Tracks /\ track'.dp = track.dp /\ track'.searched = track.searched
      /\ track'.name = track.name /\ track'.found = track.found
      /\ track'.l7 = track.l7 /\ track'.l7Found = track.l7Found
      /\ ~tracked => track' = track
      /\ \A d \in Dirs : track'.cut[d] <=> track.cut[d] \/ (tracked /\ d \in all)
  BY <1>1, <1>3 DEF PlanTyped, Tracks
<1>8. Dir' = Dir /\ Instances' = Instances
  BY <1>7 DEF Dir, Instances
<1>9. \A k : Passes(k)' = Passes(k)
  BY <1>8 DEF Passes, Filter
<1>10. verdict' \in {"pass", "modify", "drop"} /\ ~Free'
  <2>1. verdict \in {"pass", "modify", "drop"}
    BY <1>1, <1>2 DEF PlanTyped, Free
  <2>2. verdict' \in {"pass", "modify", "drop"}
    BY <1>3, <2>1 DEF Aggregate, Results
  <2> QED
    BY <2>2 DEF Free
<1>11. PositionsInv'
  <2>1. pos' = pos /\ held' = held /\ tracked' = tracked /\ packet' = packet
    OBVIOUS
  <2>2. packet.at.known = tracked
    BY <1>1, <1>2 DEF PositionsInv
  <2> QED
    BY <1>1, <2>1, <2>2 DEF PositionsInv
<1>12. TrackInv'
  <2>1. (tracked' <=> tracked) /\ revealed' = revealed
    BY Zenon
  <2>2. track.searched
    BY <1>1, <1>2 DEF TrackInv
  <2>3. ~tracked => track'.cut = AllUncut /\ revealed = NoName
    BY <1>1, <1>7 DEF TrackInv
  <2>4. tracked => (track'.found <=> revealed # NoName)
    BY <1>1, <1>7 DEF TrackInv
  <2>5. tracked /\ track'.found =>
         /\ track'.name = revealed /\ track'.l7 = "tls" /\ track'.l7Found
         /\ track'.dp = Search[revealed, "tls"]
    BY <1>1, <1>7 DEF TrackInv
  <2> QED
    BY <1>7, <2>1, <2>2, <2>3, <2>4, <2>5 DEF TrackInv
<1>13. CutoffSound'
  <2>1. SUFFICES ASSUME NEW d \in Dirs, track'.cut[d], <<track.dp, d>> \notin stopped',
                        NEW k \in DOMAIN Plan[track.dp]
                 PROVE  LET r == Plan[track.dp][k].range[d] IN
                        <<track.dp, k, d>> \in cutC' \/ r.to.mode = "s" \/ ~ToOk(pos[d], r)
    BY <1>7 DEF CutoffSound
  <2>2. track.cut[d] /\ <<track.dp, d>> \notin stopped
    BY <1>3, <1>7, <2>1
  <2> QED
    BY <1>1, <1>2, <1>3, <2>1, <2>2 DEF CutoffSound
<1>14. VerdictInv'
  <2>1. verdict \in {"pass", "modify", "drop"}
    BY <1>1, <1>2 DEF PlanTyped, Free
  <2>2. CASE result = "error"
    <3>1. AnyFailed'
      BY <1>5, <1>6, <2>2 DEF AnyFailed
    <3> QED
      BY <1>3, <2>2, <3>1 DEF VerdictInv
  <2>3. CASE result # "error"
    <3>1. result \in {"pass", "modify", "drop"}
      BY <2>3 DEF Results
    <3>2. ~AnyFailed'
      BY <1>2, <1>5, <1>6, <2>3 DEF AnyFailed
    <3>3. \A c \in DOMAIN calls : Rank(calls[c].result) <= Rank(verdict) /\ calls[c].result \in {"pass", "modify", "drop"}
      BY <1>1, <1>2, <1>5 DEF VerdictInv, AnyFailed, Results
    <3>4. verdict' = Aggregate(verdict, result)
      BY <1>3, <2>3
    <3>5. \A v \in {"pass", "modify", "drop"} : Rank(v) \in Nat
      BY DEF Rank
    <3>6. /\ Rank(verdict) <= Rank(verdict') /\ Rank(result) <= Rank(verdict')
          /\ verdict' = result \/ (verdict' = verdict /\ Rank(result) <= Rank(verdict))
      BY <2>1, <3>1, <3>4, <3>5 DEF Aggregate
    <3>7. \A c \in DOMAIN calls' : Rank(calls'[c].result) <= Rank(verdict')
      <4> TAKE c \in DOMAIN calls'
      <4>1. CASE c \in DOMAIN calls
        BY <1>6, <1>10, <2>1, <3>3, <3>5, <3>6, <4>1
      <4>2. CASE c = Len(calls) + 1
        BY <1>6, <3>6, <4>2
      <4> QED
        BY <1>5, <1>6, <4>1, <4>2
    <3>8. calls' # <<>>
      BY <1>5, <1>6
    <3>9. \E c \in DOMAIN calls' : calls'[c].result = verdict'
      <4>1. CASE verdict' = result
        BY <1>5, <1>6, <4>1
      <4>2. CASE verdict' = verdict /\ Rank(result) <= Rank(verdict) /\ calls # <<>>
        <5>1. PICK c \in DOMAIN calls : calls[c].result = verdict
          BY <1>1, <1>2, <4>2 DEF VerdictInv
        <5> QED
          BY <1>5, <1>6, <4>2, <5>1
      <4>3. CASE verdict' = verdict /\ Rank(result) <= Rank(verdict) /\ calls = <<>>
        <5>1. verdict = "pass"
          BY <1>1, <1>2, <4>3 DEF VerdictInv
        <5>2. result = "pass"
          BY <3>1, <4>3, <5>1 DEF Rank
        <5> QED
          BY <1>5, <1>6, <4>3, <5>1, <5>2
      <4> QED
        BY <3>6, <4>1, <4>2, <4>3
    <3> QED
      BY <3>2, <3>7, <3>8, <3>9 DEF VerdictInv
  <2> QED
    BY <2>2, <2>3
<1>15. \A j, k \in DOMAIN calls' : j < k /\ calls'[k].inst # 0 => calls'[j].inst < calls'[k].inst
  <2> TAKE j, k \in DOMAIN calls'
  <2>1. CASE k \in DOMAIN calls
    <3>1. j < k => j \in DOMAIN calls
      BY <1>5, <1>6, <2>1
    <3> QED
      BY <1>1, <1>6, <2>1, <3>1 DEF CalledInv
  <2>2. CASE k = Len(calls) + 1
    <3>1. j < k => j \in DOMAIN calls
      BY <1>5, <1>6, <2>2
    <3> QED
      BY <1>6, <2>2, <3>1
  <2> QED
    BY <1>5, <1>6, <2>1, <2>2
<1>16. \A c \in DOMAIN calls' : calls'[c].inst # 0 => Passes(calls'[c].inst)
  <2> TAKE c \in DOMAIN calls'
  <2>1. CASE c \in DOMAIN calls
    BY <1>1, <1>6, <2>1 DEF CalledInv
  <2>2. CASE c = Len(calls) + 1
    BY <1>6, <2>2
  <2> QED
    BY <1>5, <1>6, <2>1, <2>2
<1> QED
  BY <1>3, <1>6, <1>7, <1>8, <1>9, <1>10, <1>11, <1>12, <1>13, <1>14, <1>15, <1>16 DEF asked

LEMMA Calling ==
    ASSUME PlanIInv, NEW result \in Results, NEW self \in Asks, NEW all \in Asks, Call(result, self, all)
    PROVE  PlanIInv'
<1>1. PlanTyped /\ RunInv /\ CalledInv
  BY DEF PlanIInv
<1>2. /\ next > 0 /\ boss = 0 /\ Passes(next) /\ Effects(next, result, self, all, FALSE)
      /\ next' = IF result = "error" THEN 0 ELSE After(next)
      /\ UNCHANGED <<tracked, cache, pos, held, packet, taken, boss, revealed>>
  BY DEF Call
<1>3. /\ ~Free /\ track.dp \in Profiles /\ next \in DOMAIN Instances /\ ~AnyFailed
      /\ DOMAIN Instances = 1 .. Len(Instances) /\ Len(Instances) \in Nat /\ next \in Nat
      /\ track.dp # NoProfile /\ Dir \in Dirs
  BY <1>2, Running
<1>4. \/ next' = 0 /\ (result = "error" \/ next = Len(Instances))
      \/ next' = next + 1 /\ next + 1 \in DOMAIN Instances
  BY <1>2, <1>3 DEF After
<1>5. next' \in Nat /\ (result = "error" => next' = 0)
  BY <1>2, <1>3, <1>4
<1>6. \A c \in DOMAIN calls : calls[c].inst < next
  BY <1>1, <1>2 DEF RunInv
<1>7. all \in SUBSET Dirs
  BY LuaPlanAssumption
<1>8. /\ calls' = Append(calls, [inst |-> next, result |-> result])
      /\ calls' \in Seq([inst : Nat, result : Results])
      /\ track' \in Tracks /\ verdict' \in {"pass", "modify", "drop"}
      /\ track'.dp = track.dp /\ Dir' = Dir /\ Instances' = Instances /\ ~Free'
      /\ \A d \in Dirs : track.cut[d] => track'.cut[d]
      /\ asked \subseteq asked' /\ \A k : Passes(k)' = Passes(k)
      /\ PositionsInv' /\ TrackInv' /\ CutoffSound' /\ VerdictInv'
      /\ \A j, k \in DOMAIN calls' : j < k /\ calls'[k].inst # 0 => calls'[j].inst < calls'[k].inst
      /\ \A c \in DOMAIN calls' : calls'[c].inst # 0 => Passes(calls'[c].inst)
  BY <1>2, <1>3, <1>5, <1>6, <1>7, CallEffects
<1>9. /\ DOMAIN calls = 1 .. Len(calls) /\ Len(calls) \in Nat
      /\ \A c \in DOMAIN calls : calls[c].inst \in Nat
      /\ DOMAIN calls' = 1 .. Len(calls) + 1
      /\ \A c \in DOMAIN calls : calls'[c] = calls[c]
      /\ calls'[Len(calls) + 1] = [inst |-> next, result |-> result]
  <2>1. /\ DOMAIN calls = 1 .. Len(calls) /\ Len(calls) \in Nat
        /\ \A c \in DOMAIN calls : calls[c].inst \in Nat
    BY <1>1, CallsTyped
  <2> DEFINE C == [inst : Nat, result : Results]
  <2>2. calls \in Seq(C)
    BY <1>1 DEF PlanTyped
  <2> HIDE DEF C
  <2> QED
    BY <1>8, <2>1, <2>2
<1>10. PlanTyped'
  BY <1>1, <1>2, <1>5, <1>8 DEF PlanTyped
<1>11. RunInv'
  <2>1. next' > 0 => \A c \in DOMAIN calls' : calls'[c].inst < next'
    <3> SUFFICES ASSUME next' > 0, NEW c \in DOMAIN calls' PROVE calls'[c].inst < next'
      OBVIOUS
    <3>1. next' = next + 1
      BY <1>4
    <3>2. CASE c \in DOMAIN calls
      BY <1>3, <1>6, <1>9, <3>1, <3>2
    <3>3. CASE c = Len(calls) + 1
      BY <1>3, <1>9, <3>1, <3>3
    <3> QED
      BY <1>9, <3>2, <3>3
  <2> QED
    BY <1>2, <1>3, <1>4, <1>8, <2>1 DEF RunInv
<1>12. CalledInv'
  <2>1. ASSUME ~track'.cut[Dir], ~AnyFailed', NEW i \in Due', GoneBy(i)'
        PROVE  \E c \in DOMAIN calls' : calls'[c].inst = i
    <3>1. ~track.cut[Dir]
      BY <1>3, <1>8, <2>1
    <3>2. i \in Due /\ i \in DOMAIN Instances
      BY <1>8 DEF Due, Expected, MayBeLeftOut
    <3>a. next' = 0 \/ i < next'
      BY <1>2, <2>1 DEF GoneBy
    <3>3. result # "error"
      BY <1>9, <2>1 DEF AnyFailed
    <3>4. i <= next
      BY <1>3, <1>4, <3>2, <3>3, <3>a
    <3>5. CASE i = next
      BY <1>9, <3>5
    <3>6. CASE i < next
      <4>1. PICK c \in DOMAIN calls : calls[c].inst = i
        BY <1>1, <1>2, <1>3, <3>1, <3>2, <3>6 DEF CalledInv, GoneBy
      <4> QED
        BY <1>9, <4>1
    <3> QED
      BY <1>3, <3>2, <3>4, <3>5, <3>6
  <2> QED
    BY <1>8, <2>1 DEF CalledInv
<1> QED
  BY <1>8, <1>10, <1>11, <1>12 DEF PlanIInv

LEMMA PlannedCalling ==
    ASSUME PlanIInv, NEW result \in Results, NEW self \in Asks, PlannedCall(result, self)
    PROVE  PlanIInv'
<1> DEFINE i == Head(taken)
<1>1. PlanTyped /\ RunInv /\ CalledInv
  BY DEF PlanIInv
<1>2. /\ boss # 0 /\ taken # <<>> /\ Passes(i) /\ Effects(i, result, self, {}, TRUE)
      /\ taken' = IF result = "error" THEN <<>> ELSE Tail(taken)
      /\ boss' = IF result = "error" THEN 0 ELSE boss
      /\ next' = IF result = "error" THEN 0 ELSE next
      /\ UNCHANGED <<tracked, cache, pos, held, packet, revealed>>
  BY DEF PlannedCall
<1>3. next > 0 /\ boss = next /\ Passes(boss)
  BY <1>2, Led
<1>4. /\ i \in Nat /\ Tail(taken) \in Seq(Nat) /\ 1 \in DOMAIN taken /\ i = taken[1]
      /\ \A k \in DOMAIN Tail(taken) : k \in Nat /\ k >= 1 /\ k + 1 \in DOMAIN taken /\ Tail(taken)[k] = taken[k + 1]
  BY <1>1, <1>2, TailOf DEF PlanTyped
<1> HIDE DEF i
<1>5. /\ i \in DOMAIN Instances /\ \A c \in DOMAIN calls : calls[c].inst < i
      /\ \A m \in DOMAIN taken : 1 < m => i < taken[m]
  BY <1>1, <1>2, <1>4 DEF RunInv
<1>6. /\ ~Free /\ track.dp \in Profiles /\ next \in DOMAIN Instances /\ next \in Nat /\ track.dp # NoProfile
  BY <1>3, Running
<1>7. next' \in Nat /\ (result = "error" => next' = 0)
  BY <1>2, <1>6
<1>8. /\ calls' = Append(calls, [inst |-> i, result |-> result])
      /\ calls' \in Seq([inst : Nat, result : Results])
      /\ track' \in Tracks /\ verdict' \in {"pass", "modify", "drop"}
      /\ track'.dp = track.dp /\ Dir' = Dir /\ Instances' = Instances /\ ~Free'
      /\ PositionsInv' /\ TrackInv' /\ CutoffSound' /\ VerdictInv'
      /\ \A j, k \in DOMAIN calls' : j < k /\ calls'[k].inst # 0 => calls'[j].inst < calls'[k].inst
      /\ \A k : Passes(k)' = Passes(k)
      /\ \A d \in Dirs : track.cut[d] => track'.cut[d]
      /\ asked \subseteq asked' /\ Dir \in Dirs
      /\ \A c \in DOMAIN calls' : calls'[c].inst # 0 => Passes(calls'[c].inst)
  <2>1. {} \in SUBSET Dirs /\ TRUE \in BOOLEAN
    OBVIOUS
  <2> QED
    BY <1>2, <1>3, <1>5, <1>7, <2>1, CallEffects, Running
<1>9. /\ DOMAIN calls = 1 .. Len(calls) /\ Len(calls) \in Nat
      /\ \A c \in DOMAIN calls : calls[c].inst \in Nat
      /\ DOMAIN calls' = 1 .. Len(calls) + 1
      /\ \A c \in DOMAIN calls : calls'[c] = calls[c]
      /\ calls'[Len(calls) + 1] = [inst |-> i, result |-> result]
  <2>1. /\ DOMAIN calls = 1 .. Len(calls) /\ Len(calls) \in Nat
        /\ \A c \in DOMAIN calls : calls[c].inst \in Nat
    BY <1>1, CallsTyped
  <2> DEFINE C == [inst : Nat, result : Results]
  <2>2. calls \in Seq(C)
    BY <1>1 DEF PlanTyped
  <2> HIDE DEF C
  <2> QED
    BY <1>8, <2>1, <2>2
<1>10. PlanTyped'
  <2>1. boss' \in Nat /\ taken' \in Seq(Nat)
    BY <1>1, <1>2, <1>4 DEF PlanTyped
  <2> QED
    BY <1>1, <1>2, <1>7, <1>8, <2>1 DEF PlanTyped
<1>11. RunInv'
  <2>1. CASE result = "error"
    BY <1>2, <1>6, <1>8, <2>1 DEF RunInv
  <2>2. CASE result # "error"
    <3>1. taken' = Tail(taken) /\ boss' = boss /\ next' = next
      BY <1>2, <2>2
    <3>2. \A k \in DOMAIN taken' :
            /\ taken'[k] \in DOMAIN Instances /\ boss' < taken'[k]
            /\ \A m \in DOMAIN taken' : k < m => taken'[k] < taken'[m]
      BY <1>1, <1>2, <1>4, <3>1 DEF RunInv
    <3>3. ASSUME NEW k \in DOMAIN taken', NEW c \in DOMAIN calls'
          PROVE  calls'[c].inst < taken'[k]
      <4>1. k + 1 \in DOMAIN taken /\ taken'[k] = taken[k + 1] /\ 1 < k + 1
        BY <1>4, <3>1
      <4>2. CASE c \in DOMAIN calls
        BY <1>1, <1>2, <1>9, <4>1, <4>2 DEF RunInv
      <4>3. CASE c = Len(calls) + 1
        BY <1>5, <1>9, <4>1, <4>3
      <4> QED
        BY <1>9, <4>2, <4>3
    <3>4. /\ boss # 0 /\ boss = next /\ Instances[boss].kind # "plain"
      BY <1>1, <1>2 DEF RunInv
    <3>5. Passes(boss)'
      BY <1>3, <1>8, <3>1
    <3> QED
      BY <1>6, <1>8, <3>1, <3>2, <3>3, <3>4, <3>5 DEF RunInv
  <2> QED
    BY <2>1, <2>2
<1>12. CalledInv'
  <2>1. ASSUME ~track'.cut[Dir], ~AnyFailed', NEW j \in Due', GoneBy(j)'
        PROVE  \E c \in DOMAIN calls' : calls'[c].inst = j
    <3>1. ~track.cut[Dir] /\ ~AnyFailed
      BY <1>3, <1>6, <1>8, <2>1, Running
    <3>2. j \in Due
      BY <1>8 DEF Due, Expected, MayBeLeftOut
    <3>3. taken' = Tail(taken) /\ boss' = boss /\ next' = next
      BY <1>2, <1>9, <2>1 DEF AnyFailed
    <3>4. CASE j = i
      BY <1>9, <3>4
    <3>5. CASE j # i
      <4>1. \A k \in DOMAIN taken' : taken'[k] # j
        BY <1>2, <1>3, <1>6, <2>1, <3>3 DEF GoneBy
      <4>2. \A k \in DOMAIN taken :
              k = 1 \/ (k - 1 \in DOMAIN Tail(taken) /\ taken[k] = Tail(taken)[k - 1])
        BY <1>1, <1>2 DEF PlanTyped
      <4>3. GoneBy(j)
        BY <1>2, <1>4, <3>3, <3>5, <4>1, <4>2 DEF GoneBy
      <4>4. PICK c \in DOMAIN calls : calls[c].inst = j
        BY <1>1, <1>6, <3>1, <3>2, <4>3 DEF CalledInv
      <4> QED
        BY <1>9, <4>4
    <3> QED
      BY <3>4, <3>5
  <2> QED
    BY <1>8, <2>1 DEF CalledInv
<1> QED
  BY <1>8, <1>10, <1>11, <1>12 DEF PlanIInv

LEMMA Rebuilding ==
    ASSUME PlanIInv, RebuildFails
    PROVE  PlanIInv'
<1> DEFINE C == [inst : Nat, result : Results]
           e == [inst |-> 0, result |-> "error"]
<1>1. PlanTyped /\ PositionsInv /\ TrackInv /\ CutoffSound /\ RunInv /\ CalledInv
  BY DEF PlanIInv
<1>2. /\ ~Free /\ next = 0 /\ verdict = "modify" /\ verdict' = "pass" /\ calls' = Append(calls, e)
      /\ UNCHANGED <<tracked, cache, pos, track, held, cutC, cutShim, stopped, packet, next, taken, boss, revealed>>
  BY DEF RebuildFails, Decided, connVars, luaVars
<1>3. /\ DOMAIN calls = 1 .. Len(calls) /\ Len(calls) \in Nat
      /\ \A c \in DOMAIN calls : calls[c].inst \in Nat
  BY <1>1, CallsTyped
<1>4. calls \in Seq(C) /\ e \in C
  BY <1>1 DEF PlanTyped, Results
<1>5. /\ calls' \in Seq(C) /\ DOMAIN calls' = 1 .. Len(calls) + 1
      /\ \A c \in DOMAIN calls : calls'[c] = calls[c]
      /\ calls'[Len(calls) + 1] = e
  <2> HIDE DEF C, e
  <2> QED
    BY <1>2, <1>3, <1>4
<1>6. PlanTyped'
  BY <1>1, <1>2, <1>5 DEF PlanTyped
<1>7. PositionsInv' /\ TrackInv' /\ CutoffSound'
  <2>1. PositionsInv'
    BY <1>1, <1>2 DEF PositionsInv, Free
  <2>a. tracked' = tracked
    BY <1>2
  <2>b. (tracked' <=> tracked) /\ track' = track /\ revealed' = revealed
    BY <1>2, <2>a
  <2>2. TrackInv'
    BY <1>1, <2>b DEF TrackInv
  <2>3. CutoffSound'
    BY <1>1, <1>2 DEF CutoffSound
  <2> QED
    BY <2>1, <2>2, <2>3
<1>8. verdict # "none" /\ calls # <<>> /\ track.dp # NoProfile /\ boss = 0
  <2>1. VerdictInv
    BY DEF PlanIInv
  <2>2. calls # <<>>
    BY <1>2, <2>1 DEF VerdictInv, AnyFailed
  <2>3. boss = 0
    BY <1>1, <1>2 DEF RunInv
  <2> QED
    BY <1>1, <1>2, <2>2, <2>3 DEF RunInv
<1>9. RunInv'
  BY <1>2, <1>8 DEF RunInv, Free
<1>10. AnyFailed'
  BY <1>3, <1>5 DEF AnyFailed
<1>11. VerdictInv'
  BY <1>2, <1>10 DEF VerdictInv
<1>12. \A k : Passes(k)' = Passes(k)
  BY <1>2 DEF Passes, Filter, Instances, Dir
<1>13. CalledInv'
  <2>1. \A j, k \in DOMAIN calls' : j < k /\ calls'[k].inst # 0 => calls'[j].inst < calls'[k].inst
    <3> TAKE j, k \in DOMAIN calls'
    <3>1. CASE k \in DOMAIN calls
      <4>1. j < k => j \in DOMAIN calls
        BY <1>3, <1>5, <3>1
      <4> QED
        BY <1>1, <1>5, <3>1, <4>1 DEF CalledInv
    <3>2. CASE k = Len(calls) + 1
      BY <1>5, <3>2
    <3> QED
      BY <1>3, <1>5, <3>1, <3>2
  <2>2. \A c \in DOMAIN calls' : calls'[c].inst # 0 => Passes(calls'[c].inst)
    <3> TAKE c \in DOMAIN calls'
    <3>1. CASE c \in DOMAIN calls
      BY <1>1, <1>5, <3>1 DEF CalledInv
    <3>2. CASE c = Len(calls) + 1
      BY <1>5, <3>2
    <3> QED
      BY <1>3, <1>5, <3>1, <3>2
  <2> QED
    BY <1>10, <1>12, <2>1, <2>2 DEF CalledInv
<1> QED
  BY <1>6, <1>7, <1>9, <1>11, <1>13 DEF PlanIInv

LEMMA PlanBegins ==
    ASSUME PlanInit
    PROVE  PlanIInv
<1>1. NewTrack \in Tracks /\ NoPacket \in [dir : Dirs, payload : Payloads, at : Places]
  BY DEF NewTrack, Tracks, AllUncut, L7s, NoPacket, NoPos, Places, Dirs, Payloads
<1>2. pos \in [Dirs -> Places] /\ \A d \in Dirs : pos[d].known = tracked
  BY DEF PlanInit, NoPos, Places
<1>3. PlanTyped
  BY <1>1, <1>2 DEF PlanInit, PlanTyped
<1>4. PositionsInv
  BY <1>2 DEF PlanInit, PositionsInv, Free
<1>5. TrackInv /\ CutoffSound
  BY DEF PlanInit, TrackInv, CutoffSound, NewTrack, AllUncut
<1>6. RunInv /\ CalledInv /\ VerdictInv
  BY DEF PlanInit, RunInv, CalledInv, VerdictInv, Free
<1> QED
  BY <1>3, <1>4, <1>5, <1>6 DEF PlanIInv

LEMMA PlanGoesOn ==
    ASSUME PlanIInv, [PlanNext]_connectionVars
    PROVE  PlanIInv'
<1>1. CASE \E p \in Packets : Receive(p) \/ Hold(p)
  BY <1>1, Receiving, Holding
<1>2. CASE Replay
  BY <1>2, Replaying
<1>3. CASE \E n \in Names \cup {NoName} : CacheChanges(n)
  BY <1>3, CacheChanging
<1>4. CASE Skip \/ TakeOver \/ PlannedSkip \/ Return \/ RebuildFails \/ Deliver
  BY <1>4, Skipping, TakingOver, PlannedSkipping, Returning, Rebuilding, Delivering
<1>5. CASE \E r \in Results, self \in Asks : PlannedCall(r, self) \/ \E all \in Asks : Call(r, self, all)
  BY <1>5, PlannedCalling, Calling
<1>6. CASE UNCHANGED connectionVars
  <2>1. UNCHANGED <<tracked, cache, pos, track, held, cutC, cutShim, stopped,
                    packet, next, taken, boss, verdict, calls, revealed>>
    BY <1>6 DEF connectionVars, connVars, luaVars, planVars
  <2>2. PlanTyped' /\ PositionsInv'
    BY <2>1 DEF PlanIInv, PlanTyped, PositionsInv, Free
  <2>3. tracked' <=> tracked
    BY <2>1
  <2>4. TrackInv'
    BY <2>1, <2>3 DEF PlanIInv, TrackInv
  <2>5. CutoffSound'
    BY <2>1 DEF PlanIInv, CutoffSound
  <2>6. Instances' = Instances /\ Dir' = Dir /\ AnyFailed' = AnyFailed /\ Free' = Free
    BY <2>1 DEF Instances, Dir, AnyFailed, Free
  <2>7. \A k : Passes(k)' = Passes(k)
    BY <2>1, <2>6 DEF Passes, Filter
  <2>8. Due' = Due
    BY <2>1, <2>6, <2>7 DEF Due, Expected, MayBeLeftOut, asked
  <2>9. RunInv' /\ VerdictInv'
    BY <2>1, <2>6, <2>7 DEF PlanIInv, RunInv, VerdictInv
  <2>10. CalledInv'
    BY <2>1, <2>6, <2>7, <2>8 DEF PlanIInv, CalledInv, GoneBy
  <2> QED
    BY <2>2, <2>4, <2>5, <2>9, <2>10 DEF PlanIInv
<1> QED
  BY <1>1, <1>2, <1>3, <1>4, <1>5, <1>6 DEF PlanNext

\* The inductive invariant of a connection's plan.
THEOREM PlanInductive == PlanSpec => []PlanIInv
<1>1. PlanInit => PlanIInv
  BY PlanBegins
<1>2. PlanIInv /\ [PlanNext]_connectionVars => PlanIInv'
  BY PlanGoesOn
<1> QED
  BY <1>1, <1>2, PTL DEF PlanSpec

\* Between packets, a connection whose name is known has that name's profile.
THEOREM NameDecides == PlanSpec => []ProfileOfName
<1>1. PlanIInv => ProfileOfName
  BY DEF PlanIInv, TrackInv, ProfileOfName
<1> QED
  BY <1>1, PlanInductive, PTL

\* Lua is cut off only for a reason.
THEOREM CutOffForCause == PlanSpec => []CutoffSound
<1>1. PlanIInv => CutoffSound
  BY DEF PlanIInv
<1> QED
  BY <1>1, PlanInductive, PTL

LEMMA Followed ==
    ASSUME PlanIInv
    PROVE  PlanFollowed
<1>1. PlanTyped /\ RunInv /\ CalledInv
  BY DEF PlanIInv
<1>2. SUFFICES ASSUME Decided, track.dp # NoProfile, ~track.cut[Dir]
               PROVE  /\ \A j, k \in DOMAIN calls :
                           (j < k /\ calls[k].inst # 0) => calls[j].inst < calls[k].inst
                      /\ \A i \in Called : Passes(i)
                      /\ ~AnyFailed => Due \subseteq Called
  BY DEF PlanFollowed
<1>3. ~Free /\ next = 0
  BY <1>2 DEF Decided
<1>4. \A j, k \in DOMAIN calls : (j < k /\ calls[k].inst # 0) => calls[j].inst < calls[k].inst
  BY <1>1 DEF CalledInv
<1>5. \A i \in Called : Passes(i)
  BY <1>1 DEF CalledInv, Called
<1>6. ASSUME ~AnyFailed
      PROVE  Due \subseteq Called
  <2>1. track.dp \in Profiles
    BY <1>1, <1>2 DEF PlanTyped, Tracks
  <2>2. ASSUME NEW i \in Due PROVE i # 0 /\ \E c \in DOMAIN calls : calls[c].inst = i
    <3>1. i # 0
      BY <2>1, PlansTyped DEF Due, Expected, Instances
    <3> QED
      BY <1>1, <1>2, <1>3, <1>6, <3>1 DEF CalledInv, GoneBy
  <2> QED
    BY <2>2 DEF Called
<1> QED
  BY <1>4, <1>5, <1>6

LEMMA Aggregates ==
    ASSUME PlanIInv
    PROVE  VerdictAggregates
<1>1. PlanTyped /\ VerdictInv
  BY DEF PlanIInv
<1>2. SUFFICES ASSUME Decided, ~(AnyFailed \/ calls = <<>>)
               PROVE  LET best == Max({Rank(calls[k].result) : k \in DOMAIN calls})
                      IN  verdict = CHOOSE v \in {"pass", "modify", "drop"} : Rank(v) = best
  BY <1>1 DEF VerdictAggregates, VerdictInv, Decided
<1> DEFINE S == {Rank(calls[k].result) : k \in DOMAIN calls}
<1>3. verdict \in {"pass", "modify", "drop"}
  BY <1>1, <1>2 DEF PlanTyped, Decided, Free
<1>4. /\ \A k \in DOMAIN calls : Rank(calls[k].result) <= Rank(verdict)
      /\ \E k \in DOMAIN calls : calls[k].result = verdict
  BY <1>1, <1>2 DEF VerdictInv, Decided
<1>5. \A k \in DOMAIN calls : calls[k].result \in {"pass", "modify", "drop"}
  BY <1>1, <1>2, CallsTyped DEF AnyFailed, Results
<1>6. \A v \in {"pass", "modify", "drop"} : Rank(v) \in Nat
  BY DEF Rank
<1>7. \A v, w \in {"pass", "modify", "drop"} : Rank(v) = Rank(w) => v = w
  BY DEF Rank
<1>8. Rank(verdict) \in S /\ \A y \in S : y \in Nat /\ y <= Rank(verdict)
  BY <1>4, <1>5, <1>6
<1>9. Max(S) = Rank(verdict)
  <2> HIDE DEF S
  <2>1. Rank(verdict) \in Nat
    BY <1>3, <1>6
  <2>2. \A y \in S : Rank(verdict) >= y
    BY <1>8, <2>1
  <2>3. \A x \in S : (\A y \in S : x >= y) => x = Rank(verdict)
    BY <1>8, <2>1
  <2> QED
    BY <1>8, <2>2, <2>3 DEF Max
<1> QED
  BY <1>3, <1>7, <1>9

\* The plan is carried out, by the loop and by the orchestrators that take it over,
\* and what comes of it is the packet's verdict.
THEOREM PlanCarriedOut == PlanSpec => []PlanDecides
<1>1. PlanIInv => PlanDecides
  BY Followed, Aggregates DEF PlanDecides
<1> QED
  BY <1>1, PlanInductive, PTL
======================================================================================
