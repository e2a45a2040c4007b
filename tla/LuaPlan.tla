------------------------------- MODULE LuaPlan -------------------------------
(***************************************************************************)
(* nfq2/desync.c: a packet of a connection looks for its profile           *)
(* (play_prolog), looks again when it reveals a protocol or a name         *)
(* (dp_rediscovery), and is offered to the profile's Lua instances in      *)
(* order (desync).  An instance gives a verdict; it may cut itself off     *)
(* from the connection (instance_cutoff), cut all of Lua off (lua_cutoff), *)
(* or take over the instances after it (execution_plan): an orchestrator   *)
(* of lua/zapret-auto.lua calls them through shims of its own.             *)
(*                                                                         *)
(* A profile's plan is a sequence of instances                             *)
(*   [kind |-> "plain" | "replay" | "choose", range |-> [Dirs -> range],   *)
(*    payloads]                                                            *)
(* where the last two kinds are orchestrators; "choose" may leave some of  *)
(* the instances out, as circular and condition do (repeater, which calls  *)
(* instances again, is left aside).  A range is                            *)
(*   [from, to |-> [mode, pos], exclusive]                                 *)
(* of the modes a, x, n (as n, d and b: counters) and s (as s and p:       *)
(* relative to the first sequence number, which works within 2 GB).        *)
(***************************************************************************)
EXTENDS Integers, Sequences, FiniteSets, SequencesExt, FiniteSetsExt

CONSTANTS
    Plan,           \* the profiles' plans
    Search,         \* dp_find: [name, l7] to a profile
    Names,          \* the names that packets show
    NoName, NoProfile,
    Half,           \* the 2 GB
    Seqs, Acks,     \* bounds: relative sequence numbers of each direction
    Asks,           \* bound: the directions an instance asks to be cut off from
    MaxPackets,     \* bound on the packets of the connection
    MaxHeld         \* bound on the delayed packets

Dirs == {"in", "out"}
Payloads == {"empty", "unknown", "tls"}
L7s == {"unknown", "tls"}
Profiles == DOMAIN Plan

Positions == [mode : {"a", "x", "n", "s"}, pos : Nat]
Ranges == [from : Positions, to : Positions, exclusive : BOOLEAN]

ASSUME LuaPlanAssumption ==
    /\ \A dp \in Profiles :
         Plan[dp] \in Seq([kind : {"plain", "replay", "choose"}, range : [Dirs -> Ranges],
                          payloads : SUBSET Payloads])
    /\ {MaxPackets, MaxHeld} \subseteq Nat /\ {Seqs, Acks} \subseteq [Dirs -> SUBSET Nat] /\ Half \in Nat \ {0}
    /\ NoName \notin Names /\ NoProfile \notin Profiles
    /\ Asks \subseteq SUBSET Dirs
    /\ Search \in [(Names \cup {NoName}) \X L7s -> Profiles \cup {NoProfile}]

VARIABLES
    tracked,        \* ~params.ctrack_disable
    cache,          \* the name that the ipcache has for the peer's address
    pos,            \* ctrack->pos: of each direction
    track,          \* the rest of the ctrack
    held,           \* ctrack->delayed: packets with the positions of their time
    replaying,      \* replay_queue is going on
    packet,         \* the packet being handled, [dir, payload, at |-> its position]
    next,           \* the instance that is to be offered it; 0 when none is
    taken,          \* the instances an orchestrator has taken over
    boss,           \* the orchestrator, or 0
    cutC,           \* lua_instance_cutoff: <<profile, instance, direction>>
    cutShim,        \* track.lua_state.cutoff_shim
    verdict,        \* on the packet; "none" between packets
    revealed,       \* the first name the connection has shown
    stopped,        \* directions for which lua_cutoff was called
    calls           \* the calls for the packet: [inst, result]

connVars == <<cache, pos, track, held, replaying>>
luaVars == <<cutC, cutShim, stopped>>
planVars == <<packet, next, taken, boss, verdict, calls>>
connectionVars == <<tracked, connVars, luaVars, planVars, revealed>>

NoPos == [known |-> FALSE, n |-> 0, s |-> 0, over |-> FALSE]
AllUncut == [d \in Dirs |-> FALSE]
NewTrack == [dp |-> NoProfile, searched |-> FALSE, name |-> NoName, found |-> FALSE,
             l7 |-> "unknown", l7Found |-> FALSE, cut |-> AllUncut]
NoPacket == [dir |-> "out", payload |-> "empty", at |-> NoPos]

\* A hello that goes out shows a name or not; a related packet is ICMP about one.
Packets ==
    UNION {{p \in [dir : {d}, payload : Payloads, name : Names \cup {NoName},
                   seq : Seqs[d], ack : Acks[d], related : BOOLEAN] :
              /\ p.name # NoName => p.payload = "tls" /\ d = "out"
              /\ p.related => p.payload = "unknown"} : d \in Dirs}

PlanInit ==
    /\ tracked \in BOOLEAN
    /\ cache = NoName
    /\ pos = [d \in Dirs |-> [NoPos EXCEPT !.known = tracked]]
    /\ track = NewTrack
    /\ held = <<>> /\ replaying = FALSE
    /\ packet = NoPacket /\ next = 0 /\ taken = <<>> /\ boss = 0
    /\ cutC = {} /\ cutShim = {} /\ revealed = NoName /\ stopped = {}
    /\ verdict = "none" /\ calls = <<>>

Free == verdict = "none"
Decided == ~Free /\ next = 0
Dir == packet.dir

-----------------------------------------------------------------------------
\* pos_overflow, pos_get, check_pos_*

Overflow(q, m) == m = "s" /\ q.over
PosGet(q, m) == IF m = "n" THEN q.n ELSE q.s

FromOk(q, r) ==
    /\ r.from.mode # "x" /\ ~Overflow(q, r.from.mode)
    /\ r.from.mode # "a" => q.known /\ PosGet(q, r.from.mode) >= r.from.pos

ToOk(q, r) ==
    /\ r.to.mode # "x" /\ ~Overflow(q, r.to.mode)
    /\ r.to.mode # "a" =>
         /\ q.known
         /\ \/ PosGet(q, r.to.mode) < r.to.pos
            \/ ~r.exclusive /\ PosGet(q, r.to.mode) = r.to.pos

InRange(q, r) == FromOk(q, r) /\ ToOk(q, r)
Beyond(q, r) == ~ToOk(q, r) \/ (~q.known /\ ~FromOk(q, r))

-----------------------------------------------------------------------------
\* ConntrackFeedPacket and ConntrackApplyPos: a packet counts in its direction,
\* and its sequence numbers say where both are.
Moved(q, s) == [q EXCEPT !.s = s, !.over = @ \/ s >= Half]

Fed(p) ==
    IF ~tracked \/ p.related THEN pos
    ELSE [d \in Dirs |-> IF d = p.dir THEN Moved([pos[d] EXCEPT !.n = @ + 1], p.seq)
                         ELSE Moved(pos[d], p.ack)]

\* play_prolog: the first search for a profile.  A packet that goes out may take
\* its name from the cache.
Searched(t, p) ==
    IF t.dp # NoProfile \/ t.searched THEN t
    ELSE LET name == IF tracked /\ t.name = NoName /\ p.dir = "out" THEN cache ELSE t.name
         IN  [t EXCEPT !.name = name, !.dp = Search[name, t.l7], !.searched = TRUE]

\* protocol_probe
Probed(t, p) == IF p.payload = "tls" THEN [t EXCEPT !.l7 = "tls"] ELSE t

KeepCut(t, dp) == t.cut

\* dp_changed: what was cut off was another profile's.
Uncut(t, dp) == IF dp \notin {t.dp, NoProfile} THEN AllUncut ELSE t.cut

DiscoversL7(t) == ~t.l7Found /\ t.l7 # "unknown"
DiscoversAgain(t, p) == p.name # NoName
DiscoversName(t, p) == p.name # NoName /\ ~t.found

\* dp_rediscovery (the checks of the host lists are those of AutoHostlist)
Rediscovered(t, p) ==
    LET name == IF DiscoversName(t, p) THEN p.name ELSE t.name
        dp == Search[name, t.l7]
    IN  IF DiscoversL7(t) \/ DiscoversName(t, p)
        THEN [t EXCEPT !.l7Found = @ \/ DiscoversL7(t), !.found = @ \/ DiscoversName(t, p),
                       !.name = name, !.dp = dp, !.cut = Uncut(t, dp)]
        ELSE t

\* ICMP that a connection's packet caused has the connection's profile and reveals
\* nothing (dpi_desync_icmp_packet).
Played(p) ==
    LET t == Searched(IF tracked THEN track ELSE NewTrack, p)
    IN  IF p.related THEN t
        ELSE IF t.dp = NoProfile THEN t
        ELSE Rediscovered(Probed(t, p), p)

\* The first loop of desync: whether there is anything left to call, and whether
\* any instance wants the payload.
Wants(t, i, p) == p.payload \in Plan[t.dp][i].payloads

\* lua_instance_cutoff_check: out and in are separate, and so are the profiles.
OfAnyProfile(t, i, d) == \E q \in Profiles : <<q, i, d>> \in cutC
CutOff(t, i, d) == tracked /\ <<t.dp, i, d>> \in cutC

AllDone(t, p, at) ==
    \A i \in DOMAIN Plan[t.dp] :
      CutOff(t, i, p.dir) \/ Beyond(at[p.dir], Plan[t.dp][i].range[p.dir])

Offered(t, p, at) ==
    /\ t.dp # NoProfile /\ ~t.cut[p.dir] /\ Plan[t.dp] # <<>>
    /\ ~AllDone(t, p, at)
    /\ \E i \in DOMAIN Plan[t.dp] : Wants(t, i, p)

CutWhenDone(t, p, at) ==
    IF t.dp # NoProfile /\ tracked /\ ~t.cut[p.dir] /\ Plan[t.dp] # <<>> /\ AllDone(t, p, at)
    THEN [t EXCEPT !.cut[p.dir] = TRUE] ELSE t

\* What a packet does before any Lua runs; without conntrack what it finds out
\* lasts for the packet only.
Enter(p, at) ==
    LET t == Played(p) IN
    /\ track' = CutWhenDone(t, p, at)
    /\ cache' = IF tracked /\ ~p.related /\ t.found /\ ~track.found THEN t.name ELSE cache
    /\ revealed' = IF revealed = NoName /\ tracked /\ t.found THEN p.name ELSE revealed
    /\ packet' = [dir |-> p.dir, payload |-> p.payload, at |-> at[p.dir]]
    /\ next' = IF Offered(t, p, at) THEN 1 ELSE 0
    /\ verdict' = "pass" /\ calls' = <<>> /\ taken' = <<>> /\ boss' = 0
    /\ UNCHANGED <<tracked, luaVars>>

\* The verdict goes to who handed the packet over.
Deliver ==
    /\ Decided
    /\ packet' = NoPacket /\ verdict' = "none" /\ calls' = <<>> /\ taken' = <<>>
    /\ track' = IF tracked THEN track ELSE NewTrack
    /\ UNCHANGED <<tracked, cache, pos, held, replaying, luaVars, next, boss, revealed>>

Receive(p) ==
    /\ Free /\ ~replaying /\ pos["in"].n + pos["out"].n < MaxPackets
    /\ p.related => track.dp # NoProfile
    /\ pos' = Fed(p)
    /\ Enter(p, Fed(p))
    /\ UNCHANGED <<held, replaying>>

\* A packet of a message that is being put together waits for the rest (what is
\* delayed and when is in HelloReassembly); it has looked for a profile.
Hold(p) ==
    /\ Free /\ ~replaying /\ tracked /\ Len(held) < MaxHeld
    /\ pos["in"].n + pos["out"].n < MaxPackets
    /\ p.dir = "out" /\ p.payload = "tls"
    /\ Searched(track, p).dp # NoProfile
    /\ pos' = Fed(p)
    /\ track' = Probed(Searched(track, p), p)
    /\ held' = Append(held, [p |-> p, at |-> Fed(p)])
    /\ UNCHANGED <<tracked, cache, replaying, luaVars, planVars, revealed>>

\* replay_queue: the packets go through the same, each with its own positions.
Replay ==
    /\ Free /\ held # <<>>
    /\ held' = Tail(held) /\ replaying' = (Tail(held) # <<>>)
    /\ Enter(Head(held).p, Head(held).at)
    /\ UNCHANGED pos

\* Other connections to the address, and answers of DNS, name it in the cache;
\* ipcache_purge forgets.
CacheChanges(n) ==
    /\ Free /\ tracked /\ cache' = n /\ cache' # cache
    /\ UNCHANGED <<tracked, pos, track, held, replaying, luaVars, planVars, revealed>>

-----------------------------------------------------------------------------
\* The second loop of desync

Instances == Plan[track.dp]
Filter(i) == Instances[i].range[Dir]

\* What the filters of an instance say.
Passes(i) == InRange(packet.at, Filter(i)) /\ packet.payload \in Instances[i].payloads

Rank(v) == CASE v = "pass" -> 0 [] v = "modify" -> 1 [] v = "drop" -> 2

Aggregate(v1, v2) == IF Rank(v2) > Rank(v1) THEN v2 ELSE v1

\* Does the loop go on after instance i?
After(i) == IF i < Len(Instances) THEN i + 1 ELSE 0

\* An instance runs: it asks for cut-offs, and passes, changes or drops the
\* packet; or it fails, as does one that does not exist or whose arguments cannot
\* be resolved, and the packet passes.
Effects(i, result, self, all, viaShim) ==
    /\ calls' = Append(calls, [inst |-> i, result |-> result])
    /\ LET what == {<<track.dp, i, d>> : d \in self} IN
         /\ cutC' = IF tracked /\ ~viaShim THEN cutC \cup what ELSE cutC
         /\ cutShim' = IF tracked /\ viaShim THEN cutShim \cup what ELSE cutShim
    /\ track' = IF tracked
                THEN [track EXCEPT !.cut = [d \in Dirs |-> @[d] \/ d \in all]] ELSE track
    /\ stopped' = IF tracked THEN stopped \cup {<<track.dp, d>> : d \in all} ELSE stopped
    /\ verdict' = IF result = "error" THEN "pass" ELSE Aggregate(verdict, result)

Skip ==
    /\ next > 0 /\ boss = 0
    /\ CutOff(track, next, Dir) \/ ~Passes(next)
    /\ next' = After(next)
    /\ UNCHANGED <<tracked, connVars, luaVars, packet, taken, boss, verdict, calls, revealed>>

Call(result, self, all) ==
    /\ next > 0 /\ boss = 0
    /\ ~CutOff(track, next, Dir) /\ Passes(next) /\ Instances[next].kind = "plain"
    /\ Effects(next, result, self, all, FALSE)
    /\ next' = IF result = "error" THEN 0 ELSE After(next)
    /\ UNCHANGED <<tracked, cache, pos, held, replaying, packet, taken, boss, revealed>>

\* orchestrate: execution_plan_cancel, and the plan of what comes after.
TakeOver ==
    /\ next > 0 /\ boss = 0
    /\ ~CutOff(track, next, Dir) /\ Passes(next) /\ Instances[next].kind # "plain"
    /\ boss' = next
    /\ taken' = [k \in 1..(Len(Instances) - next) |-> next + k]
    /\ UNCHANGED <<tracked, connVars, luaVars, packet, next, verdict, calls, revealed>>

\* plan_instance_execute
ShimCut(i) == tracked /\ <<track.dp, i, Dir>> \in cutShim

\* An orchestrator that chooses has the plan: the one that took it over, or one
\* that was called in it.
Choosing ==
    \E j \in {boss} \cup {calls[k].inst : k \in DOMAIN calls} :
      j # 0 /\ Instances[j].kind = "choose"

PlannedSkip ==
    /\ boss # 0 /\ taken # <<>>
    /\ ShimCut(Head(taken)) \/ ~Passes(Head(taken)) \/ Choosing
    /\ taken' = Tail(taken)
    /\ UNCHANGED <<tracked, connVars, luaVars, packet, next, boss, verdict, calls, revealed>>

\* An orchestrator in the plan of another goes on with the same plan.  A planned
\* instance has no ctx: it cannot call lua_cutoff.
PlannedCall(result, self) ==
    /\ boss # 0 /\ taken # <<>>
    /\ ~ShimCut(Head(taken)) /\ Passes(Head(taken))
    /\ Effects(Head(taken), result, self, {}, TRUE)
    /\ taken' = IF result = "error" THEN <<>> ELSE Tail(taken)
    /\ boss' = IF result = "error" THEN 0 ELSE boss
    /\ next' = IF result = "error" THEN 0 ELSE next
    /\ UNCHANGED <<tracked, cache, pos, held, replaying, packet, revealed>>

\* The orchestrator returns; after execution_plan_cancel the loop ends.
Return ==
    /\ boss # 0 /\ taken = <<>>
    /\ boss' = 0 /\ next' = 0
    /\ UNCHANGED <<tracked, connVars, luaVars, packet, taken, verdict, calls, revealed>>

\* lua_reconstruct_dissect fails, or the dissect is no table any more.
RebuildFails ==
    /\ Decided /\ verdict = "modify"
    /\ verdict' = "pass" /\ calls' = Append(calls, [inst |-> 0, result |-> "error"])
    /\ UNCHANGED <<tracked, connVars, luaVars, packet, next, taken, boss, revealed>>

Results == {"pass", "modify", "drop", "error"}

PlanNext ==
    \/ \E p \in Packets : Receive(p) \/ Hold(p)
    \/ Replay
    \/ \E n \in Names \cup {NoName} : CacheChanges(n)
    \/ Skip \/ TakeOver \/ PlannedSkip \/ Return \/ RebuildFails \/ Deliver
    \/ \E r \in Results, self \in Asks :
         PlannedCall(r, self) \/ \E all \in Asks : Call(r, self, all)

PlanSpec == PlanInit /\ [][PlanNext]_connectionVars

-----------------------------------------------------------------------------
Called == {calls[k].inst : k \in DOMAIN calls} \ {0}
AnyFailed == \E k \in DOMAIN calls : calls[k].result = "error"
asked == cutC \cup cutShim

Expected ==
    {i \in DOMAIN Instances : Passes(i) /\ <<track.dp, i, Dir>> \notin asked}

\* An orchestrator before it that wants the packet may leave the instance out.
MayBeLeftOut(i) == \E j \in 1..i - 1 : Instances[j].kind = "choose" /\ Passes(j)

Due == {i \in Expected : Instances[i].kind = "plain" /\ ~MayBeLeftOut(i)}

\* Unless Lua is cut off, a packet's instances are called in order, each at most
\* once and none against its filters; and if none fails, each is called whose
\* filters want the packet, that has not asked to be cut off and that no
\* orchestrator may leave out, by the loop or by who took the plan over.  Neither
\* the loop that looks ahead nor a cut-off of the other direction, of another
\* instance or profile ever costs one its packet (desync, 854-1112;
\* replay_execution_plan).
PlanFollowed ==
    (Decided /\ track.dp # NoProfile /\ ~track.cut[Dir]) =>
      /\ \A j, k \in DOMAIN calls :
           (j < k /\ calls[k].inst # 0) => calls[j].inst < calls[k].inst
      /\ \A i \in Called : Passes(i)
      /\ ~AnyFailed => Due \subseteq Called

\* The verdict is the strongest that was given: a drop wins over a change and a
\* change over passing; nothing is dropped or changed after an error
\* (verdict_aggregate, 840-853, and the label err).
VerdictAggregates ==
    Decided => verdict = IF AnyFailed \/ calls = <<>> THEN "pass"
                      ELSE LET best == Max({Rank(calls[k].result) : k \in DOMAIN calls})
                           IN  CHOOSE v \in {"pass", "modify", "drop"} : Rank(v) = best

\* The plan is carried out, and what comes of it is the packet's verdict.
PlanDecides == PlanFollowed /\ VerdictAggregates

\* Lua is cut off from a direction only if an instance asked for it or each
\* instance of the profile now in force is cut off or past its counters: none
\* is ever forgotten because another profile's were done (desync, fast path;
\* dp_changed).  A range of sequence numbers may be entered again by a
\* retransmission, and is not looked at.
CutoffSound ==
    \A d \in Dirs :
      (track.cut[d] /\ track.dp # NoProfile /\ <<track.dp, d>> \notin stopped) =>
        \A i \in DOMAIN Plan[track.dp] :
          LET r == Plan[track.dp][i].range[d] IN
          <<track.dp, i, d>> \in cutC \/ r.to.mode = "s" \/ ~ToOk(pos[d], r)

\* Once a connection has shown its name, its profile is the one the search finds
\* for that name and for the protocol known by then, whatever the cache said
\* before or another name says later (dp_rediscovery, 1311-1432).
ProfileOfName ==
    (Free /\ revealed # NoName) =>
      /\ track.name = revealed
      /\ track.dp = Search[revealed, track.l7]

=============================================================================
