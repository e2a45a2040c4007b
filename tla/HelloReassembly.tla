--------------------------- MODULE HelloReassembly ---------------------------
(***************************************************************************)
(* The nfq2 packet filter's handling of the data a TCP client sends: the   *)
(* connection tracker's positions, the reassembly of a TLS ClientHello     *)
(* that spans several segments, the queue in which its segments are held   *)
(* back until it is complete, and the search of the desync profile that    *)
(* decides what is done with them.                                         *)
(*                                                                         *)
(* One connection tuple is followed through the handshakes, retransmitted, *)
(* reordered and lost segments, resets, reuses of the tuple and purges of  *)
(* the tracker's entry.  The filter is single threaded: the handling of a  *)
(* packet is one action.                                                   *)
(*                                                                         *)
(* Data is counted in units.  Sequence numbers wrap at SeqSpace.  The      *)
(* client's stream is the same in every connection: offset 0 is the SYN    *)
(* and a ClientHello record of Hello[o] units begins at each offset o in   *)
(* the domain of Hello.  What profiles and host lists say of a connection  *)
(* is left open, so their searches are choices.                            *)
(***************************************************************************)
EXTENDS Integers, Sequences, FiniteSets, ProfileSearch

CONSTANTS
    SeqSpace,       \* the number of sequence numbers, 2^32 in the code
    MaxBack,        \* REASM_MAX_NEG: how far back a segment may overlap
    MaxReasm,       \* TCP_MAX_REASM: the largest record reassembled
    DelayedMax,     \* RAW_PACKET_QUEUE_DELAYED_MAX
    Isns,           \* the initial sequence numbers clients choose
    Length,         \* the units of data a client sends
    MaxLag,         \* how far from the highest data seen a segment may be
    Hello,          \* the ClientHello records in the stream: offset -> size
    MaxSegment,     \* the most units in a segment
    Windows,        \* the windows a server may announce
    MaxExtras,      \* bound: reuses of the tuple, and packets repeated, late or lost
    MissWindows     \* bound: the windows announced where packets may be missed

ASSUME SizesAssumption ==
    /\ SeqSpace \in Nat \ {0} /\ SeqSpace % 2 = 0
    /\ MaxBack \in 1 .. SeqSpace \div 2 - 1
    /\ MaxReasm \in 0 .. SeqSpace /\ DelayedMax \in Nat \ {0}
    /\ Length \in Nat /\ MaxLag \in 0 .. SeqSpace \div 2 - 1
    /\ MaxSegment \in 1 .. SeqSpace
ASSUME StreamAssumption ==
    /\ Isns \subseteq 0 .. SeqSpace - 1
    /\ DOMAIN Hello \subseteq 1 .. Length
    /\ \A o \in DOMAIN Hello : Hello[o] \in Nat \ {0}
    /\ Windows \subseteq Nat \ {0}
ASSUME BoundsAssumption == MaxExtras \in Nat

VARIABLES
    \* the tracker's entry: t_ctrack
    state,          \* pos.state, or "none" when there is no entry
    client,         \* pos.client
    server,         \* pos.server: the window announced, 0 before a packet is counted
    found,          \* the profile search and what it is told of the connection
    reasm,          \* reasm_client
    delayed,        \* the held segments
    \* the two ends of the connection
    phase,          \* of the client: "closed", "opening" or "open"
    opens,          \* connections opened
    isn,            \* the client's initial sequence number
    window,         \* the server's window
    next,           \* the offset of the next new unit the client sends
    extras,         \* reuses of the tuple, and packets repeated, late or lost, so far
    misses,         \* may packets get past the filter, or be lost or late before it?
    \* what has been observed
    arrived,        \* data segments that have come to the filter
    released,       \* the numbers of those that have left it, oldest first
    got,            \* the units of each connection that have left it
    decisions,      \* what was done with those that left in the last step
    high,           \* the end of the client data this entry has seen, or 0
    born            \* the connection whose SYN this entry has seen, or 0

entry == <<state, client, server, found, reasm, delayed>>
ends == <<phase, opens, isn, window, next, extras, misses>>
observed == <<arrived, released, got, decisions, high, born>>
vars == <<entry, ends, observed>>

-----------------------------------------------------------------------------
SeqNums == 0 .. SeqSpace - 1
Plus(s, n) == (s + n) % SeqSpace
Minus(s, t) == (s - t) % SeqSpace

(* !((s - t) & 0x80000000)                                                 *)
NotBefore(s, t) == Minus(s, t) < SeqSpace \div 2

States == {"none", "SYN", "ESTABLISHED", "FIN"}
Positions == [seq_last : SeqNums, pos : SeqNums, uppos : SeqNums, uppos_prev : SeqNums, seq0 : SeqNums]
Reasms == [seq : SeqNums, size : 0 .. MaxReasm, size_present : 0 .. MaxReasm]
Segments ==
    {p \in [id : 1 .. arrived, conn : 1 .. MaxExtras + 1, off : 1 .. Length, len : 1 .. MaxSegment,
            seq : SeqNums] : p.off + p.len <= Length + 1}
Decisions == {"flushed", "plain", "desync"}

TypeOK ==
    /\ state \in States
    /\ client \in Positions
    /\ server \in Windows \cup {0}
    /\ found \in Searches
    /\ reasm \in Reasms
    /\ delayed \in Seq(Segments)
    /\ phase \in {"closed", "opening", "open"}
    /\ opens \in 0 .. extras + 1 /\ (phase # "closed" => opens > 0)
    /\ isn \in SeqNums
    /\ window \in Windows \cup {0} /\ (phase = "open" => window \in Windows)
    /\ next \in 1 .. Length + 1
    /\ extras \in 0 .. MaxExtras /\ misses \in BOOLEAN
    /\ arrived \in Nat
    /\ released \in Seq(1 .. arrived)
    /\ got \subseteq (1 .. MaxExtras + 1) \X (1 .. Length)
    /\ decisions \in Seq(Decisions)
    /\ high \in 0 .. Length + 1
    /\ born \in 0 .. opens

-----------------------------------------------------------------------------
(* The tracker's entry: ConntrackInitTrack and ConntrackApplyPos.          *)

NoPosition == [seq_last |-> 0, pos |-> 0, uppos |-> 0, uppos_prev |-> 0, seq0 |-> 0]
Idle == [seq |-> 0, size |-> 0, size_present |-> 0]

(* Fault: positions compared without regard to the wrap. *)
ApplyPosUnwrapped(c, st, seq, len) ==
    LET p == Plus(seq, len)
    IN  [c EXCEPT !.seq_last = seq,
                  !.pos = p,
                  !.uppos = IF st = "SYN" \/ (len > 0 /\ p >= c.uppos) THEN p ELSE @,
                  !.uppos_prev = IF st = "SYN" THEN p ELSE IF len > 0 THEN c.uppos ELSE @]

(* A packet of the client moves its position.  In the SYN state it starts  *)
(* the highest position seen; later, data may raise it.                    *)
ApplyPos(c, st, seq, len) ==
    LET p == Plus(seq, len)
    IN  [c EXCEPT !.seq_last = seq,
                  !.pos = p,
                  !.uppos = IF st = "SYN" \/ (len > 0 /\ NotBefore(p, c.uppos)) THEN p ELSE @,
                  !.uppos_prev = IF st = "SYN" THEN p ELSE IF len > 0 THEN c.uppos ELSE @]

(* A packet of the server moves it to what it acknowledges.                *)
Acknowledge(c, ack) == [c EXCEPT !.seq_last = ack, !.pos = ack]

is_retransmission(c) == NotBefore(c.uppos_prev, c.pos)

-----------------------------------------------------------------------------
(* Reassembly: ReasmFeed and reasm_client_start.                           *)

Busy == reasm.size > 0

(* How far segment p begins before the end of what is present, and how     *)
(* much of it lies before the start.                                       *)
Back(p) == Minus(reasm.seq, p.seq)
Ignored(p) == IF Back(p) > reasm.size_present THEN Back(p) - reasm.size_present ELSE 0
Overlap(p) == Back(p) - Ignored(p)
Copied(p) == p.len - Ignored(p)

Leap(p) == Minus(p.seq, reasm.seq) \in 1 .. MaxBack - 1

(* The segment leaves no gap, is not too old and does not overflow.        *)
Feeds(p) ==
    /\ Busy
    /\ ~Leap(p) /\ Back(p) <= MaxBack
    /\ Copied(p) <= 0 \/ reasm.size_present - Overlap(p) + Copied(p) <= reasm.size

(* Fault: what overlaps is counted twice. *)
FedTwice(p) == [reasm EXCEPT !.size_present = @ + p.len, !.seq = Plus(@, p.len)]

Fed(p) ==
    LET grown == Copied(p) - Overlap(p)
    IN  IF Copied(p) > 0 /\ grown > 0
        THEN [reasm EXCEPT !.size_present = @ + grown, !.seq = Plus(@, grown)]
        ELSE reasm

(* A segment that begins a ClientHello record. *)
IsHello(p) == p.off \in DOMAIN Hello

(* The beginning of an incomplete ClientHello that is no retransmission:   *)
(* one to be reassembled.                                                  *)
Incomplete(p) ==
    /\ ~Feeds(p) /\ IsHello(p) /\ p.len < Hello[p.off]
    /\ ~is_retransmission(ApplyPos(client, "ESTABLISHED", p.seq, p.len))

(* Fault: the server's window is not looked at. *)
BeginsWhateverWindow(p) == Incomplete(p) /\ Hello[p.off] <= MaxReasm

(* reasm_client_start agrees, if the record is not too large and neither   *)
(* is it for the server's window, when that is known.                      *)
Begins(p) ==
    /\ Incomplete(p)
    /\ server # 0 => server >= Hello[p.off]
    /\ Hello[p.off] <= MaxReasm

(* reasm_client, once p is fed to it or starts it; a segment that does not *)
(* fit ends the session.                                                   *)
WithSegment(p) ==
    IF Feeds(p) THEN Fed(p)
    ELSE IF Begins(p) THEN [seq |-> Plus(p.seq, p.len), size |-> Hello[p.off], size_present |-> p.len]
    ELSE Idle

(* Fault: a session that fails does not send what it held. *)
SentAwayNever(p) == <<>>

(* What reasm_feed sends away when p does not fit, and what it leaves held.*)
SentAway(p) == IF Busy /\ ~Feeds(p) THEN delayed ELSE <<>>
Held(p) == IF Busy /\ ~Feeds(p) THEN <<>> ELSE delayed

-----------------------------------------------------------------------------
(* Packets without data, after the tracker was fed: a refusal cancels the  *)
(* reassembly and sends the held segments as they are.                     *)

Flush(held) == [i \in 1 .. Len(held) |-> "flushed"]

(* Segments leave the filter, each with the decision on it.                *)
Ids(segments) == [i \in DOMAIN segments |-> segments[i].id]
Units(p) == {p.conn} \X (p.off .. p.off + p.len - 1)

Leave(segments, how) ==
    /\ released' = released \o Ids(segments)
    /\ got' = got \cup UNION {Units(segments[i]) : i \in DOMAIN segments}
    /\ decisions' = how

AfterControl(f, r, held) ==
    \E o \in Outcomes(f, FALSE) :
        /\ found' = o.found
        /\ IF o.matched /\ ~Applies(o.found)
           THEN reasm' = Idle /\ delayed' = <<>> /\ Leave(held, Flush(held))
           ELSE reasm' = r /\ delayed' = held /\ Leave(<<>>, <<>>)

(* A SYN starts the entry anew unless it is still in the SYN state.        *)
TrackSyn(i) ==
    LET keep == state = "SYN"
    IN  /\ state' = "SYN"
        /\ client' = ApplyPos([(IF keep THEN client ELSE NoPosition) EXCEPT !.seq0 = i], "SYN", i, 0)
        /\ server' = IF keep THEN server ELSE 0
        /\ AfterControl(IF keep THEN found ELSE NotSearched, IF keep THEN reasm ELSE Idle,
                        IF keep THEN delayed ELSE <<>>)

(* So does a SYN/ACK of another connection, which is counted before the    *)
(* counter is cleared; one without entry creates it.                       *)
TrackSynAck(w) ==
    LET keep == state = "SYN" \/ (state # "none" /\ client.seq0 = isn)
        c == IF keep THEN client ELSE NoPosition
    IN  /\ state' = IF keep THEN state ELSE "SYN"
        /\ client' = Acknowledge([c EXCEPT !.seq0 = IF @ = 0 THEN isn ELSE @], Plus(isn, 1))
        /\ server' = IF keep \/ state = "none" THEN w ELSE 0
        /\ AfterControl(IF keep THEN found ELSE NotSearched, IF keep THEN reasm ELSE Idle,
                        IF keep THEN delayed ELSE <<>>)
        /\ high' = IF keep THEN high ELSE 0
        /\ born' = IF keep THEN born ELSE 0

(* The state after a packet that is no SYN, with FIN or RST or without.    *)
Onward(fin) == IF fin THEN "FIN" ELSE IF state = "SYN" THEN "ESTABLISHED" ELSE state

-----------------------------------------------------------------------------
(* A data segment of the client, dpi_desync_tcp_packet_play: held back, or *)
(* the one that completes a hello, or passed on.                           *)

Segment(off, len) ==
    [id |-> arrived + 1, conn |-> opens, off |-> off, len |-> len, seq |-> Plus(isn, off)]

(* The tracker is fed: the entry's position and state.                     *)
TrackData(p, fin) ==
    /\ state # "none"
    /\ state' = Onward(fin)
    /\ client' = ApplyPos(client, Onward(fin), p.seq, p.len)
    /\ high' = IF p.off + p.len > high THEN p.off + p.len ELSE high
    /\ arrived' = arrived + 1
    /\ UNCHANGED <<server, born>>

(* No entry: nothing is remembered and the segment goes on.                *)
DataUntracked(p) ==
    /\ state = "none"
    /\ \E how \in {"plain", "desync"} : Leave(<<p>>, <<how>>)
    /\ arrived' = arrived + 1
    /\ UNCHANGED <<entry, high, born>>

(* No profile: play_prolog returns and the segment goes on as it is.       *)
DataUnmatched(p, fin) ==
    /\ TrackData(p, fin)
    /\ \E dp \in Profiles :
          /\ Searched(found, dp).profile = "none"
          /\ found' = Searched(found, dp)
    /\ Leave(<<p>>, <<"plain">>)
    /\ UNCHANGED <<reasm, delayed>>

(* The protocol is known from the first segment of a hello on.             *)
Probed(f, p) == IF ~Feeds(p) /\ IsHello(p) THEN [f EXCEPT !.l7 = TRUE] ELSE f

Matched(dp) == Searched(found, dp).profile = "some"
Queued(p) == WithSegment(p).size > 0 /\ Len(Held(p)) < DelayedMax
Full(r) == r.size > 0 /\ r.size_present = r.size

(* Held back, for the hello is not complete.                               *)
DataDelayed(p, fin) ==
    /\ TrackData(p, fin)
    /\ Queued(p) /\ ~Full(WithSegment(p))
    /\ \E dp \in Profiles :
          /\ Matched(dp)
          /\ found' = Probed(Searched(found, dp), p)
    /\ reasm' = WithSegment(p)
    /\ delayed' = Append(Held(p), p)
    /\ Leave(SentAway(p), Flush(SentAway(p)))

(* The hello is complete: replay_queue decides on each held segment, with  *)
(* the whole hello before it, and reasm_client_fin ends the session.       *)
DataCompletes(p, fin) ==
    /\ TrackData(p, fin)
    /\ Queued(p) /\ Full(WithSegment(p))
    /\ LET pieces == Append(Held(p), p)
           n == Len(pieces)
       IN  \E a \in Answers :
              LET after == Replayed(Probed(Searched(found, a.first), p), a, n)
              IN  /\ Matched(a.first)
                  /\ found' = after[n]
                  /\ Leave(SentAway(p) \o pieces,
                           Flush(SentAway(p)) \o
                             [i \in 1 .. n |-> IF Applies(after[i]) THEN "desync" ELSE "plain"])
    /\ reasm' = Idle
    /\ delayed' = <<>>

(* Passed on: no hello, a whole one, one that is not to be reassembled, or *)
(* no room in the queue.  Whatever is held leaves first, when the session  *)
(* is cancelled: by the queue's refusal, a segment that is no hello, or a  *)
(* negative search.                                                        *)
DataPassed(p, fin) ==
    /\ TrackData(p, fin)
    /\ ~Queued(p)
    /\ \E host \in BOOLEAN : \E o \in Outcomes(Probed(found, p), host) :
          LET refused == WithSegment(p).size > 0
              cancelled == refused \/ ~Applies(o.found) \/ ~IsHello(p)
              away == SentAway(p) \o (IF cancelled THEN Held(p) ELSE <<>>)
          IN  /\ o.matched
              /\ host => IsHello(p) /\ ~Incomplete(p) /\ ~refused
              /\ found' = o.found
              /\ Leave(Append(away, p),
                       Append(Flush(away), IF Applies(o.found) THEN "desync" ELSE "plain"))
              /\ delayed' = IF cancelled THEN <<>> ELSE Held(p)
    /\ reasm' = Idle

Data(p, fin) ==
    \/ DataUntracked(p) \/ DataUnmatched(p, fin)
    \/ DataDelayed(p, fin) \/ DataCompletes(p, fin) \/ DataPassed(p, fin)

-----------------------------------------------------------------------------
(* The two ends.  Where packets may be missed those of the handshake, too. *)

(* The units of this connection that the server has got without a gap.     *)
Delivered ==
    CHOOSE n \in 0 .. Length :
        {opens} \X (1 .. n) \subseteq got /\ <<opens, n + 1>> \notin got

(* A stream may be longer than the sequence numbers, but no segment comes  *)
(* that is half of them from the highest data that the connection's entry  *)
(* has seen.                                                               *)
Near(off, len) ==
    born = opens => off + len <= high + MaxLag /\ high <= off + len + MaxLag

Missed == misses /\ decisions' = <<>> /\ UNCHANGED <<entry, released, got, high, born>>

Extra == extras < MaxExtras /\ extras' = extras + 1

(* The client opens a connection from the same address and port.           *)
Open(i) ==
    /\ IF opens = 0 THEN UNCHANGED extras ELSE Extra
    /\ opens' = opens + 1 /\ isn' = i /\ phase' = "opening" /\ next' = 1 /\ window' = 0
    /\ \/ TrackSyn(i) /\ high' = 0 /\ born' = opens'
       \/ Missed
    /\ UNCHANGED <<misses, arrived>>

(* The server accepts it. *)
Accept(w) ==
    /\ phase = "opening" /\ (misses => w \in MissWindows)
    /\ phase' = "open" /\ window' = w
    /\ TrackSynAck(w) \/ Missed
    /\ UNCHANGED <<opens, isn, next, extras, misses, arrived>>

(* The next new data, within the window of what the server has got.        *)
Send(len, fin) ==
    /\ phase = "open" /\ next + len - 1 <= Length
    /\ next + len - 1 <= Delivered + window
    /\ Near(next, len)
    /\ next' = next + len
    /\ phase' = IF fin THEN "closed" ELSE phase
    /\ Data(Segment(next, len), fin)
    /\ UNCHANGED <<opens, isn, window, extras, misses>>

(* Data sent before comes again, late, or in another segmentation.         *)
SendAgain(off, len) ==
    /\ opens > 0 /\ off + len <= next /\ Near(off, len)
    /\ Extra
    /\ Data(Segment(off, len), FALSE)
    /\ UNCHANGED <<phase, opens, isn, window, next, misses>>

(* New data is lost on its way to the filter.                              *)
LoseBefore(len) ==
    /\ misses /\ phase = "open"
    /\ next + len - 1 <= Length /\ next + len - 1 <= Delivered + window
    /\ Extra
    /\ next' = next + len
    /\ decisions' = <<>>
    /\ UNCHANGED <<phase, opens, isn, window, misses, entry, arrived, released, got, high, born>>

(* The SYN again: late only where packets may be overtaken.                *)
SynAgain ==
    /\ phase # "closed"
    /\ misses \/ state = "SYN"
    /\ Extra
    /\ TrackSyn(isn) /\ high' = 0 /\ born' = opens
    /\ UNCHANGED <<phase, opens, isn, window, next, misses, arrived>>

SynAckAgain ==
    /\ phase = "open"
    /\ Extra
    /\ TrackSynAck(window)
    /\ UNCHANGED <<phase, opens, isn, window, next, misses, arrived>>

(* A packet without data, or a reply: ACK, FIN or RST.                     *)
ClientControl(fin) ==
    /\ phase = "open" /\ state # "none"
    /\ phase' = IF fin THEN "closed" ELSE phase
    /\ state' = Onward(fin)
    /\ client' = ApplyPos(client, Onward(fin), Plus(isn, next), 0)
    /\ AfterControl(found, reasm, delayed)
    /\ UNCHANGED <<server, opens, isn, window, next, extras, misses, arrived, high, born>>

ServerControl(fin) ==
    /\ phase = "open" /\ state # "none"
    /\ phase' = IF fin THEN "closed" ELSE phase
    /\ state' = Onward(fin)
    /\ client' = Acknowledge(client, Plus(isn, Delivered + 1))
    /\ server' = window
    /\ AfterControl(found, reasm, delayed)
    /\ UNCHANGED <<opens, isn, window, next, extras, misses, arrived, high, born>>

(* ConntrackPoolPurge: an idle entry goes when some packet comes.  Only an *)
(* entry of a closed connection is idle, unless packets may be missed.     *)
Purge ==
    /\ state # "none" /\ (misses \/ phase = "closed")
    /\ state' = "none" /\ client' = NoPosition /\ server' = 0 /\ found' = NotSearched
    /\ reasm' = Idle /\ delayed' = <<>> /\ high' = 0 /\ born' = 0
    /\ decisions' = <<>>
    /\ UNCHANGED <<ends, arrived, released, got>>

-----------------------------------------------------------------------------
Init ==
    /\ state = "none" /\ client = NoPosition /\ server = 0 /\ found = NotSearched
    /\ reasm = Idle /\ delayed = <<>>
    /\ phase = "closed" /\ opens = 0 /\ isn = 0 /\ window = 0 /\ next = 1 /\ extras = 0
    /\ misses \in BOOLEAN
    /\ arrived = 0 /\ released = <<>> /\ got = {} /\ decisions = <<>> /\ high = 0 /\ born = 0

Next ==
    \/ \E i \in Isns : Open(i)
    \/ \E w \in Windows : Accept(w)
    \/ \E len \in 1 .. MaxSegment :
          \/ \E fin \in BOOLEAN : Send(len, fin)
          \/ \E off \in 1 .. Length : SendAgain(off, len)
          \/ LoseBefore(len)
    \/ SynAgain \/ SynAckAgain
    \/ \E fin \in BOOLEAN : ClientControl(fin) \/ ServerControl(fin)
    \/ Purge

Spec == Init /\ [][Next]_vars

(* The client sends what the window allows, and the entry of a connection  *)
(* that has ended is purged: later packets of any connection see to it.    *)
Fairness ==
    /\ WF_vars(\E len \in 1 .. MaxSegment : Send(len, FALSE))
    /\ WF_vars(phase = "closed" /\ Purge)

FairSpec == Spec /\ Fairness

-----------------------------------------------------------------------------
(* Safety *)

(* A segment is held back exactly while a ClientHello is being assembled   *)
(* that is not yet complete, and never more of them than the queue takes:  *)
(* none is stranded by a session that failed, was cancelled or finished.   *)
HeldWhileReassembling ==
    /\ Busy <=> delayed # <<>>
    /\ Busy => reasm.size_present < reasm.size
    /\ Len(delayed) <= DelayedMax
    /\ state \in {"none", "SYN"} => delayed = <<>>
    /\ delayed # <<>> => found.profile = "some"

Start == Minus(reasm.seq, reasm.size_present)

(* The held segments carry every unit of the hello assembled so far, and   *)
(* the first of them is the beginning of the hello: what a strategy relies *)
(* on that sends the whole hello in place of the first piece.              *)
PiecesMakeHello ==
    delayed # <<>> =>
        /\ Head(delayed).off \in DOMAIN Hello /\ Head(delayed).seq = Start
        /\ reasm.size = Hello[Head(delayed).off]
        /\ \A k \in 0 .. reasm.size_present - 1 : \E i \in DOMAIN delayed :
              Minus(Plus(Start, k), delayed[i].seq) < delayed[i].len

(* replay_queue's offset of a held segment, which Lua is given as          *)
(* reasm_offset, with the segment lies within the hello, unless the        *)
(* segment begins before it.                                               *)
Offset(i) == Minus(delayed[i].seq, Head(delayed).seq)
OffsetsInHello ==
    \A i \in DOMAIN delayed :
        Offset(i) + delayed[i].len <= reasm.size \/ ~NotBefore(delayed[i].seq, Head(delayed).seq)

(* What the entry holds is the beginning of one ClientHello, in pieces.    *)
EntryInv == TypeOK /\ HeldWhileReassembling /\ PiecesMakeHello /\ OffsetsInHello

(* Where the entry has seen the connection's SYN, uppos is the end of the  *)
(* data seen, across the wrap: retransmissions are told from new data.     *)
RetransmissionsAreTold ==
    born = opens /\ born > 0 => client.uppos = Plus(isn, high)

(* The tracker's entry: what it holds and what it knows of the client.     *)
TrackerInv == EntryInv /\ RetransmissionsAreTold

(* The pieces of one hello meet one decision, though the first reveals the *)
(* host name and may change the profile under the others.                  *)
OneDecision ==
    [][\A i, j \in DOMAIN decisions' :
          decisions'[i] # "flushed" /\ decisions'[j] # "flushed" => decisions'[i] = decisions'[j]]_vars

Path == INSTANCE PacketPath WITH held <- Ids(delayed), gone <- released

(* The client's data leaves in the order it came, none twice and none left *)
(* behind but with the entry that held it: the filter implements           *)
(* PacketPath.                                                             *)
KeepsOrder == Path!Spec

-----------------------------------------------------------------------------
(* Liveness *)

(* Where the filter sees every packet, a client that sends on within the   *)
(* window never waits for ever for its own hello to leave.                 *)
HelloLeaves == ~misses /\ delayed # <<>> ~> delayed = <<>>
=============================================================================
