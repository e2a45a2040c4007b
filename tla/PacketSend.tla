----------------------------- MODULE PacketSend -----------------------------
(***************************************************************************)
(* What a Lua strategy does with the packet it is called for: it changes   *)
(* the dissect, sends it in TCP segments and IP fragments                  *)
(* (rawsend_dissect_segmented, rawsend_dissect_ipfrag, ipfrag2 of          *)
(* lua/zapret-lib.lua over rawsend_dissect of nfq2/lua.c), and returns a   *)
(* verdict, after which desync() of nfq2/desync.c puts the packet together *)
(* again or not.                                                           *)
(***************************************************************************)
EXTENDS PacketForms

CONSTANTS
    Received,       \* the packets that come from the queue
    Payloads,       \* what a strategy puts for the payload
    Sendings,       \* the options of a sending, see Sending below
    SeqSpace,       \* 2^32: the range of TCP sequence numbers
    Idents,         \* the random numbers for fragments
    MaxEdits,       \* bound on the changes a strategy makes
    MaxSends        \* bound on its sendings

\* A sending: [mss, frag, pos, disorder, idmode, repeats, keepsum, badsum].
ASSUME PacketSendAssumption ==
    /\ Word16 \in Nat \ {0} /\ BufMax \in Nat /\ SeqSpace \in Nat \ {0}
    /\ Idents \subseteq 1..(Word16 - 1)
    /\ MaxEdits \in Nat /\ MaxSends \in Nat
    /\ \A o \in Sendings : o.mss \in Nat /\ o.pos \in Nat /\ o.repeats \in Nat \ {0}

VARIABLES
    pkt,        \* the packet from the queue
    dis,        \* desync.dis
    phase,      \* "lua", "sending" or "done"
    opt,        \* the options of the sending
    asked,      \* the dissect it was given
    parts,      \* the segments still to be sent
    next_id,    \* desync.ip_id
    wire,       \* what the sending has put on the wire: [part, p]
    res,        \* what it returned
    edits, sends,
    out         \* the packet that goes on: pkt, another, or Bad when dropped

vars == <<pkt, dis, phase, opt, asked, parts, next_id, wire, res, edits, sends, out>>

NoId == -1
NoSending == [mss |-> 0]

Init ==
    /\ pkt \in Received
    /\ dis = Dissect(pkt)
    /\ phase = IF dis.v = 0 THEN "done" ELSE "lua"
    /\ opt = NoSending /\ asked = NoPacket /\ parts = <<>> /\ wire = <<>> /\ res = FALSE
    /\ next_id = NoId
    /\ edits = 0 /\ sends = 0
    /\ out = pkt

-----------------------------------------------------------------------------
\* Changes of the dissect

Editing == phase = "lua" /\ edits < MaxEdits

Edit(d) ==
    /\ edits' = edits + 1
    /\ dis' = d
    /\ UNCHANGED <<pkt, phase, opt, asked, parts, next_id, wire, res, sends, out>>

ReplacePayload == Editing /\ \E s \in Payloads : Edit([dis EXCEPT !.payload = s])

\* insert_ip6_exthdr; idx 1 is before all, Len + 1 behind all.
Inserted(d, idx, type, data) ==
    LET next == IF idx = 1 THEN d.ip.nxt ELSE d.ext[idx - 1].next
        h == [type |-> type, next |-> next, data |-> data]
        prev == IF idx = 1 THEN [d EXCEPT !.ip.nxt = type]
                ELSE [d EXCEPT !.ext[idx - 1].next = type]
    IN  [prev EXCEPT !.ext = InsertAt(@, idx, h)]

\* apply_fooling: ip6_hopbyhop, ip6_destopt, ip6_ah.
InsertExt ==
    /\ Editing /\ dis.v = 6
    /\ LET zeros == [i \in 1..6 |-> <<"d", 0>>] IN
         \/ Edit(Inserted(dis, 1, "hop", zeros))
         \/ \E type \in {"dst", "ah"} : Edit(Inserted(dis, Len(dis.ext) + 1, type, zeros))

\* del_ip6_exthdr
DeleteExt ==
    /\ Editing /\ dis.v = 6
    /\ \E idx \in 1..Len(dis.ext) :
         LET cut == [dis EXCEPT !.ext = RemoveAt(@, idx)]
             next == dis.ext[idx].next
         IN  Edit(IF idx = 1 THEN [cut EXCEPT !.ip.nxt = next]
                  ELSE [cut EXCEPT !.ext[idx - 1].next = next])

Md5 == [kind |-> "md5", data |-> [i \in 1..16 |-> <<"d", 0>>]]

\* apply_fooling: tcp_md5 and tcp_nop_del.
AddMd5 ==
    /\ Editing /\ dis.l4 = "tcp" /\ \A i \in 1..Len(dis.opts) : dis.opts[i].kind # "md5"
    /\ Edit([dis EXCEPT !.opts = Append(@, Md5)])

DeleteNops ==
    /\ Editing /\ dis.l4 = "tcp"
    /\ Edit([dis EXCEPT !.opts = SelectSeq(@, LAMBDA o : o.kind # "nop")])

\* dis_reverse
DisReverse ==
    Editing /\
    LET swap(f) == [f EXCEPT !.src = f.dst, !.dst = f.src]
        l3 == [dis EXCEPT !.ip = swap(@)]
    IN  IF dis.l4 = "tcp" THEN
            Edit([l3 EXCEPT !.h = [swap(@) EXCEPT !.seq = dis.h.ack, !.ack = dis.h.seq]])
        ELSE IF dis.l4 = "udp" THEN Edit([l3 EXCEPT !.h = swap(@)])
        ELSE Edit(l3)

-----------------------------------------------------------------------------
\* Lengths as Lua has them: l3_extra_len, l4_len, packet_len.

L3ExtraLen(d, n) ==
    IF d.v = 4 THEN RoundUp(Len(d.ipopts), 4)
    ELSE FoldLeft(LAMBDA sum, h :
                    sum + RoundUp(2 + Len(h.data), IF h.type = "ah" THEN 4 ELSE 8),
                  0, Upto(d.ext, n))
L3BaseLen(d) == IF d.v = 4 THEN Ip4Size ELSE Ip6Size
L3Len(d) == L3BaseLen(d) + L3ExtraLen(d, Len(d.ext))

L4BaseLen(d) ==
    IF d.l4 = "tcp" THEN TcpSize ELSE IF d.l4 = "udp" THEN UdpSize
    ELSE IF d.l4 = "icmp" THEN IcmpSize ELSE 0
L4ExtraLen(d) ==
    RoundUp(FoldLeft(LAMBDA sum, o :
                       sum + IF o.kind \in {"nop", "end"} THEN 1 ELSE 2 + Len(o.data),
                     0, d.opts), 4)

PacketLen(d) == L3Len(d) + L4BaseLen(d) + L4ExtraLen(d) + Len(d.payload)

\* frag_idx of ipfrag2: behind the last hop-by-hop, routing or first
\* destination options header.
FragIdx(ext) ==
    LET dsts == {i \in 1..Len(ext) : ext[i].type = "dst"}
        before == {i \in 1..Len(ext) :
                     \/ ext[i].type \in {"hop", "routing"}
                     \/ i \in dsts /\ \A j \in dsts : i <= j}
    IN  1 + (IF before = {} THEN 0 ELSE CHOOSE i \in before : \A j \in before : j <= i)

FragHeaderInUnits(off, more, ident) ==
    <<(<<"frag", [off |-> off \div 8, more |-> more, id |-> ident]>>)>> \o Octets(5)
FragHeader(off, more, ident) ==
    <<(<<"frag", [off |-> off, more |-> more, id |-> ident]>>)>> \o Octets(5)

\* ipfrag2: two dissects that ask for the fragments before and from pos on, or
\* the dissect itself when pos is beyond its end.
IpFrag4(d, pos, id) ==
    LET l3 == L3Len(d)
        ask(off, mf, len) == [d EXCEPT !.ip.off = off, !.ip.mf = mf, !.ip.len = len,
                                       !.ip.id = IF @ = 0 THEN id ELSE @]
    IN  IF pos + l3 >= PacketLen(d) THEN <<d>>
        ELSE <<ask(0, TRUE, l3 + pos), ask(pos, FALSE, PacketLen(d) - pos)>>

IpFrag6(d, pos, id) ==
    LET idx == FragIdx(d.ext)
        extra == L3ExtraLen(d, idx - 1)
        ask(off, more, plen) ==
            [Inserted(d, idx, "frag", FragHeader(off, more, id)) EXCEPT !.ip.plen = plen]
    IN  IF pos + Ip6Size + extra >= PacketLen(d) THEN <<d>>
        ELSE <<ask(0, TRUE, extra + 8 + pos),
               ask(pos, FALSE, PacketLen(d) - Ip6Size + 8 - pos)>>

PosIsWrong(d, pos) == pos % 8 # 0 \/ pos + L3Len(d) >= Word16

\* rawsend_dissect_ipfrag: the dissects to be sent, one that cannot be fragmented
\* as it is.
Frags(d, o, id) ==
    IF ~o.frag THEN <<d>>
    ELSE LET f == IF d.v = 4 THEN IpFrag4(d, o.pos, id) ELSE IpFrag6(d, o.pos, id)
         IN  IF o.disorder THEN Reverse(f) ELSE f

Reconstruction(o, preserve) ==
    [preserve |-> preserve, last |-> "none", keepsum |-> o.keepsum, badsum |-> o.badsum]

\* rawsend_dissect_segmented: the segments of a dissect that has more payload
\* than the mss leaves room for.
MaxData(d, mss) == mss - (L3ExtraLen(d, Len(d.ext)) + L4ExtraLen(d))

SegmentUrgentKept(d, pos, max) ==
    [d EXCEPT !.payload = SubSeq(d.payload, pos, Least(pos + max - 1, Len(d.payload))),
              !.h.seq = (@ + pos - 1) % SeqSpace]
Segment(d, pos, max) ==
    LET data == SubSeq(d.payload, pos, Least(pos + max - 1, Len(d.payload)))
        urp == d.h.urp
        keeps == d.h.urg /\ urp = 0 /\ pos = 1
        within == d.h.urg /\ pos <= urp /\ urp < pos + Len(data)
    IN  [d EXCEPT !.payload = data,
                  !.h.seq = (@ + pos - 1) % SeqSpace,
                  !.h.urg = keeps \/ within,
                  !.h.urp = IF keeps \/ ~d.h.urg THEN urp
                            ELSE IF within THEN urp - pos + 1 ELSE 0]

Segments(d, mss) ==
    LET max == MaxData(d, mss) IN
    IF d.l4 # "tcp" THEN <<d>>
    ELSE IF max <= 0 THEN <<>>
    ELSE IF Len(d.payload) <= max THEN <<d>>
    ELSE [i \in 1..((Len(d.payload) + max - 1) \div max) |-> Segment(d, 1 + (i - 1) * max, max)]

StartSend(o) ==
    /\ phase = "lua" /\ sends < MaxSends
    /\ sends' = sends + 1
    /\ opt' = o /\ asked' = dis
    /\ parts' = Segments(dis, o.mss)
    /\ phase' = IF parts' = <<>> THEN "lua" ELSE "sending"
    /\ wire' = <<>> /\ res' = FALSE
    /\ UNCHANGED <<pkt, dis, next_id, edits, out>>

\* apply_ip_id: "seq" counts on from the packet's own number.
IdOf(d, ident) ==
    CASE opt.idmode = "seq" -> IF next_id = NoId THEN d.ip.id ELSE next_id
      [] opt.idmode = "zero" -> 0
      [] opt.idmode = "rnd" -> ident
      [] opt.idmode = "none" -> d.ip.id
WithId(d, ident) == IF d.v = 4 THEN [d EXCEPT !.ip.id = IdOf(d, ident)] ELSE d

\* What is handed to rawsend for a segment, in its order; Bad: it cannot be put
\* together.  Fragments keep the next fields that they have.
Repeated(frags) ==
    FlattenSeq([i \in 1..Len(frags) |->
        [r \in 1..opt.repeats |->
            Reconstruct(frags[i], Reconstruction(opt, Len(frags) > 1))]])
Outgoing(d, ident) == Repeated(Frags(d, opt, ident))

\* The Lua function ends with an error, and the packet goes as it came.
LuaError ==
    /\ phase' = "done"
    /\ UNCHANGED <<pkt, dis, opt, asked, parts, next_id, res, edits, sends, out>>

WrongPosition ==
    /\ phase = "sending" /\ opt.frag /\ PosIsWrong(Head(parts), opt.pos)
    /\ LuaError /\ UNCHANGED wire

\* A segment is sent; n of what it consists of leave before a rawsend fails
\* or one cannot be put together.
SendSegment ==
    /\ phase = "sending"
    /\ opt.frag => ~PosIsWrong(Head(parts), opt.pos)
    /\ \E ident \in Idents : \E d \in {WithId(Head(parts), ident)} :
       \E all \in {Outgoing(d, ident)} : \E n \in 0..Len(all) :
         /\ \A i \in 1..n : all[i] # Bad
         /\ wire' = wire \o [i \in 1..n |-> [part |-> Head(parts), p |-> all[i]]]
         /\ \/ n < Len(all) /\ all[n + 1] = Bad /\ LuaError
            \/ /\ n < Len(all) => all[n + 1] # Bad
               /\ parts' = IF n = Len(all) THEN Tail(parts) ELSE <<>>
               /\ phase' = IF parts' = <<>> THEN "lua" ELSE "sending"
               /\ res' = (n = Len(all) /\ parts' = <<>>)
               /\ next_id' = IF d.v = 4 /\ opt.idmode = "seq" THEN d.ip.id + 1
                             ELSE next_id
               /\ UNCHANGED <<pkt, dis, opt, asked, edits, sends, out>>

-----------------------------------------------------------------------------
\* The end of desync(): a packet that cannot be put together goes as it came.

Finish(o) ==
    /\ phase = "lua"
    /\ phase' = "done" /\ out' = o
    /\ UNCHANGED <<pkt, dis, opt, asked, parts, next_id, wire, res, edits, sends>>

VerdictPass == Finish(pkt)
VerdictDrop == Finish(Bad)

Whole(preserve) == [preserve |-> preserve, last |-> "none", keepsum |-> FALSE, badsum |-> FALSE]

VerdictModify ==
    /\ phase = "lua"
    /\ \E preserve \in BOOLEAN : \E p \in {Reconstruct(dis, Whole(preserve))} :
         Finish(IF p = Bad THEN pkt ELSE p)

Next ==
    \/ ReplacePayload \/ InsertExt \/ DeleteExt \/ AddMd5 \/ DeleteNops \/ DisReverse
    \/ \E o \in Sendings : StartSend(o)
    \/ WrongPosition \/ SendSegment
    \/ VerdictPass \/ VerdictDrop \/ VerdictModify

Spec == Init /\ [][Next]_vars

-----------------------------------------------------------------------------
\* Properties

HasFragHeader(d) == \E i \in 1..Len(d.ext) : IsFragment(d.ext[i])

\* Complete and no fragment, of one packet.
IsWhole(d) == d.v # 0 /\ ~d.frag /\ ~HasFragHeader(d)

SumIsRight(d, p) ==
    d.l4 # "none" => d.h.sum = L4Sum(d, From(p, Len(p) - L4BaseLen(d) - Len(OptionOctets(d.opts)) - Len(d.payload) + 1))

\* The table d and what the packet with the table r says are the same.  The
\* protocol of what is neither TCP, UDP nor ICMP is not among it: over IPv6 it goes
\* on as IPPROTO_NONE unless the next fields are kept.
SameTable(r, d) ==
    /\ r.v = d.v /\ r.l4 = d.l4 /\ r.frag = d.frag /\ r.payload = d.payload
    /\ r.ip.src = d.ip.src /\ r.ip.dst = d.ip.dst
    /\ [i \in 1..Len(r.ext) |-> <<r.ext[i].type, r.ext[i].data>>]
         = [i \in 1..Len(d.ext) |-> <<d.ext[i].type, d.ext[i].data>>]
    /\ d.l4 \in {"tcp", "udp"} => r.h.src = d.h.src /\ r.h.dst = d.h.dst
    /\ d.l4 = "tcp" => /\ r.h.seq = d.h.seq /\ r.h.ack = d.h.ack
                       /\ IsPrefix(Kept(d.opts), r.opts)
                       /\ \A i \in Len(Kept(d.opts))+1..Len(r.opts) : r.opts[i].kind = "nop"
Says(p, d) == SameTable(Dissect(p), d)

\* What a strategy made of the packet is what goes on: a receiver reads from it
\* the extension headers, options and payload of the table, and its lengths and
\* checksums are right (desync.c, 1071-1097, over lua.c, 2427-2675).  The
\* packet is no fragment and has no fragment header: such a one is cut as its
\* table asks.
ModifySendsDissect ==
    (phase = "done" /\ out \notin {pkt, Bad} /\ IsWhole(dis) /\ Len(out) < Word16) =>
      /\ Says(out, dis)
      /\ IF dis.v = 4 THEN Fields(out).len = Len(out) ELSE Fields(out).plen = Len(out) - Ip6Size
      /\ SumIsRight(Dissect(out), out)

\* A fragment that no strategy changed is put together as it came, but for the
\* checksum of IPv4, which is computed again: what the fields of its table do
\* not name (the header that follows a later fragment's) is kept by its octets
\* (lua.c, 2455-2505 and lua_reconstruct_ip6exthdr).
FragmentAsItCame ==
    (phase = "done" /\ out # Bad /\ dis.v # 0 /\ dis.frag /\ edits = 0) =>
      IF dis.v = 4 THEN WithSum(out, Fields(pkt).sum) = pkt ELSE out = pkt

\* What goes on is the packet its table tells of.
GoesOnAsTold == ModifySendsDissect /\ FragmentAsItCame

Sending == asked.v # 0 /\ IsWhole(asked) /\ ~opt.keepsum /\ ~opt.badsum

Offset(d) == (d.h.seq - asked.h.seq) % SeqSpace

\* The segments of a sending carry the payload it was given, each octet under
\* its sequence number and the urgent one as such; none is longer than the MSS
\* allows; and a sending that succeeds carries all of it (zapret-lib.lua,
\* 1232-1278).
SegmentsCarryThePayload ==
    (Sending /\ asked.l4 = "tcp" /\ ~opt.frag) =>
      \A arrived \in {[i \in 1..Len(wire) |-> Dissect(wire[i].p)]} :
        /\ \A i \in 1..Len(wire) : \A d \in {arrived[i]} :
             /\ d.payload = SubSeq(asked.payload, Offset(d) + 1, Offset(d) + Len(d.payload))
             /\ d.h.urg => /\ asked.h.urg
                           /\ (d.h.seq + d.h.urp) % SeqSpace = (asked.h.seq + asked.h.urp) % SeqSpace
             /\ SumIsRight(d, wire[i].p)
             /\ Len(wire[i].p) <= L3BaseLen(asked) + TcpSize + opt.mss
        /\ res => /\ \A k \in 1..Len(asked.payload) : \E i \in 1..Len(wire) :
                       Offset(arrived[i]) < k /\ k <= Offset(arrived[i]) + Len(arrived[i].payload)
                  /\ (asked.h.urg /\ asked.h.urp <= Len(asked.payload)) =>
                       \E i \in 1..Len(wire) : arrived[i].h.urg

\* What a receiver makes of the first and the second fragment of an IPv4 packet.
Second4(a, b) ==
    /\ Fields(a).mf /\ Fields(a).off = 0 /\ ~Fields(b).mf
    /\ Fields(b).off # 0 /\ Fields(a).id = Fields(b).id
Join4(a, b) ==
    LET l3 == 4 * Fields(a).hl
        whole == [a EXCEPT ![1][2].len = Len(a) + Len(b) - l3, ![1][2].mf = FALSE]
    IN  WithSum(Upto(whole, l3), Ip4Sum(Upto(whole, l3))) \o From(a, l3 + 1) \o From(b, l3 + 1)

Ends(p) == EndOfFragHeader(From(p, Ip6Size + 1), Fields(p).nxt, Ip6Size)
FragOf(p) == p[Ends(p) - 5][2]
Second6(a, b) ==
    /\ Ends(a) # 0 /\ Ends(b) # 0
    /\ FragOf(a).more /\ FragOf(a).off = 0 /\ ~FragOf(b).more
    /\ FragOf(b).off # 0 /\ FragOf(a).id = FragOf(b).id

\* The fragments a and b are those of whole, whose table is w.
Make6(a, b, da, whole, w, n) ==
    /\ From(a, Ends(a) + 1) \o From(b, Ends(b) + 1) = From(whole, Ends(a) - 7)
    /\ FragOf(b).off = Len(a) - Ends(a)
    /\ Ends(a) = Ends(b)
    /\ da.ext[n].next = IF n > Len(w.ext) THEN w.proto ELSE w.ext[n].type
    /\ \A k \in 1..(n - 1) : da.ext[k].type = w.ext[k].type /\ da.ext[k].data = w.ext[k].data
    /\ \A p \in {a, b} : Fields(p).plen = Len(p) - Ip6Size

\* The fragments of a segment make the packet that it is without fragmentation:
\* nothing of it is missing or twice, the headers before the fragment header
\* and what that one says of those behind it are the same, and in "seq" mode no
\* other segment's fragment has their number.  (ipfrag2, zapret-lib.lua,
\* 1480-1589, over lua.c, 2612-2664.)  A number that is 0 tells nothing.
FragmentsMakeThePacket ==
    (Sending /\ opt.frag) =>
      \A i, j \in 1..Len(wire) : \A a \in {wire[i].p}, b \in {wire[j].p} :
        /\ (asked.v = 4 /\ Second4(a, b) /\ Fields(a).id # 0
              /\ (wire[i].part = wire[j].part \/ opt.idmode = "seq")) =>
             Join4(a, b) = Reconstruct([wire[i].part EXCEPT !.ip.id = Fields(a).id], Whole(FALSE))
        /\ (asked.v = 6 /\ Second6(a, b) /\ wire[i].part = wire[j].part /\ asked.l4 # "none") =>
             \A whole \in {Reconstruct(wire[i].part, Whole(FALSE))} :
             \A w \in {Dissect(whole)}, da \in {Dissect(a)} :
               Make6(a, b, da, whole, w, FragIdx(w.ext))

\* What a sending puts on the wire carries what it was asked to send.
SendsAsAsked == SegmentsCarryThePayload /\ FragmentsMakeThePacket
=============================================================================
