---------------------------- MODULE PacketForms ----------------------------
(***************************************************************************)
(* nfq2/darkmagic.c and the dissects of nfq2/lua.c: a raw IP packet is     *)
(* taken apart into a table for the Lua strategies (proto_dissect_l3l4,    *)
(* lua_push_dissect), and a table is put together into a raw packet        *)
(* (lua_reconstruct_dissect), which the C code may cut down to the IP      *)
(* fragment that the table asks for.                                       *)
(*                                                                         *)
(* A packet is the sequence of its octets, so that every length, offset    *)
(* and move is exact.  The first octet of a header stands for its fields,  *)
(* <<"ip", fields>>, and the others are Fill; an octet that is read by     *)
(* itself is <<"p", protocol>>, <<"n", number>>, <<"k", option kind>>; any *)
(* other is <<"d", tag>>.  An offset of fragment headers is in octets.     *)
(*                                                                         *)
(* A checksum is named by its kind and has what it was computed over;      *)
(* <<"bad">> is one spoilt on purpose.                                     *)
(***************************************************************************)
EXTENDS Integers, Sequences, SequencesExt

CONSTANTS
    Word16,         \* 2^16: the range of length and identification fields
    BufMax          \* RECONSTRUCT_MAX_SIZE

Fill == <<"+">>
Octets(n) == [i \in 1..n |-> Fill]
Header(tag, fields, size) == <<(<<tag, fields>>)>> \o Octets(size - 1)

Ip4Size == 20
Ip6Size == 40
TcpSize == 20
UdpSize == 8
IcmpSize == 8

From(s, i) == SubSeq(s, i, Len(s))
Upto(s, n) == SubSeq(s, 1, n)
Least(a, b) == IF a < b THEN a ELSE b
RoundUp(n, unit) == ((n + unit - 1) \div unit) * unit

\* The IPv6 extension headers that are known; "none" is IPPROTO_NONE.
ExtTypes == {"hop", "routing", "dst", "mobility", "hip", "shim", "frag", "ah"}

\* A header of the chain: `data' follows its next and length octets.
FragFields(h) == h.data[1][2]
IsFragment(h) == h.type = "frag"
Fragmented(ext) ==
    \E i \in 1..Len(ext) :
      IsFragment(ext[i]) /\ (FragFields(ext[i]).off # 0 \/ FragFields(ext[i]).more)

-----------------------------------------------------------------------------
\* Taking apart

ExtSize(type, s) ==
    IF type = "frag" THEN 8
    ELSE IF type = "ah" THEN 8 + 4 * s[2][2] ELSE 8 + 8 * s[2][2]

\* A header that a fragment with an offset leaves nothing behind.
LaterFragment(hdrs) ==
    hdrs # <<>> /\ IsFragment(Last(hdrs)) /\ FragFields(Last(hdrs)).off # 0

\* The loop over the extension headers.  s is what is left, beginning with a
\* header of this type; l4 tells that a payload of some protocol was reached.
RECURSIVE Walk(_, _, _)
Walk(s, type, hdrs) ==
    LET end(l4) == [ext |-> hdrs, rest |-> s, type |-> type, l4 |-> l4]
    IN  IF s = <<>> \/ LaterFragment(hdrs) THEN end(FALSE)
        ELSE IF type \notin ExtTypes THEN end(type # "none")
        ELSE IF Len(s) < 2 \/ (type = "frag" /\ Len(s) < 8) THEN end(FALSE)
        ELSE LET n == ExtSize(type, s) IN
             IF Len(s) < n THEN end(FALSE)
             ELSE Walk(From(s, n + 1), s[1][2],
                       Append(hdrs, [type |-> type, next |-> s[1][2],
                                     data |-> SubSeq(s, 3, n)]))

\* proto_find_ip6_exthdr: the octets up to the end of the fragment header that
\* comes first, 0 when there is none.
RECURSIVE EndOfFragHeader(_, _, _)
EndOfFragHeader(s, type, at) ==
    IF s = <<>> \/ type \notin ExtTypes THEN 0
    ELSE IF type = "frag" THEN at + 8
    ELSE IF Len(s) < 2 THEN 0
    ELSE LET n == ExtSize(type, s) IN
         IF Len(s) < n THEN 0 ELSE EndOfFragHeader(From(s, n + 1), s[1][2], at + n)

\* lua_pushf_tcphdr_options: an option that does not fit ends the list.
RECURSIVE OptionsOf(_)
OptionsOf(s) ==
    IF s = <<>> THEN <<>>
    ELSE IF s[1][2] = "end" THEN <<[kind |-> "end", data |-> <<>>]>>
    ELSE IF s[1][2] = "nop" THEN <<[kind |-> "nop", data |-> <<>>]>> \o OptionsOf(From(s, 2))
    ELSE IF Len(s) < 2 THEN <<>>
    ELSE IF s[2][2] < 2 \/ s[2][2] > Len(s) THEN <<>>
    ELSE <<[kind |-> s[1][2], data |-> SubSeq(s, 3, s[2][2])]>> \o OptionsOf(From(s, s[2][2] + 1))

Has(s, tag, size) == Len(s) >= size /\ s # <<>> /\ s[1][1] = tag
Fields(s) == s[1][2]

\* proto_check_*: the header is there as a whole.
IsIp4(s) == Has(s, "ip", Ip4Size) /\ Fields(s).hl >= 5 /\ Len(s) >= 4 * Fields(s).hl
IsIp6(s) == Has(s, "ip6", Ip6Size)
IsTcp(s) == Has(s, "tcp", TcpSize) /\ Fields(s).off >= 5 /\ Len(s) >= 4 * Fields(s).off
IsUdp(s) == Has(s, "udp", UdpSize) /\ Fields(s).ulen >= UdpSize /\ Len(s) >= Fields(s).ulen
IsIcmp(s) == Has(s, "icmp", IcmpSize)

NoPacket == [v |-> 0]
NoSum == <<"none">>

\* What the table says of the transport header and of what follows it.
Transport(proto, frag, s) ==
    LET none == [l4 |-> "none", h |-> [sum |-> NoSum], opts |-> <<>>, payload |-> s]
    IN  IF frag THEN none
        ELSE IF proto = "tcp" /\ IsTcp(s) THEN
            [l4 |-> "tcp", h |-> Fields(s),
             opts |-> OptionsOf(SubSeq(s, TcpSize + 1, 4 * Fields(s).off)),
             payload |-> From(s, 4 * Fields(s).off + 1)]
        ELSE IF proto = "udp" /\ IsUdp(s) THEN
            [l4 |-> "udp", h |-> Fields(s), opts |-> <<>>, payload |-> From(s, UdpSize + 1)]
        ELSE IF proto \in {"icmp", "icmp6"} /\ IsIcmp(s) THEN
            [l4 |-> "icmp", h |-> Fields(s), opts |-> <<>>, payload |-> From(s, IcmpSize + 1)]
        ELSE none

\* proto_dissect_l3l4, lua_push_dissect.  frag: the field frag_off is there.
Table(v, f, ipopts, ext, proto, frag, t) ==
    [v |-> v, ip |-> f, ipopts |-> ipopts, ext |-> ext, proto |-> proto, frag |-> frag,
     l4 |-> t.l4, h |-> t.h, opts |-> t.opts, payload |-> t.payload]

Dissect4(p) ==
    LET f == Fields(p)
        frag == f.off # 0 \/ f.mf
    IN  Table(4, f, SubSeq(p, Ip4Size + 1, 4 * f.hl), <<>>, f.p, frag,
              Transport(f.p, frag, SubSeq(p, 4 * f.hl + 1, f.len)))

Walked(f, w, proto) ==
    Table(6, f, <<>>, w.ext, proto, Fragmented(w.ext),
          Transport(proto, Fragmented(w.ext), w.rest))
Reached(f, w) == Walked(f, w, IF w.l4 THEN w.type ELSE f.nxt)
Dissect6(p) ==
    Reached(Fields(p), Walk(SubSeq(p, Ip6Size + 1, Ip6Size + Fields(p).plen), Fields(p).nxt, <<>>))

Dissect(p) ==
    IF IsIp4(p) /\ Fields(p).len <= Len(p) THEN Dissect4(p)
    ELSE IF IsIp6(p) /\ Ip6Size + Fields(p).plen <= Len(p) THEN Dissect6(p)
    ELSE NoPacket

-----------------------------------------------------------------------------
\* Putting together.  Options of a reconstruction:
\*   [preserve, last, keepsum, badsum]

Bad == <<>>

\* A checksum covers the octets with the checksum field empty, and but for
\* ICMP of IPv4 the addresses and the protocol.
Unsummed(s) == [s EXCEPT ![1][2].sum = NoSum]
L4Sum(d, s) ==
    IF d.v = 4 /\ d.l4 = "icmp" THEN <<"icmp", Unsummed(s)>>
    ELSE <<d.l4, {d.ip.src, d.ip.dst}, Unsummed(s)>>
Ip4Sum(s) == <<"ip", Unsummed(s)>>
WithSum(s, sum) == [s EXCEPT ![1][2].sum = sum]

\* lua_reconstruct_iphdr: options are filled up to four octets.
Ip4Header(d) ==
    LET size == Ip4Size + RoundUp(Len(d.ipopts), 4)
        pad == [i \in 1..(size - Ip4Size - Len(d.ipopts)) |-> <<"k", "end">>]
    IN  IF Len(d.ipopts) > 40 THEN Bad
        ELSE Header("ip", [d.ip EXCEPT !.hl = size \div 4, !.id = @ % Word16], Ip4Size) \o d.ipopts \o pad

\* lua_ip6_l4proto_from_dissect
L4Proto(d) ==
    IF d.l4 = "icmp" THEN (IF d.v = 4 THEN "icmp" ELSE "icmp6") ELSE d.l4

ExtFits(h) ==
    /\ Len(h.data) >= 6
    /\ IF h.type = "ah" THEN Len(h.data) < 1024 /\ (Len(h.data) + 2) % 4 = 0
       ELSE Len(h.data) < 2048 /\ (Len(h.data) + 2) % 8 = 0

SizeInEights(h) == (Len(h.data) + 2) \div 8 - 1
SizeOctet(h) ==
    IF h.type = "ah" THEN (Len(h.data) + 2) \div 4 - 2 ELSE (Len(h.data) + 2) \div 8 - 1

\* lua_reconstruct_ip6exthdr: a header tells the type of the one behind it, and
\* the last of them the protocol; or each tells what the table has.
NextByChain(ext, i, proto, preserve) ==
    IF i = Len(ext) THEN proto ELSE ext[i + 1].type
NextType(ext, i, proto, preserve) ==
    IF preserve THEN ext[i].next
    ELSE IF i = Len(ext) THEN proto ELSE ext[i + 1].type

ExtOctets(ext, proto, preserve) ==
    FlattenSeq([i \in 1..Len(ext) |->
        <<(<<"p", NextType(ext, i, proto, preserve)>>), (<<"n", SizeOctet(ext[i])>>)>>
          \o ext[i].data])

\* lua_reconstruct_ip6hdr
Ip6Header(d, proto, preserve) ==
    LET ext == ExtOctets(d.ext, proto, preserve)
        first == IF preserve THEN d.ip.nxt
                 ELSE IF d.ext = <<>> THEN proto ELSE d.ext[1].type
    IN  IF \E i \in 1..Len(d.ext) : ~ExtFits(d.ext[i]) THEN Bad
        ELSE Header("ip6", [d.ip EXCEPT !.nxt = first], Ip6Size) \o ext

\* lua_reconstruct_tcphdr_options: what follows an "end" is left out, and what
\* is missing to four octets is filled with "nop".
Kept(opts) ==
    LET ends == {i \in 1..Len(opts) : opts[i].kind = "end"}
    IN  IF ends = {} THEN opts ELSE Upto(opts, CHOOSE i \in ends : \A j \in ends : i <= j)

OptionOctet(o) ==
    IF o.kind \in {"nop", "end"} THEN <<(<<"k", o.kind>>)>>
    ELSE <<(<<"k", o.kind>>), (<<"n", 2 + Len(o.data)>>)>> \o o.data
Padded(s) == s \o [i \in 1..(RoundUp(Len(s), 4) - Len(s)) |-> <<"k", "nop">>]
AllOctets(opts) == FlattenSeq([i \in 1..Len(opts) |-> OptionOctet(opts[i])])
OptionOctets(opts) == Padded(AllOctets(Kept(opts)))

TcpWith(d, opts) ==
    IF Len(opts) > 40 THEN Bad
    ELSE Header("tcp", [d.h EXCEPT !.off = (TcpSize + Len(opts)) \div 4], TcpSize) \o opts
TcpHeader(d) == TcpWith(d, OptionOctets(d.opts))

\* The transport header and its payload; lengths and checksums as reconstructed.
L4Header(d, o) ==
    IF d.l4 = "tcp" THEN TcpHeader(d)
    ELSE IF d.l4 = "udp" THEN
        Header("udp", [d.h EXCEPT !.ulen = IF o.keepsum THEN @
                                           ELSE (UdpSize + Len(d.payload)) % Word16], UdpSize)
    ELSE Header("icmp", d.h, IcmpSize)
Summed(d, o, s) ==
    IF o.keepsum THEN s
    ELSE WithSum(s, IF o.badsum THEN <<"bad">> ELSE L4Sum(d, s))
Joined(d, o, header) == IF header = Bad THEN Bad ELSE Summed(d, o, header \o d.payload)
L4Octets(d, o) == IF d.l4 = "none" THEN d.payload ELSE Joined(d, o, L4Header(d, o))

\* The fragment of an IPv4 packet that ip_off and ip_len ask for, or the packet
\* with its length: l3 octets of header, then s.
Ip4Packet(header, s) ==
    LET l3 == Len(header)
        f == Fields(header)
        size == f.len - l3
        fix(hdr) == WithSum(hdr, Ip4Sum(hdr))
    IN  IF f.off = 0 /\ ~f.mf THEN
            fix([header EXCEPT ![1][2].len = (l3 + Len(s)) % Word16]) \o s
        ELSE IF f.len < l3 \/ f.len > l3 + Len(s) \/ f.off + size > Len(s) THEN Bad
        ELSE fix(header) \o SubSeq(s, f.off + 1, f.off + size)

\* The same for IPv6: what follows the fragment header is cut to the length of
\* the packet.  A header whose packet is not fragmented cuts as well.
Ip6Cut(p, ends, off, size) ==
    IF size < 0 \/ ends + off + size > Len(p) THEN Bad
    ELSE Upto(p, ends) \o SubSeq(p, ends + off + 1, ends + off + size)
Ip6Ended(p, ends) ==
    IF ends = 0 THEN [p EXCEPT ![1][2].plen = Len(p) - Ip6Size]
    ELSE Ip6Cut(p, ends, p[ends - 5][2].off, Fields(p).plen - (ends - Ip6Size))
Ip6Whole(p) ==
    Ip6Ended(p, EndOfFragHeader(SubSeq(p, Ip6Size + 1, Least(Ip6Size + Fields(p).plen, Len(p))),
                                Fields(p).nxt, Ip6Size))
Ip6Packet(header, s) == Ip6Whole(header \o s)

\* lua_reconstruct_dissect.  The payload of a fragment goes behind its headers
\* as it is, under the lengths and the protocols that the table has.
Assembled(d, header, s) ==
    IF header = Bad \/ (d.l4 = "tcp" /\ ~d.frag /\ s = Bad) THEN Bad
    ELSE IF Len(header) + Len(s) > BufMax THEN Bad
    ELSE IF d.frag THEN
        (IF d.v = 4 THEN WithSum(header, Ip4Sum(header)) ELSE header) \o s
    ELSE IF d.v = 4 THEN Ip4Packet(header, s) ELSE Ip6Packet(header, s)
Reconstruct(d, o) ==
    Assembled(d,
        IF d.v = 4 THEN Ip4Header(d)
        ELSE Ip6Header(d, IF o.last = "none" THEN L4Proto(d) ELSE o.last, o.preserve \/ d.frag),
        IF d.frag THEN d.payload ELSE L4Octets(d, o))
=============================================================================
