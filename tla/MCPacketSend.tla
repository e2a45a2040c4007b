---------------------------- MODULE MCPacketSend ----------------------------
(***************************************************************************)
(* Small packets for TLC.  A length field holds less than 192 instead of   *)
(* less than 65536, and every header has its real size; the numbers of the *)
(* packets are next to the end of their ranges.                            *)
(***************************************************************************)
EXTENDS PacketSend

MCWord16 == 192
MCSeqSpace == 1000
MCIdents == {77}

Data(n) == [i \in 1..n |-> <<"d", i>>]
Zeros(n) == [i \in 1..n |-> <<"d", 0>>]

Ip4(opts, p, off, mf, n) ==
    Header("ip", [src |-> "a", dst |-> "b", p |-> p, id |-> MCWord16 - 1, off |-> off, mf |-> mf,
                  len |-> Ip4Size + Len(opts) + n, hl |-> 5 + Len(opts) \div 4,
                  sum |-> <<"rx">>], Ip4Size) \o opts
Ip6(nxt, plen) == Header("ip6", [src |-> "a", dst |-> "b", nxt |-> nxt, plen |-> plen], Ip6Size)
Tcp(opts, urg, urp) ==
    Header("tcp", [src |-> 1, dst |-> 2, seq |-> MCSeqSpace - 3, ack |-> 5, urg |-> urg, urp |-> urp,
                   off |-> 5 + Len(opts) \div 4, sum |-> <<"rx">>], TcpSize) \o opts
Udp(n) == Header("udp", [src |-> 1, dst |-> 2, ulen |-> UdpSize + n, sum |-> <<"rx">>], UdpSize)
Icmp == Header("icmp", [sum |-> <<"rx">>], IcmpSize)
Ext(next, n) == <<(<<"p", next>>), (<<"n", n>>)>> \o Zeros(6 + 8 * n)
Auth(next) == <<(<<"p", next>>), (<<"n", 1>>)>> \o Zeros(10)
Frag(next, off, more) ==
    <<(<<"p", next>>), (<<"n", 0>>), (<<"frag", [off |-> off, more |-> more, id |-> 9]>>)>> \o Octets(5)

Nop == <<(<<"k", "nop">>)>>
End == <<(<<"k", "end">>)>>
Mss == <<(<<"k", "mss">>), (<<"n", 4>>), (<<"d", 1>>), (<<"d", 2>>)>>

IpOpts == <<(<<"k", "ra">>), (<<"n", 4>>), (<<"d", 0>>), (<<"d", 0>>)>>
TcpOpts == Mss \o Nop \o End \o Nop \o Nop
OddOpts == Nop \o Mss \o Nop \o Nop \o Nop

\* A segment, a datagram, a message, another protocol and a later fragment.
V4Packets ==
    { Ip4(IpOpts, "tcp", 0, FALSE, 48) \o Tcp(TcpOpts, TRUE, 11) \o Data(20),
      Ip4(<<>>, "tcp", 0, FALSE, 32) \o Tcp(OddOpts, TRUE, 0) \o Data(4),
      Ip4(<<>>, "udp", 0, FALSE, 32) \o Udp(24) \o Data(24),
      Ip4(<<>>, "icmp", 0, FALSE, 14) \o Icmp \o Data(6),
      Ip4(<<>>, "gre", 0, FALSE, 18) \o Data(18),
      Ip4(<<>>, "udp", 8, FALSE, 12) \o Data(12) }

\* The same, the first fragment of a segment and a fragment that is all of its
\* packet.
V6Packets ==
    { Ip6("hop", 16 + 28 + 18) \o Ext("dst", 0) \o Ext("tcp", 0) \o Tcp(OddOpts, FALSE, 0) \o Data(18),
      Ip6("udp", 32) \o Udp(24) \o Data(24),
      Ip6("ah", 12 + 18) \o Auth("gre") \o Data(18),
      Ip6("hop", 8 + 8 + 12) \o Ext("frag", 0) \o Frag("udp", 8, FALSE) \o Data(12),
      Ip6("frag", 8 + 20 + 12) \o Frag("tcp", 0, TRUE) \o Tcp(<<>>, FALSE, 0) \o Data(12),
      Ip6("frag", 8 + 32) \o Frag("udp", 0, FALSE) \o Udp(24) \o Data(24) }

\* Cut within a header.
Torn == { Upto(Ip6("hop", 8) \o Ext("tcp", 0), 44), Upto(Ip4(<<>>, "tcp", 0, FALSE, 0), 12) }

MCReceived == V4Packets \union V6Packets \union Torn

MCPayloads == { <<>>, Data(3), Data(40), Data(150) }

One == [mss |-> 60, frag |-> FALSE, pos |-> 8, disorder |-> FALSE, idmode |-> "seq",
        repeats |-> 1, keepsum |-> FALSE, badsum |-> FALSE]

MCSendings ==
    { One, [One EXCEPT !.mss = 24, !.idmode = "none"], [One EXCEPT !.mss = 16],
      [One EXCEPT !.badsum = TRUE, !.idmode = "rnd"],
      [One EXCEPT !.keepsum = TRUE, !.repeats = 2, !.idmode = "zero"],
      [One EXCEPT !.mss = 24, !.frag = TRUE],
      [One EXCEPT !.frag = TRUE, !.pos = 24, !.disorder = TRUE, !.idmode = "none"],
      [One EXCEPT !.frag = TRUE, !.pos = 16, !.repeats = 2, !.idmode = "zero"],
      [One EXCEPT !.frag = TRUE, !.pos = 12] }
=============================================================================
