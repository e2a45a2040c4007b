----------------------------- MODULE CaptureFilter -----------------------------
(***************************************************************************)
(* nfq2/nfqws.c: the --wf-... options and wf_make_filter, the filter of    *)
(* the packets that the driver hands to the program on Windows.            *)
(*                                                                         *)
(* The filter is a record of what wf_make_filter writes its text from, and *)
(* Passes is how the driver reads that text.  A raw part of a filter is    *)
(* the set of the tags of the packets it accepts.                          *)
(***************************************************************************)
EXTENDS Filters

VARIABLES
    wf,             \* what the options say
    filter          \* params.windivert_filter when it is made; "" before

\* The lists are texts as given: "none" is an empty buffer.
None == <<>>
NoWf == [iface |-> 0, ipv4 |-> TRUE, ipv6 |-> TRUE,
         tcp_in |-> None, tcp_out |-> None, udp_in |-> None, udp_out |-> None,
         icmp_in |-> None, icmp_out |-> None, ipp_in |-> None, ipp_out |-> None,
         empty |-> FALSE, parts |-> <<>>, rawFilter |-> <<>>, raw |-> <<>>,
         lan |-> TRUE, loopback |-> TRUE, save |-> FALSE, dup |-> TRUE]
NoFilter == [kind |-> "none"]

WfInit == wf = NoWf /\ filter = NoFilter

PortLists == {"tcp_in", "tcp_out", "udp_in", "udp_out"}
IcmpLists == {"icmp_in", "icmp_out"}
IppLists == {"ipp_in", "ipp_out"}

\* wf_make_pf refuses what pf_parse refuses, wf_make_icf and wf_make_ipf also a
\* list with nothing to add.
Adds(list) == \E i \in DOMAIN list : ModeOf(list[i]) # "SKIP"
WfGood(opt) ==
    \/ opt.o \in PortLists /\ AllItems(PfGood, opt.a)
    \/ opt.o \in IcmpLists /\ AllItems(IcfGood, opt.a) /\ Adds(opt.a)
    \/ opt.o \in IppLists /\ AllItems(IppGood, opt.a) /\ Adds(opt.a)
    \/ opt.o = "wf-l3" /\ \A i \in DOMAIN opt.a : opt.a[i] \in {"ipv4", "ipv6"}
    \/ opt.o \in {"iface", "empty", "lan", "loopback", "save", "dup",
                  "raw", "rawFilter", "parts"}

\* wf_make_l3 with the values that the last one left, both true at first.
WfL3(versions) == [wf EXCEPT !.ipv4 = @ \/ "ipv4" \in versions,
                             !.ipv6 = @ \/ "ipv6" \in versions]
WfSet(opt) ==
    CASE opt.o = "wf-l3" -> WfL3({opt.a[i] : i \in DOMAIN opt.a})
      [] opt.o = "parts" -> [wf EXCEPT !.parts = <<opt.a>> \o @]
      [] opt.o \in {"raw", "rawFilter"} -> [wf EXCEPT ![opt.o] = <<opt.a>>]
      [] OTHER -> [wf EXCEPT ![opt.o] = opt.a]

\* Something to capture: otherwise the program does not start.
Specified ==
    \/ \E f \in PortLists \cup IcmpLists \cup IppLists : wf[f] # None
    \/ wf.parts # <<>>

-----------------------------------------------------------------------------
\* wf_make_pf: the text of one item.  A packet's own ports are never 0, and
\* "0", which pf_match lets nothing through, becomes "!= 0" here.
PortText(pf, port) ==
    IF pf.from = pf.to
    THEN (port = pf.from) # pf.neg
    ELSE (port \in pf.from..pf.to) # pf.neg
PortsText(list, port) == \E i \in DOMAIN list : PortText(Pf(list[i]), port)
IcmpText(list, pkt) ==
    pkt.kind = "icmp" /\ \E i \in DOMAIN list : IcfMatch(pkt.type, pkt.code, Icf(list[i]))
\* wf_make_ipf: ip.Protocol or ipv6.NextHdr.  The driver does not go past the first
\* header after that of IPv6: next is its type, which is the protocol of a packet
\* only if it has no extension headers.
IppText(list, pkt) == \E i \in DOMAIN list : IppMatch(pkt.next, Ipp(list[i]))

\* The arguments of wf_make_filter: which port of a packet each list is of is
\* exchanged in server mode.
ArgsNotExchanged(server) == [out |-> "dst", in |-> "src"]
Args(server) ==
    IF server THEN [out |-> "src", in |-> "dst"] ELSE [out |-> "dst", in |-> "src"]
Made(server) == [kind |-> "made", wf |-> wf, sides |-> Args(server)]
OtherSide(side) == IF side = "src" THEN "dst" ELSE "src"

\* wf_make_filter, read by the driver.
HaveTcp(f) == f.wf.tcp_in # None \/ f.wf.tcp_out # None
Signals(pkt) == pkt.kind = "tcp" /\ pkt.sig
Prolog(f, pkt) ==
    /\ ~pkt.impostor
    /\ f.wf.loopback => ~pkt.loop
    /\ f.wf.iface # 0 => pkt.iface = f.wf.iface
    /\ f.wf.ipv4 # f.wf.ipv6 => pkt.v = IF f.wf.ipv4 THEN "ipv4" ELSE "ipv6"
    /\ HaveTcp(f) /\ ~f.wf.empty => pkt.kind # "tcp" \/ pkt.sig \/ pkt.data
    /\ f.wf.rawFilter # <<>> => pkt.tag \in f.wf.rawFilter[1]
TcpClause(f, pkt) ==
    /\ pkt.kind = "tcp"
    /\ \/ pkt.dir = "out" /\ PortsText(f.wf.tcp_out, pkt[f.sides.out])
       \/ pkt.dir = "in" /\ Signals(pkt) /\ PortsText(f.wf.tcp_out, pkt[OtherSide(f.sides.out)])
       \/ pkt.dir = "in" /\ PortsText(f.wf.tcp_in, pkt[f.sides.in])
       \/ pkt.dir = "out" /\ Signals(pkt) /\ PortsText(f.wf.tcp_in, pkt[OtherSide(f.sides.in)])
       \/ HaveTcp(f) /\ pkt.redirect
UdpClause(f, pkt) ==
    /\ pkt.kind = "udp"
    /\ \/ pkt.dir = "out" /\ PortsText(f.wf.udp_out, pkt[f.sides.out])
       \/ pkt.dir = "in" /\ PortsText(f.wf.udp_in, pkt[f.sides.in])
OtherClause(f, pkt) ==
    \/ \E i \in DOMAIN f.wf.parts : pkt.tag \in f.wf.parts[i]
    \/ pkt.dir = "in" /\ (IcmpText(f.wf.icmp_in, pkt) \/ IppText(f.wf.ipp_in, pkt))
    \/ pkt.dir = "out" /\ (IcmpText(f.wf.icmp_out, pkt) \/ IppText(f.wf.ipp_out, pkt))
NotLan(f, pkt) == f.wf.lan => ~pkt.lan

Passes(f, pkt) ==
    CASE f.kind = "raw" -> pkt.tag \in f.tags
      [] f.kind = "made" ->
           /\ Prolog(f, pkt) /\ NotLan(f, pkt)
           /\ TcpClause(f, pkt) \/ UdpClause(f, pkt) \/ OtherClause(f, pkt)
      [] OTHER -> FALSE
=============================================================================
