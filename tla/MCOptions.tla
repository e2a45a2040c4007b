------------------------------- MODULE MCOptions -------------------------------
(***************************************************************************)
(* Instances of Options: menus of a few options each.  What comes first in *)
(* a menu makes the case worth looking at.                                 *)
(***************************************************************************)
EXTENDS Options

Op(o, a) == [o |-> o, a |-> a]
Between(f, t) == [from |-> [mode |-> "n", pos |-> f], sep |-> "-", to |-> [mode |-> "n", pos |-> t]]
NoDriver == Op("intercept", FALSE)

MCFiles == {"h", "e", "i"}
MCContent == [f \in MCFiles |-> CASE f = "h" -> {"x"} [] f = "i" -> {"1"} [] OTHER -> {}]
MCKnown == {"all", "unknown", "known", "empty", "tls", "quic"}

\* Sections, templates and the instances of each.
Sections1 ==
    [first |-> <<NoDriver, Op("filter-tcp", <<One(443)>>)>>,
     then |-> <<Op("new", ""), Op("new", "t"), Op("template", ""), Op("template", "t"),
                Op("skip", ""), Op("import", "t"), Op("lua-desync", "f"),
                Op("payload", <<"tls", "quic">>), Op("in-range", Between(1, 2))>>]
Imports ==
    [first |-> <<NoDriver, Op("template", "t"), Op("payload", <<"tls">>), Op("lua-desync", "f"),
                 Op("filter-l3", <<"ipv4">>), Op("filter-l7", <<"tls">>),
                 Op("hostlist_auto", "e"), Op("cookie", "c"), Op("new", "")>>,
     then |-> <<Op("import", "t"), Op("new", ""), Op("lua-desync", "g"),
                Op("filter-l3", <<"ipv6">>), Op("filter-l7", <<"known">>),
                Op("filter-udp", <<Pair(400, 500)>>), Op("template", "t"), Op("name", "t"),
                Op("hostlist_auto", "h"), Op("out-range", Between(1, 2)),
                Op("hostlist-auto-fail-threshold", 2)>>]
\* Filters of packets.
Protocols ==
    [first |-> <<NoDriver>>,
     then |-> <<Op("new", ""), Op("filter-tcp", <<Negated(Pair(80, 442)), One(80)>>),
                Op("filter-tcp", <<One(0)>>), Op("filter-udp", <<AnyText>>),
                Op("filter-icmp", <<One(8), Pair(3, 1)>>), Op("filter-icmp", <<SkipText>>),
                Op("filter-ipp", <<One(47)>>), Op("filter-l3", <<"ipv4">>),
                Op("filter-l7", <<"tls", "all">>), Op("skip", "")>>]
Bad ==
    [first |-> <<NoDriver>>,
     then |-> <<Op("new", ""), Op("filter-tcp", <<One(65536)>>), Op("filter-tcp", <<Pair(2, 1)>>),
                Op("filter-icmp", <<One(256)>>), Op("filter-ipp", <<Pair(1, 2)>>),
                Op("filter-l7", <<"none">>), Op("filter-l3", <<"ipv5">>), Op("lua-desync", ""),
                Op("out-range", [from |-> [mode |-> "n", pos |-> 1], sep |-> "", to |-> NoPos]),
                Op("blob", [name |-> "b", size |-> 10, ofs |-> 9]),
                Op("blob", [name |-> "b", size |-> 10, ofs |-> 10]),
                Op("dry-run", ""), Op("version", ""), Op("?", "")>>]
\* Lists.
Hosts ==
    [first |-> <<NoDriver>>,
     then |-> <<Op("new", ""), Op("skip", ""), Op("hostlist", "h"), Op("hostlist", "e"),
                Op("hostlist_domains", <<"y">>), Op("hostlist_domains", <<"x", "z">>),
                Op("hostlist_exclude", "h"), Op("hostlist_exclude_domains", <<"z">>),
                Op("hostlist_auto", "e")>>]
Addresses ==
    [first |-> <<NoDriver, Op("server", TRUE)>>,
     then |-> <<Op("new", ""), Op("ipset", "i"), Op("ipset", "e"), Op("ipset_ip", <<"2">>),
                Op("ipset_exclude", "i"), Op("ipset_exclude_ip", <<"2", "3">>),
                Op("hostlist_auto", "e"), Op("skip", "")>>]
\* The capture filter.
Ports ==
    [first |-> <<>>,
     then |-> <<Op("server", TRUE), Op("tcp_out", <<One(80), Pair(443, 444)>>),
                Op("tcp_in", <<One(443)>>), Op("udp_out", <<Negated(One(443))>>),
                Op("udp_in", <<One(443)>>), Op("tcp_out", <<One(0)>>), Op("empty", TRUE),
                Op("dup", FALSE), Op("parts", {"m"})>>]
Others ==
    [first |-> <<Op("tcp_out", <<AnyText>>)>>,
     then |-> <<Op("lan", FALSE), Op("loopback", FALSE), Op("iface", 1), Op("icmp_in", <<One(8)>>),
                Op("icmp_out", <<SkipText>>), Op("icmp_out", <<Pair(3, 1)>>),
                Op("ipp_out", <<One(47)>>), Op("ipp_in", <<AnyText>>), Op("rawFilter", {"m"}),
                Op("raw", {"m"}), Op("wf-l3", <<"ipv4">>), Op("save", TRUE)>>]

MCMenus == <<Sections1, Imports, Protocols, Bad, Hosts, Addresses, Ports, Others>>

Flow(kind, port, host, ip) ==
    [v |-> "ipv4", kind |-> kind, port |-> port, type |-> 0, code |-> 0, proto |-> 6,
     l7 |-> "unknown", host |-> host, ip |-> ip, ipr |-> ""]
MCFlows ==
    {Flow("tcp", 443, h, a) : h \in {"", "x", "y", "z"}, a \in {"1", "2", "3"}}
      \cup {[Flow(k, p, "", "1") EXCEPT !.v = v] :
              k \in {"tcp", "udp"}, p \in {80, 443}, v \in {"ipv4", "ipv6"}}
      \cup {[Flow("icmp", 0, "", "1") EXCEPT !.type = t, !.code = c, !.proto = 1] :
              t \in {3, 8}, c \in {0, 1}}
      \cup {[Flow("ipp", 0, "", "1") EXCEPT !.proto = p] : p \in {47, 50}}
      \cup {[Flow(k, 443, "x", "1") EXCEPT !.l7 = l] : k \in {"tcp", "udp"}, l \in {"tls", "quic"}}
      \cup {[Flow("tcp", 443, "", "3") EXCEPT !.ipr = "2"]}

Seen(kind, dir, src, dst) ==
    [v |-> "ipv4", kind |-> kind, dir |-> dir, src |-> src, dst |-> dst, type |-> 0, code |-> 0,
     proto |-> IF kind = "tcp" THEN 6 ELSE 17, next |-> IF kind = "tcp" THEN 6 ELSE 17,
     sig |-> FALSE, data |-> TRUE,
     redirect |-> FALSE, loop |-> FALSE, lan |-> FALSE, iface |-> 1, impostor |-> FALSE,
     tag |-> ""]
Tcp == Seen("tcp", "out", 5000, 443)
MCWire ==
    {Seen(k, d, s, t) : k \in {"tcp", "udp"}, d \in {"in", "out"}, s \in {80, 443, 5000},
                        t \in {443, 444, 5000}}
      \cup {[Seen("tcp", d, s, t) EXCEPT !.data = FALSE, !.sig = g] :
              d \in {"in", "out"}, s \in {443, 5000}, t \in {443, 5000}, g \in BOOLEAN}
      \cup {[Seen("icmp", d, 0, 0) EXCEPT !.type = t, !.code = c, !.proto = 1, !.next = 1] :
              d \in {"in", "out"}, t \in {3, 8}, c \in {0, 1}}
      \cup {[Seen("ipp", d, 0, 0) EXCEPT !.proto = p, !.next = p] :
              d \in {"in", "out"}, p \in {47, 50}}
      \* Extension headers before the protocol, and one of the type that is asked for.
      \cup {[Seen("ipp", d, 0, 0) EXCEPT !.v = "ipv6", !.proto = p, !.next = n] :
              d \in {"in", "out"}, p \in {47, 50}, n \in {47, 60}}
      \cup {[Tcp EXCEPT !.v = "ipv6", !.dst = d, !.next = 60] : d \in {99, 443}}
      \cup {[Tcp EXCEPT !.tag = "m"], [Tcp EXCEPT !.v = "ipv6"], [Tcp EXCEPT !.loop = TRUE],
            [Tcp EXCEPT !.lan = TRUE], [Tcp EXCEPT !.iface = 2], [Tcp EXCEPT !.impostor = TRUE],
            [Tcp EXCEPT !.dst = 99, !.redirect = TRUE], [Tcp EXCEPT !.v = "ipv6", !.tag = "m"]}
=============================================================================
