-------------------------------- MODULE Filters --------------------------------
(***************************************************************************)
(* nfq2/filter.c, the filter lists of pools.c and the parsers of nfqws.c:  *)
(* what the comma separated lists of a filter option are read as, and      *)
(* which packets they match.                                               *)
(*                                                                         *)
(* An item of a list is [form, neg, a, b] after its text: "any" is "*",    *)
(* "skip" is "-", "one" is a number, "pair" is a-b (of ports) or a:b (an   *)
(* ICMP type and code), neg is a "~" before it.                            *)
(***************************************************************************)
EXTENDS Integers, Sequences

Text(form, neg, a, b) == [form |-> form, neg |-> neg, a |-> a, b |-> b]
Texts == [form : {"any", "skip", "one", "pair"}, neg : BOOLEAN, a : Nat, b : Nat]
One(v) == Text("one", FALSE, v, v)
Pair(v, w) == Text("pair", FALSE, v, w)
Negated(t) == [t EXCEPT !.neg = TRUE]
AnyText == Text("any", FALSE, 0, 0)
SkipText == Text("skip", FALSE, 0, 0)
AllItems(Good(_), list) == \A i \in DOMAIN list : Good(list[i])
Mapped(Op(_), list) == [i \in DOMAIN list |-> Op(list[i])]

\* pf_parse: "~*" is no number, and 0 or 0-0 denies every port.
MaxPort == 65535
PfGood(t) == \/ t.form = "any" /\ ~t.neg
             \/ t.form \in {"one", "pair"} /\ t.a <= t.b /\ t.b <= MaxPort
Pf(t) == IF t.form = "any"
         THEN [from |-> 1, to |-> MaxPort, neg |-> FALSE]
         ELSE [from |-> t.a, to |-> t.b, neg |-> t.neg \/ (t.a = 0 /\ t.b = 0)]
PfMatch(port, pf) ==
    /\ port # 0
    /\ ((pf.from = 0 /\ pf.to = 0) \/ port \in pf.from..pf.to) # pf.neg

\* fltmode_parse, icf_parse, ipp_parse.
ModeOf(t) == CASE t.form = "any" -> "ANY" [] t.form = "skip" -> "SKIP"
               [] OTHER -> "FILTER"
MaxByte == 255
IcfGood(t) == ~t.neg /\ t.a <= MaxByte /\ t.b <= MaxByte
Icf(t) == [mode |-> ModeOf(t), type |-> t.a, coded |-> t.form = "pair",
           code |-> IF t.form = "pair" THEN t.b ELSE 0]
IcfMatch(type, code, icf) ==
    \/ icf.mode = "ANY"
    \/ icf.mode = "FILTER" /\ icf.type = type /\ (icf.coded => icf.code = code)
IppGood(t) == ~t.neg /\ t.form # "pair" /\ t.a <= MaxByte
Ipp(t) == [mode |-> ModeOf(t), proto |-> t.a]
IppMatch(proto, ipp) == ipp.mode = "ANY" \/ (ipp.mode = "FILTER" /\ ipp.proto = proto)

\* port_filters_match, icmp_filters_match, ipp_filters_match: no list matches all.
PortsMatch(list, port) == list = <<>> \/ \E i \in DOMAIN list : PfMatch(port, list[i])
IcmpMatch(list, type, code) ==
    list = <<>> \/ \E i \in DOMAIN list : IcfMatch(type, code, list[i])
IppsMatch(list, proto) == list = <<>> \/ \E i \in DOMAIN list : IppMatch(proto, list[i])

\* ..._deny_if_empty: an item that matches nothing.
OrDeny(list, item) == IF list = <<>> THEN <<item>> ELSE list
DenyPort == Pf(One(0))
DenyIcmp == Icf(SkipText)
DenyIpp == Ipp(SkipText)

-----------------------------------------------------------------------------
\* parse_l7_list and parse_l7p_list: names as a mask, where "all" ends the
\* parsing and stands for no mask.
ToAll(names) == {i \in DOMAIN names : \A j \in 1..(i - 1) : names[j] # "all"}
NamesGood(names, known) == \A i \in ToAll(names) : names[i] \in known \cup {"all"}
Mask(names) ==
    IF \E i \in DOMAIN names : names[i] = "all" THEN {}
    ELSE {names[i] : i \in DOMAIN names}

\* l7_proto_match and l7_payload_match: "known" is all but the names before it.
MaskMatch(name, mask) ==
    \/ mask = {} \/ name \in mask
    \/ "known" \in mask /\ name \notin {"all", "unknown", "empty", "known"}

-----------------------------------------------------------------------------
\* packet_pos_parse and packet_range_parse.  A range is written [from, sep, to],
\* a position [mode, pos]; NoPos is one that is left out.
NoPos == [mode |-> "", pos |-> 0]
PosAlways == [mode |-> "a", pos |-> 0]
PosNever == [mode |-> "x", pos |-> 0]
PosGood(p) == p.mode \in {"n", "d", "s", "p", "b", "x", "a"}
RangeGood(t) ==
    \/ t.from = PosNever
    \/ t.from = PosAlways /\ t.sep = ""
    \/ /\ t.sep \in {"-", "<"}
       /\ t.from = NoPos \/ PosGood(t.from)
       /\ t.to = NoPos \/ PosGood(t.to)
OrAlways(p) == IF p = NoPos THEN PosAlways ELSE p
PosRange(t) ==
    IF t.from = PosNever \/ t.sep = ""
    THEN [from |-> t.from, to |-> t.from, upper |-> FALSE]
    ELSE [from |-> OrAlways(t.from), to |-> OrAlways(t.to), upper |-> t.sep = "<"]
RangeAlways == [from |-> PosAlways, to |-> PosAlways, upper |-> FALSE]
RangeNever == [from |-> PosNever, to |-> PosNever, upper |-> FALSE]
=============================================================================
