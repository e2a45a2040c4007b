-------------------------------- MODULE Options --------------------------------
(***************************************************************************)
(* nfq2/nfqws.c: main up to the first packet.  The options are taken one   *)
(* by one from a menu; then the last section is closed, the lists are read *)
(* and the capture filter is made.                                         *)
(*                                                                         *)
(* The properties compare what the program has become with what the text   *)
(* of its options says, section by section.                                *)
(***************************************************************************)
EXTENDS Profiles, CaptureFilter

CONSTANTS
    Menus,          \* [first, then]: options that come first, and some to choose from
    MaxOptions,     \* bound on the options that are chosen
    Flows,          \* packets that look for a profile
    Wire            \* packets that the driver sees

All(m) == Menus[m].first \o Menus[m].then

\* Arguments: a list is a sequence of items, and no text is without a first one.
FilterLists == {"filter-tcp", "filter-udp", "filter-icmp", "filter-ipp"}
Typed(opt) ==
    /\ opt.o \in PortLists \cup IcmpLists \cup IppLists \cup FilterLists => opt.a \in Seq(Texts)
    /\ opt.o \in {"empty", "lan", "loopback"} => opt.a \in BOOLEAN
    /\ opt.o = "filter-l3" => ToSet(opt.a) # {}
    /\ opt.o = "hostlist_auto" => opt.a \in Files

\* A packet on the wire: no port is 0.  The type of its first header, next, is its
\* protocol unless it has extension headers of IPv6.
OnWire(pkt) ==
    /\ {pkt.proto, pkt.next} \subseteq 0..255 /\ (pkt.v # "ipv6" => pkt.next = pkt.proto)
    /\ pkt.kind \in {"tcp", "udp", "icmp", "ipp"} /\ pkt.dir \in {"in", "out"}
    /\ pkt.kind \in {"tcp", "udp"} => {pkt.src, pkt.dst} \subseteq 1..MaxPort
    /\ {pkt.impostor, pkt.loop, pkt.lan, pkt.sig, pkt.data, pkt.redirect} \subseteq BOOLEAN
InFlow(pkt) ==
    /\ pkt.v \in {"ipv4", "ipv6"} /\ pkt.kind \in {"tcp", "udp", "icmp", "ipp"}
    /\ pkt.kind \in {"tcp", "udp"} => pkt.port \in 1..MaxPort

ASSUME MenuAssumption ==
    /\ MaxOptions \in Nat
    /\ \A m \in DOMAIN Menus :
         /\ Menus[m].first \in Seq(ToSet(Menus[m].first))
         /\ Menus[m].then \in Seq(ToSet(Menus[m].then))
         /\ \A opt \in ToSet(All(m)) : Typed(opt)
    /\ \A pkt \in Wire : OnWire(pkt)
    /\ \A pkt \in Flows : InFlow(pkt)
    /\ "" \notin Files      \* a list with no file is one of the command line

VARIABLES
    menu,           \* the menu of this command line
    said            \* the options so far, by their places in the menu

commandVars == <<profileVars, wf, filter, menu, said>>

Offered ==
    LET first == Len(Menus[menu].first)
    IN  IF Len(said) < first THEN {Len(said) + 1}
        ELSE {i \in (first + 1)..Len(All(menu)) : Len(said) < first + MaxOptions}

OptionsInit ==
    /\ ProfilesInit /\ WfInit
    /\ existing = Files
    /\ menu \in DOMAIN Menus /\ said = <<>>

WfOption(opt) ==
    /\ opt.o \in (DOMAIN NoWf \ {"ipv4", "ipv6"}) \cup {"wf-l3"}
    /\ IF WfGood(opt)
       THEN wf' = WfSet(opt) /\ UNCHANGED profileVars
       ELSE Refuse /\ UNCHANGED wf

Take ==
    /\ status = "options"
    /\ \E i \in Offered :
         /\ said' = Append(said, i)
         /\ LET opt == All(menu)[i] IN
            (ProfileOption(opt) /\ UNCHANGED wf) \/ WfOption(opt)
    /\ UNCHANGED <<menu, filter>>

EndTaking == EndOfOptions /\ UNCHANGED <<wf, filter, menu, said>>
Testing == TestFiles /\ UNCHANGED <<wf, filter, menu, said>>
Loading == ReadLists /\ UNCHANGED <<wf, filter, menu, said>>

MakeFilter ==
    /\ status = "filter"
    /\ IF global.intercept /\ wf.raw = <<>> /\ ~Specified
       THEN Refuse /\ UNCHANGED filter
       ELSE /\ filter' = IF ~global.intercept THEN NoFilter
                         ELSE IF wf.raw # <<>> THEN [kind |-> "raw", tags |-> wf.raw[1]]
                         ELSE Made(global.server)
            /\ status' = "start"
            /\ UNCHANGED <<optionVars, existing>>
    /\ UNCHANGED <<wf, menu, said>>

\* --wf-save ends the program; so does another copy with the same filter.
Save ==
    /\ status = "start" /\ wf.save
    /\ \E code \in {"exit0", "exit1"} : LeaveWith(code)
    /\ UNCHANGED <<wf, filter, menu, said>>
Duplicate ==
    /\ status = "start" /\ ~wf.save /\ wf.dup /\ global.intercept
    /\ Refuse
    /\ UNCHANGED <<wf, filter, menu, said>>
Launch ==
    /\ status = "start" /\ ~wf.save
    /\ LeaveWith(IF global.dry THEN "exit0" ELSE "run")
    /\ UNCHANGED <<wf, filter, menu, said>>

LoseFile ==
    /\ existing = Files      \* bound: one file is deleted
    /\ \E f \in FilesOf(lists) : Vanish(f)
    /\ UNCHANGED <<wf, filter, menu, said>>

OptionsNext == Take \/ EndTaking \/ Testing \/ Loading \/ MakeFilter \/ Save \/ Duplicate
            \/ Launch \/ LoseFile

OptionsSpec == OptionsInit /\ [][OptionsNext]_commandVars

-----------------------------------------------------------------------------
\* What the options say, by their text alone.

Given == [k \in DOMAIN said |-> All(menu)[said[k]]]
Saying(os, name) == {k \in DOMAIN os : os[k].o = name}
Says(os, name) == Saying(os, name) # {}
LastOf(ks) == CHOOSE k \in ks : \A j \in ks : j <= k
Latest(os, name, default) ==
    IF Says(os, name) THEN os[LastOf(Saying(os, name))].a ELSE default

\* The options up to place k that its own section has.
Own(os, k, names) == {j \in 1..k : os[j].o \in names /\ \A i \in (j + 1)..k : os[i].o # "new"}
Setting(os, k, name, default) ==
    IF Own(os, k, {name}) = {} THEN default ELSE os[LastOf(Own(os, k, {name}))].a
Naming(os, k) == {j \in Own(os, k, {"new", "template", "name"}) : os[j].a # ""}
NameOf(os, k) == IF Naming(os, k) = {} THEN "" ELSE os[LastOf(Naming(os, k))].a
IsTemplate(os, k) == Own(os, k, {"skip"}) = {} /\ Own(os, k, {"template"}) # {}
IsProfile(os, k) == Own(os, k, {"skip"}) = {} /\ Own(os, k, {"template"}) = {}

\* Where the template that is imported at k has ended.
Named(os, k) ==
    {e \in 1..(k - 1) : os[e + 1].o = "new" /\ IsTemplate(os, e) /\ NameOf(os, e) = os[k].a}
Source(os, k) == IF Named(os, k) = {} THEN 0 ELSE CHOOSE e \in Named(os, k) : TRUE

\* The places of the options of this name in the section up to k, in their order;
\* those of a template are where it is imported.
PlacesAt(os, name, places, k) ==
    IF k = 0 THEN <<>>
    ELSE LET before == IF os[k].o = "new" THEN <<>> ELSE places[k - 1]
         IN  IF os[k].o = "import" THEN before \o places[Source(os, k)]
             ELSE IF os[k].o = name THEN Append(before, k) ELSE before
PlacesOf(os, name) ==
    LET places[k \in 0..Len(os)] == PlacesAt(os, name, places, k) IN places
Arguments(os, name, k) == {os[j].a : j \in ToSet(PlacesOf(os, name)[k])}
Members(args) == UNION {ToSet(a) : a \in args}

\* An instance goes with the settings before it in its own section.
InDefault == [from |-> PosNever, sep |-> "", to |-> NoPos]
OutDefault == [from |-> PosAlways, sep |-> "", to |-> NoPos]
Settled(os, j) ==
    [func |-> os[j].a, payload |-> Mask(Setting(os, j, "payload", <<"all">>)),
     in |-> PosRange(Setting(os, j, "in-range", InDefault)),
     out |-> PosRange(Setting(os, j, "out-range", OutDefault))]
InstancesOf(os, k) ==
    LET places == PlacesOf(os, "lua-desync")[k]
    IN  [i \in DOMAIN places |-> Settled(os, places[i])]

\* Where the sections end that make a profile, and its number.
ClosedEnds(os) == {e \in 0..(Len(os) - 1) : os[e + 1].o = "new" /\ IsProfile(os, e)}
ProfileEnds(os) == ClosedEnds(os) \cup {e \in {Len(os)} : IsProfile(os, e)}
Rank(ends, e) == Cardinality({d \in ends : d <= e})
Number(os, e) == Rank(ProfileEnds(os), e)

\* Does an item of a list accept a value?
InText(t, v) ==
    CASE t.form = "any" -> TRUE [] t.form = "skip" -> FALSE
      [] OTHER -> (t.a # 0 \/ t.b # 0) /\ ((v \in t.a..t.b) # t.neg)
ItemTakes(kind, t, pkt) ==
    CASE kind \in {"tcp", "udp"} -> InText(t, pkt.port)
      [] kind = "icmp" -> \/ t.form = "any"
                          \/ t.form = "one" /\ pkt.type = t.a
                          \/ t.form = "pair" /\ pkt.type = t.a /\ pkt.code = t.b
      [] OTHER -> t.form = "any" \/ (t.form = "one" /\ pkt.proto = t.a)
TextTakes(kind, list, pkt) == \E i \in DOMAIN list : ItemTakes(kind, list[i], pkt)

FilterNames == [tcp |-> "filter-tcp", udp |-> "filter-udp", icmp |-> "filter-icmp",
                ipp |-> "filter-ipp"]
\* An empty file that is the automatic list of a profile is no empty list of hosts,
\* not even for the other profiles that read it.  A file deleted after the test of
\* the files counts as empty (Held).
AutoFiles(os) == UNION {Arguments(os, "hostlist_auto", e) : e \in ProfileEnds(os)}
HostsIn(os, files) ==
    UNION {IF Held(f) = {} /\ f \in AutoFiles(os) THEN {"@&()"} ELSE Held(f) : f \in files}
AddressesIn(files) == UNION {Held(f) : f \in files}

\* What the options of a profile, its filters and its lists, accept.
LastMask(os, places) == Mask(IF places = <<>> THEN <<"all">> ELSE os[Last(places)].a)
Items(os, kind, k) == Members(Arguments(os, FilterNames[kind], k))
Meaning(os, k) ==
    [l3 |-> Members(Arguments(os, "filter-l3", k)),
     l4 |-> [kind \in DOMAIN FilterNames |-> Items(os, kind, k)],
     l7 |-> LastMask(os, PlacesOf(os, "filter-l7")[k]),
     auto |-> Arguments(os, "hostlist_auto", k) # {},
     listed |-> HostsIn(os, Arguments(os, "hostlist", k) \cup Arguments(os, "hostlist_auto", k))
                  \cup Members(Arguments(os, "hostlist_domains", k)),
     barred |-> HostsIn(os, Arguments(os, "hostlist_exclude", k))
                  \cup Members(Arguments(os, "hostlist_exclude_domains", k)),
     net |-> AddressesIn(Arguments(os, "ipset", k)) \cup Members(Arguments(os, "ipset_ip", k)),
     notNet |-> AddressesIn(Arguments(os, "ipset_exclude", k))
                  \cup Members(Arguments(os, "ipset_exclude_ip", k))]

Accepts(m, pkt) ==
    LET sides == {pkt.ip, pkt.ipr} \ {""} IN
    /\ m.l3 = {} \/ pkt.v \in m.l3
    /\ \/ \A kind \in DOMAIN FilterNames : m.l4[kind] = {}
       \/ \E t \in m.l4[pkt.kind] : ItemTakes(pkt.kind, t, pkt)
    /\ MaskMatch(pkt.l7, m.l7)
    /\ sides \cap m.notNet = {} /\ (m.net = {} \/ sides \cap m.net # {})
    /\ \/ m.listed \cup m.barred = {}
       \/ pkt.host # "" /\ m.auto
       \/ pkt.host # "" /\ pkt.host \notin m.barred /\ (m.listed = {} \/ pkt.host \in m.listed)

\* The packets of a flow get the profile that the options say: the first section
\* that is neither skipped nor a template whose filters, with those of the
\* templates it imports, accept them; its number counts such sections only.
\* Nothing of a skipped section, of a template that nobody imports or of the
\* section before (its lists of the command line) has a part in it (dp_find over
\* what IDX_NEW, dp_copy, filter_defaults, the Register functions and the first
\* reading leave).  A list whose file is deleted between its test and its reading
\* asks for nothing, as an empty one does: it lets every host or address pass.
SelectsAsDeclared ==
    status = "run" => \A os \in {Given} :
        \A means \in {[e \in ProfileEnds(os) |-> Meaning(os, e)]} : \A pkt \in Flows :
            \A taking \in {{e \in ProfileEnds(os) : Accepts(means[e], pkt)}} :
                DpFind(pkt).n = IF taking = {} THEN 0
                                ELSE Number(os, CHOOSE e \in taking : \A d \in taking : e <= d)

\* Every profile has the instances of its section in the order they were given,
\* those of a template where it was imported, each with the payloads and ranges
\* that its own section gave before it (funclist_copy, IDX_LUA_DESYNC).
InstancesAsDeclared ==
    status = "run" => \A os \in {Given} :
        /\ Len(profiles) = Cardinality(ProfileEnds(os)) + 1
        /\ \A e \in ProfileEnds(os) : profiles[Number(os, e)].fns = InstancesOf(os, e)

\* The profiles are those the options declare.
ProfilesAsDeclared == SelectsAsDeclared /\ InstancesAsDeclared

-----------------------------------------------------------------------------
\* Capture.

\* setup_direction: the port that a profile is looked for with.
SdPort(server, pkt) == IF (pkt.dir = "in") <=> server THEN pkt.dst ELSE pkt.src

WfNames == [tcp |-> [in |-> "tcp_in", out |-> "tcp_out"],
            udp |-> [in |-> "udp_in", out |-> "udp_out"],
            icmp |-> [in |-> "icmp_in", out |-> "icmp_out"],
            ipp |-> [in |-> "ipp_in", out |-> "ipp_out"]]
AskedOf(kind, dir) == Latest(Given, WfNames[kind][dir], None)
Opposite(dir) == IF dir = "in" THEN "out" ELSE "in"

\* The lists of its direction ask for a packet as a filter of a profile would,
\* or those of the other direction for what opens and ends its connection.  Only
\* --wf-ipp differs: a profile goes by the protocol, the driver by the first header.
Asked(pkt) ==
    LET seen == [port |-> SdPort(global.server, pkt), type |-> pkt.type, code |-> pkt.code,
                 proto |-> pkt.next]
    IN  \/ TextTakes(pkt.kind, AskedOf(pkt.kind, pkt.dir), seen)
        \/ TextTakes("ipp", AskedOf("ipp", pkt.dir), seen)
        \/ Signals(pkt) /\ TextTakes("tcp", AskedOf("tcp", Opposite(pkt.dir)), seen)
        \/ \E k \in Saying(Given, "parts") : pkt.tag \in Given[k].a

\* What other options spare.  --wf-l3 is none of them: wf_make_l3 adds to two flags
\* that are already set, so it narrows nothing, though its help has it as a filter.
TcpAsked == AskedOf("tcp", "in") # None \/ AskedOf("tcp", "out") # None
Spared(pkt) ==
    \/ pkt.impostor
    \/ pkt.loop /\ Latest(Given, "loopback", TRUE)
    \/ pkt.lan /\ Latest(Given, "lan", TRUE)
    \/ Latest(Given, "iface", 0) \notin {0, pkt.iface}
    \/ TcpAsked /\ pkt.kind = "tcp" /\ ~pkt.sig /\ ~pkt.data /\ ~Latest(Given, "empty", FALSE)
    \/ Says(Given, "rawFilter") /\ pkt.tag \notin Latest(Given, "rawFilter", {})
AskedByZero ==
    \E kind \in {"tcp", "udp"}, dir \in {"in", "out"} :
        \E t \in ToSet(AskedOf(kind, dir)) : t.a = 0 /\ t.b = 0 /\ t.form # "any"

\* What the lists of the constructor ask for is captured, in the direction and by
\* the port that the profiles are looked for with, in client and in server mode,
\* with the packets that conntrack needs of the other direction; besides it only
\* redirects of HTTP are, and nothing that an impostor, loopback, lan, iface, empty
\* or rawFilter option spares (Spared; wf-l3 spares nothing).  A port list with 0 in
\* it asks for more: "!= 0".  A protocol of --wf-ipp is asked for by the first header
\* of a packet: those of IPv6 that have extension headers before it are not captured,
\* though the profiles would take them (wf_make_ipf).
CaptureAsAsked ==
    (status = "run" /\ filter.kind = "made") =>
        \A pkt \in Wire :
            /\ Asked(pkt) /\ ~Spared(pkt) => Passes(filter, pkt)
            /\ Passes(filter, pkt) =>
                 /\ ~Spared(pkt)
                 /\ Asked(pkt) \/ (TcpAsked /\ pkt.redirect) \/ AskedByZero

-----------------------------------------------------------------------------
\* Why the capture filter is what was asked for: what holds at every step.

Plain == DOMAIN NoWf \ {"ipv4", "ipv6", "parts", "raw", "rawFilter"}

\* What has been kept of each option is what the last one said, and every list is
\* one that was not refused.
WfInv ==
    /\ DOMAIN wf = DOMAIN NoWf /\ wf.ipv4 /\ wf.ipv6
    /\ \A f \in Plain : wf[f] = Latest(Given, f, NoWf[f])
    /\ \A f \in PortLists : wf[f] \in Seq(Texts) /\ AllItems(PfGood, wf[f])
    /\ \A f \in IcmpLists : wf[f] \in Seq(Texts) /\ AllItems(IcfGood, wf[f])
    /\ \A f \in IppLists : wf[f] \in Seq(Texts) /\ AllItems(IppGood, wf[f])
    /\ {wf.empty, wf.lan, wf.loopback} \subseteq BOOLEAN
    /\ wf.rawFilter = IF Says(Given, "rawFilter") THEN <<Latest(Given, "rawFilter", {})>> ELSE <<>>
    /\ wf.parts \in Seq({Given[k].a : k \in Saying(Given, "parts")})
    /\ \A k \in Saying(Given, "parts") : Given[k].a \in ToSet(wf.parts)

\* The program goes on.
Going == status \in {"options", "test", "load", "filter", "start", "run"}

CaptureInv ==
    /\ menu \in DOMAIN Menus /\ said \in Seq(DOMAIN All(menu))
    /\ Going => WfInv
    /\ status \in {"start", "run"} /\ filter.kind = "made" => filter = Made(global.server)
-----------------------------------------------------------------------------
\* Why the profiles are those declared: what holds while they are built.

\* The options that a list field of a profile comes from.
FileOptions == [hl |-> {"hostlist", "hostlist_auto"}, hlx |-> {"hostlist_exclude"},
                ips |-> {"ipset"}, ipsx |-> {"ipset_exclude"}]
ItemOption == [hl |-> "hostlist_domains", hlx |-> "hostlist_exclude_domains",
               ips |-> "ipset_ip", ipsx |-> "ipset_exclude_ip"]
ListFields == DOMAIN NoAnon
FilesAsked(os, field, k) == UNION {Arguments(os, name, k) : name \in FileOptions[field]}
ItemsAsked(os, field, k) == Members(Arguments(os, ItemOption[field], k))

FileLists(ls, collection) == {i \in ToSet(collection) : ls[i].file # ""}
ItemLists(ls, collection) == ToSet(collection) \ FileLists(ls, collection)
ListsBuilt(ls, os, collection, field, k) ==
    /\ collection \in Seq({i \in DOMAIN ls : ls[i].kind = Kind(field)})
    /\ {ls[i].file : i \in FileLists(ls, collection)} = FilesAsked(os, field, k)
    /\ UNION {ls[i].items : i \in ItemLists(ls, collection)} = ItemsAsked(os, field, k)

AutoBuilt(ls, os, p, k) ==
    IF p.auto = 0 THEN Arguments(os, "hostlist_auto", k) = {}
    ELSE /\ p.auto \in DOMAIN ls /\ ls[p.auto].kind = "host" /\ ls[p.auto].file # ""
         /\ Arguments(os, "hostlist_auto", k) = {ls[p.auto].file}
CollectionsBuilt(ls, os, p, k) ==
    AutoBuilt(ls, os, p, k) /\ \A field \in ListFields : ListsBuilt(ls, os, p[field], field, k)

ReadAs(kind, t) == IF kind = "icmp" THEN Icf(t) ELSE IF kind = "ipp" THEN Ipp(t) ELSE Pf(t)
GoodAs(kind, t) ==
    IF kind = "icmp" THEN IcfGood(t) ELSE IF kind = "ipp" THEN IppGood(t) ELSE PfGood(t)
FilterRead(os, kind, k) == {ReadAs(kind, t) : t \in Items(os, kind, k)}

RestBuilt(os, p, k) ==
    /\ p.fns = InstancesOf(os, k)
    /\ p.l7 = LastMask(os, PlacesOf(os, "filter-l7")[k])
    /\ \A kind \in DOMAIN FilterNames : \A t \in Items(os, kind, k) :
         t \in Texts /\ GoodAs(kind, t)
FiltersBuilt(os, p, k) ==
    /\ p.l3 = Members(Arguments(os, "filter-l3", k))
    /\ p.l3set = (Arguments(os, "filter-l3", k) # {})
    /\ p.l7set = (PlacesOf(os, "filter-l7")[k] # <<>>)
    /\ \A kind \in DOMAIN FilterNames :
         p[kind] \in Seq(FilterRead(os, kind, k)) /\ ToSet(p[kind]) = FilterRead(os, kind, k)

\* A profile is what the options up to k say, templates included.
ProfileFields == DOMAIN NewProfile(0, "")
Built(ls, os, p, k) ==
    /\ DOMAIN p = ProfileFields
    /\ RestBuilt(os, p, k) /\ FiltersBuilt(os, p, k) /\ CollectionsBuilt(ls, os, p, k)

\* The lists of the command line are of one section and one collection.
Importable == {t \in ToSet(templates) : t.name # ""}
AnonBuilt ==
    \A field \in ListFields : section.anon[field] # 0 =>
        LET id == section.anon[field] IN
        /\ id \in DOMAIN lists /\ lists[id].file = "" /\ id \in ToSet(dp[field])
        /\ \A other \in ListFields \ {field} : id \notin ToSet(dp[other])
        /\ \A p \in ToSet(Front(profiles)) \cup Importable : \A f \in ListFields :
             id \notin ToSet(p[f])

\* The section that is being written.
SectionBuilt(os) ==
    /\ section.template = (Own(os, Len(os), {"template"}) # {})
    /\ section.payload = Mask(Setting(os, Len(os), "payload", <<"all">>))
    /\ section.in = PosRange(Setting(os, Len(os), "in-range", InDefault))
    /\ section.out = PosRange(Setting(os, Len(os), "out-range", OutDefault))
    /\ dp.name = NameOf(os, Len(os)) /\ dp.n = Len(profiles)
    /\ Built(lists, os, dp, Len(os))
    /\ AnonBuilt

\* Those that are closed.
TemplateEnds(os) == {e \in 0..(Len(os) - 1) : os[e + 1].o = "new" /\ IsTemplate(os, e)}
TemplatesBuilt(os) ==
    /\ templates \in Seq(ToSet(templates))
    /\ \A e \in TemplateEnds(os) :
         /\ \E t \in ToSet(templates) : t.name = NameOf(os, e)
         /\ \A t \in Importable : t.name = NameOf(os, e) => Built(lists, os, t, e)
    /\ \A t \in ToSet(templates) : \E e \in TemplateEnds(os) : t.name = NameOf(os, e)
ProfilesBuilt(os) ==
    /\ profiles \in Seq(ToSet(profiles)) /\ count = Len(profiles)
    /\ Len(profiles) = Cardinality(ClosedEnds(os)) + 1
    /\ \A e \in ClosedEnds(os) : \A i \in {Rank(ClosedEnds(os), e)} :
         Built(lists, os, profiles[i], e) /\ profiles[i].n = i

\* A file has one list of each kind.
ListsKept ==
    /\ lists \in Seq([kind : {"host", "ip"}, file : Files \cup {""},
                      items : {l.items : l \in ToSet(lists)}])
    /\ \A i \in DOMAIN lists : lists[i].file # "" => lists[i].items = {}
    /\ \A i, j \in DOMAIN lists :
         lists[i].kind = lists[j].kind /\ lists[i].file = lists[j].file /\ i # j
           => lists[i].file = ""

SectionKept(os) ==
    /\ DOMAIN section = DOMAIN NewSection /\ DOMAIN section.anon = ListFields
    /\ section.skip = (Own(os, Len(os), {"skip"}) # {})
BuildInv(os) ==
    /\ existing \subseteq Files /\ ListsKept /\ ProfilesBuilt(os) /\ TemplatesBuilt(os)
    /\ SectionKept(os)
    /\ ~section.skip => SectionBuilt(os)

\* With the defaults.
Denied(kind) == IF kind = "icmp" THEN DenyIcmp ELSE IF kind = "ipp" THEN DenyIpp ELSE DenyPort
Limited(os, p, k) ==
    /\ p.l3 = IF Arguments(os, "filter-l3", k) = {} THEN {"ipv4", "ipv6"}
              ELSE Members(Arguments(os, "filter-l3", k))
    /\ \A kind \in DOMAIN FilterNames :
         /\ p[kind] \in Seq(ToSet(p[kind]))
         /\ ToSet(p[kind]) =
              IF \/ FilterRead(os, kind, k) # {}
                 \/ \A other \in DOMAIN FilterNames : Items(os, other, k) = {}
              THEN FilterRead(os, kind, k) ELSE {Denied(kind)}
Numbered(os) ==
    /\ profiles \in Seq(ToSet(profiles)) /\ Len(profiles) = Cardinality(ProfileEnds(os)) + 1
    /\ \A e \in ProfileEnds(os) : profiles[Number(os, e)].n = Number(os, e)
    /\ profiles[Len(profiles)] = Defaults(NewProfile(0, "no_action"))
EndInv(os) ==
    /\ existing \subseteq Files /\ ListsKept /\ Numbered(os)
    /\ \A e \in ProfileEnds(os) : \A p \in {profiles[Number(os, e)]} :
         RestBuilt(os, p, e) /\ CollectionsBuilt(lists, os, p, e) /\ Limited(os, p, e)

\* With the lists read.
ListMeaning(field, m) ==
    CASE field = "hl" -> m.listed [] field = "hlx" -> m.barred
      [] field = "ips" -> m.net [] OTHER -> m.notNet
LoadInv(os) ==
    /\ Numbered(os)
    /\ \A e \in ProfileEnds(os) : \A p \in {profiles[Number(os, e)]} :
         /\ RestBuilt(os, p, e) /\ Limited(os, p, e)
         /\ (p.auto # 0) = Meaning(os, e).auto
         /\ \A field \in ListFields :
              UNION {lists[i].items : i \in ToSet(p[field])} = ListMeaning(field, Meaning(os, e))

ProfilesInv == \A os \in {Given} :
    /\ status = "options" => BuildInv(os)
    /\ status \in {"test", "load"} => EndInv(os)
    /\ status \in {"filter", "start", "run"} => LoadInv(os)

=============================================================================
