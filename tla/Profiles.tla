------------------------------- MODULE Profiles -------------------------------
(***************************************************************************)
(* nfq2/nfqws.c, params.c and pools.c: how the options of the command line *)
(* build the profiles, one section after another, and how a packet finds   *)
(* its profile (desync.c: dp_find).                                        *)
(*                                                                         *)
(* An option is [o, a], its name and its argument.  A list of hosts or     *)
(* addresses is known by its place in "lists"; those of the command line   *)
(* itself have no file.  A name is matched whole: what is below a domain   *)
(* is in HostLists.                                                        *)
(***************************************************************************)
EXTENDS Filters, FiniteSets, SequencesExt

CONSTANTS
    Files,          \* files of lists
    Content,        \* what is in each
    KnownNames      \* names of protocols and payloads

ASSUME FilesAssumption == DOMAIN Content = Files

VARIABLES
    profiles,       \* params.desync_profiles; the last one is being written
    templates,      \* params.desync_templates
    count,          \* desync_profile_count
    tcount,         \* desync_template_count
    section,        \* of the current profile: bSkip, bTemplate, anon_hl ... and
                    \* the settings of the next instance
    lists,          \* params.hostlists and params.ipsets: [kind, file, items]
    existing,       \* the files that there are
    global,         \* [server, intercept, dry, blobs]
    status          \* "options", then the steps of the start, "run" or an exit

optionVars == <<profiles, templates, count, tcount, section, lists, global>>
profileVars == <<optionVars, existing, status>>

\* dp_init: a profile as dp_list_add makes it.
NewProfile(n, name) ==
    [n |-> n, name |-> name, cookie |-> "", l3set |-> FALSE, l3 |-> {},
     tcp |-> <<>>, udp |-> <<>>, icmp |-> <<>>, ipp |-> <<>>,
     l7set |-> FALSE, l7 |-> {}, hl |-> <<>>, hlx |-> <<>>, ips |-> <<>>, ipsx |-> <<>>,
     auto |-> 0, fails |-> 3, failsSet |-> FALSE, fns |-> <<>>]

\* What --new resets.
NoAnon == [hl |-> 0, hlx |-> 0, ips |-> 0, ipsx |-> 0]
SectionAnonKept ==
    [skip |-> FALSE, template |-> FALSE, anon |-> section.anon,
     payload |-> {}, in |-> RangeNever, out |-> RangeAlways]
SectionRangesKept ==
    [skip |-> FALSE, template |-> FALSE, anon |-> NoAnon,
     payload |-> {}, in |-> section.in, out |-> section.out]
NewSection ==
    [skip |-> FALSE, template |-> FALSE, anon |-> NoAnon,
     payload |-> {}, in |-> RangeNever, out |-> RangeAlways]

ProfilesInit ==
    /\ profiles = <<NewProfile(1, "")>> /\ templates = <<>>
    /\ count = 1 /\ tcount = 0
    /\ section = [skip |-> FALSE, template |-> FALSE, anon |-> NoAnon,
                  payload |-> {}, in |-> RangeNever, out |-> RangeAlways]
    /\ lists = <<>>
    /\ global = [server |-> FALSE, intercept |-> TRUE, dry |-> FALSE, blobs |-> {"fake_default_tls"}]
    /\ status = "options"

dp == profiles[Len(profiles)]
Write(p) == profiles' = [profiles EXCEPT ![Len(profiles)] = p]
LeaveWith(code) == status' = code /\ UNCHANGED <<optionVars, existing>>
Refuse == LeaveWith("exit1")

\* dp_list_search_name.
Template(name) ==
    LET found == {i \in DOMAIN templates : name # "" /\ templates[i].name = name}
    IN  IF found = {} THEN 0 ELSE CHOOSE i \in found : \A j \in found : i <= j

-----------------------------------------------------------------------------
\* --new, and the end of the options: what becomes of the section.

Moved == templates' = Append(templates, [dp EXCEPT !.n = tcount + 1]) /\ tcount' = tcount + 1

New(opt) ==
    /\ opt.o = "new"
    /\ IF ~section.skip /\ section.template /\ Template(dp.name) # 0
       THEN Refuse
       ELSE /\ section' = NewSection
            /\ IF section.skip
               THEN /\ Write(NewProfile(count, opt.a))
                    /\ UNCHANGED <<templates, tcount, count>>
               ELSE IF section.template
               THEN /\ Moved /\ count' = count
                    /\ Write(NewProfile(count, opt.a))
               ELSE /\ count' = count + 1
                    /\ profiles' = Append(profiles, NewProfile(count + 1, opt.a))
                    /\ UNCHANGED <<templates, tcount>>
            /\ UNCHANGED <<lists, global, existing, status>>

Skip(opt) ==
    /\ opt.o = "skip"
    /\ section' = [section EXCEPT !.skip = TRUE]
    /\ UNCHANGED <<profiles, templates, count, tcount, lists, global, existing, status>>

\* --template falls through to --name.
Name(opt) ==
    /\ opt.o \in {"template", "name"}
    /\ section' = [section EXCEPT !.template = @ \/ opt.o = "template"]
    /\ Write(IF opt.a = "" THEN dp ELSE [dp EXCEPT !.name = opt.a])
    /\ UNCHANGED <<templates, count, tcount, lists, global, existing, status>>

\* dp_copy: what a template sets, its filters and its lists after those that
\* there are; its instances keep their own settings.
Replaces(t) == t.auto \notin {0, dp.auto} /\ dp.auto # 0
L3Copied(t) == IF t.l3set THEN dp.l3 \cup t.l3 ELSE dp.l3
Copied(t) ==
    [dp EXCEPT
       !.n = count,
       !.fails = IF t.failsSet THEN t.fails ELSE @, !.failsSet = @ \/ t.failsSet,
       !.l7 = IF t.l7set THEN t.l7 ELSE @, !.l7set = @ \/ t.l7set,
       !.l3 = L3Copied(t), !.l3set = @ \/ t.l3set,
       !.cookie = IF t.cookie = "" THEN @ ELSE t.cookie,
       !.auto = IF t.auto = 0 THEN @ ELSE t.auto,
       !.fns = @ \o t.fns, !.hl = @ \o t.hl, !.hlx = @ \o t.hlx,
       !.ips = @ \o t.ips, !.ipsx = @ \o t.ipsx,
       !.tcp = @ \o t.tcp, !.udp = @ \o t.udp, !.icmp = @ \o t.icmp, !.ipp = @ \o t.ipp]

Import(opt) ==
    /\ opt.o = "import"
    /\ LET i == Template(opt.a) IN
       IF i = 0 \/ (i # 0 /\ Replaces(templates[i]))
       THEN Refuse
       ELSE /\ Write(Copied(templates[i]))
            /\ UNCHANGED <<templates, count, tcount, section, lists, global, existing, status>>

-----------------------------------------------------------------------------
\* Filters.  What cannot be parsed ends the program.

WriteIf(good, p) ==
    IF good
    THEN /\ Write(p)
         /\ UNCHANGED <<templates, count, tcount, section, lists, global, existing, status>>
    ELSE Refuse

\* wf_make_l3 adds to the versions that there are.
FilterL3(opt) ==
    /\ opt.o = "filter-l3"
    /\ WriteIf(ToSet(opt.a) \subseteq {"ipv4", "ipv6"},
               [dp EXCEPT !.l3 = @ \cup ToSet(opt.a), !.l3set = TRUE])
FilterTcp(opt) ==
    /\ opt.o = "filter-tcp"
    /\ WriteIf(AllItems(PfGood, opt.a), [dp EXCEPT !.tcp = Mapped(Pf, opt.a) \o @])
FilterUdp(opt) ==
    /\ opt.o = "filter-udp"
    /\ WriteIf(AllItems(PfGood, opt.a), [dp EXCEPT !.udp = Mapped(Pf, opt.a) \o @])
FilterIcmp(opt) ==
    /\ opt.o = "filter-icmp"
    /\ WriteIf(AllItems(IcfGood, opt.a), [dp EXCEPT !.icmp = Mapped(Icf, opt.a) \o @])
FilterIpp(opt) ==
    /\ opt.o = "filter-ipp"
    /\ WriteIf(AllItems(IppGood, opt.a), [dp EXCEPT !.ipp = Mapped(Ipp, opt.a) \o @])
FilterL7(opt) ==
    /\ opt.o = "filter-l7"
    /\ WriteIf(NamesGood(opt.a, KnownNames), [dp EXCEPT !.l7 = Mask(opt.a), !.l7set = TRUE])
Cookie(opt) == opt.o = "cookie" /\ WriteIf(TRUE, [dp EXCEPT !.cookie = opt.a])
FailThreshold(opt) ==
    /\ opt.o = "hostlist-auto-fail-threshold"
    /\ WriteIf(opt.a \in 1..20, [dp EXCEPT !.fails = opt.a, !.failsSet = TRUE])

-----------------------------------------------------------------------------
\* The settings of the next instances, and an instance.

SectionIf(good, s) ==
    IF good
    THEN section' = s
         /\ UNCHANGED <<profiles, templates, count, tcount, lists, global, existing, status>>
    ELSE Refuse
Payload(opt) ==
    /\ opt.o = "payload"
    /\ SectionIf(NamesGood(opt.a, KnownNames), [section EXCEPT !.payload = Mask(opt.a)])
OutRange(opt) ==
    /\ opt.o = "out-range"
    /\ SectionIf(RangeGood(opt.a), [section EXCEPT !.out = PosRange(opt.a)])
InRange(opt) ==
    /\ opt.o = "in-range"
    /\ SectionIf(RangeGood(opt.a), [section EXCEPT !.in = PosRange(opt.a)])

\* parse_lua_call: the name must be an identifier; "" stands for one that is not.
LuaDesync(opt) ==
    /\ opt.o = "lua-desync"
    /\ WriteIf(opt.a # "",
               [dp EXCEPT !.fns = Append(@, [func |-> opt.a, payload |-> section.payload,
                                             in |-> section.in, out |-> section.out])])

-----------------------------------------------------------------------------
\* Lists.  A file is registered once in the program and once in a collection,
\* and is read when the program starts; the lists of the command line are made
\* for a section when it gives its first item.

Fields == [hostlist |-> "hl", hostlist_exclude |-> "hlx", ipset |-> "ips",
           ipset_exclude |-> "ipsx", hostlist_domains |-> "hl",
           hostlist_exclude_domains |-> "hlx", ipset_ip |-> "ips",
           ipset_exclude_ip |-> "ipsx", hostlist_auto |-> "hl"]
Kind(field) == IF field \in {"hl", "hlx"} THEN "host" ELSE "ip"
Place(kind, file) ==
    LET at == {i \in DOMAIN lists : lists[i].kind = kind /\ lists[i].file = file}
    IN  IF at = {} THEN Len(lists) + 1 ELSE CHOOSE i \in at : TRUE
Once(collection, id) ==
    IF id \in ToSet(collection) THEN collection ELSE <<id>> \o collection

\* RegisterHostlist_ and RegisterIpset_ with a file name.
Registered(field, file, p) ==
    LET id == Place(Kind(field), file)
    IN  /\ lists' = IF id <= Len(lists) THEN lists
                    ELSE Append(lists, [kind |-> Kind(field), file |-> file, items |-> {}])
        /\ Write([p EXCEPT ![field] = Once(@, id)])

ListFile(opt) ==
    /\ opt.o \in {"hostlist", "hostlist_exclude", "ipset", "ipset_exclude"}
    /\ IF section.skip
       THEN UNCHANGED profileVars
       ELSE IF opt.a \notin existing THEN Refuse
       ELSE /\ Registered(Fields[opt.o], opt.a, dp)
            /\ UNCHANGED <<templates, count, tcount, section, global, existing, status>>

ListItems(opt) ==
    /\ opt.o \in {"hostlist_domains", "hostlist_exclude_domains", "ipset_ip",
                  "ipset_exclude_ip"}
    /\ LET field == Fields[opt.o]
           known == section.anon[field]
           id == IF known = 0 THEN Len(lists) + 1 ELSE known
       IN IF section.skip
          THEN UNCHANGED profileVars
          ELSE /\ IF known = 0
                  THEN /\ lists' = Append(lists, [kind |-> Kind(field), file |-> "",
                                                   items |-> ToSet(opt.a)])
                       /\ Write([dp EXCEPT ![field] = <<id>> \o @])
                  ELSE /\ lists' = [lists EXCEPT ![known].items = @ \cup ToSet(opt.a)]
                       /\ UNCHANGED profiles
               /\ section' = [section EXCEPT !.anon[field] = id]
               /\ UNCHANGED <<templates, count, tcount, global, existing, status>>

\* The file of an automatic list is made if there is none.
ListAuto(opt) ==
    /\ opt.o = "hostlist_auto"
    /\ IF section.skip
       THEN UNCHANGED profileVars
       ELSE IF dp.auto # 0 THEN Refuse
       ELSE /\ existing' = existing \cup {opt.a}
            /\ Registered("hl", opt.a, [dp EXCEPT !.auto = Place("host", opt.a)])
            /\ UNCHANGED <<templates, count, tcount, section, global, status>>

-----------------------------------------------------------------------------
\* Options of the program, whatever section they are in.

GlobalIf(good, g) ==
    IF good
    THEN global' = g
         /\ UNCHANGED <<profiles, templates, count, tcount, section, lists, existing, status>>
    ELSE Refuse
Server(opt) == opt.o = "server" /\ GlobalIf(TRUE, [global EXCEPT !.server = opt.a])
Intercept(opt) == opt.o = "intercept" /\ GlobalIf(TRUE, [global EXCEPT !.intercept = opt.a])
DryRun(opt) == opt.o = "dry-run" /\ GlobalIf(TRUE, [global EXCEPT !.dry = TRUE])

\* load_blob_to_collection: [name, size, ofs], the size 0 when it cannot be told.
Blob(opt) ==
    /\ opt.o = "blob"
    /\ GlobalIf(opt.a.name \notin global.blobs /\ (opt.a.size = 0 \/ opt.a.ofs < opt.a.size),
                [global EXCEPT !.blobs = @ \cup {opt.a.name}])
Unknown(opt) == opt.o = "?" /\ Refuse
Version(opt) == opt.o = "version" /\ LeaveWith("exit0")

ProfileOption(opt) ==
    \/ New(opt) \/ Skip(opt) \/ Name(opt) \/ Import(opt)
    \/ FilterL3(opt) \/ FilterTcp(opt) \/ FilterUdp(opt) \/ FilterIcmp(opt)
    \/ FilterIpp(opt) \/ FilterL7(opt) \/ Cookie(opt) \/ FailThreshold(opt)
    \/ Payload(opt) \/ OutRange(opt) \/ InRange(opt) \/ LuaDesync(opt)
    \/ ListFile(opt) \/ ListItems(opt) \/ ListAuto(opt)
    \/ Server(opt) \/ Intercept(opt) \/ DryRun(opt) \/ Blob(opt)
    \/ Unknown(opt) \/ Version(opt)

-----------------------------------------------------------------------------
\* The end of the options: the last section is closed, the default profile is
\* added, and what no filter says is filled in.

\* filter_defaults: one L4 filter denies what the others do not speak of.
Defaults(p) ==
    LET q == [p EXCEPT !.l3 = IF p.l3set THEN @ ELSE {"ipv4", "ipv6"}]
    IN  IF p.tcp = <<>> /\ p.udp = <<>> /\ p.icmp = <<>> /\ p.ipp = <<>> THEN q
        ELSE [q EXCEPT !.tcp = OrDeny(@, DenyPort), !.udp = OrDeny(@, DenyPort),
                       !.icmp = OrDeny(@, DenyIcmp), !.ipp = OrDeny(@, DenyIpp)]

UserProfiles == IF section.skip \/ section.template THEN Front(profiles) ELSE profiles
Unusable(p) == global.server /\ p.auto # 0

EndOfOptions ==
    /\ status = "options"
    /\ LET all == Append(UserProfiles, NewProfile(0, "no_action"))
           moved == ~section.skip /\ section.template
       IN IF \/ moved /\ Template(dp.name) # 0
             \/ \E i \in DOMAIN all : Unusable(all[i])
          THEN Refuse
          ELSE /\ profiles' = Mapped(Defaults, all)
               /\ count' = Len(UserProfiles)
               /\ IF moved THEN Moved ELSE UNCHANGED <<templates, tcount>>
               /\ status' = "test"
               /\ UNCHANGED <<section, lists, global, existing>>

\* test_list_files, then LoadAllHostLists and LoadAllIpsets; the templates go.
FilesOf(ls) == {ls[i].file : i \in DOMAIN ls} \ {""}
TestFiles ==
    /\ status = "test"
    /\ IF FilesOf(lists) \subseteq existing
       THEN status' = "load" /\ UNCHANGED <<optionVars, existing>>
       ELSE Refuse

\* LoadHostList and LoadIpset: a file that is no longer there leaves the list as it
\* is, which is empty, and the program goes on; only a reading that breaks off ends
\* it.  MakeAutolistsNonEmpty: an automatic list has an item nothing matches.
Held(f) == IF f \in existing THEN Content[f] ELSE {}
Read(i) ==
    LET l == lists[i]
        items == IF l.file = "" THEN l.items ELSE Held(l.file)
    IN  [l EXCEPT !.items =
           IF items = {} /\ \E p \in ToSet(profiles) : p.auto = i THEN {"@&()"} ELSE items]
ReadLists ==
    /\ status = "load"
    /\ \/ /\ lists' = [i \in DOMAIN lists |-> Read(i)]
          /\ templates' = <<>> /\ status' = "filter"
          /\ UNCHANGED <<profiles, count, tcount, section, global, existing>>
       \/ FilesOf(lists) \cap existing # {} /\ Refuse

\* Others delete a file.
Vanish(f) ==
    /\ status \in {"options", "test", "load"} /\ f \in existing
    /\ existing' = existing \ {f}
    /\ UNCHANGED <<optionVars, status>>

-----------------------------------------------------------------------------
\* dp_match and dp_find.  A packet is [v, kind, port, type, code, proto, l7,
\* host, ip, ipr ...]: the server's port, the name of the host ("" when it is
\* not known), the address of the server and, if it is given, of the other side.

InLists(collection, x) == \E i \in DOMAIN collection : x \in lists[collection[i]].items
AllEmpty(collection) == \A i \in DOMAIN collection : lists[collection[i]].items = {}

\* HostlistCheck_ and IpsetCheck_: includes that are all empty let all pass.
HostCheck(p, host) ==
    ~InLists(p.hlx, host) /\ (AllEmpty(p.hl) \/ InLists(p.hl, host))
IpCheck(p, pkt) ==
    LET sides == {pkt.ip, pkt.ipr} \ {""}
    IN  /\ \A a \in sides : ~InLists(p.ipsx, a)
        /\ AllEmpty(p.ips) \/ \E a \in sides : InLists(p.ips, a)

L4Match(p, pkt) ==
    CASE pkt.kind = "tcp" -> PortsMatch(p.tcp, pkt.port)
      [] pkt.kind = "udp" -> PortsMatch(p.udp, pkt.port)
      [] pkt.kind = "icmp" -> IcmpMatch(p.icmp, pkt.type, pkt.code)
      [] OTHER -> IppsMatch(p.ipp, pkt.proto)

DpMatch(p, pkt) ==
    LET noHosts == AllEmpty(p.hl) /\ AllEmpty(p.hlx) IN
    /\ pkt.v \in p.l3 /\ L4Match(p, pkt) /\ MaskMatch(pkt.l7, p.l7)
    /\ p.auto # 0 \/ pkt.host # "" \/ noHosts
    /\ IpCheck(p, pkt)
    /\ \/ p.auto # 0 /\ pkt.host # ""
       \/ noHosts
       \/ pkt.host # "" /\ HostCheck(p, pkt.host)

DpFind(pkt) ==
    LET found == {i \in DOMAIN profiles : DpMatch(profiles[i], pkt)}
    IN  profiles[CHOOSE i \in found : \A j \in found : i <= j]
=============================================================================
