------------------------------ MODULE HostLists ------------------------------
(***************************************************************************)
(* nfq2/hostlist.c, ipset.c and pools.c: the lists of hosts and addresses  *)
(* of a profile, which are read again when the signature of their file,    *)
(* its time and size, is no longer that of what is in memory.              *)
(*                                                                         *)
(* The files belong to others: they change, become unreadable or disappear *)
(* between any two calls.  An ipset is the set of the hosts whose          *)
(* addresses it has.                                                       *)
(***************************************************************************)
EXTENDS Integers, Sequences, FiniteSets

CONSTANTS
    Hosts,          \* names of hosts
    Parents,        \* of each, the domains it is below of (none for an address)
    Contents,       \* what others write in a file: sequences of items
    Initial,        \* and what may be in each file at first
    Edited,         \* the files that others write
    Accessed,       \* and those they make unreadable or remove
    Distinct,       \* they give no file a signature it had before
    MaxEdits,       \* bound on what is done to the files
    MaxTime         \* bound on the clock

Item == [name : Hosts, strict : BOOLEAN]
Files == {"auto", "user", "exclude", "ipset"}

ASSUME ListAssumption ==
    /\ Parents \in [Hosts -> SUBSET Hosts]
    /\ \A c \in Contents : c \in Seq(Item)
    /\ Initial \in [Files -> SUBSET Seq(Item)] /\ Initial["auto"] = {<<>>}
    /\ Distinct \in BOOLEAN /\ {MaxEdits, MaxTime} \subseteq Nat

VARIABLES
    auto,           \* the profile has an automatic list
    disk,           \* the files: [items, time, state]
    seen,           \* the signatures they have had
    edits,          \* what has been done to them
    now,            \* time, in seconds
    mem,            \* hfile: [items, sig, lost] in memory; lost: its last read failed
    job,            \* what the program does: [kind, todo, step, sig, flow, host]
    ended           \* exit(200)

fileVars == <<disk, seen, edits>>

\* hl_collection, hl_collection_exclude and ips_collection; "fill" stands for
\* MakeAutolistsNonEmpty.
Lists ==
    IF auto THEN <<"auto", "user", "fill", "exclude", "fill">>
    ELSE <<"user", "fill", "exclude", "fill">>
Ipsets == <<"ipset">>
Included == IF auto THEN {"auto", "user"} ELSE {"user"}
HostFiles == Included \cup {"exclude"}

Sig(d) == [time |-> d.time, size |-> Len(d.items)]
NoSig == [time |-> 0, size |-> 0]
Impossible == [name |-> "@&()", strict |-> FALSE]

\* The pool of the items of a file: of two of a name, the first (addpool,
\* ADD_HOSTLIST_POOL).
Pool(items) ==
    {items[i] : i \in {k \in 1..Len(items) :
                         \A j \in 1..(k - 1) : items[j].name # items[k].name}}

Job(kind, todo) ==
    [kind |-> kind, todo |-> todo, step |-> "stat", sig |-> NoSig, flow |-> "", host |-> ""]
For(f, h, j) == [j EXCEPT !.flow = f, !.host = h]
Idle == Job("idle", <<>>)

ListsInit ==
    /\ auto \in BOOLEAN
    /\ \E items \in [Files -> UNION {Initial[f] : f \in Files}] :
         /\ \A f \in Files : items[f] \in Initial[f]
         /\ disk = [f \in Files |-> [items |-> items[f], time |-> 1, state |-> "ok"]]
    /\ seen = [f \in Files |-> {Sig(disk[f])}]
    /\ edits = 0 /\ now = 1 /\ ended = FALSE
    /\ mem = [f \in Files |-> [items |-> {}, sig |-> NoSig, lost |-> FALSE]]
    /\ job = Job("start", Lists \o Ipsets)

-----------------------------------------------------------------------------
\* LoadHostList, LoadIpset: the file at the head of the list.

Doing(step) == job.kind # "idle" /\ job.todo # <<>> /\ job.step = step
Current == Head(job.todo)
Loading(step) == Doing(step) /\ Current # "fill"
PassOn == job' = [job EXCEPT !.todo = Tail(@), !.step = "stat", !.sig = NoSig]

\* file_mod_signature: a file that is not there leaves memory as it is, and so
\* does one whose signature is the known one.
Stat ==
    /\ Loading("stat")
    /\ IF disk[Current].state = "gone" \/ mem[Current].sig = Sig(disk[Current])
         THEN PassOn
         ELSE job' = [job EXCEPT !.step = "open", !.sig = Sig(disk[Current])]
    /\ UNCHANGED mem

\* file_open_test
OpenTest ==
    /\ Loading("open")
    /\ IF disk[Current].state \in {"gone", "closed"} THEN PassOn
       ELSE job' = [job EXCEPT !.step = "read"]
    /\ UNCHANGED mem

Readable(f) == disk[f].state = "ok"

\* The pool is destroyed and the file read.
Read ==
    /\ Loading("read") /\ Readable(Current)
    /\ mem' = [mem EXCEPT ![Current].items = Pool(disk[Current].items), ![Current].lost = FALSE]
    /\ job' = [job EXCEPT !.step = "sign"]

SignatureLate(f) == Sig(disk[f])

\* The signature that goes with what was read: that of before the read.
SignatureRead(f) == job.sig

Sign ==
    /\ Loading("sign")
    /\ mem' = [mem EXCEPT ![Current].sig = SignatureRead(Current)]
    /\ PassOn

\* The pool stays empty, the signature what it was; who asked is told.
ReadFails ==
    /\ Loading("read") /\ ~Readable(Current)
    /\ mem' = [mem EXCEPT ![Current].items = {}, ![Current].lost = TRUE]

LeftEmpty(m) == m

\* NonEmptyHostlist of the automatic list.
Filled(m) ==
    IF auto /\ m["auto"].items = {} THEN [m EXCEPT !["auto"].items = {Impossible}] ELSE m

Fill ==
    /\ Doing("stat") /\ Current = "fill"
    /\ mem' = Filled(mem)
    /\ PassOn

LoadStep == Stat \/ OpenTest \/ Read \/ Sign \/ Fill

Loaded(kind) == job.kind = kind /\ job.todo = <<>> /\ job.step = "stat"

-----------------------------------------------------------------------------
\* SearchHostList: the host itself, or a domain above it that is not strict.
Found(f, h) ==
    \E item \in mem[f].items :
        item.name = h \/ (item.name \in Parents[h] /\ ~item.strict)

InIpset(f, h) == \E item \in mem[f].items : item.name = h

\* hostlist_collection_is_empty, ipset_collection_is_empty
AllEmpty(files) == \A f \in files : mem[f].items = {}

Excluded(h) == Found("exclude", h)

\* HostlistCheck_ once the lists are loaded: that all include lists are empty
\* means it passes.
HostlistCheck(h) ==
    /\ ~Excluded(h)
    /\ AllEmpty(Included) \/ \E f \in Included : Found(f, h)

\* IpsetCheck, of the host's address.
IpsetCheck(h) == AllEmpty({"ipset"}) \/ InIpset("ipset", h)

-----------------------------------------------------------------------------
\* What others do to a file: write it anew, whole or damaged, take it away or
\* give it back, without its time changing.

Written(f, items) == [items |-> items, time |-> now, state |-> "ok"]

Edit(f) ==
    /\ f \in Edited /\ edits < MaxEdits /\ ~ended
    /\ \E items \in Contents, state \in {"ok", "broken"} :
         LET d == [Written(f, items) EXCEPT !.state = state] IN
         /\ Distinct => Sig(d) \notin seen[f]
         /\ disk' = [disk EXCEPT ![f] = d]
         /\ seen' = [seen EXCEPT ![f] = @ \cup {Sig(d)}]
    /\ edits' = edits + 1

\* Readable and not; a file that is removed is not given back.
Access(f) ==
    /\ f \in Accessed /\ edits < MaxEdits /\ ~ended /\ disk[f].state \in {"ok", "closed"}
    /\ \E state \in {"ok", "closed", "gone"} \ {disk[f].state} :
         disk' = [disk EXCEPT ![f].state = state,
                              ![f].items = IF state = "gone" THEN <<>> ELSE @]
    /\ edits' = edits + 1
    /\ UNCHANGED seen
=============================================================================
