------------------------------- MODULE Ip2net -------------------------------
(***************************************************************************)
(* ip2net/ip2net.c: addresses read from stdin are replaced by the smallest *)
(* networks that hold enough of them; networks and ranges are passed on.   *)
(*                                                                         *)
(* A line, and an item of the output, is                                   *)
(*   [kind |-> "net", family, addr, bits]    Width[family] bits: an address*)
(*   [kind |-> "range", family, addr, last]                                *)
(* what does not parse is a line of no known family.  The lower Width-bits *)
(* bits of an address vary over a network: zct, the count of zero bits of  *)
(* its mask.  The sorted array from pos on is the set `left'.              *)
(***************************************************************************)
EXTENDS Integers, Sequences, FiniteSets

CONSTANTS
    Width,          \* bits of an address: 32 and 128 in the code
    Word,           \* bits of a uint32_t: 32 in the code
    Pow2,           \* the powers of two
    Options,        \* what the command line may say
    Lines           \* what the writer of the pipe may write

\* An option is what getopt leaves: --prefix-length=plen1-plen2 and
\* --v4-threshold=mul/div, or their defaults.
ASSUME Ip2netAssumption ==
    /\ Width \in [{4, 6} -> Nat \ {0}] /\ Word \in Nat \ {0}
    /\ \A n \in {Word, Width[4], Width[6]} : 0..n \subseteq DOMAIN Pow2
    /\ Pow2[0] = 1
    /\ \A z \in DOMAIN Pow2 :
         Pow2[z] \in Nat \ {0} /\ (z # 0 => Pow2[z] = 2 * Pow2[z - 1])
    /\ \A o \in Options :
         /\ o.family \in {4, 6}
         /\ {o.plen1, o.plen2, o.mul, o.div, o.threshold} \subseteq Nat
    /\ \A l \in Lines :
         /\ l.addr \in Nat
         /\ l.kind \in {"net", "range"}
         /\ l.kind = "net" => l.bits \in Nat
         /\ l.kind = "range" => l.last \in Nat

VARIABLES
    stdin,          \* what the writer of the pipe has written
    eof,            \* the writer has closed it
    opt,            \* params
    phase,          \* "read", "merge", "done" or "failed"
    taken,          \* lines read
    listed,         \* iplist
    left,           \* iplist from pos on, sorted
    passed,         \* what is printed as it is
    merged          \* what is printed for the addresses of iplist

toolVars == <<opt, phase, taken, listed, left, passed, merged>>
ip2netVars == <<stdin, eof, toolVars>>

-----------------------------------------------------------------------------
\* parse_params

Accepted(o) ==
    /\ 1 <= o.plen1 /\ o.plen1 <= o.plen2 /\ o.plen2 < Width[o.family]
    /\ o.div >= 2 /\ 1 <= o.mul /\ o.mul < o.div
    /\ o.threshold >= 1

ZctMax == Width[opt.family] - opt.plen1
ZctMin == Width[opt.family] - opt.plen2

ToolInit ==
    /\ opt \in Options
    /\ phase = IF Accepted(opt) THEN "read" ELSE "failed"
    /\ taken = 0 /\ listed = {} /\ left = {} /\ passed = <<>> /\ merged = <<>>

-----------------------------------------------------------------------------
\* Networks

Prefix(a, zct) == a \div Pow2[zct]
InNet(a, b, zct) == Prefix(a, zct) = Prefix(b, zct)
NetStart(a, zct) == Prefix(a, zct) * Pow2[zct]

\* subnet_ct * n / pctdiv, in the arithmetic of uint32_t.
Share(zct, n) == ((Pow2[zct] * n) % Pow2[Word]) \div opt.div

\* The addresses from pos on that the network around pos holds.
Held(a, zct) == {b \in left : InNet(a, b, zct)}
Holds(a, zct) == Cardinality(Held(a, zct))

\* ip is higher than (1-PCT).
TooHigh(a, zct) ==
    opt.family = 4 /\ a > (NetStart(a, zct) + Share(zct, opt.div - opt.mul)) % Pow2[Word]

ThresholdMissing(zct) == IF opt.family = 4 THEN Share(zct, opt.div - opt.mul) ELSE opt.threshold

\* The addresses that a network has to hold.
Threshold(zct) == IF opt.family = 4 THEN Share(zct, opt.mul) ELSE opt.threshold

\* The search goes from zct_max to zct_min: a network that holds one address
\* ends it.
Qualifies(a, zct) ==
    /\ zct \in ZctMin..ZctMax
    /\ ~TooHigh(a, zct)
    /\ Holds(a, zct) > 1
    /\ Holds(a, zct) >= Threshold(zct)

Qualifying(a) == {zct \in ZctMin..ZctMax : Qualifies(a, zct)}

\* The largest network that qualifies decides how many addresses are to be
\* held; the smallest that qualifies and holds as many is taken.
IsBest(a, zct) ==
    /\ zct \in Qualifying(a)
    /\ \E first \in Qualifying(a) :
         /\ \A z \in Qualifying(a) : z <= first
         /\ Holds(a, zct) = Holds(a, first)
         /\ \A z \in Qualifying(a) : Holds(a, z) = Holds(a, first) => zct <= z

-----------------------------------------------------------------------------
Write(l) ==
    /\ ~eof /\ stdin' = Append(stdin, l)
    /\ UNCHANGED <<eof, toolVars>>

Close ==
    /\ ~eof /\ eof' = TRUE
    /\ UNCHANGED <<stdin, toolVars>>

\* What becomes of a line: an address goes to the array, a valid network or a
\* range is printed as it is, anything else is ignored.
Known(l) == l.family = opt.family
IsAddress(l) == Known(l) /\ l.kind = "net" /\ l.bits = Width[l.family]
IsPassed(l) == Known(l) /\ (l.kind = "range" \/ l.bits < Width[l.family])

ReadOne ==
    /\ phase = "read" /\ taken < Len(stdin)
    /\ taken' = taken + 1
    /\ LET l == stdin[taken + 1] IN
         /\ listed' = IF IsAddress(l) THEN listed \cup {l.addr} ELSE listed
         /\ passed' = IF IsPassed(l) THEN Append(passed, l) ELSE passed
    /\ UNCHANGED <<opt, phase, left, merged>>

\* The array cannot grow.
OutOfMemory ==
    /\ phase = "read" /\ taken < Len(stdin) /\ IsAddress(stdin[taken + 1])
    /\ phase' = "failed"
    /\ UNCHANGED <<opt, taken, listed, left, passed, merged>>

SortAtPause ==
    /\ phase = "read" /\ taken = Len(stdin)
    /\ phase' = "merge"
    /\ left' = listed
    /\ UNCHANGED <<opt, taken, listed, passed, merged>>

\* gnu_quicksort, and unique or unique6.
Sort ==
    /\ phase = "read" /\ eof /\ taken = Len(stdin)
    /\ phase' = "merge"
    /\ left' = listed
    /\ UNCHANGED <<opt, taken, listed, passed, merged>>

First(a) == a \in left /\ \A b \in left : a <= b

Item(a, bits) ==
    [kind |-> "net", family |-> opt.family, addr |-> a, bits |-> bits]

MergeNetHead(a, zct) ==
    /\ phase = "merge" /\ First(a) /\ IsBest(a, zct)
    /\ merged' = Append(merged, Item(NetStart(a, zct), Width[opt.family] - zct))
    /\ left' = left \ {a}
    /\ UNCHANGED <<opt, phase, taken, listed, passed>>

\* The network found, with all that it holds.
MergeNet(a, zct) ==
    /\ phase = "merge" /\ First(a) /\ IsBest(a, zct)
    /\ merged' = Append(merged, Item(NetStart(a, zct), Width[opt.family] - zct))
    /\ left' = left \ Held(a, zct)
    /\ UNCHANGED <<opt, phase, taken, listed, passed>>

MergeSingle(a) ==
    /\ phase = "merge" /\ First(a) /\ Qualifying(a) = {}
    /\ merged' = Append(merged, Item(a, Width[opt.family]))
    /\ left' = left \ {a}
    /\ UNCHANGED <<opt, phase, taken, listed, passed>>

MergeDone ==
    /\ phase = "merge" /\ left = {}
    /\ phase' = "done"
    /\ UNCHANGED <<opt, taken, listed, left, passed, merged>>

Tool ==
    \/ ReadOne \/ OutOfMemory \/ Sort
    \/ \E a \in left : MergeSingle(a) \/ \E zct \in ZctMin..ZctMax : MergeNet(a, zct)
    \/ MergeDone

Ip2netInit == stdin = <<>> /\ eof \in BOOLEAN /\ ToolInit

Ip2netNext ==
    \/ (\E l \in Lines : Write(l)) \/ Close
    \/ Tool /\ UNCHANGED <<stdin, eof>>

Ip2netSpec == Ip2netInit /\ [][Ip2netNext]_ip2netVars

-----------------------------------------------------------------------------
\* The item stands for address b.
Includes(o, b) ==
    \/ o.kind = "net" /\ InNet(o.addr, b, Width[o.family] - o.bits)
    \/ o.kind = "range" /\ o.addr <= b /\ b <= o.last

Items == {passed[i] : i \in 1..Len(passed)} \cup {merged[i] : i \in 1..Len(merged)}

\* Nothing is lost: what an address, network or range of the input stands for
\* is in an item of the output when ip2net ends (main, 314-516).
Kept ==
    phase = "done" =>
      \A i \in 1..Len(stdin) :
        /\ IsAddress(stdin[i]) => \E o \in Items : Includes(o, stdin[i].addr)
        /\ IsPassed(stdin[i]) => stdin[i] \in Items

\* No address is in two of the networks made: the search from a later address
\* never takes in one that an earlier search left alone.
Disjoint ==
    \A i, j \in 1..Len(merged) :
      i # j => \A b \in listed : ~(Includes(merged[i], b) /\ Includes(merged[j], b))

\* A network made has two addresses of the input at least, and of its addresses the
\* share asked for, rounded down, or the number.  uint32_t holds the product, or what
\* is left of it: of a /1 two thirds are none.
Enough(o) ==
    LET zct == Width[o.family] - o.bits
        held == Cardinality({b \in listed : Includes(o, b)})
        product == Pow2[zct] * opt.mul
        kept == IF product < Pow2[Word] THEN product ELSE product % Pow2[Word]
    IN  IF zct = 0 THEN held = 1
        ELSE held > 1 /\ held >= IF o.family = 4 THEN kept \div opt.div ELSE opt.threshold

\* A network is made only if enough of its addresses are in the input: "minimum
\* subnet fill percent is PCTMULT/PCTDIV", "no less than N ipv6 in subnet" (ip2net.c,
\* 27-35; the help, 213-215, says "more than").
Filled == \A i \in 1..Len(merged) : Enough(merged[i])

\* What ip2net makes of its input stands for it: all of it, once, in networks
\* that are filled as was asked.
StandsForInput == Kept /\ Disjoint /\ Filled
=============================================================================
