-------------------------- MODULE ListToolsProofs ---------------------------
(***************************************************************************)
(* What ip2net prints holds what it was given, once, and each network it   *)
(* makes holds as many addresses as were asked for: for every width,       *)
(* option and input.  mdig is one of the writers of that input, and        *)
(* reports each line and each multiple of --stats once, with any number of *)
(* threads.                                                                *)
(***************************************************************************)
EXTENDS ListTools, FiniteSetTheorems, WellFoundedInduction, TLAPS

ItemType == [kind : {"net"}, family : {4, 6}, addr : Nat, bits : Nat]

TypeInv ==
    /\ stdin \in Seq(Lines) /\ eof \in BOOLEAN
    /\ opt \in Options
    /\ phase \in {"read", "merge", "done", "failed"}
    /\ phase # "failed" => Accepted(opt)
    /\ taken \in 0..Len(stdin)
    /\ listed \subseteq Nat /\ IsFiniteSet(listed)
    /\ left \subseteq listed
    /\ passed \in Seq(Lines)
    /\ merged \in Seq(ItemType)

\* What has been read has its place; reading ends at the end of the input.
ReadInv ==
    /\ \A i \in 1..taken :
         /\ IsAddress(stdin[i]) => stdin[i].addr \in listed
         /\ IsPassed(stdin[i]) => \E j \in 1..Len(passed) : passed[j] = stdin[i]
    /\ phase \in {"merge", "done"} => eof /\ taken = Len(stdin)

\* An address that has been gone past is in a network made.
MergeInv ==
    /\ phase = "read" => merged = <<>>
    /\ phase \in {"merge", "done"} =>
         \A b \in listed \ left :
           \E i \in 1..Len(merged) : Includes(merged[i], b)
    /\ phase = "done" => left = {}

IInv == TypeInv /\ ReadInv /\ MergeInv /\ Filled

-----------------------------------------------------------------------------
LEMMA DivOfProduct ==
    ASSUME NEW q \in Nat, NEW m \in Nat \ {0}
    PROVE  (q * m) \div m = q
OBVIOUS

LEMMA PowType ==
    ASSUME NEW f \in {4, 6}, NEW z \in 0..Width[f]
    PROVE  Pow2[z] \in Nat \ {0}
BY Ip2netAssumption

LEMMA WordType == Pow2[Word] \in Nat \ {0}
<1>1. Word \in 0..Word /\ 0..Word \subseteq DOMAIN Pow2
  BY Ip2netAssumption
<1>2. \A z \in DOMAIN Pow2 : Pow2[z] \in Nat \ {0}
  BY Ip2netAssumption
<1> QED
  BY <1>1, <1>2

LEMMA DivType ==
    ASSUME NEW a \in Nat, NEW m \in Nat \ {0}
    PROVE  a \div m \in Nat
OBVIOUS

LEMMA WidthType == \A f \in {4, 6} : Width[f] \in Nat \ {0}
BY Ip2netAssumption

LEMMA OptionType ==
    ASSUME opt \in Options, Accepted(opt)
    PROVE  /\ opt.family \in {4, 6}
           /\ opt.mul \in Nat /\ opt.div \in Nat \ {0} /\ opt.threshold \in Nat
           /\ \A z \in ZctMin..ZctMax : z \in 1..Width[opt.family]
<1>1. /\ opt.family \in {4, 6}
      /\ opt.mul \in Nat /\ opt.div \in Nat /\ opt.threshold \in Nat
      /\ opt.plen1 \in Nat /\ opt.plen2 \in Nat
  BY Ip2netAssumption
<1>2. Width[opt.family] \in Nat
  BY <1>1, WidthType
<1>3. /\ 1 <= opt.plen1 /\ opt.plen2 < Width[opt.family] /\ opt.div >= 2
  BY DEF Accepted
<1> QED
  BY <1>1, <1>2, <1>3 DEF ZctMin, ZctMax

LEMMA ZeroBits ==
    ASSUME NEW a \in Nat, NEW b \in Nat, InNet(a, b, 0)
    PROVE  a = b
<1>1. Pow2[0] = 1
  BY Ip2netAssumption
<1>2. \A n \in Nat : n \div 1 = n
  OBVIOUS
<1> QED
  BY <1>1, <1>2 DEF InNet, Prefix

\* A network's first address stands for the network.
LEMMA StartOfNet ==
    ASSUME NEW a \in Nat, NEW f \in {4, 6}, NEW z \in 0..Width[f]
    PROVE  /\ NetStart(a, z) \in Nat
           /\ \A b : InNet(NetStart(a, z), b, z) <=> InNet(a, b, z)
<1>1. Pow2[z] \in Nat \ {0}
  BY PowType
<1>2. Prefix(a, z) \in Nat
  BY <1>1, DivType DEF Prefix
<1>3. NetStart(a, z) \in Nat
  BY <1>1, <1>2 DEF NetStart
<1>4. Prefix(NetStart(a, z), z) = Prefix(a, z)
  <2> DEFINE q == Prefix(a, z)
             m == Pow2[z]
  <2>1. q \in Nat /\ m \in Nat \ {0}
    BY <1>1, <1>2
  <2>2. (q * m) \div m = q
    <3> HIDE DEF q, m
    <3> QED BY <2>1, DivOfProduct
  <2> QED
    BY <2>2 DEF NetStart, Prefix
<1> QED
  BY <1>3, <1>4 DEF InNet

LEMMA MadeIncludes ==
    ASSUME opt \in Options, Accepted(opt), NEW a \in Nat, NEW z \in ZctMin..ZctMax
    PROVE  /\ Item(NetStart(a, z), Width[opt.family] - z) \in ItemType
           /\ Width[opt.family] - (Width[opt.family] - z) = z
           /\ \A b : Includes(Item(NetStart(a, z), Width[opt.family] - z), b)
                     <=> InNet(a, b, z)
<1>1. opt.family \in {4, 6} /\ z \in 1..Width[opt.family]
  BY OptionType
<1>2. Width[opt.family] \in Nat
  BY <1>1, WidthType
<1>3. Width[opt.family] - z \in Nat /\ Width[opt.family] - (Width[opt.family] - z) = z
  BY <1>1, <1>2
<1>4. /\ NetStart(a, z) \in Nat
      /\ \A b : InNet(NetStart(a, z), b, z) <=> InNet(a, b, z)
  BY <1>1, StartOfNet
<1> QED
  BY <1>1, <1>3, <1>4 DEF Item, ItemType, Includes

LEMMA SingleIncludes ==
    ASSUME opt \in Options, Accepted(opt), NEW a \in Nat
    PROVE  /\ Item(a, Width[opt.family]) \in ItemType
           /\ Width[opt.family] - Width[opt.family] = 0
           /\ \A b \in Nat : Includes(Item(a, Width[opt.family]), b) <=> b = a
<1>1. opt.family \in {4, 6} /\ Width[opt.family] \in Nat
  BY OptionType, WidthType
<1>2. Width[opt.family] - Width[opt.family] = 0
  BY <1>1
<1>3. \A b \in Nat : Includes(Item(a, Width[opt.family]), b) <=> InNet(a, b, 0)
  BY <1>1, <1>2 DEF Item, Includes
<1>4. \A b \in Nat : InNet(a, b, 0) <=> b = a
  BY ZeroBits DEF InNet
<1> QED
  BY <1>1, <1>2, <1>3, <1>4 DEF Item, ItemType

\* A product that fits a word is its rest.
LEMMA SmallRest ==
    ASSUME NEW x \in Nat, NEW m \in Nat \ {0}, x < m
    PROVE  x % m = x
OBVIOUS

\* What a network was made for, of the addresses it holds.
LEMMA NetFilled ==
    ASSUME opt \in Options, Accepted(opt), IsFiniteSet(listed), left \subseteq listed,
           NEW a \in left, NEW z \in ZctMin..ZctMax, Qualifies(a, z)
    PROVE  LET held == Cardinality({b \in listed : InNet(a, b, z)})
               product == Pow2[z] * opt.mul
               kept == IF product < Pow2[Word] THEN product ELSE product % Pow2[Word]
           IN  held > 1 /\ held >= IF opt.family = 4 THEN kept \div opt.div
                                   ELSE opt.threshold
<1> DEFINE S == {b \in listed : InNet(a, b, z)}
           product == Pow2[z] * opt.mul
           kept == IF product < Pow2[Word] THEN product ELSE product % Pow2[Word]
<1>1. opt.family \in {4, 6} /\ z \in 0..Width[opt.family]
      /\ opt.mul \in Nat /\ opt.div \in Nat \ {0} /\ opt.threshold \in Nat
  BY OptionType
<1>2. Holds(a, z) > 1 /\ Holds(a, z) >= Threshold(z)
  BY DEF Qualifies
<1>3. IsFiniteSet(S) /\ Held(a, z) \subseteq S
  BY FS_Subset DEF Held
<1>4. Holds(a, z) \in Nat /\ Cardinality(S) \in Nat /\ Holds(a, z) <= Cardinality(S)
  BY <1>3, FS_Subset, FS_CardinalityType DEF Holds
<1>5. CASE opt.family = 4
  <2>1. Pow2[z] \in Nat \ {0} /\ Pow2[Word] \in Nat \ {0}
    <3>1. Pow2[z] \in Nat \ {0}
      BY <1>1, PowType
    <3>2. Pow2[Word] \in Nat \ {0}
      BY WordType
    <3> QED
      BY <3>1, <3>2
  <2>2. product \in Nat
    BY <1>1, <2>1
  <2>3. kept = product % Pow2[Word]
    <3>1. CASE product < Pow2[Word]
      BY <2>1, <2>2, <3>1, SmallRest
    <3> QED
      BY <3>1
  <2>4. Threshold(z) = kept \div opt.div
    BY <1>5, <2>3 DEF Threshold, Share
  <2>5. kept \in Nat
    BY <2>1, <2>2, <2>3
  <2>6. Threshold(z) \in Nat
    BY <1>1, <2>4, <2>5, DivType
  <2>7. Cardinality(S) > 1 /\ Cardinality(S) >= Threshold(z)
    <3> HIDE DEF S
    <3> QED BY <1>2, <1>4, <2>6
  <2> QED
    BY <1>5, <2>4, <2>7
<1>6. CASE opt.family # 4
  <2>1. Cardinality(S) > 1 /\ Cardinality(S) >= opt.threshold
    <3> HIDE DEF S
    <3> QED BY <1>1, <1>2, <1>4, <1>6 DEF Threshold
  <2> QED
    BY <1>6, <2>1
<1> QED
  BY <1>5, <1>6

-----------------------------------------------------------------------------
LEMMA InitInv == Ip2netInit => IInv
<1> SUFFICES ASSUME Ip2netInit PROVE IInv
  OBVIOUS
<1>1. IsFiniteSet({})
  BY FS_EmptySet
<1>2. TypeInv
  BY <1>1 DEF Ip2netInit, ToolInit, TypeInv
<1> QED
  BY <1>2 DEF Ip2netInit, ToolInit, IInv, ReadInv, MergeInv, Filled

LEMMA WriteInv ==
    ASSUME IInv, NEW l \in Lines, Write(l)
    PROVE  IInv'
<1> USE DEF Write, toolVars
<1>1. /\ stdin' \in Seq(Lines) /\ Len(stdin') = Len(stdin) + 1
      /\ \A i \in 1..Len(stdin) : stdin'[i] = stdin[i]
  BY DEF IInv, TypeInv
<1>2. TypeInv'
  BY <1>1 DEF IInv, TypeInv, Accepted
<1>3. ReadInv'
  BY <1>1 DEF IInv, TypeInv, ReadInv, IsAddress, IsPassed, Known
<1>4. MergeInv'
  BY DEF IInv, MergeInv, Includes, InNet, Prefix
<1>5. Filled'
  BY DEF IInv, Filled, Enough, ZctMin, ZctMax, Includes, InNet, Prefix
<1> QED
  BY <1>2, <1>3, <1>4, <1>5 DEF IInv

LEMMA CloseInv ==
    ASSUME IInv, Close
    PROVE  IInv'
<1> USE DEF Close, toolVars
<1>1. TypeInv'
  BY DEF IInv, TypeInv, Accepted
<1>2. ReadInv'
  BY DEF IInv, ReadInv, IsAddress, IsPassed, Known
<1>3. MergeInv'
  BY DEF IInv, MergeInv, Includes, InNet, Prefix
<1>4. Filled'
  BY DEF IInv, Filled, Enough, ZctMin, ZctMax, Includes, InNet, Prefix
<1> QED
  BY <1>1, <1>2, <1>3, <1>4 DEF IInv

LEMMA ReadOneInv ==
    ASSUME IInv, ReadOne, UNCHANGED <<stdin, eof>>
    PROVE  IInv'
<1> DEFINE l == stdin[taken + 1]
<1>1. taken \in Nat /\ taken + 1 \in 1..Len(stdin) /\ l \in Lines
  BY DEF IInv, TypeInv, ReadOne
<1>2. merged = <<>> /\ merged' = <<>> /\ phase = "read" /\ phase' = "read"
  BY DEF IInv, MergeInv, ReadOne
<1>3. /\ listed \subseteq listed' /\ listed' \subseteq Nat /\ IsFiniteSet(listed')
      /\ IsAddress(l) => l.addr \in listed'
  <2>1. l.addr \in Nat
    BY <1>1, Ip2netAssumption
  <2>2. IsFiniteSet(listed \cup {l.addr})
    BY FS_AddElement DEF IInv, TypeInv
  <2> QED
    BY <2>1, <2>2 DEF ReadOne, IInv, TypeInv
<1>4. /\ passed' \in Seq(Lines)
      /\ \A j \in 1..Len(passed) : j \in 1..Len(passed') /\ passed'[j] = passed[j]
      /\ IsPassed(l) => \E j \in 1..Len(passed') : passed'[j] = l
  <2>1. passed \in Seq(Lines)
    BY DEF IInv, TypeInv
  <2>2. CASE IsPassed(l)
    <3>1. passed' = Append(passed, l)
      BY <2>2 DEF ReadOne
    <3>2. /\ Len(passed') = Len(passed) + 1 /\ passed'[Len(passed) + 1] = l
          /\ passed' \in Seq(Lines) /\ Len(passed) \in Nat
          /\ \A j \in 1..Len(passed) : passed'[j] = passed[j]
      BY <1>1, <2>1, <3>1
    <3> QED
      BY <3>2
  <2>3. CASE ~IsPassed(l)
    BY <2>1, <2>3 DEF ReadOne
  <2> QED
    BY <2>2, <2>3
<1>5. TypeInv'
  BY <1>1, <1>2, <1>3, <1>4 DEF IInv, TypeInv, ReadOne, Accepted
<1>6. ReadInv'
  <2>1. \A i \in 1..taken' : i \in 1..taken \/ i = taken + 1
    BY <1>1 DEF ReadOne
  <2>2. ASSUME NEW i \in 1..taken'
        PROVE  /\ IsAddress(stdin[i]) => stdin[i].addr \in listed'
               /\ IsPassed(stdin[i]) => \E j \in 1..Len(passed') : passed'[j] = stdin[i]
    BY <1>3, <1>4, <2>1, <2>2 DEF IInv, ReadInv
  <2> QED
    BY <1>2, <2>2 DEF ReadInv, ReadOne, IsAddress, IsPassed, Known
<1> QED
  BY <1>2, <1>5, <1>6 DEF IInv, MergeInv, Filled

LEMMA SortInv ==
    ASSUME IInv, Sort \/ OutOfMemory \/ MergeDone, UNCHANGED <<stdin, eof>>
    PROVE  IInv'
<1>1. CASE Sort
  <2> USE DEF Sort
  <2>1. TypeInv'
    BY <1>1 DEF IInv, TypeInv, Accepted
  <2>2. ReadInv'
    BY <1>1 DEF IInv, ReadInv, IsAddress, IsPassed, Known
  <2>3. listed' \ left' = {}
    BY <1>1
  <2>4. MergeInv'
    BY <1>1, <2>3 DEF MergeInv
  <2>5. Filled'
    BY <1>1 DEF IInv, Filled, Enough, ZctMin, ZctMax, Includes, InNet, Prefix
  <2> QED
    BY <2>1, <2>2, <2>4, <2>5 DEF IInv
<1>2. CASE OutOfMemory
  <2> USE DEF OutOfMemory
  <2>1. TypeInv'
    BY <1>2 DEF IInv, TypeInv, Accepted
  <2>2. ReadInv'
    BY <1>2 DEF IInv, ReadInv, IsAddress, IsPassed, Known
  <2>3. MergeInv'
    BY <1>2 DEF MergeInv
  <2>4. Filled'
    BY <1>2 DEF IInv, Filled, Enough, ZctMin, ZctMax, Includes, InNet, Prefix
  <2> QED
    BY <2>1, <2>2, <2>3, <2>4 DEF IInv
<1>3. CASE MergeDone
  <2> USE DEF MergeDone
  <2>1. TypeInv'
    BY <1>3 DEF IInv, TypeInv, Accepted
  <2>2. ReadInv' /\ MergeInv'
    BY <1>3 DEF IInv, ReadInv, MergeInv, IsAddress, IsPassed, Known, Includes, InNet, Prefix
  <2>3. Filled'
    BY <1>3 DEF IInv, Filled, Enough, ZctMin, ZctMax, Includes, InNet, Prefix
  <2> QED
    BY <2>1, <2>2, <2>3 DEF IInv
<1> QED
  BY <1>1, <1>2, <1>3

\* A step that makes an item for what it takes from the array.
LEMMA MadeInv ==
    ASSUME IInv, UNCHANGED <<stdin, eof, opt, phase, taken, listed, passed>>,
           phase = "merge", NEW o \in ItemType,
           merged' = Append(merged, o), left' \subseteq left,
           \A b \in left \ left' : Includes(o, b),
           Enough(o)
    PROVE  IInv'
<1>1. merged \in Seq(ItemType)
  BY DEF IInv, TypeInv
<1>2. /\ merged' \in Seq(ItemType) /\ Len(merged) \in Nat
      /\ Len(merged') = Len(merged) + 1 /\ merged'[Len(merged) + 1] = o
      /\ \A i \in 1..Len(merged) : merged'[i] = merged[i]
  BY <1>1
<1>3. TypeInv'
  BY <1>2 DEF IInv, TypeInv, Accepted
<1>4. ReadInv'
  BY DEF IInv, ReadInv, IsAddress, IsPassed, Known
<1>5. MergeInv'
  <2>1. ASSUME NEW b \in listed \ left'
        PROVE  \E i \in 1..Len(merged') : Includes(merged'[i], b)
    <3>1. CASE b \in left
      BY <1>2, <3>1
    <3>2. CASE b \notin left
      <4>1. PICK i \in 1..Len(merged) : Includes(merged[i], b)
        BY <3>2 DEF IInv, MergeInv
      <4> QED
        BY <1>2, <4>1
    <3> QED
      BY <3>1, <3>2
  <2> QED
    BY <2>1 DEF MergeInv, Includes, InNet, Prefix
<1>6. Filled'
  <2>1. ASSUME NEW i \in 1..Len(merged')
        PROVE  Enough(merged'[i])
    <3>1. CASE i = Len(merged) + 1
      BY <1>2, <3>1
    <3>2. CASE i \in 1..Len(merged)
      BY <1>2, <3>2 DEF IInv, Filled
    <3> QED
      BY <1>2, <3>1, <3>2
  <2> QED
    BY <2>1 DEF Filled, Enough, ZctMin, ZctMax, Includes, InNet, Prefix
<1> QED
  BY <1>3, <1>4, <1>5, <1>6 DEF IInv

LEMMA MergeNetInv ==
    ASSUME IInv, UNCHANGED <<stdin, eof>>, NEW a \in left, NEW z \in ZctMin..ZctMax,
           MergeNet(a, z)
    PROVE  IInv'
<1> DEFINE o == Item(NetStart(a, z), Width[opt.family] - z)
<1>1. /\ opt \in Options /\ phase = "merge" /\ Accepted(opt)
      /\ a \in Nat /\ left \subseteq listed /\ IsFiniteSet(listed) /\ left \subseteq Nat
  BY DEF IInv, TypeInv, MergeNet
<1>2. /\ o \in ItemType /\ o.family = opt.family /\ Width[o.family] - o.bits = z
      /\ \A b : Includes(o, b) <=> InNet(a, b, z)
  BY <1>1, MadeIncludes DEF Item
<1>3. Qualifies(a, z) /\ z # 0
  BY <1>1, OptionType DEF MergeNet, IsBest, Qualifying
<1>4. left' = left \ Held(a, z) /\ \A b \in left \ left' : Includes(o, b)
  BY <1>2 DEF MergeNet, Held
<1>5. Enough(o)
  <2>1. {b \in listed : Includes(o, b)} = {b \in listed : InNet(a, b, z)}
    BY <1>2
  <2> DEFINE held == Cardinality({b \in listed : InNet(a, b, z)})
             product == Pow2[z] * opt.mul
             kept == IF product < Pow2[Word] THEN product ELSE product % Pow2[Word]
  <2>2. held > 1 /\ held >= IF opt.family = 4 THEN kept \div opt.div ELSE opt.threshold
    BY <1>1, <1>3, NetFilled
  <2> HIDE DEF o
  <2> QED
    BY <1>2, <1>3, <2>1, <2>2 DEF Enough
<1> QED
  <2>1. merged' = Append(merged, o) /\ left' \subseteq left
        /\ UNCHANGED <<stdin, eof, opt, phase, taken, listed, passed>>
    BY <1>4 DEF MergeNet
  <2> HIDE DEF o
  <2> QED
    BY <1>1, <1>2, <1>4, <1>5, <2>1, MadeInv

LEMMA MergeSingleInv ==
    ASSUME IInv, UNCHANGED <<stdin, eof>>, NEW a \in left, MergeSingle(a)
    PROVE  IInv'
<1> DEFINE o == Item(a, Width[opt.family])
<1>1. /\ opt \in Options /\ phase = "merge" /\ Accepted(opt)
      /\ a \in listed /\ a \in Nat /\ listed \subseteq Nat
  BY DEF IInv, TypeInv, MergeSingle
<1>2. /\ o \in ItemType /\ o.family = opt.family /\ Width[o.family] - o.bits = 0
      /\ \A b \in Nat : Includes(o, b) <=> b = a
  BY <1>1, SingleIncludes DEF Item
<1>3. left' = left \ {a} /\ \A b \in left \ left' : Includes(o, b)
  BY <1>1, <1>2 DEF MergeSingle
<1>4. Enough(o)
  <2>1. {b \in listed : Includes(o, b)} = {a}
    BY <1>1, <1>2
  <2>2. Cardinality({a}) = 1
    BY FS_Singleton
  <2> HIDE DEF o
  <2> QED
    BY <1>2, <2>1, <2>2 DEF Enough
<1> QED
  <2>1. merged' = Append(merged, o) /\ left' \subseteq left
        /\ UNCHANGED <<stdin, eof, opt, phase, taken, listed, passed>>
    BY <1>3 DEF MergeSingle
  <2> HIDE DEF o
  <2> QED
    BY <1>1, <1>2, <1>3, <1>4, <2>1, MadeInv

\* Every step of ip2net, and of who writes its input, preserves IInv.
LEMMA NextInv == IInv /\ [Ip2netNext]_ip2netVars => IInv'
<1> SUFFICES ASSUME IInv, [Ip2netNext]_ip2netVars PROVE IInv'
  OBVIOUS
<1>1. CASE \E l \in Lines : Write(l)
  BY <1>1, WriteInv
<1>2. CASE Close
  BY <1>2, CloseInv
<1>3. CASE Tool /\ UNCHANGED <<stdin, eof>>
  <2>1. CASE ReadOne
    BY <1>3, <2>1, ReadOneInv
  <2>2. CASE Sort \/ OutOfMemory \/ MergeDone
    BY <1>3, <2>2, SortInv
  <2>3. ASSUME NEW a \in left, MergeSingle(a) PROVE IInv'
    BY <1>3, <2>3, MergeSingleInv
  <2>4. ASSUME NEW a \in left, NEW z \in ZctMin..ZctMax, MergeNet(a, z) PROVE IInv'
    BY <1>3, <2>4, MergeNetInv
  <2> QED
    BY <1>3, <2>1, <2>2, <2>3, <2>4 DEF Tool
<1>4. CASE UNCHANGED ip2netVars
  <2>1. TypeInv'
    BY <1>4 DEF ip2netVars, toolVars, IInv, TypeInv, Accepted
  <2>2. ReadInv'
    BY <1>4 DEF ip2netVars, toolVars, IInv, ReadInv, IsAddress, IsPassed, Known
  <2>3. MergeInv'
    BY <1>4 DEF ip2netVars, toolVars, IInv, MergeInv, Includes, InNet, Prefix
  <2>4. Filled'
    BY <1>4 DEF ip2netVars, toolVars, IInv, Filled, Enough, ZctMin, ZctMax,
       Includes, InNet, Prefix
  <2> QED
    BY <2>1, <2>2, <2>3, <2>4 DEF IInv
<1> QED
  BY <1>1, <1>2, <1>3, <1>4 DEF Ip2netNext

THEOREM Inductive == Ip2netSpec => []IInv
BY InitInv, NextInv, PTL DEF Ip2netSpec

-----------------------------------------------------------------------------
LEMMA InvKeeps == IInv => Kept
<1> SUFFICES ASSUME IInv, phase = "done", NEW i \in 1..Len(stdin)
             PROVE  /\ IsAddress(stdin[i]) =>
                          \E o \in Items : Includes(o, stdin[i].addr)
                    /\ IsPassed(stdin[i]) => stdin[i] \in Items
  BY DEF Kept
<1>1. i \in 1..taken
  BY DEF IInv, ReadInv, TypeInv
<1>2. ASSUME IsAddress(stdin[i])
      PROVE  \E o \in Items : Includes(o, stdin[i].addr)
  <2>1. stdin[i].addr \in listed \ left
    BY <1>1, <1>2 DEF IInv, ReadInv, MergeInv
  <2>2. PICK j \in 1..Len(merged) : Includes(merged[j], stdin[i].addr)
    BY <2>1 DEF IInv, MergeInv
  <2> QED
    BY <2>2 DEF Items
<1>3. ASSUME IsPassed(stdin[i])
      PROVE  stdin[i] \in Items
  BY <1>1, <1>3 DEF IInv, ReadInv, Items
<1> QED
  BY <1>2, <1>3

\* Nothing of the input is missing in the output (main, 314-516).
THEOREM InputKept == Ip2netSpec => []Kept
<1>1. IInv => Kept
  BY InvKeeps
<1> QED
  BY <1>1, Inductive, PTL

\* A network is made only where two of its addresses are listed and, of all it has,
\* the share asked for as uint32_t computes it, or the number (ip2net.c, main).
THEOREM NetsFilled == Ip2netSpec => []Filled
<1>1. IInv => Filled
  BY DEF IInv
<1> QED
  BY <1>1, Inductive, PTL

-----------------------------------------------------------------------------
\* Networks are nested: those of one address grow with the bits that vary.

LEMMA DivUnique ==
    ASSUME NEW q \in Nat, NEW m \in Nat \ {0}, NEW r \in 0..m - 1
    PROVE  (q * m + r) \div m = q
OBVIOUS

LEMMA DivRest ==
    ASSUME NEW a \in Nat, NEW m \in Nat \ {0}
    PROVE  a \div m \in Nat /\ a % m \in 0..m - 1 /\ a = (a \div m) * m + (a % m)
OBVIOUS

LEMMA Halves ==
    ASSUME NEW q \in Nat
    PROVE  q \div 2 \in Nat /\ q % 2 \in 0..1 /\ q = (q \div 2) * 2 + (q % 2)
OBVIOUS

LEMMA Regroup ==
    ASSUME NEW s \in Nat, NEW m \in Nat, NEW t \in 0..1
    PROVE  (s * 2 + t) * m = s * (2 * m) + t * m
OBVIOUS

LEMMA DivTwice ==
    ASSUME NEW a \in Nat, NEW m \in Nat \ {0}
    PROVE  a \div (2 * m) = (a \div m) \div 2
<1> DEFINE q == a \div m
           s == q \div 2
           t == q % 2
           r == a % m
<1>1. q \in Nat /\ r \in 0..m - 1 /\ a = q * m + r
  BY DivRest
<1>2. s \in Nat /\ t \in 0..1 /\ q = s * 2 + t
  BY <1>1, Halves
<1> HIDE DEF q, s, t, r
<1>3. q * m = s * (2 * m) + t * m
  BY <1>2, Regroup
<1>4. t * m \in {0, m}
  BY <1>2
<1>5. t * m + r \in 0..2 * m - 1 /\ 2 * m \in Nat \ {0}
  BY <1>1, <1>4
<1>6. s * (2 * m) \in Int
  BY <1>2
<1>7. a = s * (2 * m) + (t * m + r)
  BY <1>1, <1>3, <1>4, <1>6
<1>8. (s * (2 * m) + (t * m + r)) \div (2 * m) = s
  BY <1>2, <1>5, DivUnique
<1> QED
  BY <1>7, <1>8 DEF s, q

\* A property of 0 that goes from each number to the next holds of all.
LEMMA Upwards ==
    ASSUME NEW S \in SUBSET Nat, 0 \in S, \A n \in S : n + 1 \in S
    PROVE  S = Nat
<1> DEFINE R == Nat \ S
<1>1. SUFFICES ASSUME R # {} PROVE FALSE
  OBVIOUS
<1>2. PICK m \in R : \A n \in R : ~(<<n, m>> \in OpToRel(<, Nat))
  <2>1. R \in SUBSET Nat
    OBVIOUS
  <2> HIDE DEF R
  <2> QED
    BY <1>1, <2>1, WFMin, NatLessThanWellFounded
<1>3. m \in Nat /\ m # 0
  OBVIOUS
<1>4. m - 1 \in Nat /\ (m - 1) + 1 = m /\ m - 1 < m
  BY <1>3
<1>5. <<m - 1, m>> \in OpToRel(<, Nat)
  BY <1>3, <1>4 DEF OpToRel
<1>6. m - 1 \in S
  BY <1>2, <1>4, <1>5
<1> QED
  BY <1>4, <1>6

LEMMA Nested ==
    ASSUME NEW f \in {4, 6}, NEW a \in Nat, NEW b \in Nat,
           NEW y \in 0..Width[f], NEW z \in y..Width[f], InNet(a, b, y)
    PROVE  InNet(a, b, z)
<1> DEFINE S == {n \in Nat : y + n \in 0..Width[f] => InNet(a, b, y + n)}
<1>1. Width[f] \in Nat /\ y \in Nat /\ y + 0 = y
  BY WidthType
<1>2. 0 \in S
  BY <1>1
<1>3. ASSUME NEW n \in S PROVE n + 1 \in S
  <2> SUFFICES ASSUME y + (n + 1) \in 0..Width[f] PROVE InNet(a, b, y + (n + 1))
    OBVIOUS
  <2> DEFINE x == y + n
  <2>1. x \in 0..Width[f] /\ x + 1 \in 0..Width[f] /\ (x + 1) - 1 = x /\ x + 1 # 0 /\ y + (n + 1) = x + 1
    BY <1>1
  <2>2. InNet(a, b, x)
    BY <2>1
  <2> HIDE DEF x
  <2>3. Pow2[x] \in Nat \ {0} /\ Pow2[x + 1] = 2 * Pow2[x]
    BY <2>1, PowType, Ip2netAssumption
  <2>4. Prefix(a, x + 1) = Prefix(a, x) \div 2 /\ Prefix(b, x + 1) = Prefix(b, x) \div 2
    BY <2>3, DivTwice DEF Prefix
  <2> QED
    BY <2>1, <2>2, <2>4 DEF InNet
<1>4. z - y \in Nat /\ y + (z - y) = z /\ z \in 0..Width[f]
  BY <1>1
<1>5. z - y \in S
  <2>1. S \in SUBSET Nat
    OBVIOUS
  <2> HIDE DEF S
  <2> QED
    BY <1>2, <1>3, <1>4, <2>1, Upwards
<1> QED
  BY <1>4, <1>5

-----------------------------------------------------------------------------
\* Networks apart

Size(o) == Width[opt.family] - o.bits

\* No address left is in a network made, or makes with what is left another
\* that takes one in: the inductive invariant behind Disjoint, with IInv.
Apart ==
    \A i \in 1..Len(merged) :
      /\ merged[i].family = opt.family /\ Size(merged[i]) \in 0..Width[opt.family]
      /\ \A c \in left :
           /\ ~InNet(merged[i].addr, c, Size(merged[i]))
           /\ \A z \in ZctMin..ZctMax : InNet(merged[i].addr, c, z) => ~Qualifies(c, z)

LEMMA ThresholdType ==
    ASSUME opt \in Options, Accepted(opt), NEW z \in ZctMin..ZctMax
    PROVE  Threshold(z) \in Nat
<1>1. /\ opt.family \in {4, 6} /\ z \in 0..Width[opt.family]
      /\ opt.mul \in Nat /\ opt.div \in Nat \ {0} /\ opt.threshold \in Nat
  BY OptionType
<1>2. Pow2[z] * opt.mul \in Nat /\ Pow2[Word] \in Nat \ {0}
  <2>1. Pow2[z] \in Nat \ {0} /\ Pow2[Word] \in Nat \ {0}
    BY <1>1, PowType, Ip2netAssumption
  <2> QED
    BY <1>1, <2>1
<1>3. (Pow2[z] * opt.mul) % Pow2[Word] \in Nat
  BY <1>2
<1>4. Share(z, opt.mul) \in Nat
  BY <1>1, <1>3, DivType DEF Share
<1> QED
  BY <1>1, <1>4 DEF Threshold

\* A network of fewer addresses left qualifies later only where it does now.
LEMMA QualifiesLater ==
    ASSUME TypeInv, Accepted(opt), opt' = opt, left' \subseteq left, NEW c, NEW z, Qualifies(c, z)'
    PROVE  Qualifies(c, z)
<1>1. IsFiniteSet(left) /\ Held(c, z)' \subseteq Held(c, z) /\ Held(c, z) \subseteq left
  BY FS_Subset DEF TypeInv, Held, InNet, Prefix
<1>2. /\ IsFiniteSet(Held(c, z)) /\ Holds(c, z) \in Nat /\ Holds(c, z)' \in Nat
      /\ Holds(c, z)' <= Holds(c, z)
  BY <1>1, FS_Subset, FS_CardinalityType DEF Holds
<1>3. /\ z \in ZctMin..ZctMax /\ ~TooHigh(c, z)
      /\ Holds(c, z)' > 1 /\ Holds(c, z)' >= Threshold(z)
  BY DEF Qualifies, TooHigh, NetStart, Prefix, Share, Threshold, ZctMin, ZctMax
<1>4. Threshold(z) \in Nat
  BY <1>3, ThresholdType DEF TypeInv
<1>5. Holds(c, z) > 1 /\ Holds(c, z) >= Threshold(z)
  BY <1>2, <1>3, <1>4
<1> QED
  BY <1>3, <1>5 DEF Qualifies

\* A network that qualifies for an address qualifies for the least it holds.
LEMMA QualifiesFirst ==
    ASSUME TypeInv, Accepted(opt), NEW a \in left, NEW c \in left, a <= c, NEW z,
           InNet(a, c, z), Qualifies(c, z)
    PROVE  Qualifies(a, z) /\ c \in Held(a, z)
<1>1. Held(a, z) = Held(c, z) /\ NetStart(a, z) = NetStart(c, z)
  BY DEF Held, InNet, NetStart
<1>2. /\ opt.family \in {4, 6} /\ z \in 0..Width[opt.family]
      /\ opt.mul \in Nat /\ opt.div \in Nat \ {0} /\ opt.threshold \in Nat
  BY OptionType DEF TypeInv, Qualifies
<1>3. ~TooHigh(c, z) => ~TooHigh(a, z)
  <2> SUFFICES ASSUME opt.family = 4, TooHigh(a, z) PROVE TooHigh(c, z)
    BY DEF TooHigh
  <2> DEFINE most == (NetStart(a, z) + Share(z, opt.div - opt.mul)) % Pow2[Word]
  <2>1. Pow2[z] \in Nat \ {0} /\ Pow2[Word] \in Nat \ {0} /\ a \in Nat /\ c \in Nat
    <3>1. Pow2[z] \in Nat \ {0}
      BY <1>2, PowType
    <3>2. Pow2[Word] \in Nat \ {0}
      BY Ip2netAssumption
    <3> QED
      BY <3>1, <3>2 DEF TypeInv
  <2>2. Prefix(a, z) \in Nat /\ NetStart(a, z) \in Nat
    BY <1>2, <2>1, StartOfNet, DivType DEF Prefix
  <2>3. Pow2[z] * (opt.div - opt.mul) \in Int
    BY <1>2, <2>1
  <2>4. (Pow2[z] * (opt.div - opt.mul)) % Pow2[Word] \in Nat
    BY <2>1, <2>3
  <2>5. Share(z, opt.div - opt.mul) \in Nat
    BY <1>2, <2>4, DivType DEF Share
  <2>6. most \in Int
    BY <2>1, <2>2, <2>5
  <2>7. a > most
    BY DEF TooHigh
  <2> HIDE DEF most
  <2>8. c > most
    BY <2>1, <2>6, <2>7
  <2> QED
    BY <1>1, <2>8 DEF TooHigh, most
<1> QED
  BY <1>1, <1>3 DEF Qualifies, Held, Holds

\* What the best network leaves alone makes no larger one with it.
LEMMA BestLeavesNone ==
    ASSUME TypeInv, Accepted(opt), NEW a \in left, NEW c \in left, a <= c,
           NEW z, IsBest(a, z), ~InNet(a, c, z),
           NEW y \in ZctMin..ZctMax, z <= y, InNet(a, c, y)
    PROVE  ~Qualifies(c, y)
<1> SUFFICES ASSUME Qualifies(c, y) PROVE FALSE
  OBVIOUS
<1>1. Qualifies(a, y) /\ y \in Qualifying(a) /\ c \in Held(a, y)
  BY QualifiesFirst DEF Qualifying
<1>2. PICK first \in Qualifying(a) : (\A x \in Qualifying(a) : x <= first) /\ Holds(a, z) = Holds(a, first)
  BY DEF IsBest
<1>3. /\ z \in 0..Width[opt.family] /\ y \in z..Width[opt.family] /\ first \in y..Width[opt.family]
      /\ opt.family \in {4, 6}
  <2>1. z \in ZctMin..ZctMax /\ first \in ZctMin..ZctMax /\ y <= first
    BY <1>1, <1>2 DEF IsBest, Qualifying
  <2>2. /\ opt.family \in {4, 6} /\ z \in 1..Width[opt.family] /\ first \in 1..Width[opt.family]
        /\ y \in 1..Width[opt.family]
    BY <2>1, OptionType DEF TypeInv
  <2> QED
    BY <2>1, <2>2, WidthType
<1>4. left \subseteq Nat /\ IsFiniteSet(left)
  BY FS_Subset DEF TypeInv
<1>5. Held(a, z) \subseteq Held(a, y) /\ Held(a, y) \subseteq Held(a, first)
  <2>1. \A b \in left : InNet(a, b, z) => InNet(a, b, y)
    BY <1>3, <1>4, Nested
  <2>2. y \in 0..Width[opt.family]
    BY <1>3
  <2>3. \A b \in left : InNet(a, b, y) => InNet(a, b, first)
    BY <1>3, <1>4, <2>2, Nested
  <2> QED
    BY <2>1, <2>3 DEF Held
<1>6. c \in Held(a, first) /\ c \notin Held(a, z)
  BY <1>1, <1>5 DEF Held
<1>7. IsFiniteSet(Held(a, first)) /\ Held(a, z) \subseteq Held(a, first) /\ Held(a, z) # Held(a, first)
  BY <1>4, <1>5, <1>6, FS_Subset DEF Held
<1>8. Cardinality(Held(a, z)) < Cardinality(Held(a, first))
  BY <1>7, FS_Subset, FS_CardinalityType
<1>9. Cardinality(Held(a, z)) \in Nat
  BY <1>7, FS_Subset, FS_CardinalityType
<1> QED
  BY <1>2, <1>8, <1>9 DEF Holds

\* A step that makes o, where the addresses it leaves are apart from it.
LEMMA ApartMade ==
    ASSUME IInv, Accepted(opt), Apart, Disjoint,
           UNCHANGED <<opt, listed>>, NEW o \in ItemType,
           merged' = Append(merged, o), left' \subseteq left,
           o.family = opt.family, Size(o) \in 0..Width[opt.family],
           \A c \in left' :
             /\ ~InNet(o.addr, c, Size(o))
             /\ \A z \in ZctMin..ZctMax : InNet(o.addr, c, z) => ~Qualifies(c, z),
           \A i \in 1..Len(merged) : \A b \in listed : ~(Includes(merged[i], b) /\ Includes(o, b))
    PROVE  Apart' /\ Disjoint'
<1>1. TypeInv /\ merged \in Seq(ItemType)
  BY DEF IInv, TypeInv
<1>2. /\ Len(merged) \in Nat /\ Len(merged') = Len(merged) + 1 /\ merged'[Len(merged) + 1] = o
      /\ \A i \in 1..Len(merged) : merged'[i] = merged[i]
  BY <1>1
<1>3. \A c, z : Qualifies(c, z)' => Qualifies(c, z)
  BY <1>1, QualifiesLater
<1>4. Apart'
  <2> SUFFICES ASSUME NEW i \in 1..Len(merged')
               PROVE  /\ merged'[i].family = opt.family /\ Size(merged'[i]) \in 0..Width[opt.family]
                      /\ \A c \in left' :
                           /\ ~InNet(merged'[i].addr, c, Size(merged'[i]))
                           /\ \A z \in ZctMin..ZctMax :
                                InNet(merged'[i].addr, c, z) => ~Qualifies(c, z)'
    BY DEF Apart, Size, InNet, Prefix, ZctMin, ZctMax
  <2>1. CASE i = Len(merged) + 1
    BY <1>2, <1>3, <2>1
  <2>2. CASE i \in 1..Len(merged)
    BY <1>2, <1>3, <2>2 DEF Apart
  <2> QED
    BY <1>2, <2>1, <2>2
<1>5. Disjoint'
  <2> SUFFICES ASSUME NEW i \in 1..Len(merged'), NEW j \in 1..Len(merged'), i # j, NEW b \in listed
               PROVE  ~(Includes(merged'[i], b) /\ Includes(merged'[j], b))
    BY DEF Disjoint, Includes, InNet, Prefix
  <2>1. CASE i \in 1..Len(merged) /\ j \in 1..Len(merged)
    BY <1>2, <2>1 DEF Disjoint
  <2>2. CASE i = Len(merged) + 1 \/ j = Len(merged) + 1
    BY <1>2, <2>2
  <2> QED
    BY <1>2, <2>1, <2>2
<1> QED
  BY <1>4, <1>5

LEMMA NetApart ==
    ASSUME IInv, Apart, Disjoint, NEW a \in left, NEW z \in ZctMin..ZctMax, MergeNet(a, z)
    PROVE  Apart' /\ Disjoint'
<1> DEFINE o == Item(NetStart(a, z), Width[opt.family] - z)
<1>1. /\ TypeInv /\ opt \in Options /\ phase = "merge" /\ Accepted(opt)
      /\ left \subseteq Nat /\ listed \subseteq Nat /\ a \in Nat /\ \A b \in left : a <= b
      /\ IsBest(a, z) /\ Qualifies(a, z)
  BY DEF IInv, TypeInv, MergeNet, First, IsBest, Qualifying
<1>2. opt.family \in {4, 6} /\ z \in 0..Width[opt.family] /\ Width[opt.family] \in Nat
  BY <1>1, OptionType, WidthType
<1>3. /\ o \in ItemType /\ o.family = opt.family /\ Size(o) = z
      /\ o.addr = NetStart(a, z) /\ o.addr \in Nat
      /\ \A b : Includes(o, b) <=> InNet(a, b, z)
  BY <1>1, <1>2, MadeIncludes, StartOfNet DEF Item, Size
<1>4. \A b : InNet(o.addr, b, z) <=> InNet(a, b, z)
  BY <1>1, <1>2, <1>3, StartOfNet
<1>5. merged' = Append(merged, o) /\ left' = left \ Held(a, z) /\ UNCHANGED <<opt, listed>>
  BY DEF MergeNet
<1> HIDE DEF o
<1>6. \A c \in left' : ~InNet(o.addr, c, z)
  BY <1>4, <1>5 DEF Held
<1>7. ASSUME NEW c \in left', NEW y \in ZctMin..ZctMax, InNet(o.addr, c, y) PROVE ~Qualifies(c, y)
  <2>1. c \in left /\ c \in Nat /\ ~InNet(a, c, z) /\ y \in 0..Width[opt.family]
    BY <1>1, <1>4, <1>5, <1>6, <1>7, OptionType
  <2>2. CASE y <= z
    <3>1. z \in y..Width[opt.family]
      BY <1>2, <2>1, <2>2
    <3> QED
      BY <1>2, <1>3, <1>6, <1>7, <2>1, <3>1, Nested
  <2>3. CASE z <= y
    <3>1. y \in z..Width[opt.family]
      BY <1>2, <2>1, <2>3
    <3>2. InNet(o.addr, a, y)
      BY <1>1, <1>2, <1>3, <1>4, <3>1, Nested DEF InNet
    <3>3. InNet(a, c, y)
      BY <1>7, <3>2 DEF InNet
    <3> QED
      BY <1>1, <2>1, <2>3, <3>3, BestLeavesNone
  <2> QED
    BY <1>2, <2>1, <2>2, <2>3
<1>8. ASSUME NEW i \in 1..Len(merged), NEW b \in listed, Includes(merged[i], b), Includes(o, b)
      PROVE  FALSE
  <2> DEFINE m == merged[i]
             y == Size(m)
  <2>1. m \in ItemType /\ m.family = opt.family /\ y \in 0..Width[opt.family] /\ m.addr \in Nat
    <3>1. m \in ItemType
      BY <1>1 DEF TypeInv
    <3>2. m.family = opt.family /\ y \in 0..Width[opt.family]
      BY DEF Apart
    <3> QED
      BY <3>1, <3>2 DEF ItemType
  <2>2. ~InNet(m.addr, a, y) /\ ~InNet(m.addr, a, z)
    BY <1>1 DEF Apart
  <2>3. InNet(m.addr, b, y) /\ InNet(a, b, z) /\ b \in Nat
    BY <1>1, <1>3, <1>8, <2>1 DEF Includes, ItemType, Size
  <2> HIDE DEF m, y
  <2>4. CASE y <= z
    <3>1. z \in y..Width[opt.family]
      BY <1>2, <2>1, <2>4
    <3>2. InNet(m.addr, b, z)
      BY <1>2, <2>1, <2>3, <3>1, Nested
    <3> QED
      BY <2>2, <2>3, <3>2 DEF InNet
  <2>5. CASE z <= y
    <3>1. y \in z..Width[opt.family]
      BY <1>2, <2>1, <2>5
    <3>2. InNet(a, b, y)
      BY <1>1, <1>2, <2>3, <3>1, Nested
    <3> QED
      BY <2>2, <2>3, <3>2 DEF InNet
  <2> QED
    BY <1>2, <2>1, <2>4, <2>5
<1> QED
  BY <1>1, <1>2, <1>3, <1>5, <1>6, <1>7, <1>8, ApartMade

LEMMA SingleApart ==
    ASSUME IInv, Apart, Disjoint, NEW a \in left, MergeSingle(a)
    PROVE  Apart' /\ Disjoint'
<1> DEFINE o == Item(a, Width[opt.family])
<1>1. /\ TypeInv /\ opt \in Options /\ phase = "merge" /\ Accepted(opt)
      /\ left \subseteq Nat /\ listed \subseteq Nat /\ a \in Nat /\ \A b \in left : a <= b
      /\ Qualifying(a) = {}
  BY DEF IInv, TypeInv, MergeSingle, First
<1>2. opt.family \in {4, 6} /\ Width[opt.family] \in Nat
  BY <1>1, OptionType, WidthType
<1>3. /\ o \in ItemType /\ o.family = opt.family /\ Size(o) = 0 /\ o.addr = a
      /\ \A b \in Nat : Includes(o, b) <=> b = a
  BY <1>1, SingleIncludes DEF Item, Size
<1>4. merged' = Append(merged, o) /\ left' = left \ {a} /\ UNCHANGED <<opt, listed>>
  BY DEF MergeSingle
<1> HIDE DEF o
<1>5. \A c \in left' : ~InNet(o.addr, c, 0)
  BY <1>1, <1>3, <1>4, ZeroBits
<1>6. ASSUME NEW c \in left', NEW y \in ZctMin..ZctMax, InNet(o.addr, c, y) PROVE ~Qualifies(c, y)
  BY <1>1, <1>3, <1>4, <1>6, QualifiesFirst DEF Qualifying
<1>7. ASSUME NEW i \in 1..Len(merged), NEW b \in listed, Includes(merged[i], b), Includes(o, b)
      PROVE  FALSE
  <2>1. b = a /\ merged[i] \in ItemType
    BY <1>1, <1>3, <1>7 DEF TypeInv
  <2> QED
    BY <1>7, <2>1 DEF Apart, Includes, ItemType, Size
<1> QED
  BY <1>1, <1>2, <1>3, <1>4, <1>5, <1>6, <1>7, ApartMade

LEMMA InitApart == Ip2netInit => Apart /\ Disjoint
BY DEF Ip2netInit, ToolInit, Apart, Disjoint

LEMMA NextApart == IInv /\ Apart /\ Disjoint /\ [Ip2netNext]_ip2netVars => Apart' /\ Disjoint'
<1> SUFFICES ASSUME IInv, Apart, Disjoint, [Ip2netNext]_ip2netVars PROVE Apart' /\ Disjoint'
  OBVIOUS
<1>1. CASE UNCHANGED <<opt, left, merged, listed>>
  BY <1>1 DEF Apart, Disjoint, Includes, InNet, Prefix, Size, ZctMin, ZctMax, Qualifies, TooHigh,
              NetStart, Share, Holds, Held, Threshold
<1>2. CASE ReadOne \/ Sort
  <2>1. phase = "read" /\ merged = <<>> /\ merged' = <<>>
    BY <1>2 DEF ReadOne, Sort, IInv, MergeInv
  <2> QED
    BY <2>1 DEF Apart, Disjoint
<1>3. ASSUME NEW a \in left, MergeSingle(a) PROVE Apart' /\ Disjoint'
  BY <1>3, SingleApart
<1>4. ASSUME NEW a \in left, NEW z \in ZctMin..ZctMax, MergeNet(a, z) PROVE Apart' /\ Disjoint'
  BY <1>4, NetApart
<1> QED
  BY <1>1, <1>2, <1>3, <1>4 DEF Ip2netNext, ip2netVars, toolVars, Write, Close, Tool, OutOfMemory, MergeDone

\* No address is in two of the networks that ip2net makes: the search from a later
\* address never takes in one that an earlier search left alone (main).  A network
\* that is passed on may overlap them.
THEOREM NetsDisjoint == Ip2netSpec => []Disjoint
BY InitApart, NextApart, Inductive, PTL DEF Ip2netSpec

\* What ip2net writes stands for its input: all of it, no address in two networks
\* made, and these filled as was asked.
THEOREM OutputStands == Ip2netSpec => []StandsForInput
BY InputKept, NetsDisjoint, NetsFilled, PTL DEF StandsForInput

-----------------------------------------------------------------------------
\* mdig: the invariant

\* Where a thread has a line that is in no log yet, and where it has one that is
\* not counted yet.
Reporting == {"resolve", "print", "log"}
Busy == Reporting \cup {"stat"}
PCs == Busy \cup {"none", "get", "fgets", "progress", "ended"}

Counts == [ct : Nat, ok : Nat]
Printable == {l \in Lines : l.kind = "net"}

ThreadsTyped ==
    /\ input \in Inputs /\ next \in 1..(Len(input) + 1)
    /\ main \in {"create", "join", "done"} /\ created \in 0..MaxThreads
    /\ pc \in [M!Threads -> PCs]
    /\ line \in [M!Threads -> 0..Len(input)] /\ ok \in [M!Threads -> BOOLEAN]
    /\ printing \in [M!Threads -> Seq(Printable)]
    /\ stdin \in Seq(Lines)
    /\ resolved \in Seq(1..Len(input)) /\ failed \in Seq(1..Len(input))
    /\ stats \in Counts /\ seen \in [M!Threads -> Counts] /\ shown \in Seq(Counts)

\* The line is one to resolve or print, and what it shows has been printed.
Printed(i) ==
    /\ input[i].kind \in {"net", "name"}
    /\ input[i].kind = "net" => \E k \in 1..Len(stdin) : stdin[k] = input[i]

\* What the line of a thread is, at each place.
PlaceInv(t) ==
    /\ pc[t] = "none" <=> t > created
    /\ pc[t] \in Busy => line[t] \in 1..(next - 1)
    /\ pc[t] = "resolve" => input[line[t]].kind = "name" /\ ~ok[t]
    /\ pc[t] = "print" =>
         /\ input[line[t]].kind \in {"net", "name"} /\ printing[t] # <<>>
         /\ input[line[t]].kind = "net" => printing[t] = <<input[line[t]]>>
    /\ pc[t] = "log" => input[line[t]].kind # "empty" /\ (ok[t] => Printed(line[t]))
    /\ pc[t] = "ended" => next = Len(input) + 1

ThreadInv == \A t \in M!Threads : PlaceInv(t)

Logged(i) ==
    (\E k \in 1..Len(resolved) : resolved[k] = i) \/ (\E k \in 1..Len(failed) : failed[k] = i)

\* Each line read is in one log, once, or with one thread that is to report it,
\* unless it is empty.
LogInv ==
    /\ \A j, k \in 1..Len(resolved) : resolved[j] = resolved[k] => j = k
    /\ \A j, k \in 1..Len(failed) : failed[j] = failed[k] => j = k
    /\ \A j \in 1..Len(resolved), k \in 1..Len(failed) : resolved[j] # failed[k]
    /\ \A i \in 1..Len(input) : (\E k \in 1..Len(resolved) : resolved[k] = i) => Printed(i)
    /\ \A k \in 1..Len(resolved) : resolved[k] < next
    /\ \A k \in 1..Len(failed) : failed[k] < next /\ input[failed[k]].kind # "empty"
    /\ \A t \in M!Threads : pc[t] \in Reporting => ~Logged(line[t])
    /\ \A t, u \in M!Threads :
         (pc[t] \in Reporting /\ pc[u] \in Reporting /\ line[t] = line[u]) => t = u
    /\ \A i \in 1..(next - 1) :
         \/ input[i].kind = "empty" \/ Logged(i)
         \/ \E t \in M!Threads : pc[t] \in Reporting /\ line[t] = i

\* What is counted is what was read and what was resolved, but for what threads
\* are still to count.
CountInv ==
    /\ stats.ct + Cardinality({t \in M!Threads : pc[t] \in Busy}) = next - 1
    /\ stats.ok + Cardinality({t \in M!Threads : pc[t] = "stat" /\ ok[t]}) = Len(resolved)

\* A count of --stats lines that was reached is shown, or one thread is to show it.
ShownInv ==
    main # "done" =>
      /\ \A j, k \in 1..Len(shown) : shown[j].ct = shown[k].ct => j = k
      /\ \A t, u \in M!Threads :
           (pc[t] = "progress" /\ pc[u] = "progress" /\ seen[t].ct = seen[u].ct) => t = u
      /\ \A t \in M!Threads :
           pc[t] = "progress" =>
             seen[t].ct <= stats.ct /\ \A k \in 1..Len(shown) : shown[k].ct # seen[t].ct
      /\ \A k \in 1..Len(shown) : shown[k].ct <= stats.ct
      /\ \A n \in Nat \ {0} :
           n * Every <= stats.ct =>
             \/ \E k \in 1..Len(shown) : shown[k].ct = n * Every
             \/ \E t \in M!Threads : pc[t] = "progress" /\ seen[t].ct = n * Every

\* When mdig ends no thread is left, and what it has reported is complete.
EndInv ==
    /\ main = "done" => \A t \in M!Threads : pc[t] \in {"none", "ended"}
    /\ (main = "done" /\ code = 0) => next = Len(input) + 1 /\ M!ProgressComplete

MdigIInv == ThreadsTyped /\ ThreadInv /\ LogInv /\ CountInv /\ ShownInv /\ EndInv

-----------------------------------------------------------------------------
\* mdig: what a step leaves as it was

LEMMA ThreadsFinite == M!Threads = 1..MaxThreads /\ IsFiniteSet(M!Threads) /\ MaxThreads \in Nat
                       /\ Every \in Nat \ {0}
<1>1. MaxThreads \in Nat /\ Every \in Nat \ {0}
  BY PipeAssumption DEF M!MdigParameters
<1>2. M!Threads = 1..MaxThreads
  BY DEF M!Threads
<1> QED
  BY <1>1, <1>2, FS_Interval

LEMMA InputTyped ==
    ASSUME input \in Inputs
    PROVE  /\ Len(input) \in Nat
           /\ \A i \in 1..Len(input) :
                /\ input[i].kind \in {"empty", "bad", "name", "net"}
                /\ (input[i].kind = "net" /\ M!Valid(input[i])) => input[i] \in Printable
<1>1. \A file \in Inputs :
        /\ file \in Seq([kind : {"empty", "bad", "name"}]
                        \cup [kind : {"net"}, family : {4, 6}, addr : Nat, bits : Nat])
        /\ \A i \in DOMAIN file : (file[i].kind = "net" /\ M!Valid(file[i])) => file[i] \in Lines
  BY PipeAssumption
<1>2. \A i \in 1..Len(input) : input[i] \in [kind : {"empty", "bad", "name"}]
                        \cup [kind : {"net"}, family : {4, 6}, addr : Nat, bits : Nat]
  BY <1>1
<1>3. \A i \in 1..Len(input) : input[i].kind \in {"empty", "bad", "name", "net"}
  BY <1>2
<1>4. Len(input) \in Nat /\ DOMAIN input = 1..Len(input)
  BY <1>1
<1> QED
  BY <1>1, <1>3, <1>4 DEF Printable

\* Threads that go from one place to another without a line being taken or logged.
LEMMA LogKept ==
    ASSUME MdigIInv, NEW t \in M!Threads, NEW x \in PCs, pc' = [pc EXCEPT ![t] = x],
           pc[t] \in Reporting <=> x \in Reporting,
           UNCHANGED <<input, next, line, resolved, failed>>,
           \A i \in 1..Len(input) : Printed(i) => Printed(i)'
    PROVE  LogInv'
<1>1. pc \in [M!Threads -> PCs]
  BY DEF MdigIInv, ThreadsTyped
<1>2. \A u \in M!Threads : pc'[u] \in Reporting <=> pc[u] \in Reporting
  BY <1>1
<1>3. LogInv
  BY DEF MdigIInv
<1>4. \A i : Logged(i)' <=> Logged(i)
  BY DEF Logged
<1>5. \A i \in 1..Len(input) : (\E k \in 1..Len(resolved) : resolved[k] = i) => Printed(i)'
  BY <1>3 DEF LogInv
<1> QED
  BY <1>2, <1>3, <1>4, <1>5 DEF LogInv

LEMMA CountKept ==
    ASSUME MdigIInv, NEW t \in M!Threads, NEW x \in PCs, pc' = [pc EXCEPT ![t] = x],
           pc[t] \in Busy <=> x \in Busy, pc[t] # "stat", x # "stat",
           \A u \in M!Threads \ {t} : ok'[u] = ok[u],
           UNCHANGED <<stats, next, resolved>>
    PROVE  CountInv'
<1>1. pc \in [M!Threads -> PCs]
  BY DEF MdigIInv, ThreadsTyped
<1>2. {u \in M!Threads : pc'[u] \in Busy} = {u \in M!Threads : pc[u] \in Busy}
  BY <1>1
<1>3. {u \in M!Threads : pc'[u] = "stat" /\ ok'[u]} = {u \in M!Threads : pc[u] = "stat" /\ ok[u]}
  BY <1>1
<1>4. CountInv
  BY DEF MdigIInv
<1> QED
  BY <1>2, <1>3, <1>4 DEF CountInv

LEMMA ShownKept ==
    ASSUME MdigIInv, NEW t \in M!Threads, NEW x \in PCs, pc' = [pc EXCEPT ![t] = x],
           pc[t] # "progress", x # "progress", main' = main,
           UNCHANGED <<stats, seen, shown>>
    PROVE  ShownInv'
<1>1. pc \in [M!Threads -> PCs]
  BY DEF MdigIInv, ThreadsTyped
<1>2. \A u \in M!Threads : pc'[u] = "progress" <=> pc[u] = "progress"
  BY <1>1
<1>3. ShownInv
  BY DEF MdigIInv
<1> QED
  BY <1>2, <1>3 DEF ShownInv

\* As long as a thread does something mdig has not ended.
LEMMA EndKept ==
    ASSUME MdigIInv, NEW t \in M!Threads, pc[t] \notin {"none", "ended"}, UNCHANGED <<main, code>>
    PROVE  EndInv'
BY DEF MdigIInv, EndInv

-----------------------------------------------------------------------------
\* mdig: run_threads

LEMMA MdigBegins == Init => MdigIInv
<1> SUFFICES ASSUME Init PROVE MdigIInv
  OBVIOUS
<1>0. M!MdigInit
  BY DEF Init
<1>1. \A file \in Inputs : Len(file) \in Nat
  BY PipeAssumption
<1>2. ThreadsTyped
  BY <1>0, <1>1, ThreadsFinite DEF M!MdigInit, ThreadsTyped, PCs, Counts
<1>3. ThreadInv
  BY <1>0, ThreadsFinite DEF M!MdigInit, ThreadInv, PlaceInv, Busy, Reporting
<1>4. LogInv
  BY <1>0 DEF M!MdigInit, LogInv, Logged, Reporting
<1>5. CountInv
  <2>1. {t \in M!Threads : pc[t] \in Busy} = {}
    BY <1>0 DEF M!MdigInit, Busy, Reporting
  <2>2. {t \in M!Threads : pc[t] = "stat" /\ ok[t]} = {}
    BY <1>0 DEF M!MdigInit
  <2>3. Cardinality({}) = 0
    BY FS_EmptySet
  <2>4. stats.ct = 0 /\ stats.ok = 0 /\ next = 1 /\ Len(resolved) = 0
    BY <1>0 DEF M!MdigInit
  <2>5. stats.ct + Cardinality({t \in M!Threads : pc[t] \in Busy}) = next - 1
    BY <2>1, <2>3, <2>4
  <2>6. stats.ok + Cardinality({t \in M!Threads : pc[t] = "stat" /\ ok[t]}) = Len(resolved)
    BY <2>2, <2>3, <2>4
  <2> QED
    BY <2>5, <2>6 DEF CountInv
<1>6. ShownInv
  <2>1. \A n \in Nat \ {0} : ~(n * Every <= 0)
    BY ThreadsFinite
  <2>2. \A t \in M!Threads : pc[t] # "progress"
    BY <1>0 DEF M!MdigInit
  <2>3. shown = <<>> /\ stats.ct = 0
    BY <1>0 DEF M!MdigInit
  <2> QED
    BY <2>1, <2>2, <2>3 DEF ShownInv
<1>7. EndInv
  BY <1>0 DEF M!MdigInit, EndInv
<1> QED
  BY <1>2, <1>3, <1>4, <1>5, <1>6, <1>7 DEF MdigIInv

LEMMA Creating ==
    ASSUME MdigIInv, M!CreateThread
    PROVE  MdigIInv'
<1> USE DEF M!io, M!logs, M!work, M!counts
<1> DEFINE t == created + 1
<1>1. ThreadsTyped /\ ThreadInv
  BY DEF MdigIInv
<1>2. created \in 0..MaxThreads /\ created < MaxThreads
  BY <1>1 DEF ThreadsTyped, M!CreateThread
<1>3. t \in M!Threads /\ t > created
  BY <1>2, ThreadsFinite
<1>4. pc[t] = "none" /\ pc' = [pc EXCEPT ![t] = "get"] /\ created' = t /\ main = "create"
  BY <1>1, <1>3 DEF ThreadInv, PlaceInv, M!CreateThread
<1>5. UNCHANGED <<input, next, line, ok, tries, printing, stdin, resolved, failed, stats, seen, shown, code, main>>
  BY DEF M!CreateThread
<1>6. "get" \in PCs /\ "get" \notin Busy /\ "none" \notin Busy
  BY DEF PCs, Busy, Reporting
<1>7. ThreadsTyped'
  BY <1>1, <1>2, <1>4, <1>5, <1>6, ThreadsFinite DEF ThreadsTyped
<1>8. ThreadInv'
  <2>1. pc \in [M!Threads -> PCs]
    BY <1>1 DEF ThreadsTyped
  <2>2. \A u \in M!Threads : u # t => pc'[u] = pc[u]
    BY <1>4, <2>1
  <2>3. pc'[t] = "get"
    BY <1>3, <1>4, <2>1
  <2>4. \A u \in M!Threads : u # t => (u > created <=> u > t)
    BY <1>2, ThreadsFinite
  <2>5. \A i : Printed(i) => Printed(i)'
    BY <1>5 DEF Printed
  <2>6. \A u \in M!Threads : u # t => (pc'[u] = "none" <=> u > created')
    BY <1>1, <1>4, <2>2, <2>4 DEF ThreadInv, PlaceInv
  <2>7. ~(t > created')
    BY <1>2, <1>4
  <2> QED
    BY <1>1, <1>5, <1>6, <2>2, <2>3, <2>5, <2>6, <2>7 DEF ThreadInv, PlaceInv
<1>9. LogInv'
  <2>1. \A i \in 1..Len(input) : Printed(i) => Printed(i)'
    BY <1>5 DEF Printed
  <2> QED
    BY <1>3, <1>4, <1>5, <1>6, <2>1, LogKept DEF Busy
<1>10. CountInv' /\ ShownInv'
  BY <1>3, <1>4, <1>5, <1>6, CountKept, ShownKept
<1>11. EndInv'
  BY <1>4, <1>5 DEF EndInv
<1> QED
  BY <1>7, <1>8, <1>9, <1>10, <1>11 DEF MdigIInv

LEMMA CreatingEnds ==
    ASSUME MdigIInv, M!CreateFails \/ M!CreateDone
    PROVE  MdigIInv'
<1> USE DEF M!io, M!logs, M!work, M!counts
<1>1. main = "create" /\ main' = "join"
  BY DEF M!CreateFails, M!CreateDone
<1>2. UNCHANGED <<input, next, created, pc, line, ok, tries, printing, stdin, resolved, failed, stats, seen, shown, code>>
  BY DEF M!CreateFails, M!CreateDone
<1>3. ThreadsTyped' /\ ThreadInv'
  BY <1>1, <1>2 DEF MdigIInv, ThreadsTyped, ThreadInv, PlaceInv, Printed
<1>4. LogInv'
  BY <1>2 DEF MdigIInv, LogInv, Logged, Printed
<1>5. CountInv'
  BY <1>2 DEF MdigIInv, CountInv
<1>6. ShownInv' /\ EndInv'
  BY <1>1, <1>2 DEF MdigIInv, ShownInv, EndInv
<1> QED
  BY <1>3, <1>4, <1>5, <1>6 DEF MdigIInv

-----------------------------------------------------------------------------
\* mdig: t_resolver

\* The other threads see that lines are read and printed, and nothing else.
LEMMA PlacesKept ==
    ASSUME MdigIInv, NEW t \in M!Threads, NEW x \in PCs, pc' = [pc EXCEPT ![t] = x],
           UNCHANGED <<input, created>>,
           next' \in 1..(Len(input) + 1), next <= next',
           \A u \in M!Threads \ {t} :
             line'[u] = line[u] /\ ok'[u] = ok[u] /\ printing'[u] = printing[u],
           \A i \in 1..Len(input) : Printed(i) => Printed(i)',
           PlaceInv(t)'
    PROVE  ThreadInv'
<1>1. ThreadsTyped /\ ThreadInv
  BY DEF MdigIInv
<1>2. Len(input) \in Nat /\ next \in 1..(Len(input) + 1)
  BY <1>1, InputTyped DEF ThreadsTyped
<1>3. SUFFICES ASSUME NEW u \in M!Threads \ {t} PROVE PlaceInv(u)'
  BY DEF ThreadInv
<1>4. pc'[u] = pc[u] /\ line'[u] = line[u] /\ ok'[u] = ok[u] /\ printing'[u] = printing[u]
  BY <1>1 DEF ThreadsTyped
<1>5. PlaceInv(u)
  BY <1>1 DEF ThreadInv
<1>6. pc[u] = "log" => line[u] \in 1..(next - 1)
  BY <1>5 DEF PlaceInv, Busy, Reporting
<1>7. ((pc[u] = "log" /\ ok[u]) => Printed(line[u]))'
  <2>1. SUFFICES ASSUME pc'[u] = "log", ok'[u] PROVE Printed(line[u])'
    OBVIOUS
  <2>2. line[u] \in 1..Len(input) /\ Printed(line[u])
    BY <1>2, <1>4, <1>5, <1>6, <2>1 DEF PlaceInv
  <2>3. PICK i \in 1..Len(input) : i = line[u]
    BY <2>2
  <2>4. Printed(i)'
    BY <2>2, <2>3
  <2> QED
    BY <1>4, <2>3, <2>4 DEF Printed
<1> QED
  BY <1>2, <1>4, <1>5, <1>7 DEF PlaceInv

LEMMA Locking ==
    ASSUME MdigIInv, NEW t \in M!Threads, M!LockInput(t)
    PROVE  MdigIInv'
<1> USE DEF M!io, M!logs, M!work, M!counts
<1>1. pc[t] = "get" /\ pc' = [pc EXCEPT ![t] = "fgets"]
  BY DEF M!LockInput
<1>2. UNCHANGED <<input, next, main, created, line, ok, tries, printing, stdin, resolved, failed,
                  stats, seen, shown, code>>
  BY DEF M!LockInput
<1>3. ThreadsTyped /\ ThreadInv
  BY DEF MdigIInv
<1>4. "fgets" \in PCs /\ "fgets" \notin Busy /\ "get" \notin Busy
  BY DEF PCs, Busy, Reporting
<1>5. ThreadsTyped'
  BY <1>1, <1>2, <1>3, <1>4 DEF ThreadsTyped
<1>6. \A i \in 1..Len(input) : Printed(i) => Printed(i)'
  BY <1>2 DEF Printed
<1>7. ThreadInv'
  <2>1. pc'[t] = "fgets"
    BY <1>1, <1>3 DEF ThreadsTyped
  <2>2. PlaceInv(t)'
    BY <1>1, <1>2, <1>3, <1>4, <2>1 DEF ThreadInv, PlaceInv
  <2>4. next' \in 1..(Len(input) + 1) /\ next <= next'
    BY <1>2, <1>3, InputTyped DEF ThreadsTyped
  <2> QED
    BY <1>1, <1>2, <1>4, <1>6, <2>2, <2>4, PlacesKept
<1>8. LogInv'
  BY <1>1, <1>2, <1>4, <1>6, LogKept DEF Busy
<1>9. CountInv' /\ ShownInv' /\ EndInv'
  BY <1>1, <1>2, <1>4, CountKept, ShownKept, EndKept
<1> QED
  BY <1>5, <1>7, <1>8, <1>9 DEF MdigIInv

LEMMA ReadingEnds ==
    ASSUME MdigIInv, NEW t \in M!Threads, M!ReadEnd(t)
    PROVE  MdigIInv'
<1> USE DEF M!io, M!logs, M!work, M!counts
<1>1. pc[t] = "fgets" /\ pc' = [pc EXCEPT ![t] = "ended"] /\ next > Len(input)
  BY DEF M!ReadEnd
<1>2. UNCHANGED <<input, next, main, created, line, ok, tries, printing, stdin, resolved, failed,
                  stats, seen, shown, code>>
  BY DEF M!ReadEnd
<1>3. ThreadsTyped /\ ThreadInv
  BY DEF MdigIInv
<1>4. "ended" \in PCs /\ "fgets" \notin Busy /\ "ended" \notin Busy
  BY DEF PCs, Busy, Reporting
<1>5. ThreadsTyped'
  BY <1>1, <1>2, <1>3, <1>4 DEF ThreadsTyped
<1>6. \A i \in 1..Len(input) : Printed(i) => Printed(i)'
  BY <1>2 DEF Printed
<1>7. ThreadInv'
  <2>1. pc'[t] = "ended"
    BY <1>1, <1>3 DEF ThreadsTyped
  <2>2. next = Len(input) + 1
    BY <1>1, <1>3, InputTyped DEF ThreadsTyped
  <2>3. PlaceInv(t)'
    BY <1>1, <1>2, <1>3, <1>4, <2>1, <2>2 DEF ThreadInv, PlaceInv
  <2>4. next' \in 1..(Len(input) + 1) /\ next <= next'
    BY <1>2, <1>3, InputTyped DEF ThreadsTyped
  <2> QED
    BY <1>1, <1>2, <1>4, <1>6, <2>3, <2>4, PlacesKept
<1>8. LogInv'
  BY <1>1, <1>2, <1>4, <1>6, LogKept DEF Busy
<1>9. CountInv' /\ ShownInv' /\ EndInv'
  BY <1>1, <1>2, <1>4, CountKept, ShownKept, EndKept
<1> QED
  BY <1>5, <1>7, <1>8, <1>9 DEF MdigIInv

\* A line goes on being resolved, fails, or has its addresses to print.
LEMMA Resolving ==
    ASSUME MdigIInv, NEW t \in M!Threads, M!ResolveAgain(t) \/ M!ResolveFails(t) \/ M!Resolve(t)
    PROVE  MdigIInv'
<1> USE DEF M!io, M!logs, M!work, M!counts
<1> DEFINE x == pc'[t]
<1>1. ThreadsTyped /\ ThreadInv
  BY DEF MdigIInv
<1>2. pc[t] = "resolve" /\ pc' = [pc EXCEPT ![t] = x] /\ x \in {"resolve", "log", "print"}
  <2>1. CASE M!ResolveAgain(t)
    BY <1>1, <2>1 DEF ThreadsTyped, M!ResolveAgain
  <2>2. CASE M!ResolveFails(t)
    BY <1>1, <2>2 DEF ThreadsTyped, M!ResolveFails
  <2>3. CASE M!Resolve(t)
    BY <1>1, <2>3 DEF ThreadsTyped, M!Resolve
  <2> QED
    BY <2>1, <2>2, <2>3
<1>3. UNCHANGED <<input, next, main, created, line, ok, stdin, resolved, failed,
                  stats, seen, shown, code>>
  BY DEF M!ResolveAgain, M!ResolveFails, M!Resolve
<1>4. x \in PCs /\ x \in Busy /\ x \in Reporting /\ pc[t] \in Busy /\ pc[t] \in Reporting
  BY <1>2 DEF PCs, Busy, Reporting
<1>5. \/ printing' = printing
      \/ \E a \in Answers : printing' = [printing EXCEPT ![t] = a]
  BY DEF M!ResolveAgain, M!ResolveFails, M!Resolve
<1>6. \A a \in Answers : a \in Seq(Printable) /\ a # <<>>
  BY PipeAssumption DEF Printable
<1>7. x = "print" => printing'[t] # <<>>
  <2>1. CASE M!ResolveAgain(t)
    BY <1>1, <2>1 DEF ThreadsTyped, M!ResolveAgain
  <2>2. CASE M!ResolveFails(t)
    BY <1>1, <2>2 DEF ThreadsTyped, M!ResolveFails
  <2>3. CASE M!Resolve(t)
    BY <1>1, <1>6, <2>3 DEF ThreadsTyped, M!Resolve
  <2> QED
    BY <2>1, <2>2, <2>3
<1>8. ThreadsTyped'
  <2>1. printing' \in [M!Threads -> Seq(Printable)]
    BY <1>1, <1>5, <1>6 DEF ThreadsTyped
  <2> QED
    BY <1>1, <1>2, <1>3, <1>4, <2>1 DEF ThreadsTyped
<1>9. \A i \in 1..Len(input) : Printed(i) => Printed(i)'
  BY <1>3 DEF Printed
<1>10. ThreadInv'
  <2>1. PlaceInv(t)
    BY <1>1 DEF ThreadInv
  <2>2. line[t] \in 1..(next - 1) /\ input[line[t]].kind = "name" /\ ~ok[t]
    BY <1>2, <1>4, <2>1 DEF PlaceInv
  <2>3. (x = "none") <=> (t > created)
    BY <1>2, <2>1 DEF PlaceInv
  <2>4. PlaceInv(t)'
    BY <1>2, <1>3, <1>7, <2>2, <2>3 DEF PlaceInv
  <2>5. \A u \in M!Threads \ {t} : printing'[u] = printing[u]
    BY <1>1, <1>5 DEF ThreadsTyped
  <2>6. next' \in 1..(Len(input) + 1) /\ next <= next'
    BY <1>1, <1>3, InputTyped DEF ThreadsTyped
  <2> HIDE DEF x
  <2> QED
    BY <1>2, <1>3, <1>4, <1>9, <2>4, <2>5, <2>6, PlacesKept
<1> HIDE DEF x
<1>11. LogInv'
  BY <1>2, <1>3, <1>4, <1>9, LogKept
<1>12. CountInv' /\ ShownInv' /\ EndInv'
  BY <1>2, <1>3, <1>4, CountKept, ShownKept, EndKept
<1> QED
  BY <1>8, <1>10, <1>11, <1>12 DEF MdigIInv

LEMMA Reading ==
    ASSUME MdigIInv, NEW t \in M!Threads, M!ReadLine(t)
    PROVE  MdigIInv'
<1> USE DEF M!io, M!logs, M!work, M!counts
<1> DEFINE x == M!AfterRead(input[next])
<1>1. ThreadsTyped /\ ThreadInv /\ LogInv /\ CountInv
  BY DEF MdigIInv
<1>2. Len(input) \in Nat /\ next \in 1..Len(input) /\ next \in Nat
  BY <1>1, InputTyped DEF ThreadsTyped, M!ReadLine
<1>3. /\ pc[t] = "fgets" /\ pc' = [pc EXCEPT ![t] = x] /\ next' = next + 1
      /\ line' = [line EXCEPT ![t] = next] /\ ok' = [ok EXCEPT ![t] = FALSE]
      /\ printing' = [printing EXCEPT ![t] = IF x = "print" THEN <<input[next]>> ELSE <<>>]
  BY DEF M!ReadLine, M!OkAtFirst
<1>4. UNCHANGED <<input, main, created, stdin, resolved, failed, stats, seen, shown, code>>
  BY DEF M!ReadLine
<1>5. /\ input[next].kind \in {"empty", "bad", "name", "net"}
      /\ (input[next].kind = "net" /\ M!Valid(input[next])) => input[next] \in Printable
  BY <1>1, <1>2, InputTyped DEF ThreadsTyped
<1>6. /\ x \in {"stat", "resolve", "print", "log"}
      /\ x = "stat" <=> input[next].kind = "empty"
      /\ x = "resolve" => input[next].kind = "name"
      /\ x = "print" => input[next].kind = "net" /\ input[next] \in Printable
  BY <1>5 DEF M!AfterRead
<1> HIDE DEF x
<1>7. /\ x \in PCs /\ x \in Busy /\ "fgets" \notin Busy /\ "fgets" \notin Reporting
      /\ (x \in Reporting <=> input[next].kind # "empty") /\ x # "none" /\ x # "progress" /\ x # "ended"
  BY <1>6 DEF PCs, Busy, Reporting
<1>8. /\ pc'[t] = x /\ line'[t] = next /\ ok'[t] = FALSE
      /\ printing'[t] = IF x = "print" THEN <<input[next]>> ELSE <<>>
      /\ \A u \in M!Threads \ {t} : pc'[u] = pc[u] /\ line'[u] = line[u] /\ ok'[u] = ok[u]
                                    /\ printing'[u] = printing[u]
  BY <1>1, <1>3 DEF ThreadsTyped
<1>9. ThreadsTyped'
  <2>1. printing' \in [M!Threads -> Seq(Printable)]
    <3>1. (IF x = "print" THEN <<input[next]>> ELSE <<>>) \in Seq(Printable)
      BY <1>6
    <3> QED
      BY <1>1, <1>3, <3>1 DEF ThreadsTyped
  <2>2. next' \in 1..(Len(input') + 1)
    BY <1>2, <1>3, <1>4
  <2>3. /\ line' \in [M!Threads -> 0..Len(input')] /\ ok' \in [M!Threads -> BOOLEAN]
        /\ pc' \in [M!Threads -> PCs]
    BY <1>1, <1>2, <1>3, <1>4, <1>7 DEF ThreadsTyped
  <2> QED
    BY <1>1, <1>4, <2>1, <2>2, <2>3 DEF ThreadsTyped
<1>10. \A i \in 1..Len(input) : Printed(i) => Printed(i)'
  BY <1>4 DEF Printed
<1>11. ThreadInv'
  <2>1. PlaceInv(t)
    BY <1>1 DEF ThreadInv
  <2>2. ~(t > created)
    BY <1>3, <2>1 DEF PlaceInv
  <2>3. next \in 1..(next' - 1)
    BY <1>2, <1>3
  <2>4. PlaceInv(t)'
    BY <1>4, <1>6, <1>7, <1>8, <2>2, <2>3 DEF PlaceInv
  <2>5. next' \in 1..(Len(input) + 1) /\ next <= next'
    BY <1>2, <1>3
  <2> QED
    BY <1>3, <1>4, <1>7, <1>8, <1>10, <2>4, <2>5, PlacesKept
<1>12. LogInv'
  <2>1. \A i : Logged(i)' <=> Logged(i)
    BY <1>4 DEF Logged
  <2>2. /\ \A k \in 1..Len(resolved) : resolved[k] \in 1..Len(input) /\ resolved[k] < next
        /\ \A k \in 1..Len(failed) : failed[k] \in 1..Len(input) /\ failed[k] < next
    <3>1. resolved \in Seq(1..Len(input)) /\ failed \in Seq(1..Len(input))
      BY <1>1 DEF ThreadsTyped
    <3>2. /\ \A k \in 1..Len(resolved) : resolved[k] \in 1..Len(input)
          /\ \A k \in 1..Len(failed) : failed[k] \in 1..Len(input)
      BY <3>1
    <3>3. /\ \A k \in 1..Len(resolved) : resolved[k] < next
          /\ \A k \in 1..Len(failed) : failed[k] < next
      BY <1>1 DEF LogInv
    <3> QED
      BY <3>2, <3>3
  <2>3. ~Logged(next)
    BY <1>2, <2>2 DEF Logged
  <2>4. \A u \in M!Threads : pc[u] \in Reporting => line[u] \in 1..(next - 1)
    BY <1>1 DEF ThreadInv, PlaceInv, Busy
  <2>5. \A u \in M!Threads : pc'[u] \in Reporting => ~Logged(line'[u])
    <3>1. \A u \in M!Threads : pc[u] \in Reporting => ~Logged(line[u])
      BY <1>1 DEF LogInv
    <3> QED
      BY <1>8, <2>3, <3>1
  <2>6. \A u, v \in M!Threads :
          (pc'[u] \in Reporting /\ pc'[v] \in Reporting /\ line'[u] = line'[v]) => u = v
    <3>1. \A u, v \in M!Threads :
            (pc[u] \in Reporting /\ pc[v] \in Reporting /\ line[u] = line[v]) => u = v
      BY <1>1 DEF LogInv
    <3>2. \A u \in M!Threads : pc[u] \in Reporting => line[u] # next
      BY <1>2, <2>4
    <3> QED
      BY <1>8, <3>1, <3>2
  <2>7. \A i \in 1..(next' - 1) :
          \/ input'[i].kind = "empty" \/ Logged(i)
          \/ \E u \in M!Threads : pc'[u] \in Reporting /\ line'[u] = i
    <3> SUFFICES ASSUME NEW i \in 1..(next' - 1), input[i].kind # "empty", ~Logged(i)
                 PROVE  \E u \in M!Threads : pc'[u] \in Reporting /\ line'[u] = i
      BY <1>4
    <3>1. CASE i = next
      BY <1>7, <1>8, <3>1
    <3>2. CASE i \in 1..(next - 1)
      <4>1. PICK u \in M!Threads : pc[u] \in Reporting /\ line[u] = i
        BY <1>1, <3>2 DEF LogInv
      <4>2. u # t
        BY <1>3, <1>7, <4>1
      <4> QED
        BY <1>8, <4>1, <4>2
    <3> QED
      BY <1>2, <1>3, <3>1, <3>2
  <2>8. /\ \A k \in 1..Len(resolved) : resolved[k] < next'
        /\ \A k \in 1..Len(failed) : failed[k] < next' /\ input[failed[k]].kind # "empty"
    BY <1>1, <1>2, <1>3, <2>2 DEF LogInv
  <2>9. \A u \in M!Threads : (pc[u] \in Reporting => ~Logged(line[u]))'
    BY <1>4, <2>5 DEF Logged
  <2>10. \A i \in 1..Len(input) : (\E k \in 1..Len(resolved) : resolved[k] = i) => Printed(i)'
    BY <1>1, <1>10 DEF LogInv
  <2>11. /\ \A j, k \in 1..Len(resolved) : resolved[j] = resolved[k] => j = k
         /\ \A j, k \in 1..Len(failed) : failed[j] = failed[k] => j = k
         /\ \A j \in 1..Len(resolved), k \in 1..Len(failed) : resolved[j] # failed[k]
    BY <1>1 DEF LogInv
  <2> QED
    BY <1>4, <2>1, <2>6, <2>7, <2>8, <2>9, <2>10, <2>11 DEF LogInv
<1>13. CountInv'
  <2> DEFINE B == {u \in M!Threads : pc[u] \in Busy}
  <2>1. {u \in M!Threads : pc'[u] \in Busy} = B \cup {t}
    BY <1>7, <1>8
  <2>2. t \notin B
    BY <1>3, <1>7
  <2>3. IsFiniteSet(B)
    BY ThreadsFinite, FS_Subset
  <2>4. Cardinality(B \cup {t}) = Cardinality(B) + 1 /\ Cardinality(B) \in Nat
    BY <2>2, <2>3, FS_AddElement, FS_CardinalityType
  <2>5. {u \in M!Threads : pc'[u] = "stat" /\ ok'[u]} = {u \in M!Threads : pc[u] = "stat" /\ ok[u]}
    BY <1>3, <1>8
  <2>6. stats.ct \in Nat
    BY <1>1 DEF ThreadsTyped, Counts
  <2>7. stats.ct + Cardinality(B) = next - 1
    BY <1>1 DEF CountInv
  <2> HIDE DEF B
  <2>8. stats.ct + Cardinality(B \cup {t}) = next' - 1
    BY <1>2, <1>3, <2>4, <2>6, <2>7
  <2> QED
    BY <1>1, <1>4, <2>1, <2>5, <2>8 DEF CountInv
<1>14. ShownInv' /\ EndInv'
  BY <1>3, <1>4, <1>7, ShownKept, EndKept
<1> QED
  BY <1>9, <1>11, <1>12, <1>13, <1>14 DEF MdigIInv

\* An address is printed: lines that were printed before stay so.
LEMMA Printing ==
    ASSUME MdigIInv, NEW t \in M!Threads, M!PrintAddress(t)
    PROVE  MdigIInv'
<1> USE DEF M!io, M!logs, M!work, M!counts
<1> DEFINE last == Len(printing[t]) = 1
           x == IF last THEN "log" ELSE "print"
<1>1. ThreadsTyped /\ ThreadInv
  BY DEF MdigIInv
<1>2. /\ pc[t] = "print" /\ pc' = [pc EXCEPT ![t] = x] /\ ok' = [ok EXCEPT ![t] = last]
      /\ stdin' = Append(stdin, Head(printing[t]))
      /\ printing' = [printing EXCEPT ![t] = Tail(printing[t])]
  BY <1>1 DEF ThreadsTyped, M!PrintAddress
<1>3. UNCHANGED <<input, next, main, created, line, resolved, failed, stats, seen, shown, code>>
  BY DEF M!PrintAddress
<1>4. PlaceInv(t)
  BY <1>1 DEF ThreadInv
<1>5. printing[t] \in Seq(Printable) /\ printing[t] # <<>> /\ stdin \in Seq(Lines)
  BY <1>1, <1>2, <1>4 DEF ThreadsTyped, PlaceInv
<1>6. /\ Head(printing[t]) \in Printable /\ Tail(printing[t]) \in Seq(Printable)
      /\ (~last => Tail(printing[t]) # <<>>) /\ Printable \subseteq Lines
  <2>1. Head(printing[t]) \in Printable /\ Tail(printing[t]) \in Seq(Printable)
    BY <1>5
  <2>2. Len(Tail(printing[t])) = Len(printing[t]) - 1 /\ Len(printing[t]) \in Nat
    BY <1>5
  <2>3. Printable \subseteq Lines
    BY DEF Printable
  <2>4. Len(printing[t]) # 0 /\ Len(<<>>) = 0
    BY <1>5
  <2>5. ~last => Tail(printing[t]) # <<>>
    <3>1. Tail(printing[t]) = <<>> => Len(Tail(printing[t])) = 0
      BY <2>4
    <3> QED
      BY <2>2, <3>1
  <2> QED
    BY <2>1, <2>3, <2>5
<1>7. x \in PCs /\ x \in Busy /\ x \in Reporting /\ "print" \in Busy /\ "print" \in Reporting
  BY DEF PCs, Busy, Reporting
<1>8. /\ pc'[t] = x /\ ok'[t] = last /\ printing'[t] = Tail(printing[t])
      /\ \A u \in M!Threads \ {t} : ok'[u] = ok[u] /\ printing'[u] = printing[u]
  BY <1>1, <1>2 DEF ThreadsTyped
<1>9. ThreadsTyped'
  <2>1. stdin' \in Seq(Lines) /\ printing' \in [M!Threads -> Seq(Printable)]
    BY <1>1, <1>2, <1>5, <1>6 DEF ThreadsTyped
  <2>2. pc' \in [M!Threads -> PCs] /\ ok' \in [M!Threads -> BOOLEAN]
    BY <1>1, <1>2, <1>7 DEF ThreadsTyped
  <2> QED
    BY <1>1, <1>3, <2>1, <2>2 DEF ThreadsTyped
<1>10. \A l : (\E k \in 1..Len(stdin) : stdin[k] = l) => (\E k \in 1..Len(stdin') : stdin'[k] = l)
  BY <1>2, <1>5
<1>11. \A i \in 1..Len(input) : Printed(i) => Printed(i)'
  BY <1>3, <1>10 DEF Printed
<1>12. \E k \in 1..Len(stdin') : stdin'[k] = Head(printing[t])
  <2>1. Len(stdin') = Len(stdin) + 1 /\ Len(stdin) \in Nat /\ stdin'[Len(stdin) + 1] = Head(printing[t])
    BY <1>2, <1>5
  <2> QED
    BY <2>1
<1>13. ThreadInv'
  <2>1. line[t] \in 1..(next - 1) /\ input[line[t]].kind \in {"net", "name"} /\ ~(t > created)
    BY <1>2, <1>4, <1>7 DEF PlaceInv
  <2>2. input[line[t]].kind = "net" => last /\ Head(printing[t]) = input[line[t]]
    <3>1. input[line[t]].kind = "net" => printing[t] = <<input[line[t]]>>
      BY <1>2, <1>4 DEF PlaceInv
    <3>2. \A l : Len(<<l>>) = 1 /\ Head(<<l>>) = l
      OBVIOUS
    <3> QED
      BY <3>1, <3>2
  <2>3. (pc[t] = "log" => input[line[t]].kind # "empty" /\ (ok[t] => Printed(line[t])))'
    BY <1>3, <1>12, <2>1, <2>2 DEF Printed
  <2>4. (pc[t] = "print" =>
           /\ input[line[t]].kind \in {"net", "name"} /\ printing[t] # <<>>
           /\ input[line[t]].kind = "net" => printing[t] = <<input[line[t]]>>)'
    BY <1>3, <1>6, <1>8, <2>1, <2>2
  <2>5. pc'[t] \notin {"none", "resolve", "ended"}
    BY <1>8
  <2>6. PlaceInv(t)'
    BY <1>3, <2>1, <2>3, <2>4, <2>5 DEF PlaceInv
  <2>7. next' \in 1..(Len(input) + 1) /\ next <= next'
    BY <1>1, <1>3, InputTyped DEF ThreadsTyped
  <2> HIDE DEF x
  <2> QED
    BY <1>2, <1>3, <1>7, <1>8, <1>11, <2>6, <2>7, PlacesKept
<1>14. x # "stat" /\ x # "progress"
  OBVIOUS
<1> HIDE DEF x
<1>15. LogInv'
  BY <1>2, <1>3, <1>7, <1>11, LogKept
<1>16. CountInv' /\ ShownInv' /\ EndInv'
  BY <1>2, <1>3, <1>7, <1>8, <1>14, CountKept, ShownKept, EndKept
<1> QED
  BY <1>9, <1>13, <1>15, <1>16 DEF MdigIInv

LEMMA Appended ==
    ASSUME NEW S, NEW s \in Seq(S), NEW e \in S
    PROVE  /\ Append(s, e) \in Seq(S) /\ Len(s) \in Nat /\ Len(Append(s, e)) = Len(s) + 1
           /\ \A k \in 1..Len(s) : k \in 1..Len(Append(s, e)) /\ Append(s, e)[k] = s[k]
           /\ Append(s, e)[Len(s) + 1] = e
           /\ \A k \in 1..Len(Append(s, e)) : k \in 1..Len(s) \/ k = Len(s) + 1
OBVIOUS

\* A line goes to one log, once, and is no thread's any more.
LEMMA Logging ==
    ASSUME MdigIInv, NEW t \in M!Threads, M!Log(t)
    PROVE  MdigIInv'
<1> USE DEF M!io, M!logs, M!work, M!counts
<1> DEFINE own == line[t]
<1>1. ThreadsTyped /\ ThreadInv /\ LogInv /\ CountInv
  BY DEF MdigIInv
<1>2. pc[t] = "log" /\ pc' = [pc EXCEPT ![t] = "stat"]
  BY DEF M!Log
<1>3. \/ ok[t] /\ resolved' = Append(resolved, own) /\ failed' = failed
      \/ ~ok[t] /\ failed' = Append(failed, own) /\ resolved' = resolved
  BY DEF M!Log
<1>4. UNCHANGED <<input, next, main, created, line, ok, printing, stdin, stats, seen, shown, code>>
  BY DEF M!Log
<1>5. PlaceInv(t)
  BY <1>1 DEF ThreadInv
<1>6. /\ "stat" \in PCs /\ "stat" \in Busy /\ "log" \in Busy /\ "log" \in Reporting
      /\ "stat" \notin Reporting
  BY DEF PCs, Busy, Reporting
<1>7. next \in 1..(Len(input) + 1) /\ Len(input) \in Nat
  BY <1>1, InputTyped DEF ThreadsTyped
<1>8. own \in 1..(next - 1) /\ own \in 1..Len(input) /\ input[own].kind # "empty" /\ (ok[t] => Printed(own))
  BY <1>2, <1>5, <1>6, <1>7 DEF PlaceInv
<1>9. resolved \in Seq(1..Len(input)) /\ failed \in Seq(1..Len(input))
  BY <1>1 DEF ThreadsTyped
<1>10. ~Logged(own)
  BY <1>1, <1>2, <1>6 DEF LogInv
<1>11. pc'[t] = "stat" /\ \A u \in M!Threads \ {t} : pc'[u] = pc[u]
  BY <1>1, <1>2 DEF ThreadsTyped
<1> HIDE DEF own
<1>12. ThreadsTyped'
  <2>1. resolved' \in Seq(1..Len(input)) /\ failed' \in Seq(1..Len(input))
    <3>1. Append(resolved, own) \in Seq(1..Len(input)) /\ Append(failed, own) \in Seq(1..Len(input))
      BY <1>8, <1>9, Appended
    <3> QED
      BY <1>3, <1>9, <3>1
  <2>2. pc' \in [M!Threads -> PCs]
    BY <1>1, <1>2, <1>6 DEF ThreadsTyped
  <2> QED
    BY <1>1, <1>4, <2>1, <2>2 DEF ThreadsTyped
<1>13. \A i \in 1..Len(input) : Printed(i) => Printed(i)'
  BY <1>4 DEF Printed
<1>14. ThreadInv'
  <2>1. PlaceInv(t)'
    BY <1>2, <1>4, <1>5, <1>6, <1>11 DEF PlaceInv
  <2>2. next' \in 1..(Len(input) + 1) /\ next <= next'
    BY <1>4, <1>7
  <2> QED
    BY <1>2, <1>4, <1>6, <1>13, <2>1, <2>2, PlacesKept
<1>15. LogInv'
  <2>1. \A u \in M!Threads : pc'[u] \in Reporting <=> (u # t /\ pc[u] \in Reporting)
    BY <1>6, <1>11
  <2>2. \A u \in M!Threads : (u # t /\ pc[u] \in Reporting) => line[u] # own
    BY <1>1, <1>2, <1>6 DEF LogInv, own
  <2>3. \A i : Logged(i)' <=> (Logged(i) \/ i = own)
    <3>1. CASE ok[t]
      <4>1. resolved' = Append(resolved, own) /\ failed' = failed
        BY <1>3, <3>1
      <4>2. \A i : (\E k \in 1..Len(resolved') : resolved'[k] = i)
                     <=> (i = own \/ \E k \in 1..Len(resolved) : resolved[k] = i)
        <5>1. /\ \A k \in 1..Len(resolved) : k \in 1..Len(resolved') /\ resolved'[k] = resolved[k]
              /\ Len(resolved) + 1 \in 1..Len(resolved') /\ resolved'[Len(resolved) + 1] = own
              /\ \A k \in 1..Len(resolved') : k \in 1..Len(resolved) \/ k = Len(resolved) + 1
          BY <1>8, <1>9, <4>1, Appended
        <5> QED
          BY <5>1
      <4> QED
        BY <4>1, <4>2 DEF Logged
    <3>2. CASE ~ok[t]
      <4>1. failed' = Append(failed, own) /\ resolved' = resolved
        BY <1>3, <3>2
      <4>2. \A i : (\E k \in 1..Len(failed') : failed'[k] = i)
                     <=> (i = own \/ \E k \in 1..Len(failed) : failed[k] = i)
        <5>1. /\ \A k \in 1..Len(failed) : k \in 1..Len(failed') /\ failed'[k] = failed[k]
              /\ Len(failed) + 1 \in 1..Len(failed') /\ failed'[Len(failed) + 1] = own
              /\ \A k \in 1..Len(failed') : k \in 1..Len(failed) \/ k = Len(failed) + 1
          BY <1>8, <1>9, <4>1, Appended
        <5> QED
          BY <5>1
      <4> QED
        BY <4>1, <4>2 DEF Logged
    <3> QED
      BY <3>1, <3>2
  <2>4. /\ \A k \in 1..Len(resolved) : resolved[k] # own
        /\ \A k \in 1..Len(failed) : failed[k] # own
    BY <1>10 DEF Logged
  <2>5. /\ \A j, k \in 1..Len(resolved) : resolved[j] = resolved[k] => j = k
        /\ \A j, k \in 1..Len(failed) : failed[j] = failed[k] => j = k
        /\ \A j \in 1..Len(resolved), k \in 1..Len(failed) : resolved[j] # failed[k]
        /\ \A i \in 1..Len(input) : (\E k \in 1..Len(resolved) : resolved[k] = i) => Printed(i)
        /\ \A k \in 1..Len(resolved) : resolved[k] < next
        /\ \A k \in 1..Len(failed) : failed[k] < next /\ input[failed[k]].kind # "empty"
    BY <1>1 DEF LogInv
  <2>6. own < next
    BY <1>7, <1>8
  <2>7. (/\ \A j, k \in 1..Len(resolved) : resolved[j] = resolved[k] => j = k
         /\ \A j, k \in 1..Len(failed) : failed[j] = failed[k] => j = k
         /\ \A j \in 1..Len(resolved), k \in 1..Len(failed) : resolved[j] # failed[k]
         /\ \A k \in 1..Len(resolved) : resolved[k] < next
         /\ \A k \in 1..Len(failed) : failed[k] < next /\ input[failed[k]].kind # "empty")'
    <3>1. CASE ok[t]
      <4>1. resolved' = Append(resolved, own) /\ failed' = failed
        BY <1>3, <3>1
      <4>2. \A k \in 1..Len(resolved') :
              \/ k \in 1..Len(resolved) /\ resolved'[k] = resolved[k]
              \/ k = Len(resolved) + 1 /\ resolved'[k] = own
        BY <1>8, <1>9, <4>1, Appended
      <4> QED
        BY <1>4, <2>4, <2>5, <2>6, <4>1, <4>2
    <3>2. CASE ~ok[t]
      <4>1. failed' = Append(failed, own) /\ resolved' = resolved
        BY <1>3, <3>2
      <4>2. \A k \in 1..Len(failed') :
              \/ k \in 1..Len(failed) /\ failed'[k] = failed[k]
              \/ k = Len(failed) + 1 /\ failed'[k] = own
        BY <1>8, <1>9, <4>1, Appended
      <4> QED
        BY <1>4, <1>8, <2>4, <2>5, <2>6, <4>1, <4>2
    <3> QED
      BY <3>1, <3>2
  <2>8. \A i \in 1..Len(input) : (\E k \in 1..Len(resolved') : resolved'[k] = i) => Printed(i)'
    <3> SUFFICES ASSUME NEW i \in 1..Len(input), NEW k \in 1..Len(resolved'), resolved'[k] = i
                 PROVE  Printed(i)
      BY <1>13
    <3>1. CASE resolved' = resolved
      BY <2>5, <3>1
    <3>2. CASE ok[t] /\ resolved' = Append(resolved, own)
      <4>1. (k \in 1..Len(resolved) /\ resolved[k] = i) \/ i = own
        BY <1>8, <1>9, <3>2, Appended
      <4> QED
        BY <1>8, <2>5, <3>2, <4>1
    <3> QED
      BY <1>3, <3>1, <3>2
  <2>9. \A u \in M!Threads : (pc[u] \in Reporting => ~Logged(line[u]))'
    <3> SUFFICES ASSUME NEW u \in M!Threads, pc'[u] \in Reporting
                 PROVE  ~Logged(line[u])'
      OBVIOUS
    <3>1. PICK i : i = line[u]
      OBVIOUS
    <3>2. ~Logged(i) /\ i # own
      BY <1>1, <2>1, <2>2, <3>1 DEF LogInv
    <3>3. ~Logged(i)'
      BY <2>3, <3>2
    <3> QED
      BY <1>4, <3>1, <3>3 DEF Logged
  <2>10. \A u, v \in M!Threads :
           (pc'[u] \in Reporting /\ pc'[v] \in Reporting /\ line'[u] = line'[v]) => u = v
    BY <1>1, <1>4, <2>1 DEF LogInv
  <2>11. \A i \in 1..(next' - 1) :
           \/ input'[i].kind = "empty" \/ Logged(i)'
           \/ \E u \in M!Threads : pc'[u] \in Reporting /\ line'[u] = i
    <3> SUFFICES ASSUME NEW i \in 1..(next - 1), input[i].kind # "empty", ~Logged(i), i # own
                 PROVE  \E u \in M!Threads : pc'[u] \in Reporting /\ line'[u] = i
      BY <1>4, <2>3
    <3>1. PICK u \in M!Threads : pc[u] \in Reporting /\ line[u] = i
      BY <1>1 DEF LogInv
    <3>2. u # t
      BY <3>1 DEF own
    <3> QED
      BY <1>4, <2>1, <3>1, <3>2
  <2> QED
    BY <1>4, <2>7, <2>8, <2>9, <2>10, <2>11 DEF LogInv
<1>16. CountInv'
  <2> DEFINE G == {u \in M!Threads : pc[u] = "stat" /\ ok[u]}
  <2>1. {u \in M!Threads : pc'[u] \in Busy} = {u \in M!Threads : pc[u] \in Busy}
    BY <1>2, <1>6, <1>11
  <2>2. IsFiniteSet(G) /\ Cardinality(G) \in Nat /\ t \notin G
    BY <1>2, ThreadsFinite, FS_Subset, FS_CardinalityType
  <2>3. stats.ok \in Nat /\ stats.ok + Cardinality(G) = Len(resolved)
    BY <1>1 DEF ThreadsTyped, Counts, CountInv
  <2>4. stats.ok + Cardinality({u \in M!Threads : pc'[u] = "stat" /\ ok'[u]}) = Len(resolved')
    <3>1. CASE ok[t]
      <4>1. {u \in M!Threads : pc'[u] = "stat" /\ ok'[u]} = G \cup {t}
        BY <1>4, <1>11, <3>1
      <4>2. Cardinality(G \cup {t}) = Cardinality(G) + 1
        BY <2>2, FS_AddElement
      <4>3. Len(resolved') = Len(resolved) + 1
        BY <1>3, <1>8, <1>9, <3>1, Appended
      <4>4. Cardinality({u \in M!Threads : pc'[u] = "stat" /\ ok'[u]}) = Cardinality(G) + 1
        BY <4>1, <4>2
      <4>5. stats.ok + (Cardinality(G) + 1) = Len(resolved')
        <5> HIDE DEF G
        <5> QED
          BY <2>2, <2>3, <4>3
      <4> QED
        BY <4>4, <4>5
    <3>2. CASE ~ok[t]
      <4>1. {u \in M!Threads : pc'[u] = "stat" /\ ok'[u]} = G
        BY <1>2, <1>4, <1>11, <3>2
      <4> QED
        BY <1>3, <2>3, <3>2, <4>1
    <3> QED
      BY <3>1, <3>2
  <2> QED
    BY <1>1, <1>4, <2>1, <2>4 DEF CountInv
<1>17. ShownInv' /\ EndInv'
  BY <1>2, <1>4, <1>6, ShownKept, EndKept
<1> QED
  BY <1>12, <1>14, <1>15, <1>16, <1>17 DEF MdigIInv

LEMMA Multiples ==
    /\ \A n \in Nat : (n * Every) % Every = 0 /\ n * Every \in Nat
    /\ \A n \in Nat \ {0} : n * Every > 0
    /\ \A c \in Nat : \A n \in 1..(c \div Every) : n \in Nat \ {0} /\ n * Every <= c
<1>1. Every \in Nat \ {0}
  BY ThreadsFinite
<1>2. \A n \in Nat : (n * Every) % Every = 0 /\ n * Every \in Nat
  BY <1>1
<1>3. \A n \in Nat \ {0} : n * Every > 0
  BY <1>1
<1>4. ASSUME NEW c \in Nat, NEW n \in 1..(c \div Every) PROVE n \in Nat \ {0} /\ n * Every <= c
  <2>1. c \div Every \in Nat /\ n \in Nat \ {0} /\ n <= c \div Every
    BY <1>1, DivType
  <2>2. (c \div Every) * Every <= c
    BY <1>1
  <2>3. n * Every <= (c \div Every) * Every
    BY <1>1, <2>1
  <2>4. n * Every \in Nat /\ (c \div Every) * Every \in Nat
    BY <1>1, <2>1
  <2> QED
    BY <2>1, <2>2, <2>3, <2>4
<1> QED
  BY <1>2, <1>3, <1>4

\* A line is counted once; a multiple of --stats has the thread that counted it.
LEMMA Counting ==
    ASSUME MdigIInv, NEW t \in M!Threads, M!Count(t)
    PROVE  MdigIInv'
<1> USE DEF M!io, M!logs, M!work, M!counts
<1> DEFINE c == stats.ct + 1
           x == IF c % Every = 0 THEN "progress" ELSE "get"
<1>1. ThreadsTyped /\ ThreadInv /\ CountInv /\ ShownInv
  BY DEF MdigIInv
<1>2. /\ pc[t] = "stat"
      /\ stats' = [ct |-> c, ok |-> stats.ok + IF ok[t] THEN 1 ELSE 0]
      /\ seen' = [seen EXCEPT ![t] = stats']
      /\ pc' = [pc EXCEPT ![t] = IF stats'.ct % Every = 0 THEN "progress" ELSE "get"]
  BY DEF M!Count
<1>3. pc' = [pc EXCEPT ![t] = x]
  BY <1>2
<1>4. UNCHANGED <<input, next, main, created, line, ok, printing, stdin, resolved, failed, shown, code>>
  BY DEF M!Count
<1>5. PlaceInv(t)
  BY <1>1 DEF ThreadInv
<1>6. stats.ct \in Nat /\ stats.ok \in Nat /\ stats' \in Counts /\ stats'.ct = c /\ c \in Nat
  BY <1>1, <1>2 DEF ThreadsTyped, Counts
<1>7. /\ x \in PCs /\ x \notin Busy /\ x \notin Reporting /\ "stat" \in Busy /\ "stat" \notin Reporting
      /\ x \notin {"none", "stat", "ended"} /\ (x = "progress" <=> c % Every = 0)
  BY DEF PCs, Busy, Reporting
<1>8. /\ pc'[t] = x /\ seen'[t].ct = c
      /\ \A u \in M!Threads \ {t} : pc'[u] = pc[u] /\ seen'[u] = seen[u]
  BY <1>1, <1>2, <1>3, <1>6 DEF ThreadsTyped
<1> HIDE DEF x, c
<1>9. ThreadsTyped'
  <2>1. pc' \in [M!Threads -> PCs] /\ seen' \in [M!Threads -> Counts]
    BY <1>1, <1>2, <1>3, <1>6, <1>7 DEF ThreadsTyped
  <2> QED
    BY <1>1, <1>4, <1>6, <2>1 DEF ThreadsTyped
<1>10. \A i \in 1..Len(input) : Printed(i) => Printed(i)'
  BY <1>4 DEF Printed
<1>11. ThreadInv'
  <2>1. ~(t > created)
    BY <1>2, <1>5 DEF PlaceInv
  <2>2. pc'[t] \notin {"none", "resolve", "print", "log", "ended"}
    BY <1>7, <1>8 DEF Reporting
  <2>3. PlaceInv(t)'
    BY <1>4, <1>7, <1>8, <2>1, <2>2 DEF PlaceInv
  <2>4. next' \in 1..(Len(input) + 1) /\ next <= next'
    BY <1>1, <1>4, InputTyped DEF ThreadsTyped
  <2> QED
    BY <1>3, <1>4, <1>7, <1>10, <2>3, <2>4, PlacesKept
<1>12. LogInv'
  BY <1>2, <1>3, <1>4, <1>7, <1>10, LogKept
<1>13. CountInv'
  <2> DEFINE B == {u \in M!Threads : pc[u] \in Busy}
             G == {u \in M!Threads : pc[u] = "stat" /\ ok[u]}
  <2>1. {u \in M!Threads : pc'[u] \in Busy} = B \ {t}
    BY <1>7, <1>8
  <2>2. {u \in M!Threads : pc'[u] = "stat" /\ ok'[u]} = G \ {t}
    BY <1>4, <1>7, <1>8
  <2>3. t \in B /\ (t \in G <=> ok[t])
    BY <1>2, <1>7
  <2>4. /\ IsFiniteSet(B) /\ IsFiniteSet(G)
        /\ Cardinality(B) \in Nat /\ Cardinality(G) \in Nat
    BY ThreadsFinite, FS_Subset, FS_CardinalityType
  <2>5. Cardinality(B \ {t}) = Cardinality(B) - 1
    BY <2>3, <2>4, FS_RemoveElement
  <2>6. Cardinality(G \ {t}) = IF ok[t] THEN Cardinality(G) - 1 ELSE Cardinality(G)
    BY <2>3, <2>4, FS_RemoveElement
  <2>7. stats.ct + Cardinality(B) = next - 1 /\ stats.ok + Cardinality(G) = Len(resolved)
    BY <1>1 DEF CountInv
  <2>8. stats'.ok = stats.ok + IF ok[t] THEN 1 ELSE 0
    BY <1>2
  <2>9. Cardinality({u \in M!Threads : pc'[u] \in Busy}) = Cardinality(B) - 1
    BY <2>1, <2>5
  <2>10. Cardinality({u \in M!Threads : pc'[u] = "stat" /\ ok'[u]})
           = IF ok[t] THEN Cardinality(G) - 1 ELSE Cardinality(G)
    BY <2>2, <2>6
  <2> HIDE DEF B, G
  <2>11. stats'.ct + (Cardinality(B) - 1) = next - 1
    BY <1>6, <2>4, <2>7 DEF c
  <2>12. stats'.ok + (IF ok[t] THEN Cardinality(G) - 1 ELSE Cardinality(G)) = Len(resolved)
    BY <1>6, <2>4, <2>7, <2>8
  <2> QED
    BY <1>4, <2>9, <2>10, <2>11, <2>12 DEF CountInv
<1>14. ShownInv'
  <2>1. SUFFICES ASSUME main # "done" PROVE ShownInv'
    BY <1>4 DEF ShownInv
  <2>2. /\ \A j, k \in 1..Len(shown) : shown[j].ct = shown[k].ct => j = k
        /\ \A u, v \in M!Threads :
             (pc[u] = "progress" /\ pc[v] = "progress" /\ seen[u].ct = seen[v].ct) => u = v
        /\ \A u \in M!Threads :
             pc[u] = "progress" =>
               seen[u].ct <= stats.ct /\ \A k \in 1..Len(shown) : shown[k].ct # seen[u].ct
        /\ \A k \in 1..Len(shown) : shown[k].ct <= stats.ct
        /\ \A n \in Nat \ {0} :
             n * Every <= stats.ct =>
               \/ \E k \in 1..Len(shown) : shown[k].ct = n * Every
               \/ \E u \in M!Threads : pc[u] = "progress" /\ seen[u].ct = n * Every
    BY <1>1, <2>1 DEF ShownInv
  <2>3. /\ \A u \in M!Threads : seen[u].ct \in Nat
        /\ \A k \in 1..Len(shown) : shown[k].ct \in Nat
    <3>1. seen \in [M!Threads -> Counts] /\ shown \in Seq(Counts)
      BY <1>1 DEF ThreadsTyped
    <3>2. \A k \in 1..Len(shown) : shown[k] \in Counts
      BY <3>1
    <3> QED
      BY <3>1, <3>2 DEF Counts
  <2>4. c = stats.ct + 1
    BY DEF c
  <2>5. \A u, v \in M!Threads :
          (pc'[u] = "progress" /\ pc'[v] = "progress" /\ seen'[u].ct = seen'[v].ct) => u = v
    <3>1. \A u \in M!Threads \ {t} : pc'[u] = "progress" => seen'[u].ct < c
      BY <1>6, <1>8, <2>2, <2>3, <2>4
    <3>2. \A u \in M!Threads \ {t} : seen'[u].ct # c \/ pc'[u] # "progress"
      BY <1>6, <1>8, <2>3, <3>1
    <3> QED
      BY <1>8, <2>2, <3>2
  <2>6. \A u \in M!Threads :
          pc'[u] = "progress" =>
            seen'[u].ct <= stats'.ct /\ \A k \in 1..Len(shown') : shown'[k].ct # seen'[u].ct
    <3> SUFFICES ASSUME NEW u \in M!Threads, pc'[u] = "progress"
                 PROVE  seen'[u].ct <= c /\ \A k \in 1..Len(shown) : shown[k].ct # seen'[u].ct
      BY <1>4, <1>6
    <3>1. CASE u = t
      BY <1>6, <1>8, <2>2, <2>3, <2>4, <3>1
    <3>2. CASE u # t
      BY <1>6, <1>8, <2>2, <2>3, <2>4, <3>2
    <3> QED
      BY <3>1, <3>2
  <2>7. \A k \in 1..Len(shown') : shown'[k].ct <= stats'.ct
    BY <1>4, <1>6, <2>2, <2>3, <2>4
  <2>8. \A n \in Nat \ {0} :
          n * Every <= stats'.ct =>
            \/ \E k \in 1..Len(shown') : shown'[k].ct = n * Every
            \/ \E u \in M!Threads : pc'[u] = "progress" /\ seen'[u].ct = n * Every
    <3> SUFFICES ASSUME NEW n \in Nat \ {0}, n * Every <= c
                 PROVE  \/ \E k \in 1..Len(shown) : shown[k].ct = n * Every
                        \/ \E u \in M!Threads : pc'[u] = "progress" /\ seen'[u].ct = n * Every
      BY <1>4, <1>6
    <3>1. n * Every \in Nat /\ (n * Every) % Every = 0
      BY Multiples
    <3>2. CASE n * Every <= stats.ct
      <4>1. \A u \in M!Threads : pc[u] = "progress" => u # t
        BY <1>2
      <4> QED
        BY <1>8, <2>2, <3>2, <4>1
    <3>3. CASE n * Every = c
      BY <1>7, <1>8, <3>1, <3>3
    <3> QED
      BY <1>6, <2>4, <3>1, <3>2, <3>3
  <2> QED
    BY <1>4, <2>2, <2>5, <2>6, <2>7, <2>8 DEF ShownInv
<1>15. EndInv'
  BY <1>2, <1>4, EndKept
<1> QED
  BY <1>9, <1>11, <1>12, <1>13, <1>14, <1>15 DEF MdigIInv

\* The thread that has a count shows it.
LEMMA Progressing ==
    ASSUME MdigIInv, NEW t \in M!Threads, M!Progress(t)
    PROVE  MdigIInv'
<1> USE DEF M!io, M!logs, M!work, M!counts
<1>1. ThreadsTyped /\ ThreadInv /\ ShownInv
  BY DEF MdigIInv
<1>2. /\ pc[t] = "progress" /\ pc' = [pc EXCEPT ![t] = "get"]
      /\ shown' = Append(shown, seen[t])
  BY DEF M!Progress, M!Showing
<1>3. UNCHANGED <<input, next, main, created, line, ok, printing, stdin, resolved, failed,
                  stats, seen, code>>
  BY DEF M!Progress
<1>4. "get" \in PCs /\ "get" \notin Busy /\ "progress" \notin Busy
      /\ "get" \notin Reporting /\ "progress" \notin Reporting
  BY DEF PCs, Busy, Reporting
<1>5. shown \in Seq(Counts) /\ seen[t] \in Counts
  BY <1>1 DEF ThreadsTyped
<1>6. pc'[t] = "get" /\ \A u \in M!Threads \ {t} : pc'[u] = pc[u]
  BY <1>1, <1>2 DEF ThreadsTyped
<1>7. ThreadsTyped'
  <2>1. pc' \in [M!Threads -> PCs] /\ shown' \in Seq(Counts)
    BY <1>1, <1>2, <1>4, <1>5 DEF ThreadsTyped
  <2> QED
    BY <1>1, <1>3, <2>1 DEF ThreadsTyped
<1>8. \A i \in 1..Len(input) : Printed(i) => Printed(i)'
  BY <1>3 DEF Printed
<1>9. ThreadInv'
  <2>1. ~(t > created)
    BY <1>1, <1>2 DEF ThreadInv, PlaceInv
  <2>2. PlaceInv(t)'
    BY <1>3, <1>4, <1>6, <2>1 DEF PlaceInv
  <2>3. next' \in 1..(Len(input) + 1) /\ next <= next'
    BY <1>1, <1>3, InputTyped DEF ThreadsTyped
  <2> QED
    BY <1>2, <1>3, <1>4, <1>8, <2>2, <2>3, PlacesKept
<1>10. LogInv'
  BY <1>2, <1>3, <1>4, <1>8, LogKept
<1>11. CountInv' /\ EndInv'
  BY <1>2, <1>3, <1>4, CountKept, EndKept
<1>12. ShownInv'
  <2>1. SUFFICES ASSUME main # "done" PROVE ShownInv'
    BY <1>3 DEF ShownInv
  <2>2. /\ \A j, k \in 1..Len(shown) : shown[j].ct = shown[k].ct => j = k
        /\ \A u, v \in M!Threads :
             (pc[u] = "progress" /\ pc[v] = "progress" /\ seen[u].ct = seen[v].ct) => u = v
        /\ \A u \in M!Threads :
             pc[u] = "progress" =>
               seen[u].ct <= stats.ct /\ \A k \in 1..Len(shown) : shown[k].ct # seen[u].ct
        /\ \A k \in 1..Len(shown) : shown[k].ct <= stats.ct
        /\ \A n \in Nat \ {0} :
             n * Every <= stats.ct =>
               \/ \E k \in 1..Len(shown) : shown[k].ct = n * Every
               \/ \E u \in M!Threads : pc[u] = "progress" /\ seen[u].ct = n * Every
    BY <1>1, <2>1 DEF ShownInv
  <2>3. /\ \A k \in 1..Len(shown) : k \in 1..Len(shown') /\ shown'[k] = shown[k]
        /\ Len(shown) + 1 \in 1..Len(shown') /\ shown'[Len(shown) + 1] = seen[t]
        /\ \A k \in 1..Len(shown') : k \in 1..Len(shown) \/ k = Len(shown) + 1
    BY <1>2, <1>5, Appended
  <2>4. \A u \in M!Threads : pc'[u] = "progress" <=> (u # t /\ pc[u] = "progress")
    BY <1>6
  <2>5. \A j, k \in 1..Len(shown') : shown'[j].ct = shown'[k].ct => j = k
    BY <1>2, <2>2, <2>3
  <2>6. \A u \in M!Threads :
          pc'[u] = "progress" =>
            seen[u].ct <= stats.ct /\ \A k \in 1..Len(shown') : shown'[k].ct # seen[u].ct
    BY <1>2, <2>2, <2>3, <2>4
  <2>7. \A k \in 1..Len(shown') : shown'[k].ct <= stats.ct
    BY <1>2, <2>2, <2>3
  <2>8. \A n \in Nat \ {0} :
          n * Every <= stats.ct =>
            \/ \E k \in 1..Len(shown') : shown'[k].ct = n * Every
            \/ \E u \in M!Threads : pc'[u] = "progress" /\ seen[u].ct = n * Every
    <3> SUFFICES ASSUME NEW n \in Nat \ {0}, n * Every <= stats.ct
                 PROVE  \/ \E k \in 1..Len(shown') : shown'[k].ct = n * Every
                        \/ \E u \in M!Threads : pc'[u] = "progress" /\ seen[u].ct = n * Every
      OBVIOUS
    <3>1. CASE \E k \in 1..Len(shown) : shown[k].ct = n * Every
      BY <2>3, <3>1
    <3>2. CASE \E u \in M!Threads : pc[u] = "progress" /\ seen[u].ct = n * Every
      BY <2>3, <2>4, <3>2
    <3> QED
      BY <2>2, <3>1, <3>2
  <2> QED
    BY <1>3, <2>2, <2>4, <2>5, <2>6, <2>7, <2>8 DEF ShownInv
<1> QED
  BY <1>7, <1>9, <1>10, <1>11, <1>12 DEF MdigIInv

\* Every thread is waited for: what they had to count and to show is counted and
\* shown, and the total comes last.
LEMMA Joining ==
    ASSUME MdigIInv, M!Join
    PROVE  MdigIInv'
<1> USE DEF M!io, M!logs, M!work, M!counts
<1>1. ThreadsTyped /\ ThreadInv /\ LogInv /\ CountInv /\ ShownInv
  BY DEF MdigIInv
<1>2. /\ main = "join" /\ main' = "done" /\ shown' = Append(shown, stats)
      /\ \A t \in 1..created : pc[t] = "ended"
      /\ code' = IF created = 0 THEN 12 ELSE 0
  BY DEF M!Join
<1>3. UNCHANGED <<input, next, created, pc, line, ok, printing, stdin, resolved, failed, stats, seen>>
  BY DEF M!Join
<1>4. shown \in Seq(Counts) /\ stats \in Counts /\ created \in 0..MaxThreads
  BY <1>1 DEF ThreadsTyped
<1>5. ThreadsTyped'
  <2>1. shown' \in Seq(Counts)
    BY <1>2, <1>4
  <2> QED
    BY <1>1, <1>2, <1>3, <2>1 DEF ThreadsTyped
<1>6. ThreadInv' /\ LogInv' /\ CountInv'
  <2>1. ThreadInv'
    BY <1>1, <1>3 DEF ThreadInv, PlaceInv, Printed
  <2>2. LogInv'
    BY <1>1, <1>3 DEF LogInv, Logged, Printed
  <2> QED
    BY <1>1, <1>3, <2>1, <2>2 DEF CountInv
<1>7. ShownInv'
  BY <1>2 DEF ShownInv
<1>8. \A t \in M!Threads : pc[t] \in {"none", "ended"}
  <2> SUFFICES ASSUME NEW t \in M!Threads, pc[t] # "none" PROVE pc[t] = "ended"
    OBVIOUS
  <2>1. t \in 1..created
    BY <1>1, <1>4, ThreadsFinite DEF ThreadInv, PlaceInv
  <2> QED
    BY <1>2, <2>1
<1>9. ASSUME code' = 0 PROVE next = Len(input) + 1 /\ M!ProgressComplete'
  <2>1. created # 0
    BY <1>2, <1>9
  <2>2. 1 \in M!Threads /\ pc[1] = "ended"
    BY <1>2, <1>4, <2>1, ThreadsFinite
  <2>3. next = Len(input) + 1
    BY <1>1, <2>2 DEF ThreadInv, PlaceInv
  <2>4. Len(input) \in Nat
    BY <1>1, InputTyped DEF ThreadsTyped
  <2>5. stats.ct = Len(input) /\ stats.ok = Len(resolved)
    <3>1. {t \in M!Threads : pc[t] \in Busy} = {} /\ {t \in M!Threads : pc[t] = "stat" /\ ok[t]} = {}
      BY <1>8 DEF Busy, Reporting
    <3>2. stats.ct + 0 = next - 1 /\ stats.ok + 0 = Len(resolved)
      BY <1>1, <3>1, FS_EmptySet DEF CountInv
    <3>3. stats.ct \in Nat /\ stats.ok \in Nat
      BY <1>4 DEF Counts
    <3> QED
      BY <2>3, <2>4, <3>2, <3>3
  <2>6. stats = [ct |-> Len(input), ok |-> Len(resolved)]
    BY <1>4, <2>5 DEF Counts
  <2>7. /\ Len(shown) \in Nat /\ Len(shown') = Len(shown) + 1 /\ shown'[Len(shown) + 1] = stats
        /\ \A k \in 1..Len(shown) : shown'[k] = shown[k]
    BY <1>2, <1>4, Appended
  <2>8. \A n \in 1..(Len(input) \div Every) :
          \E k \in 1..(Len(shown') - 1) :
            \A j \in 1..(Len(shown') - 1) : shown'[j].ct = n * Every <=> j = k
    <3> SUFFICES ASSUME NEW n \in 1..(Len(input) \div Every)
                 PROVE  \E k \in 1..(Len(shown') - 1) :
                          \A j \in 1..(Len(shown') - 1) : shown'[j].ct = n * Every <=> j = k
      OBVIOUS
    <3>1. n \in Nat \ {0} /\ n * Every <= stats.ct
      BY <2>4, <2>5, Multiples
    <3>2. PICK k \in 1..Len(shown) : shown[k].ct = n * Every
      BY <1>1, <1>2, <1>8, <3>1 DEF ShownInv
    <3>3. \A j \in 1..Len(shown) : shown[j].ct = n * Every <=> j = k
      BY <1>1, <1>2, <3>2 DEF ShownInv
    <3>4. 1..(Len(shown') - 1) = 1..Len(shown)
      BY <2>7
    <3>5. \A j \in 1..Len(shown) : shown'[j].ct = n * Every <=> j = k
      BY <2>7, <3>3
    <3>6. \A j \in 1..(Len(shown') - 1) : shown'[j].ct = n * Every <=> j = k
      BY <3>4, <3>5
    <3>7. k \in 1..(Len(shown') - 1)
      BY <3>4
    <3> QED
      BY <3>6, <3>7
  <2>9. shown'[Len(shown')] = [ct |-> Len(input'), ok |-> Len(resolved')]
    BY <1>3, <2>6, <2>7
  <2>10. M!ProgressComplete'
    BY <1>3, <2>8, <2>9 DEF M!ProgressComplete
  <2> QED
    BY <2>3, <2>10
<1>10. EndInv'
  BY <1>3, <1>8, <1>9 DEF EndInv
<1> QED
  BY <1>5, <1>6, <1>7, <1>10 DEF MdigIInv

-----------------------------------------------------------------------------
\* mdig: the theorems

LEMMA MdigGoesOn == MdigIInv /\ [Next]_vars => MdigIInv'
<1> SUFFICES ASSUME MdigIInv, [Next]_vars PROVE MdigIInv'
  OBVIOUS
<1>1. CASE UNCHANGED namesVars
  <2>1. UNCHANGED <<input, next, main, created, pc, line, ok, printing, stdin, resolved, failed,
                    stats, seen, shown, code>>
    BY <1>1 DEF namesVars
  <2>2. ThreadsTyped' /\ ThreadInv'
    BY <2>1 DEF MdigIInv, ThreadsTyped, ThreadInv, PlaceInv, Printed
  <2>3. LogInv'
    BY <2>1 DEF MdigIInv, LogInv, Logged, Printed
  <2>4. CountInv'
    BY <2>1 DEF MdigIInv, CountInv
  <2>5. ShownInv'
    BY <2>1 DEF MdigIInv, ShownInv
  <2>6. EndInv'
    BY <2>1 DEF MdigIInv, EndInv, M!ProgressComplete
  <2> QED
    BY <2>2, <2>3, <2>4, <2>5, <2>6 DEF MdigIInv
<1>2. CASE M!RunThreads
  BY <1>2, Creating, CreatingEnds, Joining DEF M!RunThreads
<1>3. CASE \E t \in M!Threads : M!Resolver(t)
  BY <1>3, Locking, Reading, ReadingEnds, Resolving, Printing, Logging, Counting, Progressing
     DEF M!Resolver
<1>4. MdigStep \/ UNCHANGED namesVars
  BY DEF Next, vars, Ip2netStep, Finished
<1> QED
  BY <1>1, <1>2, <1>3, <1>4 DEF MdigStep, M!MdigNext

\* The inductive invariant of mdig, for any number of threads (mdig.c, 109-327).
THEOREM MdigInductive == Spec => []MdigIInv
BY MdigBegins, MdigGoesOn, PTL DEF Spec

LEMMA InvReports == MdigIInv => ReportedOnce
<1> SUFFICES ASSUME MdigIInv PROVE ReportedOnce
  OBVIOUS
<1>1. ThreadsTyped /\ ThreadInv /\ LogInv /\ EndInv
  BY DEF MdigIInv
<1>2. /\ resolved \in Seq(1..Len(input)) /\ failed \in Seq(1..Len(input))
      /\ Len(input) \in Nat /\ next \in 1..(Len(input) + 1)
  BY <1>1, InputTyped DEF ThreadsTyped
<1>3. /\ Len(resolved) \in Nat /\ Len(failed) \in Nat
      /\ Len(resolved \o failed) = Len(resolved) + Len(failed)
      /\ DOMAIN (resolved \o failed) = 1..(Len(resolved) + Len(failed))
      /\ \A k \in 1..(Len(resolved) + Len(failed)) :
           (resolved \o failed)[k] = IF k <= Len(resolved) THEN resolved[k]
                                     ELSE failed[k - Len(resolved)]
  BY <1>2
<1>4. M!IsInjective(resolved \o failed)
  <2> SUFFICES ASSUME NEW j \in 1..(Len(resolved) + Len(failed)),
                      NEW k \in 1..(Len(resolved) + Len(failed)),
                      (resolved \o failed)[j] = (resolved \o failed)[k]
               PROVE  j = k
    BY <1>3 DEF M!IsInjective
  <2>1. /\ \A a, b \in 1..Len(resolved) : resolved[a] = resolved[b] => a = b
        /\ \A a, b \in 1..Len(failed) : failed[a] = failed[b] => a = b
        /\ \A a \in 1..Len(resolved), b \in 1..Len(failed) : resolved[a] # failed[b]
    BY <1>1 DEF LogInv
  <2>2. CASE j <= Len(resolved) /\ k <= Len(resolved)
    BY <1>3, <2>1, <2>2
  <2>3. CASE j <= Len(resolved) /\ k > Len(resolved)
    BY <1>3, <2>1, <2>3
  <2>4. CASE j > Len(resolved) /\ k <= Len(resolved)
    BY <1>3, <2>1, <2>4
  <2>5. CASE j > Len(resolved) /\ k > Len(resolved)
    BY <1>3, <2>1, <2>5
  <2> QED
    BY <1>3, <2>2, <2>3, <2>4, <2>5
<1>5. \A i \in M!Handled(resolved) :
        /\ input[i].kind \in {"net", "name"}
        /\ input[i].kind = "net" => M!Contains(stdin, input[i])
  <2>1. \A k \in 1..Len(resolved) : resolved[k] \in 1..Len(input)
    BY <1>2
  <2>2. \A i \in 1..Len(input) : (\E k \in 1..Len(resolved) : resolved[k] = i) => Printed(i)
    BY <1>1 DEF LogInv
  <2>3. \A k \in 1..Len(resolved) : Printed(resolved[k])
    BY <2>1, <2>2
  <2> QED
    BY <2>3 DEF M!Handled, M!Contains, Printed
<1>6. ASSUME main = "done", code = 0
      PROVE  M!Handled(resolved \o failed) = {i \in 1..Len(input) : input[i].kind # "empty"}
  <2>1. ASSUME NEW k \in 1..(Len(resolved) + Len(failed))
        PROVE  (resolved \o failed)[k] \in {i \in 1..Len(input) : input[i].kind # "empty"}
    <3>1. CASE k <= Len(resolved)
      <4>1. k \in 1..Len(resolved) /\ (resolved \o failed)[k] = resolved[k]
        BY <1>3, <3>1
      <4>2. resolved[k] \in 1..Len(input) /\ resolved[k] \in M!Handled(resolved)
        BY <1>2, <4>1 DEF M!Handled
      <4> QED
        BY <1>5, <4>1, <4>2
    <3>2. CASE k > Len(resolved)
      <4>1. k - Len(resolved) \in 1..Len(failed) /\ (resolved \o failed)[k] = failed[k - Len(resolved)]
        BY <1>3, <3>2
      <4>2. failed[k - Len(resolved)] \in 1..Len(input)
        BY <1>2, <4>1
      <4> QED
        BY <1>1, <4>1, <4>2 DEF LogInv
    <3> QED
      BY <1>3, <3>1, <3>2
  <2>2. ASSUME NEW i \in 1..Len(input), input[i].kind # "empty"
        PROVE  \E k \in 1..(Len(resolved) + Len(failed)) : (resolved \o failed)[k] = i
    <3>1. next = Len(input) + 1 /\ \A t \in M!Threads : pc[t] \notin Reporting
      BY <1>1, <1>6 DEF EndInv, Reporting
    <3>2. i \in 1..(next - 1)
      BY <1>2, <3>1
    <3>3. Logged(i)
      BY <1>1, <2>2, <3>1, <3>2 DEF LogInv
    <3>4. CASE \E k \in 1..Len(resolved) : resolved[k] = i
      <4>1. PICK k \in 1..Len(resolved) : resolved[k] = i
        BY <3>4
      <4>2. k \in 1..(Len(resolved) + Len(failed)) /\ k <= Len(resolved)
        BY <1>3
      <4> QED
        BY <1>3, <4>1, <4>2
    <3>5. CASE \E k \in 1..Len(failed) : failed[k] = i
      <4>1. PICK k \in 1..Len(failed) : failed[k] = i
        BY <3>5
      <4> DEFINE j == k + Len(resolved)
      <4>2. j \in 1..(Len(resolved) + Len(failed)) /\ ~(j <= Len(resolved)) /\ j - Len(resolved) = k
        BY <1>3
      <4> HIDE DEF j
      <4>3. (resolved \o failed)[j] = failed[k]
        BY <1>3, <4>2
      <4> QED
        BY <4>1, <4>2, <4>3
    <3> QED
      BY <3>3, <3>4, <3>5 DEF Logged
  <2> QED
    BY <1>3, <2>1, <2>2 DEF M!Handled
<1>7. M!LinesReportedOnce
  BY <1>4, <1>5, <1>6 DEF M!LinesReportedOnce
<1>8. M!ProgressComplete
  BY <1>1 DEF EndInv, M!ProgressComplete
<1> QED
  BY <1>7, <1>8 DEF ReportedOnce

\* Each line is in one log, once, and each multiple of --stats is shown once,
\* whatever the number of threads, the file and the answers.
THEOREM LinesAndCounts == Spec => []ReportedOnce
BY MdigInductive, InvReports, PTL

\* ip2net sees the end of its input when mdig has ended.
EofInv == eof = (main = "done")

LEMMA WriterStep == MdigIInv /\ EofInv /\ [Next]_vars => [Ip2netNext]_ip2netVars /\ EofInv'
<1> SUFFICES ASSUME MdigIInv, EofInv, [Next]_vars
             PROVE  [Ip2netNext]_ip2netVars /\ EofInv'
  OBVIOUS
<1> USE DEF M!io, M!logs, M!work, M!counts
<1>1. CASE MdigStep
  <2>1. eof' = (main' = "done") /\ UNCHANGED toolVars /\ M!MdigNext
    BY <1>1 DEF MdigStep
  <2>2. ASSUME NEW t \in M!Threads, M!PrintAddress(t)
        PROVE  \E l \in Lines : Write(l)
    <3>1. ThreadsTyped /\ PlaceInv(t) /\ EndInv
      BY DEF MdigIInv, ThreadInv
    <3>2. pc[t] = "print" /\ stdin' = Append(stdin, Head(printing[t])) /\ main' = main
      BY <2>2 DEF M!PrintAddress
    <3>3. printing[t] \in Seq(Printable) /\ printing[t] # <<>>
      BY <3>1, <3>2 DEF ThreadsTyped, PlaceInv
    <3>4. Head(printing[t]) \in Printable
      BY <3>3
    <3>5. Head(printing[t]) \in Lines
      BY <3>4 DEF Printable
    <3>6. main # "done"
      BY <3>1, <3>2 DEF EndInv
    <3> QED
      BY <2>1, <3>2, <3>5, <3>6 DEF Write, EofInv
  <2>3. CASE \E t \in M!Threads : M!PrintAddress(t)
    BY <2>1, <2>2, <2>3 DEF Ip2netNext, EofInv
  <2>4. CASE M!Join
    BY <2>1, <2>4 DEF M!Join, Close, Ip2netNext, EofInv
  <2>5. CASE M!CreateThread \/ M!CreateFails \/ M!CreateDone
    <3>1. stdin' = stdin /\ main # "done" /\ main' # "done"
      BY <2>5 DEF M!CreateThread, M!CreateFails, M!CreateDone
    <3> QED
      BY <2>1, <3>1 DEF ip2netVars, EofInv
  <2>6. CASE \E t \in M!Threads : M!Resolver(t) /\ ~M!PrintAddress(t)
    <3>1. stdin' = stdin /\ main' = main
      BY <2>6 DEF M!Resolver, M!LockInput, M!ReadLine, M!ReadEnd, M!ResolveAgain, M!ResolveFails,
                  M!Resolve, M!Log, M!Count, M!Progress
    <3> QED
      BY <2>1, <3>1 DEF ip2netVars, EofInv
  <2> QED
    BY <2>1, <2>3, <2>4, <2>5, <2>6 DEF M!MdigNext, M!RunThreads
<1>2. CASE Ip2netStep
  BY <1>2 DEF Ip2netStep, Ip2netNext, namesVars, EofInv
<1>3. CASE UNCHANGED vars
  BY <1>3 DEF vars, namesVars, ip2netVars, EofInv
<1> QED
  BY <1>1, <1>2, <1>3 DEF Next, Finished

\* mdig is a writer as ip2net expects one: it appends lines, and closes the pipe
\* when no thread is left to write (def.sh, 89-103 and 160-166).
THEOREM Piped == Spec => IsWriter
<1>1. Init => Ip2netInit /\ EofInv
  BY DEF Init, Ip2netInit, EofInv, M!MdigInit
<1>2. MdigIInv /\ EofInv /\ [Next]_vars => EofInv'
  BY WriterStep
<1>3. MdigIInv /\ EofInv /\ [Next]_vars => [Ip2netNext]_ip2netVars
  BY WriterStep
<1> QED
  BY <1>1, <1>2, <1>3, MdigInductive, PTL DEF Spec, IsWriter, Ip2netSpec

\* What the pipeline makes of a list of names stands for what was resolved.
THEOREM PipelineStands == Spec => []StandsForInput
BY Piped, OutputStands, PTL DEF IsWriter

=============================================================================
