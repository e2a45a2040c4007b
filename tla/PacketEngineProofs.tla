------------------------- MODULE PacketEngineProofs -------------------------
(***************************************************************************)
(* Proofs about PacketEngine, for every set of connections, options, names *)
(* and DNS servers and every size of the sequence space.                   *)
(***************************************************************************)
EXTENDS PacketEngine, WellFoundedInduction, TLAPS

(***************************************************************************)
(* TcpSplit: what the pieces of a payload are, for every payload and every *)
(* set of positions, and where the middle of a name lies.                  *)
(***************************************************************************)

(* A set of numbers has a least one.                                       *)
LEMMA Least ==
    ASSUME NEW S \in SUBSET Nat, S # {}
    PROVE  \E m \in S : \A n \in S : m <= n
<1>1. \E m \in S : \A n \in S : ~ (<<n, m>> \in OpToRel(<, Nat))
  BY WFMin, NatLessThanWellFounded
<1>2. \A m, n \in Nat : ~ (<<n, m>> \in OpToRel(<, Nat)) => m <= n
  BY DEF OpToRel
<1> QED
  BY <1>1, <1>2

(* A set of integers between two bounds has a greatest one.                *)
LEMMA Greatest ==
    ASSUME NEW S \in SUBSET Int, S # {}, NEW b \in Int, \A n \in S : n <= b
    PROVE  \E m \in S : \A n \in S : n <= m
<1> DEFINE T == {k \in Nat : b - k \in S}
<1>1. PICK s \in S : TRUE
  OBVIOUS
<1>2. s \in Int /\ b - s \in Nat /\ b - (b - s) = s
  BY <1>1
<1>3. T \in SUBSET Nat /\ b - s \in T
  BY <1>1, <1>2
<1>4. PICK t \in T : \A k \in T : t <= k
  <2> HIDE DEF T
  <2> QED BY <1>3, Least
<1>5. \A n \in S : b - n \in Nat /\ b - (b - n) = n
  OBVIOUS
<1>6. \A n \in S : b - n \in T
  BY <1>5
<1>7. b - t \in S /\ t \in Nat
  BY <1>4
<1>8. \A n \in S : n <= b - t
  <2> TAKE n \in S
  <2>1. n \in Int /\ t <= b - n
    BY <1>4, <1>6
  <2> QED
    BY <2>1, <1>7
<1> QED
  BY <1>7, <1>8

LEMMA EndsType ==
    ASSUME NEW given \in SUBSET Nat, NEW length \in Nat \ {0}
    PROVE  /\ Ends(given, length) \in SUBSET Nat
           /\ length \in Ends(given, length)
           /\ \A e \in Ends(given, length) : 0 < e /\ e <= length
<1>1. Positions(given, length) \in SUBSET Nat
  BY DEF Positions
<1>2. \A e \in Positions(given, length) : 0 < e /\ e <= length
  BY DEF Positions
<1> QED
  BY <1>1, <1>2 DEF Ends

(* The pieces lie in the payload, PacketTransformer.SplitTcpPacket.        *)
THEOREM PiecesType ==
    ASSUME NEW given \in SUBSET Nat, NEW length \in Nat \ {0},
           NEW p \in Pieces(given, length)
    PROVE  /\ p = [lo |-> p.lo, hi |-> p.hi]
           /\ p.lo \in Nat /\ p.hi \in Nat
           /\ p.lo < p.hi /\ p.hi <= length
  BY EndsType DEF Pieces

(* Every byte of the payload is in a piece.                                *)
THEOREM PiecesCover ==
    ASSUME NEW given \in SUBSET Nat, NEW length \in Nat \ {0},
           NEW b \in 0 .. length - 1
    PROVE  \E p \in Pieces(given, length) : p.lo <= b /\ b < p.hi
<1> DEFINE E == Ends(given, length)
           After == {e \in E : b < e}
           Before == {e \in E \cup {0} : e <= b}
<1>1. E \in SUBSET Nat /\ length \in E
  BY EndsType
<1>2. After \in SUBSET Nat /\ length \in After
  BY <1>1
<1>3. PICK hi \in After : \A e \in After : hi <= e
  <2> HIDE DEF After
  <2> QED BY <1>2, Least
<1>4. Before \in SUBSET Int /\ 0 \in Before /\ \A e \in Before : e <= b
  BY <1>1
<1>5. PICK lo \in Before : \A e \in Before : e <= lo
  <2>1. Before # {} /\ b \in Int
    BY <1>4
  <2> HIDE DEF Before
  <2> QED BY <1>4, <2>1, Greatest
<1> DEFINE p == [lo |-> lo, hi |-> hi]
<1>6. lo < hi /\ lo <= b /\ b < hi /\ lo \in E \cup {0} /\ hi \in E
  BY <1>1, <1>3, <1>5
<1>7. \A e \in E : e <= lo \/ hi <= e
  BY <1>1, <1>3, <1>5
<1>8. p \in Pieces(given, length)
  BY <1>6, <1>7 DEF Pieces
<1> QED
  BY <1>6, <1>8

(* No byte is in two pieces.                                               *)
THEOREM PiecesDisjoint ==
    ASSUME NEW given \in SUBSET Nat, NEW length \in Nat \ {0},
           NEW p \in Pieces(given, length), NEW q \in Pieces(given, length),
           NEW b \in Nat, p.lo <= b, b < p.hi, q.lo <= b, b < q.hi
    PROVE  p = q
<1> DEFINE E == Ends(given, length)
<1>1. /\ p = [lo |-> p.lo, hi |-> p.hi] /\ p.lo \in Nat /\ p.hi \in Nat
      /\ q = [lo |-> q.lo, hi |-> q.hi] /\ q.lo \in Nat /\ q.hi \in Nat
  BY PiecesType
<1>2. /\ p.hi \in E /\ p.lo \in E \cup {0} /\ \A e \in E : e <= p.lo \/ p.hi <= e
      /\ q.hi \in E /\ q.lo \in E \cup {0} /\ \A e \in E : e <= q.lo \/ q.hi <= e
  BY DEF Pieces
<1>3. p.hi <= q.hi /\ q.hi <= p.hi
  BY <1>1, <1>2
<1>4. p.lo <= q.lo /\ q.lo <= p.lo
  BY <1>1, <1>2
<1> QED
  BY <1>1, <1>3, <1>4

(* LastIndexOf is one of the dots before the place, the last, or -1.       *)
LEMMA LastDotType ==
    ASSUME NEW name, name.dots \in SUBSET Nat, NEW before \in Nat
    PROVE  /\ LastDot(name, before) \in {d \in name.dots : d < before} \cup {-1}
           /\ \A d \in name.dots : d < before => d <= LastDot(name, before)
<1> DEFINE found == {d \in name.dots : d < before} \cup {-1}
<1>1. found \in SUBSET Int /\ found # {} /\ \A d \in found : d <= before
  OBVIOUS
<1>2. \E d \in found : \A e \in found : e <= d
  <2>1. before \in Int
    OBVIOUS
  <2> HIDE DEF found
  <2> QED BY <1>1, <2>1, Greatest
<1>3. LastDot(name, before) \in found /\ \A e \in found : e <= LastDot(name, before)
  BY <1>2 DEF LastDot
<1> QED
  BY <1>3

(* ResolveTlsSplitMarker, SniMiddle: in a name of two bytes or more without *)
(* empty labels, the marker is after its first byte and before its end.    *)
THEOREM MiddleIsInside ==
    ASSUME NEW name, name.at \in Nat, name.length \in Nat, name.length > 1,
           name.dots \in SUBSET Nat, 0 \notin name.dots,
           \A d \in name.dots : d + 1 \notin name.dots /\ d + 1 < name.length
    PROVE  /\ Middle(name) \in Nat
           /\ name.at < Middle(name) /\ Middle(name) < name.at + name.length
<1> DEFINE n == name.length
           d == LastDot(name, n)
           end == LabelEnd(name)
           start == LabelStart(name)
<1>1. d = -1 \/ (d \in name.dots /\ d > 0 /\ d < n)
  BY LastDotType
<1>2. CASE d = -1
  <2>1. name.dots = {}
    BY <1>2, LastDotType
  <2>2. end = n
    BY <1>2 DEF LabelEnd
  <2>3. start = 0
    BY <2>1, <2>2, LastDotType DEF LabelStart
  <2> QED
    BY <2>2, <2>3 DEF Middle, Larger
<1>3. CASE d \in name.dots /\ d > 0 /\ d < n
  <2>1. end = d
    BY <1>3 DEF LabelEnd
  <2>2. LastDot(name, end) \in {e \in name.dots : e < end} \cup {-1}
    BY <1>3, <2>1, LastDotType
  <2>3. start \in Nat /\ start < end
    BY <1>3, <2>1, <2>2 DEF LabelStart
  <2> QED
    BY <1>3, <2>1, <2>3 DEF Middle, Larger
<1> QED
  BY <1>1, <1>2, <1>3

(***************************************************************************)
(* What is sent for a segment.                                             *)
(***************************************************************************)

LEMMA NamesType ==
    ASSUME NEW n \in Names
    PROVE  /\ n.at \in Nat /\ n.length \in Nat /\ n.dots \in SUBSET Nat
           /\ n # None
  BY SplitAssumption, NullAssumption

(* The marker is a position, whatever the name.                            *)
LEMMA MiddleType ==
    ASSUME NEW n \in Names
    PROVE  Middle(n) \in Nat
<1>1. n.at \in Nat /\ n.length \in Nat /\ n.dots \in SUBSET Nat
  BY NamesType
<1>2. LastDot(n, n.length) \in Int
  BY <1>1, LastDotType
<1>3. LabelEnd(n) \in Nat
  BY <1>1, <1>2 DEF LabelEnd
<1>4. LastDot(n, LabelEnd(n)) \in Nat \cup {-1}
  BY <1>1, <1>3, LastDotType
<1>5. LabelStart(n) \in Nat
  BY <1>4 DEF LabelStart
<1> QED
  BY <1>1, <1>3, <1>5 DEF Middle, Larger

Cuts == options.splits \cup MarkerPositions(captured)

LEMMA CutsType ==
    ASSUME TypeOK, IsSegment(captured)
    PROVE  Cuts \in SUBSET Nat
<1>1. options.splits \subseteq Nat /\ options.marker \in {"None", "SniStart", "SniMiddle"}
  BY SplitAssumption DEF TypeOK
<1>2. captured.name \in Names \cup {None}
  BY DEF TypeOK, Segments, Datagrams, IsSegment
<1>3. captured.name # None => captured.name.at \in Nat /\ Middle(captured.name) \in Nat
  BY <1>2, NamesType, MiddleType
<1>4. MarkerPositions(captured) \subseteq Nat
  BY <1>1, <1>3 DEF MarkerPositions
<1> QED
  BY <1>1, <1>4 DEF Cuts

LEMMA SegmentType ==
    ASSUME TypeOK, IsSegment(captured)
    PROVE  /\ captured \in Segments
           /\ captured.seq \in SeqNums /\ captured.length \in Nat \ {0}
           /\ captured.flow \in Flows /\ captured.name \in Names \cup {None}
           /\ captured.app \in {"tls", "http", "other"}
<1>1. captured \in Segments
  BY DEF TypeOK, Datagrams, IsSegment
<1> QED
  BY <1>1, SplitAssumption DEF Segments

(* What a fragment of a piece of the payload is.                           *)
LEMMA FragmentType ==
    ASSUME TypeOK, IsSegment(captured),
           NEW piece, piece.lo \in Nat, piece.hi \in Nat, piece.lo < piece.hi, piece.hi <= captured.length
    PROVE  LET item == Fragment(captured, piece)
           IN  /\ item \in Data
               /\ item.lo = piece.lo /\ item.hi = piece.hi
               /\ item.seq = (captured.seq + item.lo) % SeqSpace
               /\ item.ending => item.hi = captured.length
<1>1. captured.seq \in Nat /\ SeqSpace \in Nat \ {0}
  BY SegmentType, SplitAssumption DEF SeqNums
<1>2. (captured.seq + piece.lo) % SeqSpace \in SeqNums
  BY <1>1 DEF SeqNums
<1> QED
  BY <1>2 DEF Fragment, Data

(* What is planned for a segment are fragments of it in place, which cover *)
(* each byte, one each.                                                    *)
InPlace(item) ==
    /\ item \in Data
    /\ item.seq = (captured.seq + item.lo) % SeqSpace
    /\ item.hi <= captured.length
    /\ item.ending => item.hi = captured.length

LEMMA OriginalInPlace ==
    ASSUME TypeOK, IsSegment(captured)
    PROVE  /\ InPlace(Original(captured))
           /\ \A byte \in 0 .. captured.length - 1 : Covers(Original(captured), byte)
<1> DEFINE whole == [lo |-> 0, hi |-> captured.length]
<1>1. Original(captured) = Fragment(captured, whole)
  BY DEF Original, IsSegment
<1>2. captured.length \in Nat \ {0}
  BY SegmentType
<1>3. /\ Fragment(captured, whole) \in Data
      /\ Fragment(captured, whole).lo = 0 /\ Fragment(captured, whole).hi = captured.length
      /\ Fragment(captured, whole).seq = (captured.seq + Fragment(captured, whole).lo) % SeqSpace
  BY <1>2, FragmentType
<1> HIDE DEF whole
<1> QED
  BY <1>1, <1>2, <1>3 DEF InPlace, Covers

LEMMA PlannedInPlace ==
    ASSUME TypeOK, IsSegment(captured)
    PROVE  /\ \A item \in Planned(captured) : InPlace(item)
           /\ \A byte \in 0 .. captured.length - 1 : \E item \in Planned(captured) : Covers(item, byte)
           /\ \A byte \in 0 .. captured.length - 1 : \A p, q \in Planned(captured) :
                 Covers(p, byte) /\ Covers(q, byte) => p = q
<1>1. CASE ~Shaped(captured)
  BY <1>1, OriginalInPlace DEF Planned
<1>2. CASE Shaped(captured)
  <2> DEFINE P == Pieces(Cuts, captured.length)
  <2>1. Cuts \in SUBSET Nat /\ captured.length \in Nat \ {0}
    BY CutsType, SegmentType
  <2>2. Planned(captured) = {Fragment(captured, piece) : piece \in P}
    BY <1>2 DEF Planned, SplitTcpPacket, Cuts
  <2>3. \A piece \in P : /\ piece.lo \in Nat /\ piece.hi \in Nat
                         /\ piece.lo < piece.hi /\ piece.hi <= captured.length
    BY <2>1, PiecesType
  <2>4. \A piece \in P : /\ InPlace(Fragment(captured, piece))
                         /\ Fragment(captured, piece).lo = piece.lo
                         /\ Fragment(captured, piece).hi = piece.hi
    <3> TAKE piece \in P
    <3> QED
      BY <2>3, FragmentType DEF InPlace
  <2>5. \A byte \in 0 .. captured.length - 1 : \E piece \in P : piece.lo <= byte /\ byte < piece.hi
    BY <2>1, PiecesCover
  <2>6. \A byte \in 0 .. captured.length - 1 : \A p, q \in P :
           p.lo <= byte /\ byte < p.hi /\ q.lo <= byte /\ byte < q.hi => p = q
    <3> SUFFICES ASSUME NEW byte \in 0 .. captured.length - 1, NEW p \in P, NEW q \in P,
                        p.lo <= byte, byte < p.hi, q.lo <= byte, byte < q.hi
                 PROVE  p = q
      OBVIOUS
    <3>1. byte \in Nat
      BY <2>1
    <3> QED
      BY <2>1, <3>1, PiecesDisjoint
  <2> HIDE DEF P
  <2> QED
    BY <2>2, <2>4, <2>5, <2>6 DEF Covers
<1> QED
  BY <1>1, <1>2

LEMMA PlannedFrame ==
    ASSUME UNCHANGED <<options, captured>>
    PROVE  Planned(captured)' = Planned(captured)
  BY DEF Planned, Shaped, SplitTcpPacket, MarkerPositions, MatchesSuffix, Original, IsQuery, IsAnswer
-----------------------------------------------------------------------------
(***************************************************************************)
(* The properties follow from the invariant.                               *)
(***************************************************************************)

LEMMA WireType ==
    ASSUME TypeOK, IsSegment(captured), NEW i \in 1 .. Len(wire)
    PROVE  wire[i] \in Data
  BY DEF TypeOK

LEMMA InvDelivered == IInv => Delivered
<1> SUFFICES ASSUME TypeOK, PacketInv, SentInv, Handled, IsSegment(captured)
             PROVE  /\ \A i \in 1 .. Len(wire) : InPlace(wire[i])
                    /\ \A byte \in 0 .. captured.length - 1 : \E i \in 1 .. Len(wire) : Covers(wire[i], byte)
                    /\ ~failed =>
                          \A byte \in 0 .. captured.length - 1 : \A i, j \in 1 .. Len(wire) :
                              Covers(wire[i], byte) /\ Covers(wire[j], byte) => i = j
  BY DEF IInv, Delivered, InPlace
<1>1. \A i \in 1 .. Len(wire) : InPlace(wire[i])
  BY PlannedInPlace, OriginalInPlace DEF SentInv
<1>2. CASE failed
  <2>1. \E i \in 1 .. Len(wire) : wire[i] = Original(captured)
    BY <1>2 DEF SentInv, PacketInv, Handled
  <2> QED
    BY <1>1, <1>2, <2>1, OriginalInPlace
<1>3. CASE ~failed
  <2>1. left = {} /\ pc # "process"
    BY DEF PacketInv, Handled
  <2>2. \A item \in Planned(captured) : \E i \in 1 .. Len(wire) : wire[i] = item
    BY <1>3, <2>1 DEF SentInv
  <2>3. \A i \in 1 .. Len(wire) : wire[i] \in Planned(captured)
    BY <1>3 DEF SentInv
  <2>4. \A i, j \in 1 .. Len(wire) : wire[i] = wire[j] => i = j
    BY <1>3 DEF SentInv
  <2>5. \A byte \in 0 .. captured.length - 1 : \E i \in 1 .. Len(wire) : Covers(wire[i], byte)
    BY <2>2, PlannedInPlace
  <2>6. \A byte \in 0 .. captured.length - 1 : \A i, j \in 1 .. Len(wire) :
           Covers(wire[i], byte) /\ Covers(wire[j], byte) => i = j
    BY <2>3, <2>4, PlannedInPlace
  <2> QED
    BY <1>1, <2>5, <2>6
<1> QED
  BY <1>2, <1>3

LEMMA InvFakesOnce == IInv => FakesOnce
  BY DEF IInv, FakeInv, FakesOnce

(* A piece of a segment whose cuts have one inside of the name does not    *)
(* hold all of it.                                                         *)
LEMMA InvNameIsCut == IInv => NameIsCut
<1> SUFFICES ASSUME TypeOK, PacketInv, SentInv, IsSegment(captured),
                    captured.app = "tls", captured.name # None,
                    WellFormed(captured.name), captured.name.length > 1,
                    options.marker = "SniMiddle", Shaped(captured), ~failed,
                    NEW i \in 1 .. Len(wire),
                    wire[i].lo <= captured.name.at,
                    captured.name.at + captured.name.length <= wire[i].hi
             PROVE  FALSE
  BY DEF IInv, NameIsCut
<1> DEFINE n == captured.name
           mid == Middle(n)
<1>1. /\ n.at \in Nat /\ n.length \in Nat /\ n.dots \in SUBSET Nat
      /\ captured.length \in Nat \ {0} /\ Cuts \in SUBSET Nat
  BY NamesType, SegmentType, CutsType
<1>2. mid \in Nat /\ n.at < mid /\ mid < n.at + n.length
  <2>1. /\ n.length > 1 /\ 0 \notin n.dots
        /\ \A d \in n.dots : d + 1 \notin n.dots /\ d + 1 < n.length
    BY DEF WellFormed
  <2> HIDE DEF n
  <2> QED
    BY <1>1, <2>1, MiddleIsInside
<1>3. n.at + n.length <= captured.length
  BY DEF PacketInv
<1>4. mid \in Cuts
  BY DEF Cuts, MarkerPositions
<1>5. mid \in Ends(Cuts, captured.length)
  BY <1>1, <1>2, <1>3, <1>4 DEF Ends, Positions
<1>6. PICK piece \in Pieces(Cuts, captured.length) : wire[i] = Fragment(captured, piece)
  BY DEF SentInv, Planned, SplitTcpPacket, Cuts
<1>7. wire[i].lo = piece.lo /\ wire[i].hi = piece.hi
  BY <1>6 DEF Fragment
<1>8. piece.lo \in Nat /\ piece.hi \in Nat
  BY <1>1, PiecesType
<1>9. mid <= piece.lo \/ piece.hi <= mid
  BY <1>5 DEF Pieces
<1> QED
  BY <1>1, <1>2, <1>7, <1>8, <1>9

LEMMA InvAnswersWereAsked == IInv => AnswersWereAsked
  BY DEF IInv, AskedInv, WasAsked, AnswersWereAsked, IsAnswer, IsQuery, IsSegment

LEMMA InvClosedOnce == IInv => ClosedOnce
<1> SUFFICES ASSUME TypeOK, HandleInv
             PROVE  ClosedOnce
  BY DEF IInv
<1> QED
  BY DEF TypeOK, HandleInv, ClosedOnce

-----------------------------------------------------------------------------
(***************************************************************************)
(* The invariant holds at first, and every step preserves it.              *)
(***************************************************************************)

LEMMA InitInv == Init => IInv
<1> SUFFICES ASSUME Init
             PROVE  IInv
  OBVIOUS
<1>1. TypeOK
  <2>1. ~IsSegment(captured) /\ wire \in Seq(Messages) /\ left \subseteq Messages
    BY DEF Init, IsSegment
  <2> QED
    BY <2>1 DEF Init, TypeOK, NoSeq
<1>2. PacketInv
  BY DEF Init, PacketInv, IsSegment
<1>3. SentInv
  BY DEF Init, SentInv, IsSegment
<1>4. FakeInv
  BY SplitAssumption DEF Init, FakeInv, IsSegment
<1>5. HandleInv
  BY DEF Init, HandleInv
<1>6. AskedInv
  BY DEF Init, AskedInv, IsSegment, IsQuery, IsAnswer
<1> QED
  BY <1>1, <1>2, <1>3, <1>4, <1>5, <1>6 DEF IInv

(* What a step that leaves the parts of an invariant alone preserves.      *)
LEMMA SentFrame ==
    ASSUME SentInv, UNCHANGED <<options, captured, left, wire, failed>>,
           pc' # "process" => pc # "process",
           pc' # "failopen" /\ outcome' # "threw" => pc # "failopen" /\ outcome # "threw"
    PROVE  SentInv'
<1>1. Planned(captured)' = Planned(captured)
  BY PlannedFrame
<1>2. Original(captured)' = Original(captured) /\ IsSegment(captured)' = IsSegment(captured)
  BY DEF Original, IsSegment, IsQuery, IsAnswer
<1> HIDE DEF Planned
<1> QED
  BY <1>1, <1>2 DEF SentInv

LEMMA FakeFrame ==
    ASSUME FakeInv, UNCHANGED <<options, captured, request, flows, fakes, faked>>
    PROVE  FakeInv'
  BY DEF FakeInv, IsSegment

LEMMA AskedFrame ==
    ASSUME AskedInv, UNCHANGED <<requests, wired, captured, left, wire, asked>>
    PROVE  AskedInv'
  BY DEF AskedInv, WasAsked, IsSegment, IsQuery, IsAnswer

LEMMA HandleFrame ==
    ASSUME HandleInv, UNCHANGED <<field, driver, stop, closes>>,
           pc \notin {"start", "disposing", "ended"}, pc' \notin {"start", "disposing", "ended"}
    PROVE  HandleInv'
  BY DEF HandleInv

LEMMA TypeFrame ==
    ASSUME TypeOK, UNCHANGED <<options, captured, left, wire, flows, requests, request, wired, asked>>,
           pc' \in {"start", "loop", "receiving", "process", "resolving", "sending", "failopen",
                    "leaving", "disposing", "ended"},
           outcome' \in {"running", "returned", "threw"}, field' \in {"open", "zero"},
           driver' \in {"none", "open", "shut", "closed"},
           stop' \in {"none", "asked", "exchanged", "shut", "done"},
           fakes' \in Nat, packets' \in Nat, failures' \in Nat, failed' \in BOOLEAN,
           faked' \in [Flows -> Nat], closes' \in Nat
    PROVE  TypeOK'
  BY DEF TypeOK, IsSegment

(* The cancelling thread touches only the handle.                          *)
LEMMA StopStep ==
    ASSUME IInv, Cancel \/ StopReceiving
    PROVE  IInv'
<1>1. UNCHANGED <<options, pc, outcome, captured, fakes, left, flows, requests, world, wire, failed, asked, faked>>
  BY DEF Cancel, StopReceiving, StopExchange, StopShutdown, StopClose, observed
<1>2. UNCHANGED <<request, packets, failures, wired>>
  BY <1>1 DEF world
<1>3. TypeOK'
  <2>1. /\ field' \in {"open", "zero"} /\ driver' \in {"none", "open", "shut", "closed"}
        /\ stop' \in {"none", "asked", "exchanged", "shut", "done"} /\ closes' \in Nat
    BY DEF IInv, TypeOK, Cancel, StopReceiving, StopExchange, StopShutdown, StopClose, observed
  <2>2. /\ pc \in {"start", "loop", "receiving", "process", "resolving", "sending", "failopen",
                    "leaving", "disposing", "ended"}
        /\ outcome \in {"running", "returned", "threw"}
        /\ fakes \in Nat /\ packets \in Nat /\ failures \in Nat /\ failed \in BOOLEAN
        /\ faked \in [Flows -> Nat]
    BY DEF IInv, TypeOK
  <2>3. TypeOK
    BY DEF IInv
  <2> QED
    BY <1>1, <1>2, <2>1, <2>2, <2>3, TypeFrame
<1>4. PacketInv'
  BY <1>1 DEF IInv, PacketInv, IsSegment, IsQuery
<1>5. SentInv'
  BY <1>1, SentFrame DEF IInv
<1>6. FakeInv'
  BY <1>1, <1>2, FakeFrame DEF IInv
<1>7. HandleInv'
  <2>1. CASE Cancel
    BY <1>1, <2>1 DEF IInv, HandleInv, Cancel, observed
  <2>2. CASE StopExchange
    BY <1>1, <2>2 DEF IInv, TypeOK, HandleInv, StopExchange, observed
  <2>3. CASE StopShutdown
    BY <1>1, <2>3 DEF IInv, HandleInv, StopShutdown, observed
  <2>4. CASE StopClose
    BY <1>1, <2>4 DEF IInv, HandleInv, StopClose, observed
  <2> QED
    BY <2>1, <2>2, <2>3, <2>4 DEF StopReceiving
<1>8. AskedInv'
  BY <1>1, <1>2, AskedFrame DEF IInv
<1> QED
  BY <1>3, <1>4, <1>5, <1>6, <1>7, <1>8 DEF IInv

(* The loop's thread between two packets touches none of what a packet's   *)
(* handling left.                                                          *)
LEMMA RunStep ==
    ASSUME IInv, Run
    PROVE  IInv'
<1>1. UNCHANGED <<options, captured, fakes, left, flows, requests, request, packets, wired,
                  wire, failed, asked, faked>>
  BY DEF Run, RunOpen, RunLoop, ReceiveFails, Leave, Dispose, world, observed
<1>2. /\ pc \in {"start", "loop", "receiving", "leaving", "disposing"}
      /\ pc' \in {"loop", "receiving", "leaving", "disposing", "ended"}
      /\ outcome' \in {"running", "returned", "threw"}
      /\ pc' \in {"loop", "receiving"} => outcome' = outcome
      /\ pc \in {"leaving", "disposing"} => outcome' = outcome /\ pc' \in {"disposing", "ended"}
  BY DEF IInv, TypeOK, Run, RunOpen, RunLoop, ReceiveFails, Leave, Dispose
<1>3. TypeOK'
  <2>1. /\ field' \in {"open", "zero"} /\ driver' \in {"none", "open", "shut", "closed"}
        /\ stop' \in {"none", "asked", "exchanged", "shut", "done"} /\ closes' \in Nat
        /\ failures' \in Nat
    BY DEF IInv, TypeOK, Run, RunOpen, RunLoop, ReceiveFails, Leave, Dispose, world, observed
  <2>2. /\ fakes \in Nat /\ packets \in Nat /\ failed \in BOOLEAN /\ faked \in [Flows -> Nat]
    BY DEF IInv, TypeOK
  <2>3. TypeOK
    BY DEF IInv
  <2> QED
    BY <1>1, <1>2, <2>1, <2>2, <2>3, TypeFrame
<1>4. PacketInv'
  BY <1>1, <1>2 DEF IInv, PacketInv, IsSegment, IsQuery
<1>5. SentInv'
  <2>1. pc # "failopen" /\ pc # "process"
    BY <1>2
  <2>2. outcome' # "threw" => outcome # "threw"
    BY <1>2 DEF IInv, PacketInv
  <2> QED
    BY <1>1, <2>1, <2>2, SentFrame DEF IInv
<1>6. FakeInv'
  BY <1>1, FakeFrame DEF IInv
<1>7. HandleInv'
  <2>1. CASE RunOpen
    BY <2>1 DEF IInv, TypeOK, HandleInv, RunOpen, cancelled
  <2>2. CASE RunLoop
    BY <2>2 DEF IInv, HandleInv, RunLoop, observed
  <2>3. CASE ReceiveFails
    BY <2>3 DEF IInv, HandleInv, ReceiveFails, observed
  <2>4. CASE Leave
    BY <2>4 DEF IInv, TypeOK, HandleInv, Leave, observed
  <2>5. CASE Dispose
    BY <2>5 DEF IInv, TypeOK, HandleInv, Dispose
  <2> QED
    BY <2>1, <2>2, <2>3, <2>4, <2>5 DEF Run
<1>8. AskedInv'
  BY <1>1, AskedFrame DEF IInv
<1> QED
  BY <1>3, <1>4, <1>5, <1>6, <1>7, <1>8 DEF IInv

(* The packet taken: its kind, what is known of it, and what was asked.    *)
LEMMA ReceivedType ==
    ASSUME IInv, Receive
    PROVE  /\ captured' \in Segments \cup Datagrams /\ captured' # None
           /\ Receives(captured')
           /\ request' \in [Flows -> Nat] /\ faked' \in [Flows -> Nat]
           /\ asked \subseteq asked' /\ asked' \subseteq Keys \X Servers
           /\ IsSegment(captured)' =>
                 /\ captured'.name # None => captured'.name.at + captured'.name.length <= captured'.length
                 /\ captured'.flow \in Flows
                 /\ request'[captured'.flow] \in 1 .. Len(Starts[captured'.flow])
                 /\ captured'.seq = Starts[captured'.flow][request'[captured'.flow]]
           /\ \A f \in Flows : /\ faked'[f] = 0 \/ (faked'[f] = faked[f] /\ request'[f] = request[f])
           /\ IsQuery(captured)' => <<captured'.key, captured'.server>> \in asked'
           /\ IsAnswer(captured)' =>
                 captured'.server = Target \/ <<captured'.key, captured'.server>> \in asked'
<1>1. /\ request \in [Flows -> Nat] /\ faked \in [Flows -> Nat]
      /\ asked \subseteq Keys \X Servers /\ wired \subseteq Keys \X (Servers \cup {Target})
  BY DEF IInv, TypeOK
<1>2. CASE ReceiveSegment
  <2>0. PICK f \in Flows, length \in Lengths, name \in Names \cup {None}, app \in {"tls", "http", "other"} :
           \E r \in {request[f], request[f] + 1} \cap (1 .. Len(Starts[f])) :
              /\ app # (IF f \in WebFlows THEN "tls" ELSE "http")
              /\ app = "other" => name = None
              /\ name # None => name.at + name.length <= length
              /\ Receives([proto |-> "tcp", app |-> app, flow |-> f, seq |-> Starts[f][r],
                           length |-> length, name |-> name])
              /\ request' = [request EXCEPT ![f] = r]
              /\ faked' = IF r = request[f] THEN faked ELSE [faked EXCEPT ![f] = 0]
              /\ UNCHANGED asked
    BY <1>2, Zenon DEF ReceiveSegment
  <2>1. PICK r \in {request[f], request[f] + 1} \cap (1 .. Len(Starts[f])) :
           /\ name # None => name.at + name.length <= length
           /\ Receives([proto |-> "tcp", app |-> app, flow |-> f, seq |-> Starts[f][r],
                        length |-> length, name |-> name])
           /\ request' = [request EXCEPT ![f] = r]
           /\ faked' = IF r = request[f] THEN faked ELSE [faked EXCEPT ![f] = 0]
           /\ UNCHANGED asked
    BY <2>0
  <2> DEFINE packet == [proto |-> "tcp", app |-> app, flow |-> f, seq |-> Starts[f][r],
                        length |-> length, name |-> name]
  <2>2. r \in Nat /\ Starts[f][r] \in SeqNums
    <3>1. Starts[f] \in Seq(SeqNums)
      BY FlowsAssumption DEF SeqNums
    <3>2. r \in Nat /\ r \in 1 .. Len(Starts[f])
      BY <1>1
    <3> QED
      BY <3>1, <3>2
  <2>3. packet \in Segments
    BY <2>2 DEF Segments
  <2>4. captured' = packet
    BY <2>1 DEF Receives
  <2>5. packet # None
    BY <2>3, PacketsAssumption
  <2>6. request' \in [Flows -> Nat] /\ faked' \in [Flows -> Nat]
    BY <1>1, <2>1, <2>2
  <2>7. \A g \in Flows : faked'[g] = 0 \/ (faked'[g] = faked[g] /\ request'[g] = request[g])
    BY <1>1, <2>1
  <2>8. request'[f] = r
    BY <1>1, <2>1
  <2>9. ~IsQuery(packet) /\ ~IsAnswer(packet)
    BY DEF IsQuery, IsAnswer
  <2> QED
    BY <1>1, <2>1, <2>3, <2>4, <2>5, <2>6, <2>7, <2>8, <2>9 DEF IsQuery, IsAnswer
<1>3. CASE ReceiveQuery
  <2>1. PICK key \in Keys, server \in Servers, size \in {"tiny", "short", "full"} :
           /\ Receives([proto |-> "udp", role |-> "query", key |-> key, server |-> server, size |-> size])
           /\ asked' = asked \cup {<<key, server>>}
           /\ UNCHANGED <<request, faked>>
    BY <1>3 DEF ReceiveQuery
  <2> DEFINE packet == [proto |-> "udp", role |-> "query", key |-> key, server |-> server, size |-> size]
  <2>2. packet \in Datagrams
    BY DEF Datagrams
  <2>3. captured' = packet /\ packet # None
    BY <2>1, <2>2, PacketsAssumption DEF Receives
  <2>4. ~IsSegment(packet) /\ ~IsAnswer(packet)
    BY DEF IsSegment, IsAnswer
  <2> QED
    BY <1>1, <2>1, <2>2, <2>3, <2>4 DEF IsSegment, IsAnswer
<1>4. CASE ReceiveAnswer
  <2>1. PICK query \in wired :
           /\ Receives([proto |-> "udp", role |-> "answer", key |-> query[1], server |-> query[2], size |-> "full"])
           /\ UNCHANGED <<request, asked, faked>>
    BY <1>4 DEF ReceiveAnswer
  <2> DEFINE packet == [proto |-> "udp", role |-> "answer", key |-> query[1], server |-> query[2], size |-> "full"]
  <2>2. query[1] \in Keys /\ query[2] \in Servers \cup {Target}
    BY <1>1
  <2>3. packet \in Datagrams
    BY <2>2 DEF Datagrams
  <2>4. captured' = packet /\ packet # None
    BY <2>1, <2>3, PacketsAssumption DEF Receives
  <2>5. ~IsSegment(packet) /\ ~IsQuery(packet)
    BY DEF IsSegment, IsQuery
  <2>6. packet.server = Target \/ <<packet.key, packet.server>> \in asked
    BY DEF IInv, AskedInv, WasAsked
  <2> QED
    BY <1>1, <2>1, <2>3, <2>4, <2>5, <2>6 DEF IsSegment, IsQuery
<1>5. CASE ReceiveOther
  <2>1. PICK packet \in {[proto |-> "udp", role |-> "quic"], [proto |-> "raw"]} :
           Receives(packet) /\ UNCHANGED <<request, asked, faked>>
    BY <1>5 DEF ReceiveOther
  <2>2. packet \in Datagrams
    BY DEF Datagrams
  <2>3. captured' = packet /\ packet # None
    BY <2>1, <2>2, PacketsAssumption DEF Receives
  <2>4. ~IsSegment(packet) /\ ~IsQuery(packet) /\ ~IsAnswer(packet)
    BY DEF IsSegment, IsQuery, IsAnswer
  <2> QED
    BY <1>1, <2>1, <2>2, <2>3, <2>4 DEF IsSegment, IsQuery, IsAnswer
<1> QED
  BY <1>2, <1>3, <1>4, <1>5 DEF Receive

LEMMA ReceiveStep ==
    ASSUME IInv, Receive
    PROVE  IInv'
<1>1. Receives(captured')
  BY ReceivedType
<1>2. /\ pc = "receiving" /\ pc' = "process" /\ left = {} /\ fakes = 0 /\ outcome = "running"
      /\ wire' = <<>> /\ failed' = FALSE /\ packets' = packets + 1
      /\ UNCHANGED <<options, outcome, field, driver, stop, fakes, left, flows, requests, failures, wired, closes>>
  BY <1>1 DEF Receives, IInv, PacketInv
<1>3. TypeOK'
  <2>1. wire' \in Seq(IF IsSegment(captured)' THEN Data ELSE Messages)
    BY <1>2
  <2>2. left' \subseteq IF IsSegment(captured)' THEN Data ELSE Messages
    BY <1>2
  <2>3. /\ captured' \in Segments \cup Datagrams \cup {None}
        /\ request' \in [Flows -> Nat] /\ faked' \in [Flows -> Nat] /\ asked' \subseteq Keys \X Servers
    BY ReceivedType
  <2>4. TypeOK
    BY DEF IInv
  <2>5. packets' \in Nat
    BY <1>2, <2>4 DEF TypeOK
  <2>6. /\ UNCHANGED <<options, outcome, field, driver, stop, fakes, flows, requests, failures, wired, closes>>
        /\ pc' = "process" /\ failed' \in BOOLEAN
    BY <1>2
  <2> QED
    BY <2>1, <2>2, <2>3, <2>4, <2>5, <2>6 DEF TypeOK
<1>4. PacketInv'
  BY <1>2, ReceivedType DEF PacketInv
<1>5. SentInv'
  BY <1>2 DEF SentInv
<1>6. FakeInv'
  <2>1. \A f \in Flows : /\ faked'[f] # 0 => /\ request'[f] \in 1 .. Len(Starts[f])
                                            /\ flows'[f] = Starts[f][request'[f]]
                         /\ faked'[f] <= options'.fakeRepeats
    <3> TAKE f \in Flows
    <3>1. faked'[f] = 0 \/ (faked'[f] = faked[f] /\ request'[f] = request[f])
      BY ReceivedType
    <3>2. /\ faked[f] # 0 => request[f] \in 1 .. Len(Starts[f]) /\ flows[f] = Starts[f][request[f]]
          /\ faked[f] <= options.fakeRepeats
      BY DEF IInv, FakeInv
    <3>3. options.fakeRepeats \in Nat
      BY SplitAssumption DEF IInv, TypeOK
    <3> QED
      BY <1>2, <3>1, <3>2, <3>3
  <2>2. IsSegment(captured)' => /\ captured'.flow \in Flows
                                /\ request'[captured'.flow] \in 1 .. Len(Starts[captured'.flow])
                                /\ captured'.seq = Starts[captured'.flow][request'[captured'.flow]]
    BY ReceivedType
  <2>3. faked' \in [Flows -> Nat]
    BY ReceivedType
  <2> QED
    BY <1>2, <2>1, <2>2, <2>3 DEF FakeInv
<1>7. HandleInv'
  BY <1>2, HandleFrame DEF IInv
<1>8. AskedInv'
  <2>1. asked \subseteq asked'
    BY ReceivedType
  <2>2. /\ IsQuery(captured)' => <<captured'.key, captured'.server>> \in asked'
        /\ IsAnswer(captured)' => WasAsked(captured.key, captured.server)'
    BY ReceivedType DEF WasAsked
  <2> QED
    BY <1>2, <2>1, <2>2 DEF IInv, AskedInv, WasAsked
<1> QED
  BY <1>3, <1>4, <1>5, <1>6, <1>7, <1>8 DEF IInv

(* An entry of the tracker that lapses takes the flow's fakes with it.     *)
LEMMA LapseStep ==
    ASSUME IInv, Lapse
    PROVE  IInv'
<1>1. PICK f \in Flows :
         /\ pc # "sending"
         /\ flows' = [flows EXCEPT ![f] = NoSeq]
         /\ faked' = [faked EXCEPT ![f] = 0]
         /\ UNCHANGED <<options, pc, outcome, field, driver, stop, captured, fakes, left, requests, world,
                        wire, failed, asked, closes>>
  BY DEF Lapse
<1>2. UNCHANGED <<request, packets, failures, wired>>
  BY <1>1 DEF world
<1>3. /\ fakes = 0 /\ flows \in [Flows -> SeqNums \cup {NoSeq}] /\ faked \in [Flows -> Nat]
  BY <1>1 DEF IInv, PacketInv, TypeOK
<1>4. TypeOK'
  BY <1>1, <1>2, <1>3 DEF IInv, TypeOK, IsSegment
<1>5. PacketInv'
  BY <1>1, <1>2 DEF IInv, PacketInv, IsSegment, IsQuery
<1>6. SentInv'
  BY <1>1, SentFrame DEF IInv
<1>7. FakeInv'
  <2>1. \A g \in Flows : /\ faked'[g] # 0 => faked'[g] = faked[g] /\ flows'[g] = flows[g]
                         /\ faked'[g] <= options.fakeRepeats
                         /\ faked'[g] \in Nat /\ faked'[g] <= faked[g]
    BY <1>1, <1>3, SplitAssumption DEF IInv, FakeInv, TypeOK
  <2>2. IsSegment(captured) => captured.flow \in Flows
    BY SegmentType DEF IInv
  <2> QED
    BY <1>1, <1>2, <1>3, <2>1, <2>2 DEF IInv, FakeInv, IsSegment
<1>8. HandleInv'
  BY <1>1 DEF IInv, HandleInv
<1>9. AskedInv'
  BY <1>1, <1>2, AskedFrame DEF IInv
<1> QED
  BY <1>4, <1>5, <1>6, <1>7, <1>8, <1>9 DEF IInv

(* The packet is being handled, and what goes out for it has been decided. *)
LEMMA SendsFrame ==
    ASSUME IInv, pc \in {"process", "resolving"}, NEW items, NEW count \in Nat, Sends(items, count),
           IF IsSegment(captured) THEN items = Planned(captured) ELSE count = 0 /\ items \subseteq Messages,
           flows' \in [Flows -> SeqNums \cup {NoSeq}], requests' \in [Keys -> Servers \cup {None}]
    PROVE  TypeOK' /\ PacketInv' /\ SentInv' /\ HandleInv'
<1>1. /\ pc' = "sending" /\ left' = items /\ fakes' = count
      /\ UNCHANGED <<options, outcome, field, driver, stop, captured, request, packets, failures, wired,
                     wire, failed, asked, faked, closes>>
  BY DEF Sends, world, observed
<1>2. IsSegment(captured)' = IsSegment(captured)
  BY <1>1 DEF IsSegment
<1>3. wire = <<>> /\ ~failed
  BY DEF IInv, PacketInv
<1>4. IsSegment(captured) => Planned(captured) \subseteq Data
  BY PlannedInPlace DEF IInv, InPlace
<1>5. TypeOK'
  BY <1>1, <1>2, <1>4 DEF IInv, TypeOK
<1>6. PacketInv'
  BY <1>1, <1>2, <1>3 DEF IInv, PacketInv, IsSegment
<1>7. SentInv'
  <2>1. Planned(captured)' = Planned(captured)
    BY <1>1, PlannedFrame
  <2> HIDE DEF Planned
  <2> QED
    BY <1>1, <1>2, <1>3, <2>1 DEF SentInv
<1>8. HandleInv'
  BY <1>1, HandleFrame DEF IInv
<1> QED
  BY <1>5, <1>6, <1>7, <1>8

(* A fake is sent with what the engine cuts, if the tracker does not know  *)
(* the request: then no fake of it has been sent.                          *)
LEMMA SegmentStep ==
    ASSUME IInv, PassSegment \/ SplitSegment
    PROVE  IInv'
<1>1. PICK count \in Nat :
         /\ pc = "process" /\ IsSegment(captured)
         /\ Sends(Planned(captured), count)
         /\ \/ count = 0 /\ flows' = flows
            \/ /\ count = options.fakeRepeats /\ flows' = Noted(captured)
               /\ flows[captured.flow] # captured.seq
         /\ UNCHANGED requests
  <2>1. options.fakeRepeats \in Nat
    BY SplitAssumption DEF IInv, TypeOK
  <2>2. CASE PassSegment
    <3>1. Planned(captured) = {Original(captured)}
      BY <2>2 DEF PassSegment, Planned
    <3> QED
      BY <2>2, <3>1 DEF PassSegment
  <2>3. CASE SplitSegment
    <3>1. Planned(captured) = SplitTcpPacket(captured)
      BY <2>3 DEF SplitSegment, Planned
    <3> QED
      BY <2>1, <2>3, <3>1 DEF SplitSegment, ShouldSendFake
  <2> QED
    BY <2>2, <2>3
<1>2. captured.flow \in Flows /\ captured.seq \in SeqNums
  BY <1>1, SegmentType DEF IInv
<1>3. /\ flows \in [Flows -> SeqNums \cup {NoSeq}] /\ requests \in [Keys -> Servers \cup {None}]
      /\ faked \in [Flows -> Nat]
  BY DEF IInv, TypeOK
<1>4. flows' \in [Flows -> SeqNums \cup {NoSeq}]
  BY <1>1, <1>2, <1>3 DEF Noted
<1>5. TypeOK' /\ PacketInv' /\ SentInv' /\ HandleInv'
  BY <1>1, <1>3, <1>4, SendsFrame
<1>6. UNCHANGED <<options, captured, request, wired, wire, asked, faked>> /\ fakes' = count
  BY <1>1 DEF Sends, world, observed
<1>7. FakeInv'
  <2> DEFINE f == captured.flow
  <2>1. /\ request[f] \in 1 .. Len(Starts[f]) /\ captured.seq = Starts[f][request[f]]
        /\ faked[f] <= options.fakeRepeats /\ faked[f] \in Nat
        /\ faked[f] # 0 => flows[f] = captured.seq
    BY <1>1, <1>2, <1>3 DEF IInv, FakeInv
  <2>2. CASE count = 0 /\ flows' = flows
    BY <1>1, <1>6, <2>1, <2>2 DEF IInv, FakeInv, IsSegment
  <2>3. CASE /\ count = options.fakeRepeats /\ flows' = Noted(captured)
             /\ flows[captured.flow] # captured.seq
    <3>1. faked[f] = 0
      BY <2>1, <2>3
    <3>2. flows'[f] = captured.seq /\ \A g \in Flows \ {f} : flows'[g] = flows[g]
      BY <1>2, <1>3, <2>3 DEF Noted
    <3>3. count \in Nat
      OBVIOUS
    <3> QED
      BY <1>1, <1>2, <1>6, <2>1, <2>3, <3>1, <3>2, <3>3 DEF IInv, FakeInv, IsSegment
  <2> QED
    BY <1>1, <2>2, <2>3
<1>8. AskedInv'
  BY <1>1, <1>6 DEF IInv, AskedInv, WasAsked, IsSegment, IsQuery, IsAnswer
<1> QED
  BY <1>5, <1>7, <1>8 DEF IInv

(* The queries that have not expired are among those pending.              *)
LEMMA RemainingType ==
    ASSUME TypeOK, NEW rest \in Remaining
    PROVE  /\ rest \in [Keys -> Servers \cup {None}]
           /\ \A k \in Keys : rest[k] # None => rest[k] = requests[k]
  BY DEF Remaining, TypeOK

(* A datagram goes on, bearing an address that was asked.                  *)
LEMMA DatagramFrame ==
    ASSUME IInv, pc \in {"process", "resolving"}, ~IsSegment(captured),
           NEW item \in Messages, Sends({item}, 0),
           item.what \in {"query", "answer"} => WasAsked(item.key, item.server),
           requests' \in [Keys -> Servers \cup {None}],
           \A k \in Keys : requests'[k] # None => WasAsked(k, requests'[k]),
           UNCHANGED flows
    PROVE  IInv'
<1>1. TypeOK' /\ PacketInv' /\ SentInv' /\ HandleInv'
  <2>1. flows' \in [Flows -> SeqNums \cup {NoSeq}]
    BY DEF IInv, TypeOK
  <2> QED
    BY <2>1, SendsFrame
<1>2. /\ UNCHANGED <<options, captured, request, wired, wire, asked, faked>>
      /\ left' = {item} /\ fakes' = 0
  BY DEF Sends, world, observed
<1>3. fakes = 0
  BY DEF IInv, PacketInv
<1>4. FakeInv'
  BY <1>2, <1>3, FakeFrame DEF IInv
<1>5. AskedInv'
  BY <1>2 DEF IInv, AskedInv, WasAsked, IsSegment, IsQuery, IsAnswer
<1> QED
  BY <1>1, <1>4, <1>5 DEF IInv

(* What a datagram that is passed on is.                                   *)
LEMMA DatagramType ==
    ASSUME IInv, captured # None, ~IsSegment(captured)
    PROVE  /\ Original(captured) \in Messages
           /\ Original(captured).what \in {"query", "answer"} =>
                 WasAsked(Original(captured).key, Original(captured).server)
           /\ IsQuery(captured) \/ IsAnswer(captured) =>
                 captured.key \in Keys /\ captured.server \in Servers \cup {Target}
           /\ IsQuery(captured) => captured.server \in Servers
<1>1. captured \in Datagrams
  BY DEF IInv, TypeOK, Segments, IsSegment
<1>2. /\ IsQuery(captured) \/ IsAnswer(captured) =>
            captured.key \in Keys /\ captured.server \in Servers \cup {Target}
      /\ captured.proto # "tcp"
  BY <1>1 DEF Datagrams, IsQuery, IsAnswer
<1>3. IsQuery(captured) => captured.server \in Servers
  BY DEF IInv, TypeOK, AskedInv
<1>4. CASE IsQuery(captured)
  <2>1. Original(captured) = Query(captured.key, captured.server)
    BY <1>2, <1>4 DEF Original
  <2>2. WasAsked(captured.key, captured.server)
    BY <1>4 DEF IInv, AskedInv, WasAsked
  <2> QED
    BY <1>2, <1>3, <1>4, <2>1, <2>2 DEF Query, Messages
<1>5. CASE IsAnswer(captured) /\ ~IsQuery(captured)
  <2>1. Original(captured) = Answer(captured.key, captured.server)
    BY <1>2, <1>5 DEF Original
  <2>2. WasAsked(captured.key, captured.server)
    BY <1>5 DEF IInv, AskedInv
  <2> QED
    BY <1>2, <1>5, <2>1, <2>2 DEF Answer, Messages
<1>6. CASE ~IsAnswer(captured) /\ ~IsQuery(captured)
  BY <1>2, <1>6 DEF Original, Messages
<1> QED
  BY <1>4, <1>5, <1>6

(* An answer bears the address its query was noted with, or its own.       *)
LEMMA DatagramStep ==
    ASSUME IInv, RedirectQuery \/ RestoreAnswer \/ PassAnswer \/ PassOther \/ Resolve
    PROVE  IInv'
<1>1. requests \in [Keys -> Servers \cup {None}] /\ TypeOK
  BY DEF IInv, TypeOK
<1>2. \A k \in Keys : requests[k] # None => WasAsked(k, requests[k])
  BY DEF IInv, AskedInv
<1>3. CASE RedirectQuery
  <2>1. /\ pc = "process" /\ IsQuery(captured) /\ ~IsSegment(captured) /\ captured # None
        /\ Sends({Query(captured.key, Target)}, 0) /\ UNCHANGED flows
    BY <1>3 DEF RedirectQuery, IsQuery, IsSegment
  <2>2. PICK rest \in Remaining : requests' = [rest EXCEPT ![captured.key] = captured.server]
    BY <1>3 DEF RedirectQuery
  <2>3. captured.key \in Keys /\ captured.server \in Servers
    BY <2>1, DatagramType
  <2>4. <<captured.key, captured.server>> \in asked
    BY <2>1 DEF IInv, AskedInv
  <2>5. /\ requests' \in [Keys -> Servers \cup {None}]
        /\ \A k \in Keys : requests'[k] # None => WasAsked(k, requests'[k])
    BY <1>1, <1>2, <2>2, <2>3, <2>4, RemainingType DEF WasAsked
  <2>6. Query(captured.key, Target) \in Messages /\ Query(captured.key, Target).server = Target
    BY <2>3 DEF Query, Messages
  <2> QED
    BY <2>1, <2>5, <2>6, DatagramFrame DEF WasAsked
<1>4. CASE RestoreAnswer
  <2>1. pc = "process" /\ IsAnswer(captured) /\ ~IsSegment(captured) /\ captured # None /\ UNCHANGED flows
    BY <1>4 DEF RestoreAnswer, IsAnswer, IsSegment
  <2>2. PICK rest \in Remaining :
           /\ rest[captured.key] # None
           /\ Sends({Answer(captured.key, rest[captured.key])}, 0)
           /\ requests' = [rest EXCEPT ![captured.key] = None]
    BY <1>4 DEF RestoreAnswer
  <2>3. captured.key \in Keys
    BY <2>1, DatagramType
  <2>4. rest[captured.key] \in Servers /\ WasAsked(captured.key, rest[captured.key])
    BY <1>1, <1>2, <2>2, <2>3, RemainingType
  <2>5. /\ requests' \in [Keys -> Servers \cup {None}]
        /\ \A k \in Keys : requests'[k] # None => WasAsked(k, requests'[k])
    BY <1>1, <1>2, <2>2, <2>3, RemainingType
  <2>6. LET item == Answer(captured.key, rest[captured.key])
        IN  item \in Messages /\ item.key = captured.key /\ item.server = rest[captured.key]
    BY <2>3, <2>4 DEF Answer, Messages
  <2> QED
    BY <2>1, <2>2, <2>4, <2>5, <2>6, DatagramFrame
<1>5. CASE PassAnswer
  <2>1. /\ pc = "process" /\ ~IsSegment(captured) /\ captured # None
        /\ Sends({Original(captured)}, 0) /\ UNCHANGED flows
    BY <1>5 DEF PassAnswer, IsAnswer, IsSegment
  <2>2. requests' \in Remaining
    BY <1>5 DEF PassAnswer
  <2>3. /\ requests' \in [Keys -> Servers \cup {None}]
        /\ \A k \in Keys : requests'[k] # None => WasAsked(k, requests'[k])
    BY <1>1, <1>2, <2>2, RemainingType
  <2> QED
    BY <2>1, <2>3, DatagramType, DatagramFrame
<1>6. CASE PassOther
  <2>1. /\ pc = "process" /\ ~IsSegment(captured) /\ captured # None
        /\ Sends({Original(captured)}, 0) /\ UNCHANGED <<flows, requests>>
    BY <1>6 DEF PassOther, IsQuery, IsSegment
  <2> QED
    BY <1>1, <1>2, <2>1, DatagramType, DatagramFrame
<1>7. CASE Resolve
  <2>1. /\ pc = "resolving" /\ IsQuery(captured) /\ ~IsSegment(captured) /\ captured # None
        /\ Sends({Answer(captured.key, captured.server)}, 0) /\ UNCHANGED <<flows, requests>>
    BY <1>7 DEF Resolve, IInv, PacketInv, IsQuery, IsSegment
  <2>2. captured.key \in Keys /\ captured.server \in Servers
    BY <2>1, DatagramType
  <2>3. <<captured.key, captured.server>> \in asked
    BY <2>1 DEF IInv, AskedInv
  <2>4. LET item == Answer(captured.key, captured.server)
        IN  item \in Messages /\ WasAsked(item.key, item.server)
    BY <2>2, <2>3 DEF Answer, Messages, WasAsked
  <2> QED
    BY <1>1, <1>2, <2>1, <2>4, DatagramFrame
<1> QED
  BY <1>3, <1>4, <1>5, <1>6, <1>7

(* A packet dropped, a query given to the resolver, an answer that cannot  *)
(* be made: nothing goes out.                                              *)
LEMMA SilentStep ==
    ASSUME IInv, DropQuic \/ StartResolve \/ ResolveFails
    PROVE  IInv'
<1>1. /\ UNCHANGED <<options, outcome, field, driver, stop, captured, fakes, left, flows, requests,
                     request, packets, failures, wired, wire, asked, faked, closes>>
      /\ \/ IsQuic(captured) /\ pc = "process" /\ pc' = "loop" /\ failed' = failed
         \/ IsQuery(captured) /\ pc = "process" /\ pc' = "resolving" /\ failed' = failed
         \/ IsQuery(captured) /\ pc = "resolving" /\ pc' = "failopen" /\ failed' = TRUE
  BY DEF DropQuic, StartResolve, ResolveFails, world, observed, IInv, PacketInv
<1>2. ~IsSegment(captured) /\ captured # None /\ UNCHANGED IsSegment(captured)
  BY <1>1 DEF IsQuic, IsQuery, IsSegment
<1>3. TypeOK'
  <2>1. failed \in BOOLEAN /\ failed' \in BOOLEAN
    BY <1>1 DEF IInv, TypeOK
  <2>2. TypeOK
    BY DEF IInv
  <2> QED
    BY <1>1, <1>2, <2>1, <2>2 DEF TypeOK
<1>4. PacketInv'
  BY <1>1, <1>2 DEF IInv, PacketInv, IsSegment, IsQuery
<1>5. SentInv'
  BY <1>2 DEF SentInv
<1>6. FakeInv'
  BY <1>1, FakeFrame DEF IInv
<1>7. HandleInv'
  BY <1>1, HandleFrame DEF IInv
<1>8. AskedInv'
  BY <1>1, AskedFrame DEF IInv
<1> QED
  BY <1>3, <1>4, <1>5, <1>6, <1>7, <1>8 DEF IInv

(* What Append adds.                                                       *)
LEMMA Appended ==
    ASSUME NEW S, NEW old \in Seq(S), NEW item
    PROVE  /\ Len(Append(old, item)) = Len(old) + 1 /\ Len(old) \in Nat
           /\ \A i \in 1 .. Len(Append(old, item)) :
                 \/ i \in 1 .. Len(old) /\ Append(old, item)[i] = old[i]
                 \/ i = Len(old) + 1 /\ Append(old, item)[i] = item
           /\ \A i \in 1 .. Len(old) : i \in 1 .. Len(Append(old, item)) /\ Append(old, item)[i] = old[i]
           /\ Len(old) + 1 \in 1 .. Len(Append(old, item)) /\ Append(old, item)[Len(old) + 1] = item
           /\ item \in S => Append(old, item) \in Seq(S)
  OBVIOUS

(* What an item's going out does, to the messages and to the queries on    *)
(* the wire.                                                               *)
LEMMA TransmitType ==
    ASSUME TypeOK, AskedInv, NEW item, Transmits(item), UNCHANGED <<captured, asked, requests>>,
           item \in IF IsSegment(captured) THEN Data ELSE Messages,
           ~IsSegment(captured) /\ item.what \in {"query", "answer"} => WasAsked(item.key, item.server),
           left' \subseteq left
    PROVE  /\ wire' = Append(wire, item)
           /\ wire' \in Seq(IF IsSegment(captured) THEN Data ELSE Messages)
           /\ wired' \subseteq Keys \X (Servers \cup {Target})
           /\ AskedInv'
<1>1. wire' = Append(wire, item) /\ wire \in Seq(IF IsSegment(captured) THEN Data ELSE Messages)
  BY DEF Transmits, TypeOK
<1>2. wire' \in Seq(IF IsSegment(captured) THEN Data ELSE Messages)
  BY <1>1, Appended
<1>3. item.what = "query" => /\ ~IsSegment(captured)
                             /\ item.key \in Keys /\ item.server \in Servers \cup {Target}
  BY DEF Data, Messages
<1>4. wired' = wired \/ (item.what = "query" /\ wired' = wired \cup {<<item.key, item.server>>})
  BY DEF Transmits
<1>5. wired' \subseteq Keys \X (Servers \cup {Target})
  BY <1>3, <1>4 DEF TypeOK
<1>6. \A query \in wired' : WasAsked(query[1], query[2])
  BY <1>3, <1>4 DEF AskedInv
<1>7. ~IsSegment(captured) => \A i \in 1 .. Len(wire') :
         wire'[i].what \in {"query", "answer"} => WasAsked(wire'[i].key, wire'[i].server)
  BY <1>1, Appended DEF AskedInv
<1>8. AskedInv'
  BY <1>6, <1>7 DEF AskedInv, WasAsked, IsSegment, IsQuery, IsAnswer
<1> QED
  BY <1>1, <1>2, <1>5, <1>8

(* A fake counts against what the flow's request has left.                 *)
LEMMA FakeStep ==
    ASSUME IInv, SendFake
    PROVE  IInv'
<1>1. /\ pc = "sending" /\ fakes > 0 /\ fakes' = fakes - 1
      /\ faked' = [faked EXCEPT ![captured.flow] = @ + 1]
      /\ UNCHANGED <<options, pc, outcome, field, driver, stop, captured, left, flows, requests,
                     request, packets, failures, wired, wire, failed, asked, closes>>
  BY DEF SendFake, world
<1>2. IsSegment(captured)
  BY <1>1 DEF IInv, PacketInv
<1>3. captured.flow \in Flows
  BY <1>2, SegmentType DEF IInv
<1>4. faked \in [Flows -> Nat] /\ fakes \in Nat
  BY DEF IInv, TypeOK
<1>5. /\ faked' \in [Flows -> Nat] /\ fakes' \in Nat /\ fakes' + 1 = fakes
      /\ faked'[captured.flow] = faked[captured.flow] + 1
      /\ \A g \in Flows \ {captured.flow} : faked'[g] = faked[g]
  BY <1>1, <1>3, <1>4
<1>6. TypeOK'
  BY <1>1, <1>5 DEF IInv, TypeOK, IsSegment
<1>7. PacketInv'
  BY <1>1, <1>2 DEF IInv, PacketInv, IsSegment, IsQuery
<1>8. SentInv'
  BY <1>1, SentFrame DEF IInv
<1>9. FakeInv'
  <2> DEFINE f == captured.flow
  <2>1. /\ request[f] \in 1 .. Len(Starts[f]) /\ captured.seq = Starts[f][request[f]]
        /\ flows[f] = captured.seq /\ faked[f] + fakes <= options.fakeRepeats
    BY <1>1, <1>2 DEF IInv, FakeInv
  <2>2. options.fakeRepeats \in Nat
    BY SplitAssumption DEF IInv, TypeOK
  <2>3. faked'[f] + fakes' <= options.fakeRepeats /\ faked'[f] <= options.fakeRepeats
    BY <1>3, <1>4, <1>5, <2>1, <2>2
  <2>4. \A g \in Flows : /\ faked'[g] # 0 => /\ request[g] \in 1 .. Len(Starts[g])
                                             /\ flows[g] = Starts[g][request[g]]
                         /\ faked'[g] <= options.fakeRepeats
    BY <1>5, <2>1, <2>3 DEF IInv, FakeInv
  <2> QED
    BY <1>1, <1>2, <2>1, <2>3, <2>4 DEF FakeInv, IsSegment
<1>10. HandleInv'
  BY <1>1, HandleFrame DEF IInv
<1>11. AskedInv'
  BY <1>1, AskedFrame DEF IInv
<1> QED
  BY <1>6, <1>7, <1>8, <1>9, <1>10, <1>11 DEF IInv

(* A piece goes from what is left to what has been sent.                   *)
LEMMA PieceStep ==
    ASSUME IInv, SendNext
    PROVE  IInv'
<1>1. PICK item \in left : Transmits(item) /\ left' = left \ {item}
  BY DEF SendNext
<1>2. /\ pc = "sending" /\ fakes = 0 /\ pc' = IF left' = {} THEN "loop" ELSE "sending"
      /\ UNCHANGED <<options, outcome, field, driver, stop, captured, fakes, flows, requests,
                     request, packets, failures, failed, asked, faked, closes>>
  BY DEF SendNext
<1>3. ~failed /\ captured # None /\ UNCHANGED IsSegment(captured)
  BY <1>2 DEF IInv, PacketInv, IsSegment
<1>4. /\ item \in IF IsSegment(captured) THEN Data ELSE Messages
      /\ ~IsSegment(captured) /\ item.what \in {"query", "answer"} => WasAsked(item.key, item.server)
  BY DEF IInv, TypeOK, AskedInv
<1>5. /\ wire' = Append(wire, item)
      /\ wire' \in Seq(IF IsSegment(captured) THEN Data ELSE Messages)
      /\ wired' \subseteq Keys \X (Servers \cup {Target})
      /\ AskedInv'
  BY <1>1, <1>2, <1>4, TransmitType DEF IInv
<1>6. TypeOK'
  <2>1. TypeOK /\ left' \subseteq left /\ pc' \in {"loop", "sending"}
    BY <1>1, <1>2 DEF IInv
  <2> QED
    BY <1>2, <1>3, <1>5, <2>1 DEF TypeOK
<1>7. PacketInv'
  BY <1>2, <1>3 DEF IInv, PacketInv, IsSegment, IsQuery
<1>8. SentInv'
  <2> SUFFICES ASSUME IsSegment(captured)
               PROVE  SentInv'
    BY <1>3 DEF SentInv
  <2>1. Planned(captured)' = Planned(captured)
    BY <1>2, PlannedFrame
  <2>2. /\ left \subseteq Planned(captured)
        /\ \A i \in 1 .. Len(wire) : wire[i] \in Planned(captured) /\ wire[i] \notin left
        /\ \A i, j \in 1 .. Len(wire) : wire[i] = wire[j] => i = j
        /\ \A p \in Planned(captured) : p \in left \/ \E i \in 1 .. Len(wire) : wire[i] = p
    BY <1>2, <1>3 DEF IInv, SentInv
  <2>3. wire \in Seq(Data)
    BY DEF IInv, TypeOK
  <2>4. \A i \in 1 .. Len(wire') : wire'[i] \in Planned(captured) /\ wire'[i] \notin left'
    BY <1>1, <1>5, <2>2, <2>3, Appended
  <2>5. \A i, j \in 1 .. Len(wire') : wire'[i] = wire'[j] => i = j
    BY <1>1, <1>5, <2>2, <2>3, Appended
  <2>6. \A p \in Planned(captured) : p \in left' \/ \E i \in 1 .. Len(wire') : wire'[i] = p
    BY <1>1, <1>5, <2>2, <2>3, Appended
  <2>7. left' \subseteq Planned(captured)
    BY <1>1, <2>2
  <2> HIDE DEF Planned
  <2> QED
    BY <1>2, <1>3, <2>1, <2>4, <2>5, <2>6, <2>7 DEF SentInv
<1>9. FakeInv'
  BY <1>2, FakeFrame DEF IInv
<1>10. HandleInv'
  BY <1>2, HandleFrame DEF IInv
<1> QED
  BY <1>5, <1>6, <1>7, <1>8, <1>9, <1>10 DEF IInv

(* A failure leaves the packet to be sent as it was received.              *)
LEMMA FailureStep ==
    ASSUME IInv, SendFails
    PROVE  IInv'
<1>1. /\ pc = "sending" /\ pc' = "failopen" /\ failed' = TRUE /\ fakes' = 0 /\ left' = {}
      /\ UNCHANGED <<options, outcome, field, driver, stop, captured, flows, requests,
                     request, packets, wired, wire, asked, faked, closes>>
  BY DEF SendFails
<1>2. failures' \in Nat
  BY DEF SendFails, SendRefused, IInv, TypeOK
<1>3. captured # None /\ ~failed /\ UNCHANGED IsSegment(captured)
  BY <1>1 DEF IInv, PacketInv, IsSegment
<1>4. TypeOK'
  <2>1. TypeOK /\ failed' \in BOOLEAN /\ fakes' \in Nat
    BY <1>1 DEF IInv
  <2> QED
    BY <1>1, <1>2, <1>3, <2>1 DEF TypeOK
<1>5. PacketInv'
  BY <1>1, <1>3 DEF IInv, PacketInv, IsSegment, IsQuery
<1>6. SentInv'
  <2>1. Planned(captured)' = Planned(captured)
    BY <1>1, PlannedFrame
  <2> HIDE DEF Planned
  <2> QED
    BY <1>1, <1>3, <2>1 DEF IInv, SentInv
<1>7. FakeInv'
  <2>1. IsSegment(captured) => faked[captured.flow] <= options.fakeRepeats
    BY SegmentType DEF IInv, FakeInv
  <2>2. IsSegment(captured) => faked[captured.flow] \in Nat
    BY SegmentType DEF IInv, TypeOK
  <2> QED
    BY <1>1, <2>1, <2>2 DEF IInv, FakeInv, IsSegment
<1>8. HandleInv'
  BY <1>1, HandleFrame DEF IInv
<1>9. AskedInv'
  BY <1>1 DEF IInv, AskedInv, WasAsked, IsSegment, IsQuery, IsAnswer
<1> QED
  BY <1>4, <1>5, <1>6, <1>7, <1>8, <1>9 DEF IInv

(* The packet as it was received covers all of itself.                     *)
LEMMA FailOpenStep ==
    ASSUME IInv, FailOpen
    PROVE  IInv'
<1>1. /\ pc = "failopen" /\ pc' = "loop" /\ Transmits(Original(captured))
      /\ UNCHANGED <<options, outcome, field, driver, stop, captured, fakes, left, flows, requests,
                     request, packets, failures, failed, asked, faked, closes>>
  BY DEF FailOpen
<1>2. /\ captured # None /\ failed /\ left = {} /\ fakes = 0
      /\ UNCHANGED IsSegment(captured)
  BY <1>1 DEF IInv, PacketInv, IsSegment
<1>3. /\ Original(captured) \in IF IsSegment(captured) THEN Data ELSE Messages
      /\ ~IsSegment(captured) /\ Original(captured).what \in {"query", "answer"} =>
            WasAsked(Original(captured).key, Original(captured).server)
  BY <1>2, OriginalInPlace, DatagramType DEF IInv, InPlace
<1>4. /\ wire' = Append(wire, Original(captured))
      /\ wire' \in Seq(IF IsSegment(captured) THEN Data ELSE Messages)
      /\ wired' \subseteq Keys \X (Servers \cup {Target})
      /\ AskedInv'
  <2> DEFINE item == Original(captured)
  <2>1. /\ Transmits(item) /\ item \in IF IsSegment(captured) THEN Data ELSE Messages
        /\ ~IsSegment(captured) /\ item.what \in {"query", "answer"} => WasAsked(item.key, item.server)
    BY <1>1, <1>3
  <2> HIDE DEF item
  <2>2. /\ wire' = Append(wire, item)
        /\ wire' \in Seq(IF IsSegment(captured) THEN Data ELSE Messages)
        /\ wired' \subseteq Keys \X (Servers \cup {Target})
        /\ AskedInv'
    BY <1>1, <2>1, TransmitType DEF IInv
  <2> QED
    BY <2>2 DEF item
<1>5. TypeOK'
  <2>1. TypeOK
    BY DEF IInv
  <2> QED
    BY <1>1, <1>2, <1>4, <2>1 DEF TypeOK
<1>6. PacketInv'
  BY <1>1, <1>2 DEF IInv, PacketInv, IsSegment, IsQuery
<1>7. SentInv'
  <2> SUFFICES ASSUME IsSegment(captured)
               PROVE  SentInv'
    BY <1>2 DEF SentInv
  <2>1. Planned(captured)' = Planned(captured) /\ Original(captured)' = Original(captured)
    BY <1>1, PlannedFrame DEF Original, IsQuery, IsAnswer
  <2>2. \A i \in 1 .. Len(wire) : wire[i] \in Planned(captured) \/ wire[i] = Original(captured)
    BY DEF IInv, SentInv
  <2>3. wire \in Seq(Data)
    BY DEF IInv, TypeOK
  <2> HIDE DEF Planned, Original
  <2>4. \A i \in 1 .. Len(wire') : wire'[i] \in Planned(captured) \/ wire'[i] = Original(captured)
    BY <1>4, <2>2, <2>3, Appended
  <2>5. \E i \in 1 .. Len(wire') : wire'[i] = Original(captured)
    BY <1>4, <2>3, Appended
  <2> QED
    BY <1>1, <1>2, <2>1, <2>4, <2>5 DEF SentInv
<1>8. FakeInv'
  BY <1>1, FakeFrame DEF IInv
<1>9. HandleInv'
  BY <1>1, HandleFrame DEF IInv
<1> QED
  BY <1>4, <1>5, <1>6, <1>7, <1>8, <1>9 DEF IInv

(* The exception that ends Run leaves nothing promised.                    *)
LEMMA ThrowStep ==
    ASSUME IInv, FailOpenFails
    PROVE  IInv'
<1>1. /\ pc = "failopen" /\ pc' = "leaving" /\ outcome' = "threw"
      /\ UNCHANGED <<options, field, driver, stop, captured, fakes, left, flows, requests,
                     request, packets, wired, wire, failed, asked, faked, closes>>
  BY DEF FailOpenFails, observed
<1>2. failures' \in Nat
  BY DEF FailOpenFails, SendRefused, IInv, TypeOK
<1>3. TypeOK'
  BY <1>1, <1>2 DEF IInv, TypeOK, IsSegment
<1>4. PacketInv'
  BY <1>1 DEF IInv, PacketInv, IsSegment, IsQuery
<1>5. SentInv'
  BY <1>1, SentFrame DEF IInv
<1>6. FakeInv'
  BY <1>1, FakeFrame DEF IInv
<1>7. HandleInv'
  BY <1>1, HandleFrame DEF IInv
<1>8. AskedInv'
  BY <1>1, AskedFrame DEF IInv
<1> QED
  BY <1>3, <1>4, <1>5, <1>6, <1>7, <1>8 DEF IInv

LEMMA StutterStep ==
    ASSUME IInv, UNCHANGED vars
    PROVE  IInv'
<1>1. UNCHANGED <<options, pc, outcome, field, driver, stop, captured, fakes, left, flows, requests,
                  request, packets, failures, wired, wire, failed, asked, faked, closes>>
  BY DEF vars, engine, world, observed
<1>2. TypeOK'
  BY <1>1 DEF IInv, TypeOK, IsSegment
<1>3. PacketInv'
  BY <1>1 DEF IInv, PacketInv, IsSegment, IsQuery
<1>4. SentInv'
  BY <1>1, SentFrame DEF IInv
<1>5. FakeInv'
  BY <1>1, FakeFrame DEF IInv
<1>6. HandleInv'
  BY <1>1 DEF IInv, HandleInv
<1>7. AskedInv'
  BY <1>1, AskedFrame DEF IInv
<1> QED
  BY <1>2, <1>3, <1>4, <1>5, <1>6, <1>7 DEF IInv

LEMMA NextStep == IInv /\ [Next]_vars => IInv'
<1> SUFFICES ASSUME IInv, [Next]_vars
             PROVE  IInv'
  OBVIOUS
<1>1. CASE Cancel \/ StopReceiving
  BY <1>1, StopStep
<1>2. CASE Run
  BY <1>2, RunStep
<1>3. CASE Receive
  BY <1>3, ReceiveStep
<1>4. CASE Process
  BY <1>4, SegmentStep, DatagramStep, SilentStep DEF Process
<1>5. CASE Send
  BY <1>5, FakeStep, PieceStep, FailureStep, FailOpenStep, ThrowStep DEF Send
<1>6. CASE Lapse
  BY <1>6, LapseStep
<1>7. CASE UNCHANGED vars
  BY <1>7, StutterStep
<1> QED
  BY <1>1, <1>2, <1>3, <1>4, <1>5, <1>6, <1>7 DEF Next

-----------------------------------------------------------------------------
(***************************************************************************)
(* The theorems.                                                           *)
(***************************************************************************)

(* The invariant holds in every reachable state: what each place of the    *)
(* loop in Run and ProcessAndSend knows of the packet in hand, of what has *)
(* been sent for it, of the flow's fakes, of the queries pending and of    *)
(* who owns the driver's handle.                                           *)
THEOREM Inductive == Spec => []IInv
<1>1. Init => IInv
  BY InitInv
<1>2. IInv /\ [Next]_vars => IInv'
  BY NextStep
<1> QED
  BY <1>1, <1>2, PTL DEF Spec

(* Every variable keeps a value of its kind: no sequence number leaves its *)
(* space, and only data is sent for a segment.                             *)
THEOREM TypeCorrect == Spec => []TypeOK
<1>1. IInv => TypeOK
  BY DEF IInv
<1> QED
  BY <1>1, Inductive, PTL

(* Whatever the packets, the options and the interleaving with Cancel,     *)
(* when ProcessAndSend and Run's fail-open are done with a TCP segment,    *)
(* the receiver has all of its bytes, each in place, and none twice unless *)
(* a send failed.                                                          *)
THEOREM SegmentsDelivered == Spec => []Delivered
<1>1. IInv => Delivered
  BY InvDelivered
<1> QED
  BY <1>1, Inductive, PTL

(* ShouldSendFake lets no more fakes out for a ClientHello, over all its   *)
(* transmissions, than FakeRepeats.                                        *)
THEOREM FakedOnce == Spec => []FakesOnce
<1>1. IInv => FakesOnce
  BY InvFakesOnce
<1> QED
  BY <1>1, Inductive, PTL

(* For every name of two bytes or more whose labels are not empty,         *)
(* whatever its place in the payload and the fixed split positions, the    *)
(* SniMiddle marker leaves no segment that shows the name whole.           *)
THEOREM NamesAreCut == Spec => []NameIsCut
<1>1. IInv => NameIsCut
  BY InvNameIsCut
<1> QED
  BY <1>1, Inductive, PTL

(* TryRestoreResponse and the DNS over HTTPS resolver give an answer the   *)
(* address of a server only for a client that asked it.                    *)
THEOREM AskedOnly == Spec => []AnswersWereAsked
<1>1. IInv => AnswersWereAsked
  BY InvAnswersWereAsked
<1> QED
  BY <1>1, Inductive, PTL

(* StopReceiving and Dispose, in whichever order, close the handle once,   *)
(* and Run leaves none open.                                               *)
THEOREM HandleClosedOnce == Spec => []ClosedOnce
<1>1. IInv => ClosedOnce
  BY InvClosedOnce
<1> QED
  BY <1>1, Inductive, PTL

=============================================================================
