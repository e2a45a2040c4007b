------------------------ MODULE HelloReassemblyProofs ------------------------
(***************************************************************************)
(* Proofs about HelloReassembly, for any space of sequence numbers, any    *)
(* stream with any ClientHellos in it, any windows and any limits.         *)
(***************************************************************************)
EXTENDS HelloReassembly, ProfileSearchProofs, SequenceTheorems, WellFoundedInduction, TLAPS

-----------------------------------------------------------------------------
(* Arithmetic of sequence numbers *)

Half == SeqSpace \div 2

LEMMA Sizes ==
    /\ SeqSpace \in Nat \ {0} /\ Half \in Nat /\ SeqSpace = Half + Half
    /\ MaxBack \in Nat /\ MaxBack < Half
    /\ MaxReasm \in Nat /\ MaxReasm <= SeqSpace
    /\ DelayedMax \in Nat \ {0}
    /\ Length \in Nat /\ MaxLag \in Nat /\ MaxLag < Half
    /\ MaxSegment \in Nat /\ MaxSegment <= SeqSpace
    /\ MaxExtras \in Nat
  BY SizesAssumption, BoundsAssumption DEF Half

LEMMA PlusType == ASSUME NEW s \in Int, NEW n \in Int PROVE Plus(s, n) \in SeqNums
  BY Sizes DEF Plus, SeqNums

LEMMA MinusType == ASSUME NEW s \in Int, NEW t \in Int PROVE Minus(s, t) \in SeqNums
  BY Sizes DEF Minus, SeqNums

LEMMA InSpace ==
    /\ \A s \in SeqNums : s \in 0 .. SeqSpace /\ s \in Nat /\ s \in Int
    /\ \A s, t \in SeqNums : Minus(s, t) \in SeqNums /\ Minus(s, t) \in Nat
    /\ \A s \in SeqNums, n \in Nat : Plus(s, n) \in SeqNums /\ Minus(s, n) \in SeqNums
<1>1. \A s \in SeqNums : s \in 0 .. SeqSpace /\ s \in Nat /\ s \in Int
  BY Sizes DEF SeqNums
<1>2. \A n \in Nat : n \in Int
  OBVIOUS
<1> QED
  BY <1>1, <1>2, PlusType, MinusType

LEMMA PlusIs ==
    ASSUME NEW s \in SeqNums, NEW n \in 0 .. SeqSpace
    PROVE  Plus(s, n) = IF s + n < SeqSpace THEN s + n ELSE s + n - SeqSpace
<1>1. CASE s + n < SeqSpace
  BY <1>1, Sizes DEF Plus, SeqNums
<1>2. CASE s + n >= SeqSpace
  BY <1>2, Sizes DEF Plus, SeqNums
<1> QED
  BY <1>1, <1>2, Sizes DEF SeqNums

LEMMA MinusIs ==
    ASSUME NEW s \in SeqNums, NEW t \in 0 .. SeqSpace
    PROVE  Minus(s, t) = IF s >= t THEN s - t ELSE s - t + SeqSpace
<1>1. CASE s >= t
  BY <1>1, Sizes DEF Minus, SeqNums
<1>2. CASE s < t
  BY <1>2, Sizes DEF Minus, SeqNums
<1> QED
  BY <1>1, <1>2, Sizes DEF SeqNums

(* A number has one rest.                                                  *)
LEMMA RestOf ==
    ASSUME NEW m \in Nat \ {0}, NEW a \in Nat
    PROVE  /\ a \div m \in Nat /\ a % m \in 0 .. m - 1 /\ a = (a \div m) * m + (a % m)
           /\ \A q \in Nat, r \in 0 .. m - 1 : (q * m + r) % m = r
<1>1. a \div m \in Nat /\ a % m \in 0 .. m - 1 /\ a = (a \div m) * m + (a % m)
  OBVIOUS
<1>2. ASSUME NEW q \in Nat, NEW r \in 0 .. m - 1 PROVE (q * m + r) % m = r
  OBVIOUS
<1> QED
  BY <1>1, <1>2

(* Steps along the stream add up, however long it is.                      *)
LEMMA PlusPlus ==
    ASSUME NEW s \in SeqNums, NEW m \in Nat, NEW n \in Nat
    PROVE  Plus(Plus(s, m), n) = Plus(s, m + n)
<1> DEFINE a == s + m
           q == a \div SeqSpace
           t == a % SeqSpace
           k == (t + n) \div SeqSpace
           r == (t + n) % SeqSpace
<1>1. a \in Nat /\ SeqSpace \in Nat \ {0}
  BY Sizes DEF SeqNums
<1> HIDE DEF a
<1>2. q \in Nat /\ t \in 0 .. SeqSpace - 1 /\ a = q * SeqSpace + t
  BY <1>1, RestOf
<1> HIDE DEF q, t
<1>3. t + n \in Nat
  BY <1>1, <1>2
<1>4. k \in Nat /\ r \in 0 .. SeqSpace - 1 /\ t + n = k * SeqSpace + r
  BY <1>1, <1>3, RestOf
<1> HIDE DEF k, r
<1>5. a + n = (q + k) * SeqSpace + r /\ q + k \in Nat
  BY <1>1, <1>2, <1>4
<1>6. (a + n) % SeqSpace = r
  <2>1. \A i \in Nat, j \in 0 .. SeqSpace - 1 : (i * SeqSpace + j) % SeqSpace = j
    BY <1>1, RestOf
  <2>2. ((q + k) * SeqSpace + r) % SeqSpace = r
    BY <1>4, <1>5, <2>1
  <2> QED
    BY <1>5, <2>2
<1>7. Plus(s, m) = t /\ Plus(t, n) = r
  BY DEF Plus, a, t, r
<1>8. s + (m + n) = a + n
  BY Sizes DEF a, SeqNums
<1> QED
  BY <1>6, <1>7, <1>8 DEF Plus

LEMMA PlusMinus ==
    ASSUME NEW s \in SeqNums, NEW n \in 0 .. SeqSpace
    PROVE  Minus(Plus(s, n), n) = s
<1>1. Plus(s, n) \in SeqNums
  BY PlusType, Sizes DEF SeqNums
<1>2. Plus(s, n) = IF s + n < SeqSpace THEN s + n ELSE s + n - SeqSpace
  BY PlusIs
<1>3. Minus(Plus(s, n), n) = IF Plus(s, n) >= n THEN Plus(s, n) - n ELSE Plus(s, n) - n + SeqSpace
  BY <1>1, MinusIs
<1> QED
  BY <1>1, <1>2, <1>3, Sizes DEF SeqNums

(* How far a step along the stream is, seen from either end.               *)
LEMMA PlusMinusPlus ==
    ASSUME NEW t \in SeqNums, NEW d \in Nat, d < Half
    PROVE  Minus(Plus(t, d), t) = d
<1>1. d \in 0 .. SeqSpace /\ t \in 0 .. SeqSpace /\ Plus(t, d) \in SeqNums
  BY PlusType, Sizes DEF SeqNums
<1>2. Plus(t, d) = IF t + d < SeqSpace THEN t + d ELSE t + d - SeqSpace
  BY <1>1, PlusIs
<1>3. Minus(Plus(t, d), t) = IF Plus(t, d) >= t THEN Plus(t, d) - t ELSE Plus(t, d) - t + SeqSpace
  BY <1>1, MinusIs
<1> QED
  BY <1>2, <1>3, Sizes DEF SeqNums

LEMMA PlusAhead ==
    ASSUME NEW t \in SeqNums, NEW d \in Nat, d # 0, d < Half
    PROVE  Minus(t, Plus(t, d)) = SeqSpace - d
<1>1. d \in 0 .. SeqSpace /\ Plus(t, d) \in SeqNums /\ Plus(t, d) \in 0 .. SeqSpace
  BY PlusType, Sizes DEF SeqNums
<1>2. Plus(t, d) = IF t + d < SeqSpace THEN t + d ELSE t + d - SeqSpace
  BY <1>1, PlusIs
<1>3. Minus(t, Plus(t, d)) = IF t >= Plus(t, d) THEN t - Plus(t, d) ELSE t - Plus(t, d) + SeqSpace
  BY <1>1, MinusIs
<1> QED
  BY <1>2, <1>3, Sizes DEF SeqNums

(* Among near places of one stream, one that is not before another is one  *)
(* that is not less.                                                       *)
LEMMA NotBeforeInStream ==
    ASSUME NEW s \in SeqNums, NEW m \in Nat, NEW n \in Nat,
           m <= n + MaxLag, n <= m + MaxLag
    PROVE  NotBefore(Plus(s, m), Plus(s, n)) <=> m >= n
<1>1. Plus(s, m) \in SeqNums /\ Plus(s, n) \in SeqNums
  BY PlusType, Sizes DEF SeqNums
<1>2. CASE m >= n
  <2> DEFINE d == m - n
  <2>1. d \in Nat /\ d < Half /\ n + d = m /\ d \in 0 .. SeqSpace
    BY <1>2, Sizes
  <2> HIDE DEF d
  <2>2. Plus(s, m) = Plus(Plus(s, n), d)
    BY <2>1, PlusPlus
  <2>3. \A t \in SeqNums : Minus(Plus(t, d), t) = d
    BY <2>1, PlusMinusPlus
  <2> QED
    BY <1>1, <1>2, <2>1, <2>2, <2>3 DEF NotBefore, Half
<1>3. CASE m < n
  <2> DEFINE d == n - m
  <2>1. d \in Nat /\ d # 0 /\ d < Half /\ m + d = n /\ d \in 0 .. SeqSpace
    BY <1>3, Sizes
  <2> HIDE DEF d
  <2>2. Plus(s, n) = Plus(Plus(s, m), d)
    BY <2>1, PlusPlus
  <2>3. \A t \in SeqNums : Minus(t, Plus(t, d)) = SeqSpace - d
    BY <2>1, PlusAhead
  <2>4. SeqSpace - d >= Half
    BY <2>1, Sizes
  <2> QED
    BY <1>1, <1>3, <2>1, <2>2, <2>3, <2>4, Sizes DEF NotBefore, Half
<1> QED
  BY <1>2, <1>3

(* The beginning of what is present is where it was when more is.          *)
LEMMA StartStays ==
    ASSUME NEW s \in SeqNums, NEW z \in Nat, NEW n \in Nat, z + n <= SeqSpace
    PROVE  Minus(Plus(s, n), z + n) = Minus(s, z)
<1>1. Plus(s, n) \in SeqNums /\ n \in 0 .. SeqSpace /\ z \in 0 .. SeqSpace /\ z + n \in 0 .. SeqSpace
  BY PlusType, Sizes DEF SeqNums
<1>2. Plus(s, n) = IF s + n < SeqSpace THEN s + n ELSE s + n - SeqSpace
  BY <1>1, PlusIs
<1>3. /\ Minus(s, z) = IF s >= z THEN s - z ELSE s - z + SeqSpace
      /\ Minus(Plus(s, n), z + n) = IF Plus(s, n) >= z + n THEN Plus(s, n) - (z + n)
                                    ELSE Plus(s, n) - (z + n) + SeqSpace
  BY <1>1, MinusIs
<1> QED
  BY <1>1, <1>2, <1>3, Sizes DEF SeqNums

(* Counted from the beginning of what is present, or from its end.         *)
LEMMA FromStart ==
    ASSUME NEW s \in SeqNums, NEW z \in Nat, NEW n \in Nat, z + n <= SeqSpace
    PROVE  Plus(Minus(s, z), z + n) = Plus(s, n)
<1>1. Minus(s, z) \in SeqNums /\ n \in 0 .. SeqSpace /\ z \in 0 .. SeqSpace /\ z + n \in 0 .. SeqSpace
  BY MinusType, Sizes DEF SeqNums
<1>2. Minus(s, z) = IF s >= z THEN s - z ELSE s - z + SeqSpace
  BY <1>1, MinusIs
<1>3. /\ Plus(s, n) = IF s + n < SeqSpace THEN s + n ELSE s + n - SeqSpace
      /\ Plus(Minus(s, z), z + n) = IF Minus(s, z) + (z + n) < SeqSpace THEN Minus(s, z) + (z + n)
                                    ELSE Minus(s, z) + (z + n) - SeqSpace
  BY <1>1, PlusIs
<1> QED
  BY <1>1, <1>2, <1>3, Sizes DEF SeqNums

LEMMA NotFarther ==
    ASSUME NEW s \in SeqNums, NEW t \in SeqNums, NEW n \in 0 .. SeqSpace
    PROVE  Minus(Plus(s, n), t) <= Minus(s, t) + n
<1>1. Plus(s, n) \in SeqNums /\ t \in 0 .. SeqSpace
  BY PlusType, Sizes DEF SeqNums
<1>2. Plus(s, n) = IF s + n < SeqSpace THEN s + n ELSE s + n - SeqSpace
  BY PlusIs
<1>3. /\ Minus(s, t) = IF s >= t THEN s - t ELSE s - t + SeqSpace
      /\ Minus(Plus(s, n), t) = IF Plus(s, n) >= t THEN Plus(s, n) - t ELSE Plus(s, n) - t + SeqSpace
  BY <1>1, MinusIs
<1> QED
  BY <1>1, <1>2, <1>3, Sizes DEF SeqNums

(* A place b before the end of what is present is z - b after its start,   *)
(* or lies before the start.                                               *)
LEMMA BeforeEnd ==
    ASSUME NEW s \in SeqNums, NEW t \in SeqNums, NEW z \in 0 .. SeqSpace - 1,
           Minus(s, t) <= MaxBack
    PROVE  Minus(t, Minus(s, z)) = IF Minus(s, t) <= z THEN z - Minus(s, t)
                                   ELSE SeqSpace - (Minus(s, t) - z)
<1>1. t \in 0 .. SeqSpace /\ z \in 0 .. SeqSpace /\ Minus(s, z) \in SeqNums /\ Minus(s, z) \in 0 .. SeqSpace
  <2>1. z \in Nat /\ z \in 0 .. SeqSpace
    BY Sizes
  <2> QED
    BY <2>1, InSpace
<1>2. /\ Minus(s, t) = IF s >= t THEN s - t ELSE s - t + SeqSpace
      /\ Minus(s, z) = IF s >= z THEN s - z ELSE s - z + SeqSpace
      /\ Minus(t, Minus(s, z)) = IF t >= Minus(s, z) THEN t - Minus(s, z) ELSE t - Minus(s, z) + SeqSpace
  BY <1>1, MinusIs
<1> QED
  BY <1>1, <1>2, Sizes DEF SeqNums

-----------------------------------------------------------------------------
(* ReasmFeed and reasm_client_start                                        *)

(* What is fed stays within the record's size.                             *)
LEMMA FedType ==
    ASSUME reasm \in Reasms, reasm.size_present <= reasm.size, NEW p, p.seq \in SeqNums, p.len \in 1 .. MaxSegment, Feeds(p)
    PROVE  /\ Fed(p) \in Reasms /\ Fed(p).size = reasm.size
           /\ Fed(p).size_present <= reasm.size
           /\ \/ Fed(p) = reasm
              \/ \E n \in Nat \ {0} :
                    /\ n = p.len - Back(p)
                    /\ Fed(p) = [seq |-> Plus(reasm.seq, n), size |-> reasm.size,
                                 size_present |-> reasm.size_present + n]
<1>1. reasm.seq \in SeqNums /\ reasm.size \in 0 .. MaxReasm /\ reasm.size_present \in 0 .. MaxReasm
  BY DEF Reasms
<1>2. Back(p) \in Nat /\ p.len \in Nat
  <2>1. p.len \in Nat
    BY Sizes
  <2> QED
    BY <1>1, <2>1, InSpace DEF Back
<1>3. Ignored(p) \in Nat /\ Overlap(p) \in Int /\ Copied(p) \in Int /\ Copied(p) - Overlap(p) = p.len - Back(p)
  BY <1>1, <1>2, Sizes DEF Ignored, Overlap, Copied
<1> DEFINE n == Copied(p) - Overlap(p)
<1>4. CASE Copied(p) > 0 /\ n > 0
  <2>1. Fed(p) = [reasm EXCEPT !.size_present = @ + n, !.seq = Plus(@, n)]
    BY <1>4 DEF Fed
  <2>2. reasm.size_present + n <= reasm.size
    BY <1>1, <1>3, <1>4, Sizes DEF Feeds
  <2>3. Fed(p) = [seq |-> Plus(reasm.seq, n), size |-> reasm.size, size_present |-> reasm.size_present + n]
    BY <2>1 DEF Reasms
  <2>4. n \in Nat \ {0} /\ n = p.len - Back(p)
    BY <1>3, <1>4
  <2>6. Plus(reasm.seq, n) \in SeqNums
    BY <1>1, <2>4, InSpace
  <2>5. reasm.size_present + n \in 0 .. MaxReasm
    BY <1>1, <2>2, <2>4, Sizes
  <2> HIDE DEF n
  <2> QED
    BY <1>1, <2>2, <2>3, <2>4, <2>5, <2>6 DEF Reasms
<1>5. CASE ~(Copied(p) > 0 /\ n > 0)
  BY <1>5 DEF Fed
<1> QED
  BY <1>4, <1>5

(* What is present begins where it began, and the segment brings what is   *)
(* new of it.                                                              *)
LEMMA FedCovers ==
    ASSUME reasm \in Reasms, reasm.size_present <= reasm.size, NEW p, p.seq \in SeqNums, p.len \in 1 .. MaxSegment, Feeds(p)
    PROVE  /\ Minus(Fed(p).seq, Fed(p).size_present) = Start
           /\ \A k \in reasm.size_present .. Fed(p).size_present - 1 : Minus(Plus(Start, k), p.seq) < p.len
<1>1. reasm.seq \in SeqNums /\ reasm.size_present \in Nat /\ p.seq \in SeqNums /\ p.len \in Nat
  BY Sizes DEF Reasms
<1>2. CASE Fed(p) = reasm
  BY <1>1, <1>2 DEF Start
<1>3. ASSUME NEW n \in Nat \ {0}, n = p.len - Back(p),
             Fed(p) = [seq |-> Plus(reasm.seq, n), size |-> reasm.size,
                       size_present |-> reasm.size_present + n]
      PROVE  /\ Minus(Fed(p).seq, Fed(p).size_present) = Start
             /\ \A k \in reasm.size_present .. Fed(p).size_present - 1 : Minus(Plus(Start, k), p.seq) < p.len
  <2>1. reasm.size_present + n <= SeqSpace
    BY <1>3, <1>1, FedType, Sizes DEF Reasms
  <2>2. Minus(Plus(reasm.seq, n), reasm.size_present + n) = Start
    BY <1>1, <2>1, StartStays DEF Start
  <2>3. ASSUME NEW k \in reasm.size_present .. reasm.size_present + n - 1
        PROVE  Minus(Plus(Start, k), p.seq) < p.len
    <3> DEFINE j == k - reasm.size_present
    <3>1. j \in Nat /\ j < n /\ k = reasm.size_present + j /\ j \in 0 .. SeqSpace
             /\ reasm.size_present + j <= SeqSpace
      BY <1>1, <2>1, Sizes
    <3>2. Plus(Start, k) = Plus(reasm.seq, j)
      BY <1>1, <3>1, FromStart DEF Start
    <3>3. Minus(Plus(reasm.seq, j), p.seq) <= Back(p) + j
      BY <1>1, <3>1, NotFarther DEF Back
    <3>4. Back(p) \in Nat /\ Minus(Plus(reasm.seq, j), p.seq) \in Nat
      <4>1. Plus(reasm.seq, j) \in SeqNums
        BY <1>1, <3>1, InSpace
      <4> QED
        BY <1>1, <4>1, InSpace DEF Back
    <3> QED
      BY <1>1, <1>3, <3>1, <3>2, <3>3, <3>4
  <2> QED
    BY <1>1, <1>3, <2>2, <2>3
<1> QED
  BY <1>2, <1>3, FedType

(* A segment that is fed lies within the record or begins before it.       *)
LEMMA FedWithin ==
    ASSUME reasm \in Reasms, reasm.size_present < reasm.size, NEW p, p.seq \in SeqNums, p.len \in 1 .. MaxSegment, Feeds(p)
    PROVE  Minus(p.seq, Start) + p.len <= reasm.size \/ ~NotBefore(p.seq, Start)
<1>1. /\ reasm.seq \in SeqNums /\ reasm.size_present \in Nat /\ reasm.size \in Nat /\ p.seq \in SeqNums
      /\ p.len \in Nat \ {0} /\ reasm.size_present \in 0 .. SeqSpace - 1
  BY Sizes DEF Reasms
<1>2. Back(p) \in Nat /\ Back(p) <= MaxBack
  BY <1>1, InSpace DEF Back, Feeds
<1>3. Minus(p.seq, Start) = IF Back(p) <= reasm.size_present THEN reasm.size_present - Back(p)
                            ELSE SeqSpace - (Back(p) - reasm.size_present)
  BY <1>1, <1>2, BeforeEnd DEF Back, Start
<1>4. CASE Back(p) <= reasm.size_present
  <2>1. Ignored(p) = 0 /\ Overlap(p) = Back(p) /\ Copied(p) = p.len
    BY <1>1, <1>2, <1>4 DEF Ignored, Overlap, Copied
  <2>2. reasm.size_present - Back(p) + p.len <= reasm.size
    BY <1>1, <2>1 DEF Feeds
  <2> QED
    BY <1>3, <1>4, <2>2
<1>5. CASE Back(p) > reasm.size_present
  <2>1. Minus(p.seq, Start) >= Half
    BY <1>1, <1>2, <1>3, <1>5, Sizes
  <2> QED
    BY <1>1, <1>2, <1>3, <1>5, <2>1, Sizes DEF NotBefore, Half
<1> QED
  BY <1>1, <1>2, <1>4, <1>5

-----------------------------------------------------------------------------
(* The protocol                                                            *)

LEMMA ProbedType ==
    ASSUME NEW f \in Searches, NEW p
    PROVE  Probed(f, p) \in Searches /\ Probed(f, p).profile = f.profile
<1>1. [f EXCEPT !.l7 = TRUE] \in Searches /\ [f EXCEPT !.l7 = TRUE].profile = f.profile
  BY DEF Searches
<1> QED
  BY <1>1 DEF Probed

-----------------------------------------------------------------------------
(* Segments and their sequences                                            *)

SegmentsTo(n) ==
    {p \in [id : 1 .. n, conn : 1 .. MaxExtras + 1, off : 1 .. Length, len : 1 .. MaxSegment,
            seq : SeqNums] : p.off + p.len <= Length + 1}

LEMMA SegmentsAre == Segments = SegmentsTo(arrived) /\ Segments' = SegmentsTo(arrived')
  BY DEF Segments, SegmentsTo

LEMMA SegmentsGrow ==
    ASSUME NEW m \in Nat, NEW n \in Nat, m <= n
    PROVE  SegmentsTo(m) \subseteq SegmentsTo(n) /\ Seq(SegmentsTo(m)) \subseteq Seq(SegmentsTo(n))
<1>1. 1 .. m \subseteq 1 .. n
  OBVIOUS
<1>2. SegmentsTo(m) \subseteq SegmentsTo(n)
  BY <1>1 DEF SegmentsTo
<1> QED
  BY <1>2

LEMMA IdsType ==
    ASSUME NEW n \in Nat, NEW h \in Seq(SegmentsTo(n))
    PROVE  Ids(h) \in Seq(1 .. n) /\ Len(Ids(h)) = Len(h)
<1>1. DOMAIN h = 1 .. Len(h) /\ Len(h) \in Nat /\ \A i \in 1 .. Len(h) : h[i].id \in 1 .. n
  BY DEF SegmentsTo
<1> QED
  BY <1>1 DEF Ids

LEMMA IdsConcat ==
    ASSUME NEW S, NEW a \in Seq(S), NEW b \in Seq(S)
    PROVE  Ids(a \o b) = Ids(a) \o Ids(b)
<1>1. a \o b \in Seq(S) /\ Len(a \o b) = Len(a) + Len(b)
  BY ConcatProperties
<1>2. DOMAIN a = 1 .. Len(a) /\ DOMAIN b = 1 .. Len(b) /\ DOMAIN (a \o b) = 1 .. Len(a) + Len(b)
        /\ Len(a) \in Nat /\ Len(b) \in Nat
  BY <1>1
<1>3. /\ Ids(a) = [i \in 1 .. Len(a) |-> a[i].id] /\ Ids(b) = [i \in 1 .. Len(b) |-> b[i].id]
      /\ Ids(a \o b) = [i \in 1 .. Len(a) + Len(b) |-> (a \o b)[i].id]
  BY <1>2 DEF Ids
<1>4. \A i \in 1 .. Len(a) + Len(b) : (a \o b)[i] = IF i <= Len(a) THEN a[i] ELSE b[i - Len(a)]
  BY <1>1, ConcatProperties
<1> DEFINE T == {e.id : e \in S}
<1>5. Ids(a) \in Seq(T) /\ Ids(b) \in Seq(T) /\ Len(Ids(a)) = Len(a) /\ Len(Ids(b)) = Len(b)
  BY <1>2, <1>3
<1> DEFINE left == Ids(a \o b)
           right == Ids(a) \o Ids(b)
<1>6. left \in Seq(T) /\ right \in Seq(T) /\ Len(left) = Len(a) + Len(b) /\ Len(right) = Len(a) + Len(b)
  <2>1. right \in Seq(T) /\ Len(right) = Len(a) + Len(b)
    <3> HIDE DEF T
    <3>1. Ids(a) \in Seq(T) /\ Ids(b) \in Seq(T)
      BY <1>5
    <3>2. right \in Seq(T) /\ Len(right) = Len(Ids(a)) + Len(Ids(b))
      BY ONLY <3>1, ConcatProperties
    <3> QED
      BY <1>5, <3>2
  <2>2. \A i \in 1 .. Len(a) + Len(b) : (a \o b)[i].id \in T
    BY <1>1, <1>2
  <2> QED
    BY <1>2, <1>3, <2>1, <2>2
<1>7. \A i \in 1 .. Len(a) + Len(b) : left[i] = right[i]
  <2> TAKE i \in 1 .. Len(a) + Len(b)
  <2>1. right[i] = IF i <= Len(a) THEN Ids(a)[i] ELSE Ids(b)[i - Len(a)]
    BY <1>5, ConcatProperties
  <2>2. i <= Len(a) => i \in 1 .. Len(a)
    BY <1>2
  <2>3. i > Len(a) => i - Len(a) \in 1 .. Len(b)
    BY <1>2
  <2> QED
    BY <1>2, <1>3, <1>4, <2>1, <2>2, <2>3
<1> QED
  BY <1>6, <1>7, SeqEqual

LEMMA IdsOne == \A p : Ids(<<p>>) = <<p.id>>
  BY DEF Ids

LEMMA UnitsType ==
    ASSUME NEW n \in Nat, NEW p \in SegmentsTo(n)
    PROVE  Units(p) \subseteq (1 .. MaxExtras + 1) \X (1 .. Length)
  BY Sizes DEF Units, SegmentsTo

(* What leaves keeps the record of what has left well formed.              *)
LEMMA LeaveType ==
    ASSUME TypeOK, arrived' \in Nat, arrived <= arrived',
           NEW h \in Seq(SegmentsTo(arrived')), NEW how \in Seq(Decisions), Leave(h, how)
    PROVE  /\ released' \in Seq(1 .. arrived')
           /\ got' \subseteq (1 .. MaxExtras + 1) \X (1 .. Length)
           /\ decisions' \in Seq(Decisions)
<1>1. Ids(h) \in Seq(1 .. arrived')
  BY IdsType
<1>2. released \in Seq(1 .. arrived')
  <2>1. 1 .. arrived \subseteq 1 .. arrived'
    BY DEF TypeOK
  <2> QED
    BY <2>1 DEF TypeOK
<1>3. \A i \in DOMAIN h : Units(h[i]) \subseteq (1 .. MaxExtras + 1) \X (1 .. Length)
  BY UnitsType
<1>4. released' = released \o Ids(h) /\ got' = got \cup UNION {Units(h[i]) : i \in DOMAIN h} /\ decisions' = how
  BY DEF Leave
<1>5. got \subseteq (1 .. MaxExtras + 1) \X (1 .. Length)
  BY DEF TypeOK
<1> QED
  BY <1>1, <1>2, <1>3, <1>4, <1>5, ConcatProperties

LEMMA LeaveNothing ==
    ASSUME released \in Seq(1 .. arrived), Leave(<<>>, <<>>)
    PROVE  released' = released /\ got' = got /\ decisions' = <<>>
<1>1. Ids(<<>>) = <<>> /\ {Units(<<>>[i]) : i \in DOMAIN <<>>} = {}
  BY DEF Ids
<1> QED
  BY <1>1 DEF Leave

LEMMA FlushType ==
    ASSUME NEW S, NEW h \in Seq(S)
    PROVE  Flush(h) \in Seq(Decisions) /\ Len(Flush(h)) = Len(h)
  BY DEF Flush, Decisions

-----------------------------------------------------------------------------
(* What an entry holds                                                     *)

(* The invariants of EntryInv about the reassembly, of any state st,       *)
(* search f, reassembly r and held segments h.                             *)
Counts(st, f, r, h) ==
    /\ r.size > 0 <=> h # <<>>
    /\ r.size > 0 => r.size_present < r.size
    /\ Len(h) <= DelayedMax
    /\ st \in {"none", "SYN"} => h = <<>>
    /\ h # <<>> => f.profile = "some"

Makes(r, h) ==
    /\ Head(h).off \in DOMAIN Hello /\ Head(h).seq = Minus(r.seq, r.size_present)
    /\ r.size = Hello[Head(h).off]
    /\ \A k \in 0 .. r.size_present - 1 : \E i \in DOMAIN h :
          Minus(Plus(Minus(r.seq, r.size_present), k), h[i].seq) < h[i].len

Lies(p, r, h) ==
    Minus(p.seq, Head(h).seq) + p.len <= r.size \/ ~NotBefore(p.seq, Head(h).seq)

Holding(st, f, r, h) ==
    /\ Counts(st, f, r, h)
    /\ h # <<>> => Makes(r, h)
    /\ \A i \in DOMAIN h : Lies(h[i], r, h)

LEMMA EntryIs == EntryInv <=> TypeOK /\ Holding(state, found, reasm, delayed)
  BY DEF EntryInv, Holding, Counts, Makes, Lies, HeldWhileReassembling, PiecesMakeHello, OffsetsInHello,
         Busy, Start, Offset

LEMMA EntryIsNext == EntryInv' <=> TypeOK' /\ Holding(state', found', reasm', delayed')
  BY DEF EntryInv, Holding, Counts, Makes, Lies, HeldWhileReassembling, PiecesMakeHello, OffsetsInHello,
         Busy, Start, Offset

LEMMA HoldingNothing ==
    ASSUME NEW st, NEW f, NEW r, r.size = 0
    PROVE  Holding(st, f, r, <<>>)
  BY Sizes DEF Holding, Counts

(* The tracker's state and the search change, what is held does not.       *)
LEMMA HoldingOn ==
    ASSUME NEW st, NEW f, NEW r, NEW h, Holding(st, f, r, h), NEW st2, NEW f2,
           h = <<>> \/ (st2 \notin {"none", "SYN"} /\ f2.profile = "some")
    PROVE  Holding(st2, f2, r, h)
  BY DEF Holding, Counts

LEMMA IdleType == Idle \in Reasms /\ Idle.size = 0 /\ NotSearched \in Searches /\ NoPosition \in Positions
  BY Sizes DEF Idle, Reasms, NotSearched, Searches, NoPosition, Positions, SeqNums

(* A packet without data: what was held is held on or leaves.              *)
LEMMA Control ==
    ASSUME TypeOK, NEW st, NEW f \in Searches, NEW r \in Reasms, NEW h \in Seq(Segments),
           Holding(st, f, r, h), AfterControl(f, r, h), arrived' = arrived,
           h = <<>> \/ state' \notin {"none", "SYN"}
    PROVE  /\ found' \in Searches /\ reasm' \in Reasms /\ delayed' \in Seq(Segments')
           /\ released' \in Seq(1 .. arrived')
           /\ got' \subseteq (1 .. MaxExtras + 1) \X (1 .. Length)
           /\ decisions' \in Seq(Decisions)
           /\ Holding(state', found', reasm', delayed')
           /\ \/ delayed' = h /\ released' = released
              \/ h # <<>> /\ delayed' = <<>> /\ released' = released \o Ids(h)
<1>1. PICK o \in Outcomes(f, FALSE) :
        /\ found' = o.found
        /\ \/ o.matched /\ ~Applies(o.found) /\ reasm' = Idle /\ delayed' = <<>> /\ Leave(h, Flush(h))
           \/ ~(o.matched /\ ~Applies(o.found)) /\ reasm' = r /\ delayed' = h /\ Leave(<<>>, <<>>)
  BY DEF AfterControl
<1>2. o.found \in Searches /\ (f.profile = "some" => o.matched)
  BY <1>1, OutcomesType
<1>3. arrived \in Nat /\ h \in Seq(SegmentsTo(arrived')) /\ <<>> \in Seq(SegmentsTo(arrived'))
         /\ Segments' = SegmentsTo(arrived') /\ <<>> \in Seq(Decisions) /\ released \in Seq(1 .. arrived)
  BY SegmentsAre DEF TypeOK
<1>4. CASE o.matched /\ ~Applies(o.found) /\ reasm' = Idle /\ delayed' = <<>> /\ Leave(h, Flush(h))
  <2>1. Flush(h) \in Seq(Decisions)
    BY FlushType
  <2>2. /\ released' \in Seq(1 .. arrived')
        /\ got' \subseteq (1 .. MaxExtras + 1) \X (1 .. Length)
        /\ decisions' \in Seq(Decisions)
    BY <1>3, <1>4, <2>1, LeaveType
  <2>3. Holding(state', found', reasm', delayed')
    BY <1>4, IdleType, HoldingNothing
  <2>4. released' = released \o Ids(h)
    BY <1>4 DEF Leave
  <2>5. h = <<>> => released \o Ids(h) = released
    BY <1>3 DEF Ids
  <2> QED
    BY <1>1, <1>2, <1>3, <1>4, <2>2, <2>3, <2>4, <2>5, IdleType
<1>5. CASE ~(o.matched /\ ~Applies(o.found)) /\ reasm' = r /\ delayed' = h /\ Leave(<<>>, <<>>)
  <2>1. /\ released' \in Seq(1 .. arrived')
        /\ got' \subseteq (1 .. MaxExtras + 1) \X (1 .. Length)
        /\ decisions' \in Seq(Decisions)
    BY <1>3, <1>5, LeaveNothing DEF TypeOK
  <2>2. h # <<>> => found'.profile = "some"
    BY <1>1, <1>2, <1>5 DEF Applies, Holding, Counts
  <2>3. Holding(state', found', reasm', delayed')
    BY <1>5, <2>2, HoldingOn
  <2>4. released' = released
    BY <1>3, <1>5, LeaveNothing
  <2> QED
    BY <1>1, <1>2, <1>3, <1>5, <2>1, <2>3, <2>4
<1> QED
  BY <1>1, <1>4, <1>5

-----------------------------------------------------------------------------
(* The tracker's entry                                                     *)

LEMMA ApplyPosType ==
    ASSUME NEW c \in Positions, NEW st, NEW seq \in SeqNums, NEW len \in Nat
    PROVE  ApplyPos(c, st, seq, len) \in Positions
<1>1. Plus(seq, len) \in SeqNums
  BY InSpace
<1> QED
  BY <1>1 DEF ApplyPos, Positions

LEMMA AcknowledgeType ==
    ASSUME NEW c \in Positions, NEW ack \in SeqNums
    PROVE  Acknowledge(c, ack) \in Positions /\ Acknowledge(c, ack).uppos = c.uppos
  BY DEF Acknowledge, Positions

LEMMA InitialNumbers == Isns \subseteq SeqNums
  BY StreamAssumption DEF SeqNums

(* What a step leaves held, and what has left.                             *)
Left ==
    /\ found' \in Searches /\ reasm' \in Reasms /\ delayed' \in Seq(Segments')
    /\ released' \in Seq(1 .. arrived')
    /\ got' \subseteq (1 .. MaxExtras + 1) \X (1 .. Length)
    /\ decisions' \in Seq(Decisions)
    /\ Holding(state', found', reasm', delayed')

Entered == state' \in States /\ client' \in Positions /\ server' \in Windows \cup {0}

(* The held segments stay, leave, or are forgotten with the entry.         *)
Stays == delayed' = delayed /\ released' = released
Leaves == delayed # <<>> /\ delayed' = <<>> /\ released' = released \o Ids(delayed)
Forgets == delayed' = <<>> /\ released' = released

LEMMA SynStep ==
    ASSUME EntryInv, NEW i \in SeqNums, TrackSyn(i), arrived' = arrived
    PROVE  Left /\ Entered /\ client'.uppos = i /\ (Stays \/ Forgets \/ Leaves)
<1>1. TypeOK /\ Holding(state, found, reasm, delayed)
  BY EntryIs
<1>2. state' = "SYN" /\ i \in SeqNums
  BY DEF TrackSyn
<1> DEFINE c == [(IF state = "SYN" THEN client ELSE NoPosition) EXCEPT !.seq0 = i]
<1>3. c \in Positions
  BY <1>1, IdleType DEF TypeOK, Positions
<1>4. client' = ApplyPos(c, "SYN", i, 0)
  BY DEF TrackSyn
<1>5. client' \in Positions /\ client'.uppos = i
  <2>1. ApplyPos(c, "SYN", i, 0) \in Positions
    BY <1>3, ApplyPosType
  <2>2. Plus(i, 0) = i
    BY PlusIs, Sizes DEF SeqNums
  <2>3. ApplyPos(c, "SYN", i, 0).uppos = Plus(i, 0)
    <3> HIDE DEF c
    <3> QED
      BY <1>3 DEF ApplyPos, Positions
  <2> QED
    BY <1>4, <2>1, <2>2, <2>3
<1>6. Entered
  <2>1. server' = IF state = "SYN" THEN server ELSE 0
    BY DEF TrackSyn
  <2> QED
    BY <1>1, <1>2, <1>5, <2>1 DEF Entered, TypeOK, States
<1>7. CASE state = "SYN"
  <2>1. AfterControl(found, reasm, delayed) /\ delayed = <<>>
    BY <1>1, <1>7 DEF TrackSyn, Holding, Counts
  <2>2. found \in Searches /\ reasm \in Reasms /\ delayed \in Seq(Segments)
    BY <1>1 DEF TypeOK
  <2> QED
    BY <1>1, <1>5, <1>6, <2>1, <2>2, Control DEF Left, Stays
<1>8. CASE state # "SYN"
  <2>1. AfterControl(NotSearched, Idle, <<>>)
    BY <1>8 DEF TrackSyn
  <2>2. Holding(state, NotSearched, Idle, <<>>) /\ <<>> \in Seq(Segments)
    BY HoldingNothing, IdleType
  <2> QED
    BY <1>1, <1>5, <1>6, <2>1, <2>2, IdleType, Control DEF Left, Forgets
<1> QED
  BY <1>7, <1>8

(* A SYN/ACK starts the entry anew, or leaves uppos as it is.              *)
LEMMA SynAckStep ==
    ASSUME EntryInv, NEW w \in Windows, TrackSynAck(w), arrived' = arrived, isn' = isn
    PROVE  /\ Left /\ Entered /\ (Stays \/ Forgets \/ Leaves)
           /\ \/ born' = 0 /\ high' = 0
              \/ born' = born /\ high' = high /\ client'.uppos = client.uppos
<1>1. TypeOK /\ Holding(state, found, reasm, delayed)
  BY EntryIs
<1> DEFINE keep == state = "SYN" \/ (state # "none" /\ client.seq0 = isn)
           c == IF keep THEN client ELSE NoPosition
           d == [c EXCEPT !.seq0 = IF @ = 0 THEN isn ELSE @]
<1>2. /\ state' = IF keep THEN state ELSE "SYN"
      /\ client' = Acknowledge(d, Plus(isn, 1))
      /\ server' \in {w, 0}
      /\ AfterControl(IF keep THEN found ELSE NotSearched, IF keep THEN reasm ELSE Idle,
                      IF keep THEN delayed ELSE <<>>)
      /\ high' = IF keep THEN high ELSE 0
      /\ born' = IF keep THEN born ELSE 0
  BY DEF TrackSynAck
<1>3. c \in Positions /\ isn \in SeqNums /\ (keep => c = client)
  BY <1>1, IdleType DEF TypeOK
<1>4. d \in Positions /\ d.uppos = c.uppos
  <2> HIDE DEF c, keep
  <2> QED
    BY <1>3 DEF Positions
<1>5. Plus(isn, 1) \in SeqNums
  BY <1>3, InSpace
<1>6. client' \in Positions /\ client'.uppos = c.uppos
  <2> HIDE DEF d
  <2> QED
    BY <1>2, <1>4, <1>5, AcknowledgeType
<1>7. Entered
  BY <1>1, <1>2, <1>6 DEF Entered, TypeOK, States
<1>8. CASE keep
  <2>1. AfterControl(found, reasm, delayed) /\ (delayed = <<>> \/ state' \notin {"none", "SYN"})
    BY <1>1, <1>2, <1>8 DEF Holding, Counts
  <2>2. found \in Searches /\ reasm \in Reasms /\ delayed \in Seq(Segments)
    BY <1>1 DEF TypeOK
  <2>3. Left /\ (Stays \/ Leaves)
    BY <1>1, <2>1, <2>2, Control DEF Left, Stays, Leaves
  <2> QED
    BY <1>2, <1>3, <1>6, <1>7, <1>8, <2>3
<1>9. CASE ~keep
  <2>1. AfterControl(NotSearched, Idle, <<>>)
    BY <1>2, <1>9
  <2>2. Holding(state, NotSearched, Idle, <<>>) /\ <<>> \in Seq(Segments)
    BY HoldingNothing, IdleType
  <2>3. Left /\ Forgets
    BY <1>1, <2>1, <2>2, IdleType, Control DEF Left, Forgets
  <2> QED
    BY <1>2, <1>7, <1>9, <2>3
<1> QED
  BY <1>8, <1>9

(* Another packet without data.                                            *)
LEMMA OnwardStep ==
    ASSUME EntryInv, state # "none", NEW fin \in BOOLEAN, state' = Onward(fin),
           AfterControl(found, reasm, delayed), arrived' = arrived
    PROVE  Left /\ state' \in {"ESTABLISHED", "FIN"} /\ (Stays \/ Leaves)
<1>1. TypeOK /\ Holding(state, found, reasm, delayed)
  BY EntryIs
<1>2. state' \in {"ESTABLISHED", "FIN"}
  BY <1>1 DEF Onward, TypeOK, States
<1>3. found \in Searches /\ reasm \in Reasms /\ delayed \in Seq(Segments)
  BY <1>1 DEF TypeOK
<1> QED
  BY <1>1, <1>2, <1>3, Control DEF Left, Stays, Leaves

(* The data ends near the highest seen.                                    *)
Close(p) == p.off + p.len <= high + MaxLag /\ high <= p.off + p.len + MaxLag

(* A data segment moves the position, and uppos only forwards.             *)
LEMMA TrackDataStep ==
    ASSUME EntryInv, NEW p \in SegmentsTo(arrived + 1), p.seq = Plus(isn, p.off),
           NEW fin \in BOOLEAN, TrackData(p, fin)
    PROVE  /\ state' \in {"ESTABLISHED", "FIN"} /\ client' \in Positions
           /\ high' \in 0 .. Length + 1 /\ arrived' = arrived + 1
           /\ server' = server /\ born' = born
           /\ Close(p) /\ client.uppos = Plus(isn, high) => client'.uppos = Plus(isn, high')
<1>1. TypeOK
  BY DEF EntryInv
<1>2. /\ state # "none" /\ state' = Onward(fin)
      /\ client' = ApplyPos(client, Onward(fin), p.seq, p.len)
      /\ high' = IF p.off + p.len > high THEN p.off + p.len ELSE high
      /\ arrived' = arrived + 1 /\ server' = server /\ born' = born
  BY DEF TrackData
<1>3. state' \in {"ESTABLISHED", "FIN"} /\ Onward(fin) # "SYN"
  BY <1>1, <1>2 DEF Onward, TypeOK, States
<1>4. /\ p.seq \in SeqNums /\ p.len \in Nat \ {0} /\ p.off \in Nat /\ p.off + p.len \in 0 .. Length + 1
      /\ isn \in SeqNums /\ high \in 0 .. Length + 1 /\ client \in Positions
  BY <1>1, Sizes DEF SegmentsTo, TypeOK
<1>5. client' \in Positions
  BY <1>2, <1>4, ApplyPosType
<1>6. ASSUME Close(p), client.uppos = Plus(isn, high)
      PROVE  client'.uppos = Plus(isn, high')
  <2>1. Plus(p.seq, p.len) = Plus(isn, p.off + p.len)
    <3>1. \A m, n \in Nat : Plus(Plus(isn, m), n) = Plus(isn, m + n)
      BY <1>4, PlusPlus
    <3> QED
      BY <1>4, <3>1
  <2>2. NotBefore(Plus(isn, p.off + p.len), Plus(isn, high)) <=> p.off + p.len >= high
    BY <1>4, <1>6, Sizes, NotBeforeInStream DEF Close
  <2>3. client'.uppos = IF NotBefore(Plus(p.seq, p.len), client.uppos) THEN Plus(p.seq, p.len) ELSE client.uppos
    BY <1>2, <1>3, <1>4 DEF ApplyPos, Positions
  <2>4. high \in Nat /\ p.off + p.len \in Nat
    BY <1>4, Sizes
  <2> QED
    BY <1>2, <1>6, <2>1, <2>2, <2>3, <2>4
<1> QED
  BY <1>2, <1>3, <1>4, <1>5, <1>6

-----------------------------------------------------------------------------
(* Data segments                                                           *)

(* What is held is either kept on or sent away.                            *)
LEMMA HeldIs ==
    ASSUME EntryInv, NEW p
    PROVE  IF Feeds(p) THEN SentAway(p) = <<>> /\ Held(p) = delayed
                       ELSE SentAway(p) = delayed /\ Held(p) = <<>>
<1>1. Holding(state, found, reasm, delayed) /\ reasm \in Reasms
  BY EntryIs DEF TypeOK
<1>2. CASE Feeds(p)
  BY <1>2 DEF Feeds, SentAway, Held
<1>3. CASE ~Feeds(p) /\ Busy
  BY <1>3 DEF SentAway, Held
<1>4. CASE ~Feeds(p) /\ ~Busy
  <2>1. delayed = <<>>
    BY <1>1, <1>4 DEF Holding, Counts, Busy
  <2> QED
    BY <1>4, <2>1 DEF SentAway, Held
<1> QED
  BY <1>2, <1>3, <1>4

LEMMA HeldType ==
    ASSUME EntryInv, NEW p \in SegmentsTo(arrived + 1)
    PROVE  /\ delayed \in Seq(SegmentsTo(arrived + 1)) /\ <<>> \in Seq(SegmentsTo(arrived + 1))
           /\ Held(p) \in Seq(SegmentsTo(arrived + 1)) /\ SentAway(p) \in Seq(SegmentsTo(arrived + 1))
           /\ Append(Held(p), p) \in Seq(SegmentsTo(arrived + 1))
           /\ Append(delayed, p) \in Seq(SegmentsTo(arrived + 1))
           /\ <<p>> \in Seq(SegmentsTo(arrived + 1))
           /\ SentAway(p) \o Append(Held(p), p) = Append(delayed, p)
<1>1. arrived \in Nat /\ arrived + 1 \in Nat /\ delayed \in Seq(SegmentsTo(arrived))
  BY SegmentsAre DEF EntryInv, TypeOK
<1>2. delayed \in Seq(SegmentsTo(arrived + 1))
  BY <1>1, SegmentsGrow
<1>3. <<>> \in Seq(SegmentsTo(arrived + 1)) /\ <<p>> \in Seq(SegmentsTo(arrived + 1))
  OBVIOUS
<1>4. Held(p) \in Seq(SegmentsTo(arrived + 1)) /\ SentAway(p) \in Seq(SegmentsTo(arrived + 1))
  BY <1>2, <1>3, HeldIs
<1>5. /\ Append(Held(p), p) \in Seq(SegmentsTo(arrived + 1))
      /\ Append(delayed, p) \in Seq(SegmentsTo(arrived + 1))
  BY <1>2, <1>4, AppendProperties
<1>6. CASE Feeds(p)
  <2>1. SentAway(p) = <<>> /\ Held(p) = delayed
    BY <1>6, HeldIs
  <2>2. <<>> \o Append(delayed, p) = Append(delayed, p)
    BY <1>5, ConcatEmptySeq
  <2> QED
    BY <1>2, <1>3, <1>4, <1>5, <2>1, <2>2
<1>7. CASE ~Feeds(p)
  <2>1. SentAway(p) = delayed /\ Held(p) = <<>>
    BY <1>7, HeldIs
  <2>2. Append(<<>>, p) = <<p>> /\ delayed \o <<p>> = Append(delayed, p)
    BY <1>2, AppendIsConcat
  <2> QED
    BY <1>2, <1>3, <1>4, <1>5, <2>1, <2>2
<1> QED
  BY <1>6, <1>7

(* A segment that is held makes a beginning of one ClientHello with those  *)
(* before it.                                                              *)
LEMMA HoldingMore ==
    ASSUME EntryInv, NEW p \in SegmentsTo(arrived + 1),
           WithSegment(p).size > 0, Len(Held(p)) < DelayedMax,
           NEW st, st \notin {"none", "SYN"}, NEW f, f.profile = "some"
    PROVE  /\ WithSegment(p) \in Reasms
           /\ WithSegment(p).size_present <= WithSegment(p).size
           /\ ~Full(WithSegment(p)) => Holding(st, f, WithSegment(p), Append(Held(p), p))
<1>1. TypeOK /\ Holding(state, found, reasm, delayed)
  BY EntryIs
<1>2. /\ p.seq \in SeqNums /\ p.len \in 1 .. MaxSegment /\ p.len \in Nat \ {0} /\ p.len <= SeqSpace
      /\ p.off \in 1 .. Length
  BY Sizes DEF SegmentsTo
<1>3. CASE Feeds(p)
  <2>1. /\ Busy /\ reasm \in Reasms /\ delayed # <<>> /\ reasm.size_present < reasm.size
        /\ reasm.size_present <= reasm.size
    BY <1>1, <1>3, Sizes DEF Feeds, Holding, Counts, Busy, TypeOK, Reasms
  <2>2. WithSegment(p) = Fed(p) /\ Held(p) = delayed
    BY <1>3, HeldIs DEF WithSegment
  <2>3. /\ Fed(p) \in Reasms /\ Fed(p).size = reasm.size /\ Fed(p).size_present <= reasm.size
        /\ reasm.size_present <= Fed(p).size_present
    BY <1>2, <1>3, <2>1, FedType, Sizes DEF Reasms
  <2>4. /\ Minus(Fed(p).seq, Fed(p).size_present) = Start
        /\ \A k \in reasm.size_present .. Fed(p).size_present - 1 : Minus(Plus(Start, k), p.seq) < p.len
    BY <1>2, <1>3, <2>1, FedCovers
  <2>5. /\ delayed \in Seq(SegmentsTo(arrived + 1)) /\ Append(delayed, p) \in Seq(SegmentsTo(arrived + 1))
    BY HeldType
  <2> DEFINE h == Append(delayed, p)
  <2>6. /\ Len(h) = Len(delayed) + 1 /\ h # <<>> /\ h[Len(delayed) + 1] = p
        /\ \A i \in DOMAIN delayed : i \in DOMAIN h /\ h[i] = delayed[i]
        /\ DOMAIN h = DOMAIN delayed \cup {Len(delayed) + 1}
        /\ Head(h) = Head(delayed) /\ Len(delayed) \in Nat
    <3>1. Len(h) = Len(delayed) + 1 /\ h # <<>> /\ h[Len(delayed) + 1] = p
            /\ \A i \in 1 .. Len(delayed) : h[i] = delayed[i]
      BY <2>5, AppendProperties
    <3>2. DOMAIN h = 1 .. Len(h) /\ DOMAIN delayed = 1 .. Len(delayed) /\ Len(delayed) \in Nat
      BY <2>5
    <3>3. Head(h) = Head(delayed)
      BY <2>1, <2>5, HeadTailAppend
    <3> HIDE DEF h
    <3> QED
      BY <3>1, <3>2, <3>3
  <2>7. Head(delayed).seq = Start
    BY <1>1, <2>1 DEF Holding, Makes, Start
  <2>8. Makes(Fed(p), h)
    <3>1. /\ Head(h).off \in DOMAIN Hello /\ Head(h).seq = Minus(Fed(p).seq, Fed(p).size_present)
          /\ Fed(p).size = Hello[Head(h).off]
      BY <1>1, <2>1, <2>3, <2>4, <2>6, <2>7 DEF Holding, Makes
    <3>2. ASSUME NEW k \in 0 .. Fed(p).size_present - 1
          PROVE  \E i \in DOMAIN h : Minus(Plus(Start, k), h[i].seq) < h[i].len
      <4>1. reasm.size_present \in Nat /\ Fed(p).size_present \in Nat
        BY <2>1, <2>3, Sizes DEF Reasms
      <4>2. CASE k < reasm.size_present
        <5>1. k \in 0 .. reasm.size_present - 1
          BY <4>1, <4>2
        <5>2. PICK i \in DOMAIN delayed : Minus(Plus(Start, k), delayed[i].seq) < delayed[i].len
          BY <1>1, <2>1, <5>1 DEF Holding, Makes, Start
        <5> QED
          BY <2>6, <5>2
      <4>3. CASE k >= reasm.size_present
        <5>1. k \in reasm.size_present .. Fed(p).size_present - 1
          BY <4>1, <4>3
        <5>2. Minus(Plus(Start, k), p.seq) < p.len
          BY <2>4, <5>1
        <5> QED
          BY <2>6, <5>2
      <4> QED
        BY <4>1, <4>2, <4>3
    <3> QED
      BY <2>4, <3>1, <3>2 DEF Makes
  <2>9. \A i \in DOMAIN h : Lies(h[i], Fed(p), h)
    <3>1. Lies(p, Fed(p), h)
      BY <1>2, <1>3, <2>1, <2>3, <2>6, <2>7, FedWithin DEF Lies
    <3>2. \A i \in DOMAIN delayed : Lies(delayed[i], Fed(p), h)
      BY <1>1, <2>3, <2>6 DEF Holding, Lies
    <3> QED
      BY <2>6, <3>1, <3>2
  <2>10. ~Full(Fed(p)) => Counts(st, f, Fed(p), h)
    BY <2>1, <2>2, <2>3, <2>6, Sizes DEF Full, Counts, Reasms, Busy
  <2> QED
    BY <2>2, <2>3, <2>6, <2>8, <2>9, <2>10 DEF Holding
<1>4. CASE ~Feeds(p)
  <2>1. Begins(p) /\ Held(p) = <<>>
    BY <1>4, HeldIs DEF WithSegment, Idle
  <2> DEFINE r == [seq |-> Plus(p.seq, p.len), size |-> Hello[p.off], size_present |-> p.len]
             h == <<p>>
  <2>2. WithSegment(p) = r /\ Append(Held(p), p) = h
    BY <1>4, <2>1 DEF WithSegment
  <2>3. /\ p.off \in DOMAIN Hello /\ p.len < Hello[p.off] /\ Hello[p.off] <= MaxReasm
        /\ Hello[p.off] \in Nat \ {0}
    BY <2>1, StreamAssumption DEF Begins, Incomplete, IsHello
  <2>4. r \in Reasms
    <3>1. Plus(p.seq, p.len) \in SeqNums
      BY <1>2, InSpace
    <3>2. Hello[p.off] \in 0 .. MaxReasm /\ p.len \in 0 .. MaxReasm
      BY <1>2, <2>3, Sizes
    <3> QED
      BY <3>1, <3>2 DEF Reasms
  <2>5. Minus(r.seq, r.size_present) = p.seq
    BY <1>2, PlusMinus, Sizes
  <2>6. Head(h) = p /\ DOMAIN h = {1} /\ h[1] = p /\ Len(h) = 1 /\ h # <<>>
    OBVIOUS
  <2>7. Makes(r, h)
    <3>1. ASSUME NEW k \in 0 .. p.len - 1 PROVE Minus(Plus(p.seq, k), p.seq) < p.len
      <4>1. k \in 0 .. SeqSpace /\ p.seq \in 0 .. SeqSpace /\ k < p.len /\ k \in Nat
        <5>1. p.seq \in 0 .. SeqSpace
          BY <1>2, InSpace
        <5> QED
          BY <1>2, <5>1, Sizes
      <4>2. Minus(Plus(p.seq, k), p.seq) <= Minus(p.seq, p.seq) + k
        BY <1>2, <4>1, NotFarther
      <4>3. Minus(p.seq, p.seq) = 0
        BY <1>2, <4>1, MinusIs, InSpace
      <4>4. Minus(Plus(p.seq, k), p.seq) \in Nat
        BY <1>2, <4>1, InSpace
      <4> QED
        BY <1>2, <4>1, <4>2, <4>3, <4>4
    <3> QED
      BY <2>3, <2>5, <2>6, <3>1 DEF Makes
  <2>8. Lies(p, r, h)
    <3>1. Minus(p.seq, p.seq) = 0
      BY <1>2, MinusIs, InSpace
    <3> QED
      BY <1>2, <2>3, <2>6, <3>1 DEF Lies
  <2>9. Counts(st, f, r, h)
    BY <1>2, <2>3, <2>6, Sizes DEF Counts
  <2> HIDE DEF r, h
  <2>10. \A i \in DOMAIN h : Lies(h[i], r, h)
    BY <2>6, <2>8
  <2>11. r.size_present <= r.size
    BY <1>2, <2>3 DEF r
  <2> QED
    BY <2>2, <2>4, <2>7, <2>9, <2>10, <2>11 DEF Holding
<1> QED
  BY <1>3, <1>4

(* What becomes of the held segments and of p, the next to come.           *)
Takes(p) ==
    \/ delayed' = Append(delayed, p) /\ released' = released
    \/ delayed' = <<p>> /\ released' = released \o Ids(delayed)
    \/ delayed' = <<>> /\ released' = released \o Ids(Append(delayed, p))

LEMMA DataStep ==
    ASSUME EntryInv, NEW p \in SegmentsTo(arrived + 1), p.seq = Plus(isn, p.off),
           NEW fin \in BOOLEAN, Data(p, fin)
    PROVE  /\ Left /\ Entered /\ Takes(p) /\ arrived' = arrived + 1
           /\ high' \in 0 .. Length + 1 /\ born' = born
           /\ Close(p) /\ client.uppos = Plus(isn, high) => client'.uppos = Plus(isn, high')
<1>1. TypeOK /\ Holding(state, found, reasm, delayed)
  BY EntryIs
<1>2. /\ arrived \in Nat /\ arrived <= arrived + 1 /\ arrived + 1 \in Nat
      /\ found \in Searches /\ released \in Seq(1 .. arrived)
  BY <1>1 DEF TypeOK
<1>3. /\ delayed \in Seq(SegmentsTo(arrived + 1)) /\ <<>> \in Seq(SegmentsTo(arrived + 1))
      /\ Held(p) \in Seq(SegmentsTo(arrived + 1)) /\ SentAway(p) \in Seq(SegmentsTo(arrived + 1))
      /\ Append(Held(p), p) \in Seq(SegmentsTo(arrived + 1))
      /\ Append(delayed, p) \in Seq(SegmentsTo(arrived + 1))
      /\ <<p>> \in Seq(SegmentsTo(arrived + 1))
      /\ SentAway(p) \o Append(Held(p), p) = Append(delayed, p)
  BY HeldType
<1> DEFINE Moved == /\ Entered /\ high' \in 0 .. Length + 1 /\ born' = born
                    /\ Close(p) /\ client.uppos = Plus(isn, high) => client'.uppos = Plus(isn, high')
                    /\ arrived' = arrived + 1 /\ Segments' = SegmentsTo(arrived + 1)
<1>4. ASSUME TrackData(p, fin) PROVE Moved /\ state' \in {"ESTABLISHED", "FIN"}
  <2>1. server \in Windows \cup {0}
    BY <1>1 DEF TypeOK
  <2> QED
    BY <1>4, <2>1, TrackDataStep, SegmentsAre DEF Entered, States
<1>5. ASSUME arrived' = arrived + 1, Leave(Append(delayed, p), decisions'), decisions' \in Seq(Decisions)
      PROVE  /\ released' \in Seq(1 .. arrived')
             /\ got' \subseteq (1 .. MaxExtras + 1) \X (1 .. Length)
             /\ released' = released \o Ids(Append(delayed, p))
  <2>1. released' = released \o Ids(Append(delayed, p))
    BY <1>5 DEF Leave
  <2> QED
    BY <1>1, <1>2, <1>3, <1>5, <2>1, LeaveType
<1>6. CASE DataUntracked(p)
  <2>1. state = "none" /\ delayed = <<>>
    BY <1>1, <1>6 DEF DataUntracked, Holding, Counts
  <2>2. PICK how \in {"plain", "desync"} : Leave(<<p>>, <<how>>)
    BY <1>6 DEF DataUntracked
  <2>3. /\ <<how>> \in Seq(Decisions) /\ Append(delayed, p) = <<p>> /\ decisions' = <<how>>
    BY <2>1, <2>2 DEF Decisions, Leave
  <2>4. /\ state' = state /\ client' = client /\ server' = server /\ found' = found /\ reasm' = reasm
        /\ delayed' = delayed /\ high' = high /\ born' = born /\ arrived' = arrived + 1 /\ isn \in SeqNums
        /\ high \in 0 .. Length + 1 /\ Segments' = SegmentsTo(arrived + 1)
    BY <1>1, <1>6, SegmentsAre DEF DataUntracked, entry, TypeOK
  <2>5. Left /\ released' = released \o Ids(Append(delayed, p))
    BY <1>1, <1>2, <1>3, <1>5, <2>1, <2>2, <2>3, <2>4 DEF Left, TypeOK
  <2>6. Entered
    BY <1>1, <2>4 DEF Entered, TypeOK
  <2> QED
    BY <2>1, <2>4, <2>5, <2>6 DEF Takes
<1>7. CASE DataUnmatched(p, fin)
  <2>1. Moved /\ state' \in {"ESTABLISHED", "FIN"}
    BY <1>4, <1>7 DEF DataUnmatched
  <2>2. PICK dp \in Profiles : Searched(found, dp).profile = "none" /\ found' = Searched(found, dp)
    BY <1>7 DEF DataUnmatched
  <2>3. found' \in Searches /\ found.profile # "some"
    BY <1>2, <2>2, SearchedType
  <2>4. delayed = <<>> /\ reasm.size = 0
    BY <1>1, <2>3, Sizes DEF Holding, Counts, TypeOK, Reasms
  <2>5. Leave(<<p>>, <<"plain">>) /\ reasm' = reasm /\ delayed' = delayed
    BY <1>7 DEF DataUnmatched
  <2>6. /\ <<"plain">> \in Seq(Decisions) /\ Append(delayed, p) = <<p>> /\ decisions' = <<"plain">>
    BY <2>4, <2>5 DEF Decisions, Leave
  <2>7. Holding(state', found', reasm', delayed')
    BY <2>4, <2>5, HoldingNothing
  <2>8. Left /\ released' = released \o Ids(Append(delayed, p))
    BY <1>1, <1>3, <1>5, <2>1, <2>3, <2>4, <2>5, <2>6, <2>7 DEF Left, TypeOK
  <2> QED
    BY <2>1, <2>4, <2>5, <2>8 DEF Takes
<1>8. CASE DataDelayed(p, fin)
  <2>1. Moved /\ state' \in {"ESTABLISHED", "FIN"}
    BY <1>4, <1>8 DEF DataDelayed
  <2>2. PICK dp \in Profiles : Matched(dp) /\ found' = Probed(Searched(found, dp), p)
    BY <1>8 DEF DataDelayed
  <2>3. found' \in Searches /\ found'.profile = "some"
    BY <1>2, <2>2, SearchedType, ProbedType DEF Matched
  <2>4. /\ WithSegment(p).size > 0 /\ Len(Held(p)) < DelayedMax /\ ~Full(WithSegment(p))
        /\ reasm' = WithSegment(p) /\ delayed' = Append(Held(p), p)
        /\ Leave(SentAway(p), Flush(SentAway(p)))
    BY <1>8 DEF DataDelayed, Queued
  <2>5. reasm' \in Reasms /\ Holding(state', found', reasm', delayed')
    BY <2>1, <2>3, <2>4, HoldingMore
  <2>6. Flush(SentAway(p)) \in Seq(Decisions)
    BY <1>3, FlushType
  <2>7. /\ released' \in Seq(1 .. arrived')
        /\ got' \subseteq (1 .. MaxExtras + 1) \X (1 .. Length)
        /\ decisions' \in Seq(Decisions)
    BY <1>1, <1>2, <1>3, <2>1, <2>4, <2>6, LeaveType
  <2>8. Left
    BY <1>3, <2>1, <2>3, <2>4, <2>5, <2>7 DEF Left
  <2>9. released' = released \o Ids(SentAway(p))
    BY <2>4 DEF Leave
  <2>10. Takes(p)
    <3>1. Feeds(p) => delayed' = Append(delayed, p) /\ released' = released
      <4>1. Ids(<<>>) = <<>> /\ released \o <<>> = released
        BY <1>2 DEF Ids
      <4> QED
        BY <2>4, <2>9, <4>1, HeldIs
    <3>2. ~Feeds(p) => delayed' = <<p>> /\ released' = released \o Ids(delayed)
      <4>1. Append(<<>>, p) = <<p>>
        OBVIOUS
      <4> QED
        BY <2>4, <2>9, <4>1, HeldIs
    <3> QED
      BY <3>1, <3>2 DEF Takes
  <2> QED
    BY <2>1, <2>8, <2>10
<1>9. CASE DataCompletes(p, fin)
  <2>1. Moved /\ state' \in {"ESTABLISHED", "FIN"}
    BY <1>4, <1>9 DEF DataCompletes
  <2> DEFINE n == Len(Append(Held(p), p))
  <2>2. PICK a \in Answers :
          LET after == Replayed(Probed(Searched(found, a.first), p), a, n) IN
          /\ Matched(a.first) /\ found' = after[n]
          /\ Leave(SentAway(p) \o Append(Held(p), p),
                   Flush(SentAway(p)) \o [i \in 1 .. n |-> IF Applies(after[i]) THEN "desync" ELSE "plain"])
    BY <1>9 DEF DataCompletes
  <2> DEFINE f == Probed(Searched(found, a.first), p)
             after == Replayed(f, a, n)
             how == [i \in 1 .. n |-> IF Applies(after[i]) THEN "desync" ELSE "plain"]
  <2>3. n \in Nat /\ n \in 1 .. n
    BY <1>3, AppendProperties
  <2>4. f \in Searches
    <3>1. a.first \in Profiles
      BY DEF Answers
    <3> QED
      BY <1>2, <3>1, SearchedType, ProbedType
  <2>5. found' \in Searches
    <3> HIDE DEF f, n
    <3> QED
      BY <2>2, <2>3, <2>4, ReplayedAlike, DecideType DEF f, n
  <2>6. reasm' = Idle /\ delayed' = <<>>
    BY <1>9 DEF DataCompletes
  <2>7. Holding(state', found', reasm', delayed') /\ reasm' \in Reasms
    BY <2>6, IdleType, HoldingNothing
  <2>8. how \in Seq(Decisions)
    <3> HIDE DEF after, n
    <3> QED
      BY <2>3 DEF Decisions
  <2>9. Flush(SentAway(p)) \in Seq(Decisions)
    BY <1>3, FlushType
  <2>10. decisions' = Flush(SentAway(p)) \o how
    BY <2>2 DEF Leave
  <2>11. decisions' \in Seq(Decisions)
    <3> HIDE DEF how
    <3> QED
      BY <2>8, <2>9, <2>10, ConcatProperties
  <2>12. Leave(Append(delayed, p), decisions')
    BY <1>3, <2>2, <2>10
  <2>13. Left /\ released' = released \o Ids(Append(delayed, p))
    BY <1>3, <1>5, <2>1, <2>5, <2>6, <2>7, <2>11, <2>12 DEF Left
  <2> QED
    BY <2>1, <2>6, <2>13 DEF Takes
<1>10. CASE DataPassed(p, fin)
  <2>1. Moved /\ state' \in {"ESTABLISHED", "FIN"}
    BY <1>4, <1>10 DEF DataPassed
  <2> DEFINE cancelled(o) == WithSegment(p).size > 0 \/ ~Applies(o.found) \/ ~IsHello(p)
             away(o) == SentAway(p) \o (IF cancelled(o) THEN Held(p) ELSE <<>>)
             one(o) == IF Applies(o.found) THEN "desync" ELSE "plain"
             Passed(o) == /\ found' = o.found
                          /\ Leave(Append(away(o), p), Append(Flush(away(o)), one(o)))
                          /\ delayed' = IF cancelled(o) THEN <<>> ELSE Held(p)
  <2>2. PICK host \in BOOLEAN : \E o \in Outcomes(Probed(found, p), host) : Passed(o)
    BY <1>10 DEF DataPassed
  <2>3. PICK o \in Outcomes(Probed(found, p), host) : Passed(o)
    BY <2>2
  <2>4. found' \in Searches
    BY <1>2, <2>3, ProbedType, OutcomesType
  <2>5. ~cancelled(o) => Held(p) = <<>>
    <3>1. SUFFICES ASSUME ~cancelled(o), Feeds(p) PROVE FALSE
      BY HeldIs
    <3>a. WithSegment(p) = Fed(p)
      BY <3>1 DEF WithSegment
    <3>b. reasm \in Reasms /\ Counts(state, found, reasm, delayed)
      BY <1>1 DEF Holding, TypeOK
    <3>c. reasm.size > 0
      BY <3>1 DEF Feeds, Busy
    <3>d. reasm.size_present <= reasm.size
      BY <3>b, <3>c, Sizes DEF Counts, Reasms
    <3>2. WithSegment(p) = Fed(p) /\ reasm.size > 0 /\ reasm.size_present <= reasm.size /\ reasm \in Reasms
      BY <3>a, <3>b, <3>c, <3>d
    <3>3. p.seq \in SeqNums /\ p.len \in 1 .. MaxSegment
      BY DEF SegmentsTo
    <3>4. WithSegment(p).size > 0
      BY <3>1, <3>2, <3>3, FedType
    <3> QED
      BY <3>1, <3>4
  <2>6. away(o) = delayed
    <3>1. SentAway(p) \o Held(p) = delayed
      <4>1. <<>> \o delayed = delayed /\ delayed \o <<>> = delayed
        BY <1>3, ConcatEmptySeq
      <4> QED
        BY <4>1, HeldIs
    <3> QED
      BY <2>5, <3>1
  <2>7. reasm' = Idle /\ delayed' = <<>>
    BY <1>10, <2>3, <2>5 DEF DataPassed
  <2>8. Holding(state', found', reasm', delayed') /\ reasm' \in Reasms
    BY <2>7, IdleType, HoldingNothing
  <2>9. Leave(Append(delayed, p), Append(Flush(delayed), one(o)))
    BY <2>3, <2>6
  <2>10. decisions' = Append(Flush(delayed), one(o))
    BY <2>9 DEF Leave
  <2>11. decisions' \in Seq(Decisions)
    <3>1. one(o) \in Decisions
      BY DEF Decisions
    <3>2. Flush(delayed) \in Seq(Decisions)
      BY <1>3, FlushType
    <3> QED
      BY <2>10, <3>1, <3>2, AppendProperties
  <2>12. Left /\ released' = released \o Ids(Append(delayed, p))
    BY <1>3, <1>5, <2>1, <2>4, <2>7, <2>8, <2>9, <2>10, <2>11 DEF Left
  <2> QED
    BY <2>1, <2>7, <2>12 DEF Takes
<1> QED
  BY <1>6, <1>7, <1>8, <1>9, <1>10 DEF Data

-----------------------------------------------------------------------------
(* The steps                                                               *)

(* What the server has got without a gap is a number.                      *)
LEMMA DeliveredType ==
    ASSUME TypeOK
    PROVE  Delivered \in Nat
<1> DEFINE S == {m \in Nat : <<opens, m + 1>> \notin got}
<1>1. Length \in S /\ S \in SUBSET Nat
  BY Sizes DEF TypeOK
<1>2. PICK n \in S : \A m \in S : n <= m
  <2> HIDE DEF S
  <2> QED
    BY <1>1, LeastNumber
<1>3. n \in Nat /\ n \in 0 .. Length /\ <<opens, n + 1>> \notin got
  BY <1>1, <1>2, Sizes
<1>4. {opens} \X (1 .. n) \subseteq got
  <2>1. ASSUME NEW k \in 1 .. n PROVE <<opens, k>> \in got
    <3>1. k - 1 \in Nat /\ (k - 1) + 1 = k /\ ~(n <= k - 1)
      BY <1>3
    <3>2. k - 1 \notin S
      BY <1>2, <3>1
    <3> QED
      BY <3>1, <3>2
  <2> QED
    BY <2>1
<1>5. Delivered \in 0 .. Length
  <2> HIDE DEF S
  <2> QED
    BY <1>3, <1>4 DEF Delivered
<1> QED
  BY <1>5, Sizes

LEMMA SegmentType ==
    ASSUME EntryInv, opens > 0, NEW off \in 1 .. Length, NEW len \in 1 .. MaxSegment, off + len <= Length + 1
    PROVE  /\ Segment(off, len) \in SegmentsTo(arrived + 1)
           /\ Segment(off, len).id = arrived + 1
           /\ Segment(off, len).seq = Plus(isn, Segment(off, len).off)
<1>1. /\ arrived \in Nat /\ opens \in 1 .. MaxExtras + 1 /\ isn \in SeqNums /\ off \in Nat
  BY Sizes DEF EntryInv, TypeOK
<1>2. Plus(isn, off) \in SeqNums /\ arrived + 1 \in 1 .. arrived + 1
  BY <1>1, InSpace
<1> QED
  BY <1>1, <1>2 DEF Segment, SegmentsTo

(* The rest of the state is as TypeOK has it.                              *)
EndsTyped ==
    /\ phase' \in {"closed", "opening", "open"}
    /\ opens' \in 0 .. extras' + 1 /\ (phase' # "closed" => opens' > 0)
    /\ isn' \in SeqNums /\ next' \in 1 .. Length + 1
    /\ window' \in Windows \cup {0} /\ (phase' = "open" => window' \in Windows)
    /\ extras' \in 0 .. MaxExtras /\ misses' \in BOOLEAN /\ arrived' \in Nat
    /\ high' \in 0 .. Length + 1 /\ born' \in 0 .. opens'

LEMMA Enough ==
    ASSUME Left, Entered, EndsTyped
    PROVE  EntryInv'
  BY EntryIsNext DEF Left, Entered, EndsTyped, TypeOK

(* How a step looks to PacketPath.                                         *)
Moves ==
    \/ arrived' = arrived /\ (Stays \/ Forgets \/ Leaves)
    \/ /\ arrived' = arrived + 1
       /\ \E p \in SegmentsTo(arrived + 1) : p.id = arrived + 1 /\ Takes(p)

Kept == EntryInv' /\ RetransmissionsAreTold' /\ Moves

LEMMA MissedStep ==
    ASSUME EntryInv, Missed, arrived' = arrived
    PROVE  Left /\ Entered /\ Stays /\ high' = high /\ born' = born
<1>1. TypeOK /\ Holding(state, found, reasm, delayed)
  BY EntryIs
<1>2. Segments' = Segments
  BY SegmentsAre
<1>3. /\ state' = state /\ client' = client /\ server' = server /\ found' = found /\ reasm' = reasm
      /\ delayed' = delayed /\ released' = released /\ got' = got /\ decisions' = <<>>
      /\ high' = high /\ born' = born
  BY DEF Missed, entry
<1> QED
  BY <1>1, <1>2, <1>3 DEF Left, Entered, Stays, TypeOK

LEMMA OpenStep ==
    ASSUME EntryInv, RetransmissionsAreTold, NEW i \in Isns, Open(i)
    PROVE  Kept
<1>1. TypeOK /\ i \in SeqNums
  BY InitialNumbers DEF EntryInv
<1>2. /\ IF opens = 0 THEN extras' = extras ELSE extras < MaxExtras /\ extras' = extras + 1
      /\ opens' = opens + 1 /\ isn' = i /\ phase' = "opening" /\ next' = 1 /\ window' = 0
      /\ misses' = misses /\ arrived' = arrived
  BY DEF Open, Extra
<1>3. opens' \in 0 .. extras' + 1 /\ opens' > 0 /\ extras' \in 0 .. MaxExtras
  BY <1>1, <1>2, Sizes DEF TypeOK
<1>4. /\ isn' \in SeqNums /\ next' \in 1 .. Length + 1 /\ window' \in Windows \cup {0}
      /\ phase' \in {"closed", "opening", "open"} /\ phase' # "open" /\ misses' \in BOOLEAN /\ arrived' \in Nat
  BY <1>1, <1>2, Sizes DEF TypeOK
<1>5. CASE TrackSyn(i) /\ high' = 0 /\ born' = opens'
  <2>1. Left /\ Entered /\ client'.uppos = i /\ (Stays \/ Forgets \/ Leaves)
    BY <1>1, <1>2, <1>5, SynStep
  <2>2. EndsTyped
    <3>1. high' \in 0 .. Length + 1 /\ born' \in 0 .. opens'
      BY <1>3, <1>5, Sizes
    <3> QED
      BY <1>3, <1>4, <3>1 DEF EndsTyped
  <2>3. Plus(i, 0) = i
    BY <1>1, PlusIs, Sizes DEF SeqNums
  <2>4. RetransmissionsAreTold'
    BY <1>2, <1>5, <2>1, <2>3 DEF RetransmissionsAreTold
  <2> QED
    BY <1>2, <2>1, <2>2, <2>4, Enough DEF Kept, Moves
<1>6. CASE Missed
  <2>1. Left /\ Entered /\ Stays /\ high' = high /\ born' = born
    BY <1>2, <1>6, MissedStep
  <2>2. EndsTyped
    <3>1. high' \in 0 .. Length + 1 /\ born' \in 0 .. opens'
      BY <1>1, <1>2, <2>1, Sizes DEF TypeOK
    <3> QED
      BY <1>3, <1>4, <3>1 DEF EndsTyped
  <2>3. RetransmissionsAreTold'
    <3>1. born' # opens'
      BY <1>1, <1>2, <2>1, Sizes DEF TypeOK
    <3> QED
      BY <3>1 DEF RetransmissionsAreTold
  <2> QED
    BY <1>2, <2>1, <2>2, <2>3, Enough DEF Kept, Moves
<1> QED
  BY <1>5, <1>6 DEF Open

LEMMA AcceptStep ==
    ASSUME EntryInv, RetransmissionsAreTold, NEW w \in Windows, Accept(w)
    PROVE  Kept
<1>1. TypeOK
  BY DEF EntryInv
<1>2. /\ phase = "opening" /\ phase' = "open" /\ window' = w /\ opens' = opens /\ isn' = isn
      /\ next' = next /\ extras' = extras /\ misses' = misses /\ arrived' = arrived
      /\ TrackSynAck(w) \/ Missed
  BY DEF Accept
<1>3. CASE TrackSynAck(w)
  <2>1. /\ Left /\ Entered /\ (Stays \/ Forgets \/ Leaves)
        /\ \/ born' = 0 /\ high' = 0
           \/ born' = born /\ high' = high /\ client'.uppos = client.uppos
    BY <1>2, <1>3, SynAckStep
  <2>2. EndsTyped
    BY <1>1, <1>2, <2>1, Sizes DEF EndsTyped, TypeOK
  <2>3. RetransmissionsAreTold'
    BY <1>2, <2>1 DEF RetransmissionsAreTold
  <2> QED
    BY <1>2, <2>1, <2>2, <2>3, Enough DEF Kept, Moves
<1>4. CASE Missed
  <2>1. Left /\ Entered /\ Stays /\ high' = high /\ born' = born
    BY <1>2, <1>4, MissedStep
  <2>2. EndsTyped
    BY <1>1, <1>2, <2>1, Sizes DEF EndsTyped, TypeOK
  <2>3. RetransmissionsAreTold'
    BY <1>2, <1>4, <2>1 DEF RetransmissionsAreTold, Missed, entry
  <2> QED
    BY <1>2, <2>1, <2>2, <2>3, Enough DEF Kept, Moves
<1> QED
  BY <1>2, <1>3, <1>4

LEMMA Within ==
    ASSUME NEW m \in Nat, NEW n \in Nat, m <= n, NEW o \in 0 .. m + 1
    PROVE  o \in 0 .. n + 1
  OBVIOUS

(* A data segment, new or repeated.                                        *)
LEMMA SentStep ==
    ASSUME EntryInv, RetransmissionsAreTold, opens > 0,
           NEW off \in 1 .. Length, NEW len \in 1 .. MaxSegment, off + len <= Length + 1,
           NEW fin \in BOOLEAN, Data(Segment(off, len), fin), Near(off, len),
           opens' = opens, isn' = isn, window' = window, next' \in 1 .. Length + 1,
           phase' = phase \/ phase' = "closed", extras' \in 0 .. MaxExtras, extras <= extras',
           misses' \in BOOLEAN
    PROVE  Kept
<1> DEFINE p == Segment(off, len)
<1>1. TypeOK
  BY DEF EntryInv
<1>2. p \in SegmentsTo(arrived + 1) /\ p.id = arrived + 1 /\ p.seq = Plus(isn, p.off)
  BY SegmentType
<1> HIDE DEF p
<1>3. /\ Left /\ Entered /\ Takes(p) /\ arrived' = arrived + 1
      /\ high' \in 0 .. Length + 1 /\ born' = born
      /\ Close(p) /\ client.uppos = Plus(isn, high) => client'.uppos = Plus(isn, high')
  BY <1>2, DataStep DEF p
<1>4. EndsTyped
  <2>1. /\ phase' \in {"closed", "opening", "open"} /\ misses' \in BOOLEAN
        /\ window' \in Windows \cup {0} /\ (phase' = "open" => window' \in Windows)
    BY <1>1 DEF TypeOK
  <2>2. extras \in Nat /\ extras' \in Nat /\ opens \in 0 .. extras + 1
    BY <1>1, Sizes DEF TypeOK
  <2>3. opens' \in 0 .. extras' + 1
    BY <2>2, Within, Zenon
  <2>4. born' \in 0 .. opens' /\ arrived' \in Nat
    BY <1>1, <1>3 DEF TypeOK
  <2>5. isn' \in SeqNums
    BY <1>1 DEF TypeOK
  <2> QED
    BY <1>3, <2>1, <2>3, <2>4, <2>5 DEF EndsTyped
<1>5. RetransmissionsAreTold'
  <2>1. born = opens => Close(p)
    BY DEF Near, Close, p, Segment
  <2> QED
    BY <1>3, <2>1 DEF RetransmissionsAreTold
<1> QED
  BY <1>2, <1>3, <1>4, <1>5, Enough DEF Kept, Moves

LEMMA SendStep ==
    ASSUME EntryInv, RetransmissionsAreTold, NEW len \in 1 .. MaxSegment, NEW fin \in BOOLEAN, Send(len, fin)
    PROVE  Kept
<1>1. /\ phase = "open" /\ next + len - 1 <= Length /\ next' = next + len /\ Near(next, len)
      /\ phase' = (IF fin THEN "closed" ELSE phase) /\ Data(Segment(next, len), fin)
      /\ opens' = opens /\ isn' = isn /\ window' = window /\ extras' = extras
      /\ misses' = misses
  BY DEF Send
<1>2. /\ opens > 0 /\ next \in 1 .. Length /\ next + len <= Length + 1 /\ next' \in 1 .. Length + 1
      /\ extras' \in 0 .. MaxExtras /\ extras <= extras' /\ misses' \in BOOLEAN
  BY <1>1, Sizes DEF EntryInv, TypeOK
<1> QED
  BY <1>1, <1>2, SentStep

LEMMA SendAgainStep ==
    ASSUME EntryInv, RetransmissionsAreTold, NEW off \in 1 .. Length, NEW len \in 1 .. MaxSegment,
           SendAgain(off, len)
    PROVE  Kept
<1>1. /\ opens > 0 /\ off + len <= next /\ Near(off, len) /\ extras < MaxExtras /\ extras' = extras + 1
      /\ Data(Segment(off, len), FALSE)
      /\ phase' = phase /\ opens' = opens /\ isn' = isn /\ window' = window /\ next' = next
      /\ misses' = misses
  BY DEF SendAgain, Extra
<1>2. /\ off + len <= Length + 1 /\ next' \in 1 .. Length + 1
      /\ extras' \in 0 .. MaxExtras /\ extras <= extras' /\ misses' \in BOOLEAN
  BY <1>1, Sizes DEF EntryInv, TypeOK
<1> QED
  BY <1>1, <1>2, SentStep

LEMMA LoseStep ==
    ASSUME EntryInv, RetransmissionsAreTold, NEW len \in 1 .. MaxSegment, LoseBefore(len)
    PROVE  Kept
<1>1. TypeOK
  BY DEF EntryInv
<1>2. /\ phase = "open" /\ next + len - 1 <= Length /\ extras < MaxExtras /\ extras' = extras + 1
      /\ next' = next + len /\ phase' = phase /\ opens' = opens /\ isn' = isn /\ window' = window
      /\ misses' = misses /\ arrived' = arrived /\ Missed /\ client' = client
  BY DEF LoseBefore, Extra, Missed, entry
<1>3. Left /\ Entered /\ Stays /\ high' = high /\ born' = born
  BY <1>2, MissedStep
<1>4. EndsTyped
  BY <1>1, <1>2, <1>3, Sizes DEF EndsTyped, TypeOK
<1>5. RetransmissionsAreTold'
  BY <1>2, <1>3 DEF RetransmissionsAreTold
<1> QED
  BY <1>2, <1>3, <1>4, <1>5, Enough DEF Kept, Moves

LEMMA SynAgainStep ==
    ASSUME EntryInv, RetransmissionsAreTold, SynAgain
    PROVE  Kept
<1>1. TypeOK /\ isn \in SeqNums
  BY DEF EntryInv, TypeOK
<1>2. /\ phase # "closed" /\ extras < MaxExtras /\ extras' = extras + 1
      /\ TrackSyn(isn) /\ high' = 0 /\ born' = opens
      /\ phase' = phase /\ opens' = opens /\ isn' = isn /\ window' = window /\ next' = next
      /\ misses' = misses /\ arrived' = arrived
  BY DEF SynAgain, Extra
<1>3. Left /\ Entered /\ client'.uppos = isn /\ (Stays \/ Forgets \/ Leaves)
  BY <1>1, <1>2, SynStep
<1>4. EndsTyped
  BY <1>1, <1>2, Sizes DEF EndsTyped, TypeOK
<1>5. Plus(isn, 0) = isn
  BY <1>1, PlusIs, Sizes DEF SeqNums
<1>6. RetransmissionsAreTold'
  BY <1>2, <1>3, <1>5 DEF RetransmissionsAreTold
<1> QED
  BY <1>2, <1>3, <1>4, <1>6, Enough DEF Kept, Moves

LEMMA SynAckAgainStep ==
    ASSUME EntryInv, RetransmissionsAreTold, SynAckAgain
    PROVE  Kept
<1>1. TypeOK
  BY DEF EntryInv
<1>2. /\ phase = "open" /\ extras < MaxExtras /\ extras' = extras + 1
      /\ TrackSynAck(window)
      /\ phase' = phase /\ opens' = opens /\ isn' = isn /\ window' = window /\ next' = next
      /\ misses' = misses /\ arrived' = arrived
  BY DEF SynAckAgain, Extra
<1>3. /\ Left /\ Entered /\ (Stays \/ Forgets \/ Leaves)
      /\ \/ born' = 0 /\ high' = 0
         \/ born' = born /\ high' = high /\ client'.uppos = client.uppos
  BY <1>1, <1>2, SynAckStep DEF TypeOK
<1>4. EndsTyped
  BY <1>1, <1>2, <1>3, Sizes DEF EndsTyped, TypeOK
<1>5. RetransmissionsAreTold'
  BY <1>2, <1>3 DEF RetransmissionsAreTold
<1> QED
  BY <1>2, <1>3, <1>4, <1>5, Enough DEF Kept, Moves

LEMMA ClientControlStep ==
    ASSUME EntryInv, RetransmissionsAreTold, NEW fin \in BOOLEAN, ClientControl(fin)
    PROVE  Kept
<1>1. TypeOK
  BY DEF EntryInv
<1>2. /\ phase = "open" /\ state # "none" /\ phase' = (IF fin THEN "closed" ELSE phase)
      /\ state' = Onward(fin) /\ client' = ApplyPos(client, Onward(fin), Plus(isn, next), 0)
      /\ AfterControl(found, reasm, delayed)
      /\ server' = server /\ opens' = opens /\ isn' = isn /\ window' = window /\ next' = next
      /\ extras' = extras /\ misses' = misses /\ arrived' = arrived /\ high' = high /\ born' = born
  BY DEF ClientControl
<1>3. Left /\ state' \in {"ESTABLISHED", "FIN"} /\ (Stays \/ Leaves)
  BY <1>2, OnwardStep
<1>4. client \in Positions /\ isn \in SeqNums /\ next \in Nat /\ server \in Windows \cup {0}
  BY <1>1, Sizes DEF TypeOK
<1>5. Plus(isn, next) \in SeqNums
  BY <1>4, InSpace
<1>6. client' \in Positions
  BY <1>2, <1>4, <1>5, ApplyPosType
<1>7. client'.uppos = client.uppos
  BY <1>2, <1>3, <1>4 DEF ApplyPos, Positions
<1>8. Entered
  BY <1>2, <1>3, <1>4, <1>6 DEF Entered, States
<1>9. EndsTyped
  BY <1>1, <1>2, Sizes DEF EndsTyped, TypeOK
<1>10. RetransmissionsAreTold'
  BY <1>2, <1>7 DEF RetransmissionsAreTold
<1> QED
  BY <1>2, <1>3, <1>8, <1>9, <1>10, Enough DEF Kept, Moves

LEMMA ServerControlStep ==
    ASSUME EntryInv, RetransmissionsAreTold, NEW fin \in BOOLEAN, ServerControl(fin)
    PROVE  Kept
<1>1. TypeOK
  BY DEF EntryInv
<1>2. /\ phase = "open" /\ state # "none" /\ phase' = (IF fin THEN "closed" ELSE phase)
      /\ state' = Onward(fin) /\ client' = Acknowledge(client, Plus(isn, Delivered + 1))
      /\ AfterControl(found, reasm, delayed)
      /\ server' = window /\ opens' = opens /\ isn' = isn /\ window' = window /\ next' = next
      /\ extras' = extras /\ misses' = misses /\ arrived' = arrived /\ high' = high /\ born' = born
  BY DEF ServerControl
<1>3. Left /\ state' \in {"ESTABLISHED", "FIN"} /\ (Stays \/ Leaves)
  BY <1>2, OnwardStep
<1>4. client \in Positions /\ isn \in SeqNums /\ window \in Windows \cup {0}
  BY <1>1 DEF TypeOK
<1>5. Plus(isn, Delivered + 1) \in SeqNums
  <2>1. Delivered \in Nat
    BY <1>1, DeliveredType
  <2>2. Delivered + 1 \in Nat
    BY <2>1
  <2> QED
    BY <1>4, <2>2, InSpace
<1>6. client' \in Positions /\ client'.uppos = client.uppos
  BY <1>2, <1>4, <1>5, AcknowledgeType
<1>7. Entered
  BY <1>2, <1>3, <1>4, <1>6 DEF Entered, States
<1>8. EndsTyped
  BY <1>1, <1>2, Sizes DEF EndsTyped, TypeOK
<1>9. RetransmissionsAreTold'
  BY <1>2, <1>6 DEF RetransmissionsAreTold
<1> QED
  BY <1>2, <1>3, <1>7, <1>8, <1>9, Enough DEF Kept, Moves

LEMMA PurgeStep ==
    ASSUME EntryInv, RetransmissionsAreTold, Purge
    PROVE  Kept
<1>1. TypeOK
  BY DEF EntryInv
<1>2. /\ state' = "none" /\ client' = NoPosition /\ server' = 0 /\ found' = NotSearched
      /\ reasm' = Idle /\ delayed' = <<>> /\ high' = 0 /\ born' = 0 /\ decisions' = <<>>
      /\ phase' = phase /\ opens' = opens /\ isn' = isn /\ window' = window /\ next' = next
      /\ extras' = extras /\ misses' = misses /\ arrived' = arrived /\ released' = released /\ got' = got
  BY DEF Purge, ends
<1>3. Holding(state', found', reasm', delayed')
  BY <1>2, IdleType, HoldingNothing
<1>4. Left
  BY <1>1, <1>2, <1>3, IdleType DEF Left, TypeOK
<1>5. Entered
  BY <1>2, IdleType DEF Entered, States
<1>6. EndsTyped
  BY <1>1, <1>2, Sizes DEF EndsTyped, TypeOK
<1>7. RetransmissionsAreTold'
  BY <1>2 DEF RetransmissionsAreTold
<1> QED
  BY <1>2, <1>4, <1>5, <1>6, <1>7, Enough DEF Kept, Moves, Forgets

LEMMA Steps ==
    ASSUME EntryInv, RetransmissionsAreTold, Next
    PROVE  Kept
<1>1. CASE \E i \in Isns : Open(i)
  BY <1>1, OpenStep
<1>2. CASE \E w \in Windows : Accept(w)
  BY <1>2, AcceptStep
<1>3. ASSUME NEW len \in 1 .. MaxSegment,
             \/ \E fin \in BOOLEAN : Send(len, fin)
             \/ \E off \in 1 .. Length : SendAgain(off, len)
             \/ LoseBefore(len)
      PROVE  Kept
  BY <1>3, SendStep, SendAgainStep, LoseStep
<1>4. CASE SynAgain \/ SynAckAgain
  BY <1>4, SynAgainStep, SynAckAgainStep
<1>5. CASE \E fin \in BOOLEAN : ClientControl(fin) \/ ServerControl(fin)
  BY <1>5, ClientControlStep, ServerControlStep
<1>6. CASE Purge
  BY <1>6, PurgeStep
<1> QED
  BY <1>1, <1>2, <1>3, <1>4, <1>5, <1>6 DEF Next

LEMMA Beginning ==
    ASSUME Init
    PROVE  EntryInv /\ RetransmissionsAreTold
<1>1. 0 \in SeqNums
  BY Sizes DEF SeqNums
<1>2. TypeOK
  BY <1>1, IdleType, Sizes DEF Init, TypeOK, States
<1>3. Holding(state, found, reasm, delayed)
  BY IdleType, HoldingNothing DEF Init
<1> QED
  BY <1>2, <1>3, EntryIs DEF Init, RetransmissionsAreTold

LEMMA Stuttering ==
    ASSUME EntryInv, RetransmissionsAreTold, UNCHANGED vars
    PROVE  EntryInv' /\ RetransmissionsAreTold'
<1>1. TypeOK /\ Holding(state, found, reasm, delayed)
  BY EntryIs
<1>2. TypeOK'
  BY <1>1, SegmentsAre DEF TypeOK, vars, entry, ends, observed
<1>3. Holding(state', found', reasm', delayed')
  BY <1>1 DEF vars, entry
<1> QED
  BY <1>2, <1>3, EntryIsNext DEF RetransmissionsAreTold, vars, entry, ends, observed

(* What an entry holds is the beginning of one ClientHello, in pieces, all *)
(* of them held back and no more: EntryInv, for any traffic of the client  *)
(* (desync.c 521-603, 1434-1626, and ReasmFeed).                           *)
THEOREM PiecesHeld == Spec => []EntryInv
<1>1. Init => EntryInv /\ RetransmissionsAreTold
  BY Beginning
<1>2. EntryInv /\ RetransmissionsAreTold /\ [Next]_vars => EntryInv' /\ RetransmissionsAreTold'
  BY Steps, Stuttering DEF Kept
<1> QED
  BY <1>1, <1>2, PTL DEF Spec

(* Retransmissions are told from new data across the wrap (ConntrackApplyPos, *)
(* is_retransmission).                                                     *)
THEOREM RetransmissionsTold == Spec => []RetransmissionsAreTold
<1>1. Init => EntryInv /\ RetransmissionsAreTold
  BY Beginning
<1>2. EntryInv /\ RetransmissionsAreTold /\ [Next]_vars => EntryInv' /\ RetransmissionsAreTold'
  BY Steps, Stuttering DEF Kept
<1> QED
  BY <1>1, <1>2, PTL DEF Spec

(* Both, of the tracker's entry.                                           *)
THEOREM EntryHolds == Spec => []TrackerInv
  BY PiecesHeld, RetransmissionsTold, PTL DEF TrackerInv

-----------------------------------------------------------------------------
(* The filter implements PacketPath                                        *)

LEMMA SeqGrows ==
    ASSUME NEW A, NEW B, A \subseteq B
    PROVE  Seq(A) \subseteq Seq(B)
OBVIOUS

LEMMA OneLong ==
    ASSUME NEW A, NEW s \in Seq(A), Len(s) = 1, NEW x \in A, s[1] = x
    PROVE  s = <<x>>
<1>1. <<x>> \in Seq(A) /\ Len(<<x>>) = 1 /\ <<x>>[1] = x
  OBVIOUS
<1>2. \A i \in 1 .. Len(s) : s[i] = <<x>>[i]
  BY <1>1
<1> QED
  BY <1>1, <1>2, SeqEqual

LEMMA PathTakes ==
    ASSUME EntryInv, arrived' = arrived + 1, NEW p \in SegmentsTo(arrived + 1), p.id = arrived + 1, Takes(p)
    PROVE  Path!Take
<1> DEFINE held == Ids(delayed)
           all == Append(held, arrived + 1)
           S == 1 .. arrived + 1
<1>1. arrived \in Nat /\ arrived + 1 \in Nat
  BY DEF EntryInv, TypeOK
<1>2. delayed \in Seq(SegmentsTo(arrived + 1)) /\ <<p>> \in Seq(SegmentsTo(arrived + 1))
        /\ <<>> \in Seq(SegmentsTo(arrived + 1)) /\ released \in Seq(S)
  <2>1. released \in Seq(1 .. arrived) /\ 1 .. arrived \subseteq S
    BY <1>1 DEF EntryInv, TypeOK
  <2>2. released \in Seq(S)
    BY <2>1, SeqGrows
  <2>3. /\ delayed \in Seq(SegmentsTo(arrived + 1)) /\ <<p>> \in Seq(SegmentsTo(arrived + 1))
        /\ <<>> \in Seq(SegmentsTo(arrived + 1))
    BY HeldType
  <2> QED
    BY <2>2, <2>3
<1>3. held \in Seq(S) /\ Ids(<<p>>) = <<arrived + 1>> /\ Ids(<<>>) = <<>>
  BY <1>1, <1>2, IdsType, IdsOne DEF Ids
<1>4. Ids(Append(delayed, p)) = all
  <2>1. Append(delayed, p) = delayed \o <<p>>
    BY <1>2, AppendIsConcat
  <2>2. Ids(delayed \o <<p>>) = held \o <<arrived + 1>>
    BY <1>2, <1>3, IdsConcat
  <2> HIDE DEF held
  <2>3. held \o <<arrived + 1>> = Append(held, arrived + 1)
    BY <1>1, <1>3, AppendIsConcat
  <2> QED
    BY <2>1, <2>2, <2>3
<1>5. all \in Seq(S) /\ Len(all) = Len(held) + 1 /\ Len(held) \in Nat /\ arrived + 1 \in S
        /\ all[Len(held) + 1] = arrived + 1 /\ \A i \in 1 .. Len(held) : all[i] = held[i]
  <2> HIDE DEF held
  <2>1. arrived + 1 \in S
    BY <1>1
  <2> QED
    BY <1>3, <2>1, AppendProperties
<1>6. /\ SubSeq(all, 1, 0) = <<>> /\ SubSeq(all, 1, Len(held) + 1) = all
      /\ SubSeq(all, Len(held) + 2, Len(all)) = <<>>
  <2> HIDE DEF held, all, S
  <2>1. SubSeq(all, 1, Len(all)) = all
    BY <1>5, SubSeqFull
  <2> QED
    BY <1>5, <2>1, SubSeqEmpty
<1>7. SubSeq(all, 1, Len(held)) = held /\ SubSeq(all, Len(held) + 1, Len(all)) = <<arrived + 1>>
  <2> HIDE DEF held, all, S
  <2>1. SubSeq(all, 1, Len(held)) \in Seq(S) /\ Len(SubSeq(all, 1, Len(held))) = Len(held)
          /\ \A i \in 1 .. Len(held) : SubSeq(all, 1, Len(held))[i] = held[i]
    BY <1>5
  <2>2. SubSeq(all, 1, Len(held)) = held
    BY <1>3, <2>1, SeqEqual
  <2>3. \A i \in Len(held) + 1 .. Len(held) + 1 : all[i] \in S
    BY <1>5
  <2>4. /\ SubSeq(all, Len(held) + 1, Len(held) + 1) \in Seq(S)
        /\ Len(SubSeq(all, Len(held) + 1, Len(held) + 1)) = 1
        /\ SubSeq(all, Len(held) + 1, Len(held) + 1)[1] = arrived + 1
    BY <1>5, <2>3, SubSeqProperties
  <2>5. SubSeq(all, Len(held) + 1, Len(held) + 1) = <<arrived + 1>>
    BY <1>5, <2>4, OneLong
  <2>6. SubSeq(all, Len(held) + 1, Len(all)) = <<arrived + 1>>
    BY <1>5, <2>5
  <2> QED
    BY <2>2, <2>6
<1>8. CASE delayed' = Append(delayed, p) /\ released' = released
  <2>1. Ids(delayed') = SubSeq(all, 0 + 1, Len(all))
    <3> HIDE DEF held, all, S
    <3>1. SubSeq(all, 1, Len(all)) = all
      BY <1>5, SubSeqFull
    <3>2. 0 + 1 = 1
      OBVIOUS
    <3> QED
      BY <1>4, <1>8, <3>1, <3>2, Zenon
  <2>2. released' = released \o SubSeq(all, 1, 0)
    BY <1>2, <1>6, <1>8, ConcatEmptySeq
  <2>3. 0 \in 0 .. Len(held) + 1
    BY <1>5
  <2> QED
    BY <2>1, <2>2, <2>3 DEF Path!Take
<1>9. CASE delayed' = <<p>> /\ released' = released \o Ids(delayed)
  <2>1. Ids(delayed') = SubSeq(all, Len(held) + 1, Len(all)) /\ released' = released \o SubSeq(all, 1, Len(held))
    BY <1>3, <1>7, <1>9
  <2>2. Len(held) \in 0 .. Len(held) + 1
    BY <1>5
  <2> QED
    BY <2>1, <2>2 DEF Path!Take
<1>10. CASE delayed' = <<>> /\ released' = released \o Ids(Append(delayed, p))
  <2>1. Ids(delayed') = SubSeq(all, (Len(held) + 1) + 1, Len(all))
    <3> HIDE DEF held, all, S
    <3>1. (Len(held) + 1) + 1 = Len(held) + 2
      BY <1>5
    <3> QED
      BY <1>3, <1>6, <1>10, <3>1, Zenon
  <2>2. released' = released \o SubSeq(all, 1, Len(held) + 1)
    BY <1>4, <1>6, <1>10
  <2>3. Len(held) + 1 \in 0 .. Len(held) + 1
    BY <1>5
  <2> QED
    BY <2>1, <2>2, <2>3 DEF Path!Take
<1> QED
  BY <1>8, <1>9, <1>10 DEF Takes

LEMMA PathSteps ==
    ASSUME EntryInv, Moves
    PROVE  [Path!Next]_Path!vars
<1>1. delayed \in Seq(SegmentsTo(arrived)) /\ arrived \in Nat /\ Ids(<<>>) = <<>>
  BY SegmentsAre DEF EntryInv, TypeOK, Ids
<1>2. Len(Ids(delayed)) = Len(delayed) /\ Ids(delayed) \in Seq(1 .. arrived)
  BY <1>1, IdsType
<1>3. delayed # <<>> => Ids(delayed) # <<>>
  BY <1>1, <1>2
<1>4. CASE arrived' = arrived /\ Stays
  BY <1>4 DEF Stays, Path!vars
<1>5. CASE arrived' = arrived /\ Forgets
  <2>1. CASE delayed = <<>>
    BY <1>5, <2>1 DEF Forgets, Path!vars
  <2>2. CASE delayed # <<>>
    BY <1>1, <1>3, <1>5, <2>2 DEF Forgets, Path!Next, Path!Forget
  <2> QED
    BY <2>1, <2>2
<1>6. CASE arrived' = arrived /\ Leaves
  BY <1>1, <1>3, <1>6 DEF Leaves, Path!Next, Path!Flush
<1>7. CASE arrived' = arrived + 1 /\ \E p \in SegmentsTo(arrived + 1) : p.id = arrived + 1 /\ Takes(p)
  BY <1>7, PathTakes DEF Path!Next
<1> QED
  BY <1>4, <1>5, <1>6, <1>7 DEF Moves

(* The client's data leaves in the order it came, none of it twice and     *)
(* none left behind but with the entry that held it, whatever profiles and *)
(* lists say (dpi_desync_tcp_packet_play, replay_queue, reasm_feed).       *)
THEOREM OrderKept == Spec => KeepsOrder
<1>1. Init => Path!Init
  BY DEF Init, Path!Init, Ids
<1>2. EntryInv /\ RetransmissionsAreTold /\ [Next]_vars => [Path!Next]_Path!vars
  <2>1. EntryInv /\ RetransmissionsAreTold /\ Next => [Path!Next]_Path!vars
    BY Steps, PathSteps DEF Kept
  <2>2. UNCHANGED vars => UNCHANGED Path!vars
    BY DEF vars, entry, observed, Path!vars
  <2> QED
    BY <2>1, <2>2
<1> QED
  BY <1>1, <1>2, PiecesHeld, RetransmissionsTold, PTL DEF Spec, KeepsOrder, Path!Spec

-----------------------------------------------------------------------------
(* One decision                                                            *)

Alike(d) == \A i, j \in DOMAIN d : d[i] # "flushed" /\ d[j] # "flushed" => d[i] = d[j]

(* What is flushed and what is decided the same way are alike together.    *)
LEMMA AlikeAfterFlush ==
    ASSUME NEW S, NEW h \in Seq(S), NEW d \in Seq(Decisions), NEW x, \A i \in DOMAIN d : d[i] = x
    PROVE  Alike(Flush(h) \o d)
<1> DEFINE all == Flush(h) \o d
<1>1. Flush(h) \in Seq(Decisions) /\ Len(Flush(h)) = Len(h) /\ \A i \in 1 .. Len(h) : Flush(h)[i] = "flushed"
  BY FlushType DEF Flush
<1>2. /\ all \in Seq(Decisions) /\ Len(all) = Len(h) + Len(d)
      /\ \A i \in 1 .. Len(all) : all[i] = IF i <= Len(h) THEN "flushed" ELSE d[i - Len(h)]
  <2>1. /\ all \in Seq(Decisions) /\ Len(all) = Len(Flush(h)) + Len(d)
        /\ \A i \in 1 .. Len(Flush(h)) + Len(d) :
              all[i] = IF i <= Len(Flush(h)) THEN Flush(h)[i] ELSE d[i - Len(Flush(h))]
    BY <1>1, ConcatProperties
  <2>2. Len(h) \in Nat
    OBVIOUS
  <2> HIDE DEF all
  <2> QED
    BY <1>1, <2>1, <2>2
<1>3. Len(h) \in Nat /\ Len(d) \in Nat /\ DOMAIN d = 1 .. Len(d) /\ DOMAIN all = 1 .. Len(all)
  BY <1>2
<1>4. \A i \in DOMAIN all : all[i] # "flushed" => all[i] = x
  <2> HIDE DEF all
  <2> TAKE i \in DOMAIN all
  <2>1. CASE i <= Len(h)
    BY <1>2, <1>3, <2>1
  <2>2. CASE ~(i <= Len(h))
    <3>1. i - Len(h) \in DOMAIN d
      BY <1>2, <1>3, <2>2
    <3> QED
      BY <1>2, <1>3, <2>2, <3>1
  <2> QED
    BY <2>1, <2>2
<1> QED
  BY <1>4 DEF Alike

LEMMA AlikeAlone ==
    /\ Alike(<<>>)
    /\ \A x : Alike(<<x>>)
    /\ \A S : \A h \in Seq(S) : Alike(Flush(h))
  BY DEF Alike, Flush

LEMMA ControlAlike ==
    ASSUME NEW f, NEW r, NEW S, NEW h \in Seq(S), AfterControl(f, r, h)
    PROVE  Alike(decisions')
<1>1. decisions' = Flush(h) \/ decisions' = <<>>
  BY DEF AfterControl, Leave
<1> QED
  BY <1>1, AlikeAlone

LEMMA DataAlike ==
    ASSUME EntryInv, NEW p \in SegmentsTo(arrived + 1), NEW fin \in BOOLEAN, Data(p, fin)
    PROVE  Alike(decisions')
<1>1. /\ found \in Searches /\ delayed \in Seq(SegmentsTo(arrived + 1))
      /\ Held(p) \in Seq(SegmentsTo(arrived + 1)) /\ SentAway(p) \in Seq(SegmentsTo(arrived + 1))
      /\ Append(Held(p), p) \in Seq(SegmentsTo(arrived + 1)) /\ <<>> \in Seq(SegmentsTo(arrived + 1))
  BY HeldType DEF EntryInv, TypeOK
<1>2. CASE DataUntracked(p) \/ DataUnmatched(p, fin)
  <2>1. \E x : decisions' = <<x>>
    BY <1>2 DEF DataUntracked, DataUnmatched, Leave
  <2> QED
    BY <2>1, AlikeAlone
<1>3. CASE DataDelayed(p, fin)
  <2>1. decisions' = Flush(SentAway(p))
    BY <1>3 DEF DataDelayed, Leave
  <2> QED
    BY <1>1, <2>1, AlikeAlone
<1>4. CASE DataCompletes(p, fin)
  <2> DEFINE n == Len(Append(Held(p), p))
             f(a) == Probed(Searched(found, a.first), p)
             how(a) == [i \in 1 .. n |-> IF Applies(Replayed(f(a), a, n)[i]) THEN "desync" ELSE "plain"]
  <2>1. PICK a \in Answers : decisions' = Flush(SentAway(p)) \o how(a)
    BY <1>4 DEF DataCompletes, Leave
  <2>2. n \in Nat
    BY <1>1
  <2>3. f(a) \in Searches
    <3>1. a.first \in Profiles
      BY DEF Answers
    <3> QED
      BY <1>1, <3>1, SearchedType, ProbedType
  <2> HIDE DEF n, f
  <2> DEFINE x == IF Applies(Decide(f(a), a)) THEN "desync" ELSE "plain"
  <2>4. \A i \in DOMAIN how(a) : how(a)[i] = x
    BY <2>2, <2>3, ReplayedAlike
  <2>5. how(a) \in Seq(Decisions)
    BY <2>2 DEF Decisions
  <2> HIDE DEF how, x
  <2> QED
    BY <1>1, <2>1, <2>4, <2>5, AlikeAfterFlush
<1>5. CASE DataPassed(p, fin)
  <2> DEFINE cancelled(o) == WithSegment(p).size > 0 \/ ~Applies(o.found) \/ ~IsHello(p)
             away(o) == SentAway(p) \o (IF cancelled(o) THEN Held(p) ELSE <<>>)
             one(o) == IF Applies(o.found) THEN "desync" ELSE "plain"
  <2>1. PICK o : decisions' = Append(Flush(away(o)), one(o))
    BY <1>5 DEF DataPassed, Leave
  <2>2. away(o) \in Seq(SegmentsTo(arrived + 1))
    <3>1. (IF cancelled(o) THEN Held(p) ELSE <<>>) \in Seq(SegmentsTo(arrived + 1))
      BY <1>1
    <3> QED
      BY <1>1, <3>1, ConcatProperties
  <2>3. <<one(o)>> \in Seq(Decisions) /\ \A i \in DOMAIN <<one(o)>> : <<one(o)>>[i] = one(o)
    BY DEF Decisions
  <2>4. Append(Flush(away(o)), one(o)) = Flush(away(o)) \o <<one(o)>>
    <3>1. Flush(away(o)) \in Seq(Decisions) /\ one(o) \in Decisions
      BY <2>2, FlushType DEF Decisions
    <3> QED
      BY <3>1, AppendIsConcat
  <2> HIDE DEF away, one
  <2> QED
    BY <2>1, <2>2, <2>3, <2>4, AlikeAfterFlush
<1> QED
  BY <1>2, <1>3, <1>4, <1>5 DEF Data

LEMMA AlikeSteps ==
    ASSUME EntryInv, Next
    PROVE  Alike(decisions')
<1>1. delayed \in Seq(Segments) /\ <<>> \in Seq(Segments) /\ isn \in SeqNums /\ arrived \in Nat
  BY DEF EntryInv, TypeOK
<1>2. ASSUME NEW i, TrackSyn(i) PROVE Alike(decisions')
  BY <1>1, <1>2, ControlAlike DEF TrackSyn
<1>3. ASSUME NEW w, TrackSynAck(w) PROVE Alike(decisions')
  BY <1>1, <1>3, ControlAlike DEF TrackSynAck
<1>4. ASSUME Missed PROVE Alike(decisions')
  BY <1>4, AlikeAlone DEF Missed
<1>5. ASSUME NEW len \in 1 .. MaxSegment, NEW fin \in BOOLEAN, Send(len, fin) PROVE Alike(decisions')
  <2>1. /\ Data(Segment(next, len), fin) /\ opens > 0
        /\ next \in 1 .. Length /\ next + len <= Length + 1
    BY <1>5, Sizes DEF Send, EntryInv, TypeOK
  <2>2. Segment(next, len) \in SegmentsTo(arrived + 1)
    BY <2>1, SegmentType
  <2> QED
    BY <2>1, <2>2, DataAlike
<1>6. ASSUME NEW len \in 1 .. MaxSegment, NEW off \in 1 .. Length, SendAgain(off, len) PROVE Alike(decisions')
  <2>1. Data(Segment(off, len), FALSE) /\ opens > 0 /\ off + len <= next
    BY <1>6 DEF SendAgain
  <2>2. off + len <= Length + 1
    BY <2>1, Sizes DEF EntryInv, TypeOK
  <2>3. Segment(off, len) \in SegmentsTo(arrived + 1)
    BY <2>1, <2>2, SegmentType
  <2> QED
    BY <2>1, <2>3, DataAlike
<1>7. ASSUME NEW len, LoseBefore(len) PROVE Alike(decisions')
  BY <1>7, AlikeAlone DEF LoseBefore
<1>8. ASSUME NEW fin, ClientControl(fin) \/ ServerControl(fin) PROVE Alike(decisions')
  BY <1>1, <1>8, ControlAlike DEF ClientControl, ServerControl
<1>9. CASE Purge
  BY <1>9, AlikeAlone DEF Purge
<1>10. CASE (\E i \in Isns : Open(i)) \/ (\E w \in Windows : Accept(w)) \/ SynAgain \/ SynAckAgain
  BY <1>2, <1>3, <1>4, <1>10 DEF Open, Accept, SynAgain, SynAckAgain
<1> QED
  BY <1>5, <1>6, <1>7, <1>8, <1>9, <1>10 DEF Next

(* The segments of one hello that leave together meet one decision, though *)
(* the first of them may change the profile under the others, and what     *)
(* leaves undecided was cancelled (replay_queue, desync.c 1434-1626).      *)
THEOREM DecidedOnce == Spec => OneDecision
<1>1. EntryInv /\ [Next]_vars => [Alike(decisions')]_vars
  BY AlikeSteps
<1>2. [Alike(decisions')]_vars
        => [\A i, j \in DOMAIN decisions' :
              decisions'[i] # "flushed" /\ decisions'[j] # "flushed" => decisions'[i] = decisions'[j]]_vars
  BY DEF Alike
<1> QED
  BY <1>1, <1>2, PiecesHeld, PTL DEF Spec, OneDecision
=============================================================================
