------------------------------ MODULE QuicProofs ------------------------------
(***************************************************************************)
(* Proofs about QuicDefrag, QuicReassembly and the two together,           *)
(* QuicInitials, for every size of the buffers and the queue and every     *)
(* sequence of frames.                                                     *)
(***************************************************************************)
EXTENDS QuicInitials, ProfileSearchProofs,
        FiniteSetTheorems, SequenceTheorems, TLAPS

(***************************************************************************)
(* QuicDefrag.                                                             *)
(***************************************************************************)

\* The bytes the first n frames carry.
CoveredTo(fs, n) == UNION {Positions(p) : p \in PiecesTo(fs, n)}

\* n is where the last of the pieces in S ends, or 0.
Ends(S, n) == (\A p \in S : End(p) <= n) /\ (IF S = {} THEN n = 0 ELSE \E p \in S : End(p) = n)

\* The buffer, up to n, where the bytes in C have been written.
BufferInv(C, n) == \A x \in 0 .. n - 1 : buffer[x] = IF x \in C THEN "data" ELSE "zero"

\* While frames are read: the ranges are the pieces read, each once.
ScanInv ==
    /\ i = 2 /\ j = 1
    /\ \A p : p \in PiecesTo(frames, done) <=> \E k \in DOMAIN ranges : ranges[k] = p
    /\ IsFiniteSet(PiecesTo(frames, done)) /\ Cardinality(PiecesTo(frames, done)) = Len(ranges)
    /\ \A k \in 1 .. done : ~Refuses(frames, k)
    /\ Ends(PiecesTo(frames, done), szmax) /\ zeropos = szmax
    /\ BufferInv(CoveredTo(frames, done), szmax)

\* The ranges merged so far, and those still to be merged.
Live == (1 .. j) \cup (i .. Len(ranges))

\* While they are merged: the live ranges cover what the pieces cover; the
\* merged ones leave gaps between them, and the others follow the last one.
MergeInv ==
    /\ ranges # <<>> /\ j < i /\ i <= Len(ranges) + 1
    /\ \A x \in Nat : x \in Covered(frames) <=> \E k \in Live : x \in Positions(ranges[k])
    /\ \A k \in Live : End(ranges[k]) <= szmax
    /\ \E k \in Live : End(ranges[k]) = szmax
    /\ \A k, m \in 1 .. j : k < m => End(ranges[k]) < ranges[m].off
    /\ \A m \in i .. Len(ranges) : ranges[j].off <= ranges[m].off
    /\ \A k, m \in i .. Len(ranges) : k < m => ranges[k].off <= ranges[m].off

\* Once all are read.
ReadInv ==
    /\ Parses(frames) /\ IsTop(frames, szmax)
    /\ BufferInv(Covered(frames), szmax)

DIInv ==
    /\ DefragTypeOK
    /\ phase = "scan" => ScanInv
    /\ phase = "merge" => ReadInv /\ MergeInv
    /\ phase = "done" => ReadInv /\ (bFull <=> \A x \in 0 .. szmax - 1 : x \in Covered(frames))
    /\ phase = "failed" => ~Parses(frames)

(* The stream's end is where the last piece ends.                          *)
LEMMA TopIs ==
    ASSUME NEW fs, NEW n \in 0 .. Space, IsTop(fs, n), \A p \in Pieces(fs) : End(p) \in Nat
    PROVE  Top(fs) = n
<1>1. IsTop(fs, Top(fs)) /\ Top(fs) \in 0 .. Space
  <2> HIDE DEF IsTop
  <2> QED BY DEF Top
<1>2. Top(fs) <= n /\ n <= Top(fs)
  BY <1>1 DEF IsTop
<1> QED
  BY <1>1, <1>2, FramesAssumption

LEMMA PiecesType ==
    ASSUME NEW fs \in Seq(Frames), NEW n \in 0 .. Len(fs)
    PROVE  \A p \in PiecesTo(fs, n) : p \in Ranges /\ End(p) \in Nat
<1> SUFFICES ASSUME NEW p \in PiecesTo(fs, n) PROVE p \in Ranges /\ End(p) \in Nat
  OBVIOUS
<1>1. PICK k \in 1 .. n : p = [off |-> fs[k].off, len |-> fs[k].len]
  BY DEF PiecesTo
<1>2. fs[k] \in Frames
  OBVIOUS
<1> QED
  BY <1>1, <1>2 DEF Frames, Ranges, End

(* The pieces of one frame more.                                           *)
LEMMA NextPiece ==
    ASSUME NEW fs \in Seq(Frames), NEW n \in 0 .. Len(fs) - 1
    PROVE  /\ fs[n + 1].kind # "crypto" => PiecesTo(fs, n + 1) = PiecesTo(fs, n)
           /\ fs[n + 1].kind = "crypto" =>
                PiecesTo(fs, n + 1) = PiecesTo(fs, n) \cup {[off |-> fs[n + 1].off, len |-> fs[n + 1].len]}
<1>1. 1 .. n + 1 = (1 .. n) \cup {n + 1}
  OBVIOUS
<1> QED
  BY <1>1, Zenon DEF PiecesTo

(* What DIInv says of the runs' properties.                                *)
LEMMA DIInvImplies == DIInv => AnswersAsDefined /\ NoGapsUninitialized
<1> SUFFICES ASSUME DIInv PROVE AnswersAsDefined /\ NoGapsUninitialized
  OBVIOUS
<1>1. phase = "done" => szmax = Top(frames)
  <2> SUFFICES ASSUME phase = "done" PROVE szmax = Top(frames)
    OBVIOUS
  <2>1. frames \in Seq(Frames) /\ szmax \in 0 .. Space /\ IsTop(frames, szmax)
    BY DEF DIInv, DefragTypeOK, ReadInv
  <2>2. \A p \in Pieces(frames) : End(p) \in Nat
    BY <2>1, PiecesType, Len(frames) \in 0 .. Len(frames) DEF Pieces
  <2> QED
    BY <2>1, <2>2, TopIs
<1>2. AnswersAsDefined
  BY <1>1 DEF DIInv, AnswersAsDefined, ReadInv, Full
<1>3. NoGapsUninitialized
  BY DEF DIInv, NoGapsUninitialized, ReadInv, BufferInv
<1> QED
  BY <1>2, <1>3

LEMMA FreshInv == frames \in Seq(Frames) /\ Fresh => DIInv
<1> SUFFICES ASSUME frames \in Seq(Frames), Fresh PROVE DIInv
  OBVIOUS
<1>1. frames \in Seq(Frames)
  OBVIOUS
<1>2. DefragTypeOK
  <2>1. ranges \in Seq(Ranges) /\ done \in 0 .. Len(frames)
    BY <1>1 DEF Fresh
  <2>2. buffer \in [0 .. Space - 1 -> {"raw", "zero", "data"}]
    BY DEF Fresh
  <2>3. zeropos \in 0 .. Space /\ szmax \in 0 .. Space
    BY FramesAssumption DEF Fresh
  <2>4. i \in Nat \ {0} /\ j \in Nat \ {0} /\ phase \in {"scan", "merge", "done", "failed"}
    BY DEF Fresh
  <2>5. bFull \in BOOLEAN
    BY Zenon DEF Fresh
  <2> QED BY <1>1, <2>1, <2>2, <2>3, <2>4, <2>5, Zenon DEF DefragTypeOK
<1>3. PiecesTo(frames, 0) = {} /\ PiecesTo(frames, done) = {}
  BY DEF Fresh, PiecesTo
<1>4. ScanInv
  <2>1. \A p : p \in PiecesTo(frames, done) <=> \E k \in DOMAIN ranges : ranges[k] = p
    BY <1>3 DEF Fresh
  <2>2. IsFiniteSet(PiecesTo(frames, done)) /\ Cardinality(PiecesTo(frames, done)) = Len(ranges)
    BY <1>3, FS_EmptySet DEF Fresh
  <2>3. Ends(PiecesTo(frames, done), szmax) /\ BufferInv(CoveredTo(frames, done), szmax)
    BY <1>3 DEF Fresh, Ends, BufferInv
  <2> QED BY <2>1, <2>2, <2>3 DEF Fresh, ScanInv
<1> QED
  BY <1>2, <1>4 DEF DIInv, Fresh

LEMMA BeginStep ==
    ASSUME NEW fs \in Seq(Frames), Begin(fs)
    PROVE  DIInv'
<1>1. (frames \in Seq(Frames) /\ Fresh => DIInv)'
  BY FreshInv, PTL
<1>2. (frames \in Seq(Frames))'
  BY DEF Begin
<1>3. Fresh'
  BY DEF Begin, Fresh
<1> QED
  BY <1>1, <1>2, <1>3

(* Padding and duplicates add no piece.                                    *)
LEMMA SkipStep ==
    ASSUME DIInv, Skip \/ SkipDuplicate
    PROVE  DIInv'
<1>1. frames \in Seq(Frames) /\ done \in 0 .. Len(frames) - 1 /\ phase = "scan" /\ ScanInv
  BY DEF DIInv, DefragTypeOK, Skip, SkipDuplicate, Reading
<1>2. UNCHANGED <<frames, ranges, zeropos, szmax, buffer, i, j, phase, bFull>> /\ done' = done + 1
  BY DEF Skip, SkipDuplicate
<1>3. DefragTypeOK'
  BY <1>1, <1>2 DEF DIInv, DefragTypeOK
<1>4. frames[done + 1].kind # "crypto" \/ [off |-> frames[done + 1].off, len |-> frames[done + 1].len] \in PiecesTo(frames, done)
  <2>1. CASE Skip
    BY <2>1 DEF Skip, Frame
  <2>2. CASE SkipDuplicate
    BY <1>1, <2>2 DEF SkipDuplicate, Known, Piece, Frame, ScanInv
  <2> QED BY <2>1, <2>2
<1>5. PiecesTo(frames, done + 1) = PiecesTo(frames, done)
  <2>1. CASE frames[done + 1].kind # "crypto"
    BY <1>1, <2>1, NextPiece
  <2>2. CASE /\ frames[done + 1].kind = "crypto"
             /\ [off |-> frames[done + 1].off, len |-> frames[done + 1].len] \in PiecesTo(frames, done)
    <3>1. PiecesTo(frames, done + 1)
            = PiecesTo(frames, done) \cup {[off |-> frames[done + 1].off, len |-> frames[done + 1].len]}
      BY <1>1, <2>2, NextPiece
    <3> QED BY <2>2, <3>1, Zenon
  <2> QED BY <1>4, <2>1, <2>2
<1>6. ~Refuses(frames, done + 1)
  <2>1. frames[done + 1].kind # "other"
    BY DEF Skip, SkipDuplicate, Refused, Frame
  <2>2. ASSUME frames[done + 1].kind = "crypto"
        PROVE  ~(Cardinality(PiecesTo(frames, done)) >= MaxPieces \/ End(frames[done + 1]) > Space)
    BY <1>1, <2>2 DEF Skip, SkipDuplicate, Refused, Frame, ScanInv
  <2>3. (done + 1) - 1 = done
    BY <1>1
  <2> QED BY <2>1, <2>2, <2>3 DEF Refuses
<1>7. PiecesTo(frames, done)' = PiecesTo(frames, done)
  BY <1>2, <1>5
<1>8. \A k \in 1 .. done + 1 : ~Refuses(frames, k)
  BY <1>1, <1>6 DEF ScanInv
<1>9. ScanInv'
  <2>1. CoveredTo(frames, done)' = CoveredTo(frames, done)
    BY <1>7, Zenon DEF CoveredTo
  <2>2. (\A k \in 1 .. done : ~Refuses(frames, k))'
    BY <1>2, <1>8
  <2> QED
    BY <1>1, <1>2, <1>7, <2>1, <2>2 DEF ScanInv, Ends, BufferInv
<1> QED
  BY <1>1, <1>2, <1>3, <1>9 DEF DIInv

LEMMA RefuseStep ==
    ASSUME DIInv, Refuse
    PROVE  DIInv'
<1>1. frames \in Seq(Frames) /\ done \in 0 .. Len(frames) - 1 /\ ScanInv
  BY DEF DIInv, DefragTypeOK, Refuse, Reading
<1>2. Refuses(frames, done + 1)
  <2>1. (done + 1) - 1 = done /\ Cardinality(PiecesTo(frames, done)) = Len(ranges)
    BY <1>1 DEF ScanInv
  <2> QED BY <2>1 DEF Refuse, Refused, Refuses, Frame
<1>3. done + 1 \in 1 .. Len(frames)
  BY <1>1
<1>4. ~Parses(frames)
  BY <1>2, <1>3 DEF Parses
<1>5. DefragTypeOK'
  BY DEF Refuse, DIInv, DefragTypeOK
<1> QED
  BY <1>4, <1>5 DEF Refuse, DIInv

LEMMA FindNothingStep ==
    ASSUME DIInv, FindNothing
    PROVE  DIInv'
<1>1. ScanInv
  BY DEF DIInv, FindNothing
<1>2. Pieces(frames) = {}
  BY <1>1 DEF ScanInv, FindNothing, Pieces
<1>3. DefragTypeOK'
  BY DEF FindNothing, DIInv, DefragTypeOK
<1> QED
  BY <1>2, <1>3 DEF FindNothing, DIInv, Parses

(* A new piece is taken: what it covers is written, and the gap before it  *)
(* is zeroed.                                                              *)
LEMMA TakeStep ==
    ASSUME DIInv, Take
    PROVE  DIInv'
<1>1. frames \in Seq(Frames) /\ done \in 0 .. Len(frames) - 1 /\ phase = "scan" /\ ScanInv
  BY DEF DIInv, DefragTypeOK, Take, Reading
<1>2. frames[done + 1] \in Frames /\ frames[done + 1].kind = "crypto"
  BY <1>1 DEF Take, Frame
<1>3. Piece \in Ranges /\ End(Piece) \in Nat /\ End(Piece) <= Space /\ End(Piece) = End(Frame)
  <2>1. Frame \in Frames /\ Frame.kind = "crypto"
    BY <1>2 DEF Frame
  <2>2. ~(End(Frame) > Space)
    BY <2>1 DEF Take, Refused
  <2>3. Piece \in Ranges /\ End(Piece) = End(Frame) /\ End(Frame) \in Nat
    BY <2>1 DEF Piece, Ranges, Frames, End
  <2> QED BY <2>2, <2>3, FramesAssumption
<1> DEFINE S == PiecesTo(frames, done)
<1>4. PiecesTo(frames, done + 1) = S \cup {Piece}
  BY <1>1, <1>2, NextPiece DEF Piece, Frame
<1>5. Piece \notin S
  BY <1>1 DEF ScanInv, Take, Known
<1>6. szmax' = Greater(zeropos, End(Piece)) /\ zeropos' = szmax' /\ szmax \in Nat /\ zeropos = szmax
  BY <1>1, FramesAssumption DEF ScanInv, Take, DIInv, DefragTypeOK
<1>7. szmax' \in 0 .. Space /\ szmax' >= szmax /\ szmax' >= End(Piece)
      /\ (szmax' = szmax \/ szmax' = End(Piece))
  BY <1>3, <1>6, FramesAssumption DEF Greater, DIInv, DefragTypeOK
<1>8. DefragTypeOK'
  <2>1. ranges' \in Seq(Ranges)
    BY <1>3 DEF Take, DIInv, DefragTypeOK
  <2>2. buffer' \in [0 .. Space - 1 -> {"raw", "zero", "data"}]
    BY DEF Take, Written, DIInv, DefragTypeOK
  <2>3. done' \in 0 .. Len(frames)
    BY <1>1 DEF Take
  <2> QED
    BY <1>1, <1>6, <1>7, <2>1, <2>2, <2>3 DEF Take, DIInv, DefragTypeOK
<1>9. \A p : p \in PiecesTo(frames, done)' <=> \E k \in DOMAIN ranges' : ranges'[k] = p
  <2>1. ranges \in Seq(Ranges) /\ ranges' = Append(ranges, Piece)
    BY DEF Take, DIInv, DefragTypeOK
  <2>2. DOMAIN ranges' = DOMAIN ranges \cup {Len(ranges) + 1}
    BY <2>1, <1>3
  <2>3. \A k \in DOMAIN ranges : ranges'[k] = ranges[k]
    BY <2>1, <1>3
  <2>4. ranges'[Len(ranges) + 1] = Piece
    BY <2>1, <1>3
  <2>5. \A p : p \in S <=> \E k \in DOMAIN ranges : ranges[k] = p
    BY <1>1 DEF ScanInv
  <2>6. PiecesTo(frames, done)' = S \cup {Piece}
    BY <1>4 DEF Take
  <2> HIDE DEF S
  <2> QED
    BY <2>2, <2>3, <2>4, <2>5, <2>6, Zenon
<1>10. IsFiniteSet(PiecesTo(frames, done)') /\ Cardinality(PiecesTo(frames, done)') = Len(ranges')
  <2>1. IsFiniteSet(S) /\ Cardinality(S) = Len(ranges)
    BY <1>1 DEF ScanInv
  <2>2. IsFiniteSet(S \cup {Piece}) /\ Cardinality(S \cup {Piece}) = Cardinality(S) + 1
    <3> HIDE DEF S
    <3> QED BY <1>5, <2>1, FS_AddElement
  <2>3. Len(ranges') = Len(ranges) + 1
    BY <1>3 DEF Take, DIInv, DefragTypeOK
  <2>4. PiecesTo(frames, done)' = S \cup {Piece}
    BY <1>4 DEF Take
  <2> QED BY <2>1, <2>2, <2>3, <2>4
<1>11. \A k \in 1 .. done' : ~Refuses(frames, k)
  <2>1. (done + 1) - 1 = done /\ Cardinality(S) = Len(ranges)
    BY <1>1 DEF ScanInv
  <2>2. ~Refuses(frames, done + 1)
    BY <2>1 DEF Take, Refused, Refuses, Frame
  <2>3. \A k \in 1 .. done : ~Refuses(frames, k)
    BY <1>1 DEF ScanInv
  <2>4. done' = done + 1 /\ done \in Nat
    BY <1>1 DEF Take
  <2>5. 1 .. done' = (1 .. done) \cup {done + 1}
    BY <2>4
  <2> QED
    BY <2>2, <2>3, <2>5
<1>12. Ends(PiecesTo(frames, done)', szmax')
  <2>1. Ends(S, szmax)
    BY <1>1 DEF ScanInv
  <2>2. PiecesTo(frames, done)' = S \cup {Piece}
    BY <1>4 DEF Take
  <2>3. \A p \in S : End(p) \in Nat
    BY <1>1, PiecesType
  <2> HIDE DEF S
  <2>4. \A p \in S \cup {Piece} : End(p) <= szmax'
    BY <1>3, <1>6, <1>7, <2>1, <2>3 DEF Ends
  <2>5. \E p \in S \cup {Piece} : End(p) = szmax'
    <3>1. CASE szmax' = End(Piece)
      BY <3>1
    <3>2. CASE szmax' = szmax /\ S # {}
      BY <2>1, <3>2 DEF Ends
    <3>3. CASE szmax' = szmax /\ S = {}
      <4>1. szmax = 0
        BY <2>1, <3>3 DEF Ends
      <4> QED BY <1>3, <1>7, <3>3, <4>1
    <3> QED BY <1>7, <3>1, <3>2, <3>3
  <2> QED
    BY <2>2, <2>4, <2>5 DEF Ends
<1>13. BufferInv(CoveredTo(frames, done), szmax)'
  <2>1. CoveredTo(frames, done)' = CoveredTo(frames, done) \cup Positions(Piece)
    <3>1. PiecesTo(frames, done') = S \cup {Piece} /\ frames' = frames
      BY <1>4 DEF Take
    <3> HIDE DEF S
    <3> QED BY <3>1, Zenon DEF CoveredTo, S
  <2>2. \A x \in 0 .. szmax - 1 : buffer[x] = IF x \in CoveredTo(frames, done) THEN "data" ELSE "zero"
    BY <1>1 DEF ScanInv, BufferInv
  <2> DEFINE C == CoveredTo(frames, done)
  <2>3. \A x \in C : x < szmax
    <3> SUFFICES ASSUME NEW x \in C PROVE x < szmax
      OBVIOUS
    <3>1. PICK p \in S : x \in Positions(p)
      BY DEF CoveredTo
    <3>2. p \in Ranges /\ End(p) \in Nat /\ End(p) <= szmax
      BY <1>1, PiecesType DEF ScanInv, Ends
    <3> QED BY <1>6, <3>1, <3>2 DEF Positions, Ranges
  <2> HIDE DEF C
  <2> SUFFICES ASSUME NEW x \in 0 .. szmax' - 1
               PROVE  buffer'[x] = IF x \in C \cup Positions(Piece) THEN "data" ELSE "zero"
    BY <2>1 DEF BufferInv, C
  <2>4. x \in DOMAIN buffer /\ x \in Nat
    <3>1. DOMAIN buffer = 0 .. Space - 1
      BY DEF DIInv, DefragTypeOK
    <3>2. x \in 0 .. Space - 1
      <4>1. \A n \in 0 .. Space : \A y \in 0 .. n - 1 : y \in 0 .. Space - 1
        BY FramesAssumption
      <4> QED BY <1>7, <4>1
    <3> QED BY <3>1, <3>2
  <2>5. buffer'[x] = IF x \in Positions(Piece) THEN "data" ELSE IF x \in zeropos .. Piece.off - 1 THEN "zero" ELSE buffer[x]
    BY <2>4 DEF Take, Written
  <2>6. CASE x \in Positions(Piece)
    BY <2>5, <2>6
  <2>7. CASE x \notin Positions(Piece) /\ x < szmax
    <3>1. x \notin zeropos .. Piece.off - 1
      BY <1>6, <2>7
    <3>2. buffer[x] = IF x \in C THEN "data" ELSE "zero"
      BY <2>2, <2>4, <2>7, <1>6 DEF C
    <3> QED BY <2>5, <2>7, <3>1, <3>2
  <2>8. CASE x \notin Positions(Piece) /\ ~(x < szmax)
    <3>1. x < End(Piece)
      BY <1>6, <1>7, <1>3, <2>8
    <3>2. x < Piece.off
      BY <1>3, <2>4, <2>8, <3>1 DEF Positions, Ranges
    <3>3. x \in zeropos .. Piece.off - 1
      BY <1>3, <1>6, <2>4, <2>8, <3>2 DEF Ranges
    <3>4. x \notin C
      BY <2>3, <2>8
    <3> QED BY <2>5, <2>8, <3>3, <3>4
  <2> QED BY <2>6, <2>7, <2>8
<1>14. ScanInv'
  <2>1. i' = 2 /\ j' = 1 /\ frames' = frames
    BY <1>1 DEF ScanInv, Take
  <2> QED
    BY <1>6, <1>9, <1>10, <1>11, <1>12, <1>13, <2>1 DEF ScanInv
<1> QED
  BY <1>1, <1>8, <1>14 DEF DIInv, Take

(* All frames are read and the ranges sorted, in one of the ways qsort     *)
(* may: they are the same ranges.                                          *)
LEMMA SortStep ==
    ASSUME DIInv, Sort
    PROVE  DIInv'
<1>1. frames \in Seq(Frames) /\ done = Len(frames) /\ ranges \in Seq(Ranges) /\ ranges # <<>> /\ ScanInv
  BY DEF DIInv, DefragTypeOK, Sort
<1>2. PICK q \in [DOMAIN ranges -> DOMAIN ranges] :
        /\ ranges' = [k \in DOMAIN ranges |-> ranges[q[k]]]
        /\ \A m \in DOMAIN ranges : \E k \in DOMAIN ranges : q[k] = m
        /\ \A k, m \in DOMAIN ranges : k < m => ranges[q[k]].off <= ranges[q[m]].off
  BY DEF Sort, Sortings
<1> DEFINE n == Len(ranges)
<1>3. n \in Nat /\ n >= 1 /\ DOMAIN ranges = 1 .. n
  BY <1>1
<1>4. ranges' \in Seq(Ranges) /\ Len(ranges') = n /\ \A k \in 1 .. n : ranges'[k] = ranges[q[k]]
  <2>1. ranges' = [k \in 1 .. n |-> ranges[q[k]]]
    BY <1>2, <1>3
  <2>2. \A k \in 1 .. n : q[k] \in 1 .. n
    BY <1>2, <1>3
  <2>3. \A k \in 1 .. n : ranges[q[k]] \in Ranges
    BY <1>1, <1>3, <2>2
  <2> HIDE DEF n
  <2> QED BY <1>3, <2>1, <2>3
<1>5. \A p : (\E k \in 1 .. n : ranges'[k] = p) <=> (\E k \in 1 .. n : ranges[k] = p)
  <2>1. \A k \in 1 .. n : q[k] \in 1 .. n
    BY <1>2, <1>3
  <2>2. \A m \in 1 .. n : \E k \in 1 .. n : q[k] = m
    BY <1>2, <1>3
  <2>3. \A k \in 1 .. n : ranges'[k] = ranges[q[k]]
    BY <1>4
  <2> HIDE DEF n
  <2>4. \A p : (\E k \in 1 .. n : ranges'[k] = p) => (\E k \in 1 .. n : ranges[k] = p)
    BY <2>1, <2>3
  <2>5. \A p : (\E k \in 1 .. n : ranges[k] = p) => (\E k \in 1 .. n : ranges'[k] = p)
    BY <2>2, <2>3
  <2> QED BY <2>4, <2>5, Zenon
<1>6. \A p : p \in Pieces(frames) <=> \E k \in 1 .. n : ranges'[k] = p
  <2>1. \A p : p \in Pieces(frames) <=> \E k \in 1 .. n : ranges[k] = p
    BY <1>1, <1>3 DEF ScanInv, Pieces
  <2> HIDE DEF n
  <2> QED BY <1>5, <2>1, Zenon
<1>7. i' = 2 /\ j' = 1 /\ phase' = "merge" /\ UNCHANGED <<frames, done, zeropos, szmax, buffer, bFull>>
  BY <1>1 DEF Sort, ScanInv
<1>8. Live' = 1 .. n
  BY <1>3, <1>4, <1>7 DEF Live
<1>9. Pieces(frames) # {}
  <2>1. ranges'[1] \in Pieces(frames)
    BY <1>3, <1>6
  <2> QED BY <2>1
<1>10. Ends(Pieces(frames), szmax)
  BY <1>1 DEF ScanInv, Pieces
<1>11. ReadInv'
  <2>1. Parses(frames)
    BY <1>1, <1>9 DEF Parses, ScanInv
  <2>2. IsTop(frames, szmax)
    BY <1>9, <1>10 DEF Ends, IsTop
  <2>3. BufferInv(Covered(frames), szmax)
    BY <1>1 DEF ScanInv, Pieces, Covered, CoveredTo
  <2> QED BY <1>7, <2>1, <2>2, <2>3 DEF ReadInv, BufferInv
<1>12. MergeInv'
  <2>1. \A x \in Nat : x \in Covered(frames) <=> \E k \in 1 .. n : x \in Positions(ranges'[k])
    <3> HIDE DEF n
    <3>1. \A x : x \in Covered(frames) <=> \E p \in Pieces(frames) : x \in Positions(p)
      BY Zenon DEF Covered
    <3> QED BY <1>6, <3>1, Zenon
  <2>2. \A k \in 1 .. n : ranges'[k] \in Pieces(frames)
    BY <1>6
  <2>3. \A k \in 1 .. n : End(ranges'[k]) <= szmax
    BY <1>10, <2>2 DEF Ends
  <2>4. \E k \in 1 .. n : End(ranges'[k]) = szmax
    <3>1. PICK p \in Pieces(frames) : End(p) = szmax
      BY <1>9, <1>10 DEF Ends
    <3>2. PICK k \in 1 .. n : ranges'[k] = p
      BY <1>6, <3>1
    <3> QED BY <3>1, <3>2
  <2>5. \A k, m \in 1 .. n : k < m => ranges'[k].off <= ranges'[m].off
    BY <1>2, <1>3, <1>4
  <2>6. \A m \in 2 .. n : ranges'[1].off <= ranges'[m].off
    BY <1>3, <2>5
  <2>7. \A k, m \in 2 .. n : k < m => ranges'[k].off <= ranges'[m].off
    BY <1>3, <2>5
  <2>8. ranges' # <<>> /\ j' < i' /\ i' <= Len(ranges') + 1
    BY <1>3, <1>4, <1>7
  <2>9. (\A k, m \in 1 .. j : k < m => End(ranges[k]) < ranges[m].off)'
    BY <1>7
  <2> HIDE DEF n
  <2>10. /\ (\A x \in Nat : x \in Covered(frames) <=> \E k \in Live : x \in Positions(ranges[k]))'
         /\ (\A k \in Live : End(ranges[k]) <= szmax)'
         /\ (\E k \in Live : End(ranges[k]) = szmax)'
    BY <1>7, <1>8, <2>1, <2>3, <2>4
  <2>11. /\ (\A m \in i .. Len(ranges) : ranges[j].off <= ranges[m].off)'
         /\ (\A k, m \in i .. Len(ranges) : k < m => ranges[k].off <= ranges[m].off)'
    BY <1>4, <1>7, <2>6, <2>7
  <2> QED
    BY <2>8, <2>9, <2>10, <2>11 DEF MergeInv
<1>13. DefragTypeOK'
  BY <1>4, <1>7 DEF DIInv, DefragTypeOK
<1> QED
  BY <1>7, <1>11, <1>12, <1>13 DEF DIInv

(* Two ranges joined cover what the two cover.                             *)
LEMMA JoinedCovers ==
    ASSUME NEW p \in Ranges, NEW q \in Ranges, Touches(p, q), p.off <= q.off
    PROVE  /\ Joined(p, q) \in Ranges
           /\ Joined(p, q).off = p.off
           /\ End(Joined(p, q)) = Greater(End(q), End(p))
           /\ \A x \in Nat : x \in Positions(Joined(p, q)) <=> x \in Positions(p) \/ x \in Positions(q)
<1>1. Joined(p, q) = [off |-> p.off, len |-> Greater(End(q), End(p)) - p.off]
  BY DEF Joined, Ranges
<1>2. Greater(End(q), End(p)) \in Nat /\ Greater(End(q), End(p)) >= End(p)
      /\ Greater(End(q), End(p)) >= End(q)
      /\ (Greater(End(q), End(p)) = End(p) \/ Greater(End(q), End(p)) = End(q))
  BY DEF Greater, End, Ranges
<1>3. Greater(End(q), End(p)) - p.off \in Nat
  BY <1>2 DEF End, Ranges
<1>4. End(Joined(p, q)) = Greater(End(q), End(p))
  BY <1>1, <1>2, <1>3 DEF End, Ranges
<1>5. \A x \in Nat : x \in Positions(Joined(p, q)) <=> x \in Positions(p) \/ x \in Positions(q)
  <2>1. Positions(Joined(p, q)) = p.off .. Greater(End(q), End(p)) - 1
    BY <1>1, <1>4 DEF Positions
  <2>2. p.off \in Nat /\ q.off \in Nat /\ End(p) \in Nat /\ End(q) \in Nat /\ q.off <= End(p)
    BY DEF Ranges, End, Touches
  <2> QED
    <3>1. \A a, b, c, d, g \in Nat :
             b <= c /\ g >= c /\ g >= d /\ (g = c \/ g = d) /\ a <= b =>
               \A x \in Nat : x \in a .. g - 1 <=> x \in a .. c - 1 \/ x \in b .. d - 1
      OBVIOUS
    <3>2. \A x \in Nat : x \in p.off .. Greater(End(q), End(p)) - 1
                            <=> x \in p.off .. End(p) - 1 \/ x \in q.off .. End(q) - 1
      BY <1>2, <2>2, <3>1
    <3> QED BY <2>1, <3>2 DEF Positions
<1> QED
  BY <1>1, <1>3, <1>4, <1>5 DEF Ranges

(* Facts about the ranges while they are merged.                           *)
LEMMA MergeFacts ==
    ASSUME DIInv, Merge
    PROVE  /\ ReadInv /\ MergeInv
           /\ ranges \in Seq(Ranges) /\ Len(ranges) \in Nat /\ DOMAIN ranges = 1 .. Len(ranges)
           /\ i \in 1 .. Len(ranges) /\ j \in 1 .. Len(ranges) /\ j < i
           /\ \A k \in 1 .. Len(ranges) : ranges[k] \in Ranges /\ ranges[k].off \in Nat /\ End(ranges[k]) \in Nat
           /\ i' = i + 1
           /\ UNCHANGED <<frames, done, zeropos, szmax, buffer, phase, bFull>> /\ phase = "merge"
<1>1. ReadInv /\ MergeInv /\ ranges \in Seq(Ranges) /\ i \in Nat \ {0} /\ j \in Nat \ {0}
  BY DEF DIInv, Merge, DefragTypeOK
<1>2. i <= Len(ranges) /\ j < i
  BY <1>1 DEF Merge, MergeInv
<1>3. \A k \in 1 .. Len(ranges) : ranges[k] \in Ranges
  BY <1>1
<1>4. \A p \in Ranges : p.off \in Nat /\ End(p) \in Nat
  BY DEF Ranges, End
<1> QED
  BY <1>1, <1>2, <1>3, <1>4 DEF Merge

(* The next range is joined to the current one.                            *)
LEMMA JoinStep ==
    ASSUME DIInv, Merge, Touches(ranges[j], ranges[i])
    PROVE  MergeInv' /\ ranges' \in Seq(Ranges) /\ j' = j
<1> USE MergeFacts
<1> DEFINE n == Len(ranges)
           g == Joined(ranges[j], ranges[i])
<1>1. ranges' = [ranges EXCEPT ![j] = g] /\ j' = j
  BY DEF Merge
<1>2. ranges[j].off <= ranges[i].off
  BY DEF MergeInv
<1>3. /\ g \in Ranges /\ g.off = ranges[j].off
      /\ End(g) = Greater(End(ranges[i]), End(ranges[j]))
      /\ \A x \in Nat : x \in Positions(g) <=> x \in Positions(ranges[j]) \/ x \in Positions(ranges[i])
  BY <1>2, JoinedCovers
<1> HIDE DEF g
<1>4. /\ ranges' \in Seq(Ranges) /\ Len(ranges') = n /\ ranges'[j] = g
      /\ \A k \in 1 .. n : k # j => ranges'[k] = ranges[k]
  BY <1>1, <1>3
<1> HIDE DEF n
<1>5. Live = Live' \cup {i} /\ j \in Live' /\ i \notin Live' /\ Live' \subseteq 1 .. n /\ i \in Live /\ j \in Live
  BY <1>1, <1>4 DEF Live, n
<1>6. \A k \in Live' : k # j => ranges'[k] = ranges[k]
  BY <1>4, <1>5
<1>7. \A x \in Nat : (\E k \in Live' : x \in Positions(ranges'[k])) <=> \E k \in Live : x \in Positions(ranges[k])
  <2> TAKE x \in Nat
  <2>1. ASSUME NEW k \in Live', x \in Positions(ranges'[k])
        PROVE  \E m \in Live : x \in Positions(ranges[m])
    <3>1. CASE k = j
      BY <1>3, <1>4, <1>5, <2>1, <3>1
    <3>2. CASE k # j
      BY <1>5, <1>6, <2>1, <3>2
    <3> QED BY <3>1, <3>2
  <2>2. ASSUME NEW k \in Live, x \in Positions(ranges[k])
        PROVE  \E m \in Live' : x \in Positions(ranges'[m])
    <3>1. CASE k = i \/ k = j
      <4>1. x \in Positions(ranges'[j])
        BY <1>3, <1>4, <2>2, <3>1
      <4> QED BY <1>5, <4>1
    <3>2. CASE k # i /\ k # j
      BY <1>5, <1>6, <2>2, <3>2
    <3> QED BY <3>1, <3>2
  <2> QED BY <2>1, <2>2
<1>8. \A k \in Live : End(ranges[k]) <= szmax
  BY DEF MergeInv
<1>9. End(g) \in Nat /\ End(g) >= End(ranges[i]) /\ End(g) >= End(ranges[j])
      /\ (End(g) = End(ranges[i]) \/ End(g) = End(ranges[j]))
  BY <1>3 DEF Greater
<1>10. \A k \in Live' : End(ranges'[k]) <= szmax
  <2>1. End(g) <= szmax
    BY <1>5, <1>8, <1>9
  <2> QED BY <1>4, <1>5, <1>6, <1>8, <2>1
<1>11. \E k \in Live' : End(ranges'[k]) = szmax
  <2>1. PICK k \in Live : End(ranges[k]) = szmax
    BY DEF MergeInv
  <2>2. CASE k = i \/ k = j
    <3>1. szmax >= End(g) /\ szmax <= End(g) /\ szmax \in Nat
      BY <1>4, <1>5, <1>9, <1>10, <2>1, <2>2
    <3>2. End(ranges'[j]) = szmax
      BY <1>4, <1>9, <3>1
    <3> QED BY <1>5, <3>2
  <2>3. CASE k # i /\ k # j
    BY <1>5, <1>6, <2>1, <2>3
  <2> QED BY <2>2, <2>3
<1>12. \A k, m \in 1 .. j : k < m => End(ranges'[k]) < ranges'[m].off
  <2> SUFFICES ASSUME NEW k \in 1 .. j, NEW m \in 1 .. j, k < m
               PROVE  End(ranges'[k]) < ranges'[m].off
    OBVIOUS
  <2>1. End(ranges[k]) < ranges[m].off
    BY DEF MergeInv
  <2>2. ranges'[k] = ranges[k] /\ ranges'[m].off = ranges[m].off
    <3>1. k \in 1 .. n /\ m \in 1 .. n /\ k # j
      BY DEF n
    <3>2. CASE m = j
      BY <1>3, <1>4, <3>1, <3>2
    <3>3. CASE m # j
      BY <1>4, <3>1, <3>3
    <3> QED BY <3>2, <3>3
  <2> QED BY <2>1, <2>2
<1>13. \A m \in i + 1 .. n : ranges'[m] = ranges[m] /\ m \in i .. n
  BY <1>4 DEF n
<1>14. \A m \in i + 1 .. n : ranges'[j].off <= ranges'[m].off
  BY <1>3, <1>4, <1>13 DEF MergeInv, n
<1>15. \A k, m \in i + 1 .. n : k < m => ranges'[k].off <= ranges'[m].off
  BY <1>13 DEF MergeInv, n
<1>16. ranges' # <<>> /\ j' < i' /\ i' <= Len(ranges') + 1
  BY <1>1, <1>4 DEF n
<1>17. \A x \in Nat : x \in Covered(frames) <=> \E k \in Live' : x \in Positions(ranges'[k])
  BY <1>7 DEF MergeInv
<1>18. MergeInv'
  <2>1. frames' = frames /\ szmax' = szmax /\ i' = i + 1
    OBVIOUS
  <2> QED
    BY <1>1, <1>4, <1>10, <1>11, <1>12, <1>14, <1>15, <1>16, <1>17, <2>1 DEF MergeInv
<1> QED
  BY <1>1, <1>4, <1>18

(* The next range follows the current one after a gap.                     *)
LEMMA MoveStep ==
    ASSUME DIInv, Merge, ~Touches(ranges[j], ranges[i])
    PROVE  MergeInv' /\ ranges' \in Seq(Ranges) /\ j' = j + 1
<1> USE MergeFacts
<1> DEFINE n == Len(ranges)
<1>1. ranges' = [ranges EXCEPT ![j + 1] = ranges[i]] /\ j' = j + 1
  BY DEF Merge
<1>2. j + 1 \in 1 .. n /\ j + 1 <= i
  OBVIOUS
<1> HIDE DEF n
<1>3. /\ ranges' \in Seq(Ranges) /\ Len(ranges') = n /\ ranges'[j + 1] = ranges[i]
      /\ \A k \in 1 .. n : k # j + 1 => ranges'[k] = ranges[k]
  BY <1>1, <1>2 DEF n
<1>4. Live' = (1 .. j + 1) \cup (i + 1 .. n)
  BY <1>1, <1>3 DEF Live
<1>5. Live = (1 .. j) \cup (i .. n)
  BY DEF Live, n
<1>6. \A k \in 1 .. j : k \in Live /\ k \in Live' /\ ranges'[k] = ranges[k]
  BY <1>2, <1>3, <1>4, <1>5 DEF n
<1>7. \A k \in i + 1 .. n : k \in Live /\ k \in Live' /\ k \in i .. n /\ ranges'[k] = ranges[k]
  BY <1>2, <1>3, <1>4, <1>5 DEF n
<1>8. i \in Live /\ j + 1 \in Live' /\ j \in 1 .. j
  BY <1>2, <1>4, <1>5 DEF n
<1>9. \A k \in Live' : \E m \in Live : ranges'[k] = ranges[m]
  <2> SUFFICES ASSUME NEW k \in Live' PROVE \E m \in Live : ranges'[k] = ranges[m]
    OBVIOUS
  <2>1. k \in 1 .. j \/ k = j + 1 \/ k \in i + 1 .. n
    BY <1>4
  <2> QED BY <1>3, <1>6, <1>7, <1>8, <2>1
<1>10. \A m \in Live : \E k \in Live' : ranges'[k] = ranges[m]
  <2> SUFFICES ASSUME NEW m \in Live PROVE \E k \in Live' : ranges'[k] = ranges[m]
    OBVIOUS
  <2>1. m \in 1 .. j \/ m = i \/ m \in i + 1 .. n
    BY <1>5 DEF n
  <2> QED BY <1>3, <1>6, <1>7, <1>8, <2>1
<1>11. \A x \in Nat : x \in Covered(frames) <=> \E k \in Live' : x \in Positions(ranges'[k])
  <2> SUFFICES ASSUME NEW x \in Nat
               PROVE  x \in Covered(frames) <=> \E k \in Live' : x \in Positions(ranges'[k])
    OBVIOUS
  <2>1. x \in Covered(frames) <=> \E k \in Live : x \in Positions(ranges[k])
    BY DEF MergeInv
  <2>2. (\E k \in Live : x \in Positions(ranges[k])) => \E k \in Live' : x \in Positions(ranges'[k])
    BY <1>10
  <2>3. (\E k \in Live' : x \in Positions(ranges'[k])) => \E k \in Live : x \in Positions(ranges[k])
    BY <1>9
  <2> QED BY <2>1, <2>2, <2>3
<1>12. \A k \in Live' : End(ranges'[k]) <= szmax
  BY <1>9 DEF MergeInv
<1>13. \E k \in Live' : End(ranges'[k]) = szmax
  BY <1>10 DEF MergeInv
<1>14. \A k, m \in 1 .. j + 1 : k < m => End(ranges'[k]) < ranges'[m].off
  <2> SUFFICES ASSUME NEW k \in 1 .. j + 1, NEW m \in 1 .. j + 1, k < m
               PROVE  End(ranges'[k]) < ranges'[m].off
    OBVIOUS
  <2>1. k \in 1 .. j
    OBVIOUS
  <2>2. End(ranges[j]) < ranges[i].off
    BY DEF Touches
  <2>3. CASE m \in 1 .. j
    BY <1>6, <2>1, <2>3 DEF MergeInv
  <2>4. CASE m = j + 1
    <3>1. End(ranges[k]) < ranges[i].off
      <4>1. CASE k = j
        BY <2>2, <4>1
      <4>2. CASE k # j
        <5>1. End(ranges[k]) < ranges[j].off
          <6>1. k < j /\ j \in 1 .. j
            BY <2>1, <4>2
          <6>2. \A a, b \in 1 .. j : a < b => End(ranges[a]) < ranges[b].off
            BY DEF MergeInv
          <6> QED BY <2>1, <6>1, <6>2
        <5>2. ranges[j].off <= ranges[i].off
          BY DEF MergeInv
        <5>3. End(ranges[k]) \in Nat /\ ranges[j].off \in Nat /\ ranges[i].off \in Nat
          BY <2>1
        <5> QED BY <5>1, <5>2, <5>3
      <4> QED BY <4>1, <4>2
    <3> QED BY <1>3, <1>6, <2>1, <2>4, <3>1
  <2> QED BY <2>3, <2>4
<1>15. \A m \in i + 1 .. n : ranges'[j + 1].off <= ranges'[m].off
  <2> SUFFICES ASSUME NEW m \in i + 1 .. n PROVE ranges[i].off <= ranges[m].off
    BY <1>3, <1>7
  <2>1. i \in i .. n /\ m \in i .. n /\ i < m
    BY DEF n
  <2> QED BY <2>1 DEF MergeInv, n
<1>16. \A k, m \in i + 1 .. n : k < m => ranges'[k].off <= ranges'[m].off
  BY <1>7 DEF MergeInv, n
<1>17. ranges' # <<>> /\ j' < i' /\ i' <= Len(ranges') + 1
  BY <1>1, <1>3 DEF n
<1>18. MergeInv'
  <2>1. frames' = frames /\ szmax' = szmax /\ i' = i + 1
    OBVIOUS
  <2> QED
    BY <1>1, <1>3, <1>11, <1>12, <1>13, <1>14, <1>15, <1>16, <1>17, <2>1 DEF MergeInv
<1> QED
  BY <1>1, <1>3, <1>18

LEMMA MergeStep ==
    ASSUME DIInv, Merge
    PROVE  DIInv'
<1>1. MergeInv' /\ ranges' \in Seq(Ranges) /\ j' \in Nat \ {0}
  <2>1. CASE Touches(ranges[j], ranges[i])
    BY <2>1, JoinStep, MergeFacts
  <2>2. CASE ~Touches(ranges[j], ranges[i])
    BY <2>2, MoveStep, MergeFacts
  <2> QED BY <2>1, <2>2
<1>2. ReadInv'
  BY MergeFacts DEF ReadInv, BufferInv
<1>3. i' \in Nat \ {0}
  BY MergeFacts
<1>4. DefragTypeOK'
  BY <1>1, <1>3, MergeFacts DEF DIInv, DefragTypeOK
<1> QED
  BY <1>1, <1>2, <1>4, MergeFacts DEF DIInv

(* One range from zero is left exactly when no byte is missing.            *)
LEMMA FinishStep ==
    ASSUME DIInv, Finish
    PROVE  DIInv'
<1>1. ReadInv /\ MergeInv /\ ranges \in Seq(Ranges) /\ i \in Nat \ {0} /\ j \in Nat \ {0} /\ szmax \in Nat
  BY FramesAssumption DEF DIInv, Finish, DefragTypeOK
<1> DEFINE n == Len(ranges)
<1>2. n \in Nat /\ i = n + 1 /\ j \in 1 .. n
  BY <1>1 DEF Finish, MergeInv
<1>3. Live = 1 .. j
  BY <1>2 DEF Live
<1>4. \A k \in 1 .. j : ranges[k] \in Ranges /\ ranges[k].off \in Nat /\ End(ranges[k]) \in Nat
                        /\ ranges[k].off <= End(ranges[k])
  <2>1. \A k \in 1 .. n : ranges[k] \in Ranges
    BY <1>1
  <2>2. \A p \in Ranges : p.off \in Nat /\ End(p) \in Nat /\ p.off <= End(p)
    BY DEF Ranges, End
  <2> QED BY <1>2, <2>1, <2>2
<1> HIDE DEF n
<1>5. \A x \in Nat : x \in Covered(frames) <=> \E k \in 1 .. j : x \in Positions(ranges[k])
  BY <1>1, <1>3 DEF MergeInv
<1>6. \A k \in 1 .. j : End(ranges[k]) <= szmax
  BY <1>1, <1>3 DEF MergeInv
<1>7. \A k, m \in 1 .. j : k < m => End(ranges[k]) < ranges[m].off
  BY <1>1 DEF MergeInv
<1>8. 1 \in 1 .. j
  BY <1>1
<1>9. CASE j = 1
  <2>1. End(ranges[1]) = szmax
    BY <1>1, <1>3, <1>9 DEF MergeInv
  <2>2. \A x \in Nat : x \in Covered(frames) <=> x \in ranges[1].off .. szmax - 1
    BY <1>5, <1>9, <2>1 DEF Positions
  <2>3. CASE ranges[1].off = 0
    <3>1. \A x \in 0 .. szmax - 1 : x \in Covered(frames)
      BY <1>1, <2>2, <2>3
    <3>2. bFull' = TRUE
      BY <1>9, <2>3 DEF Finish
    <3> QED BY <3>1, <3>2 DEF Finish, DIInv, DefragTypeOK, ReadInv, BufferInv
  <2>4. CASE ranges[1].off # 0
    <3>1. 0 \in 0 .. szmax - 1 /\ 0 \notin Covered(frames)
      BY <1>1, <1>4, <1>8, <2>1, <2>2, <2>4
    <3>2. bFull' = FALSE
      BY <1>9, <2>4 DEF Finish
    <3> QED BY <3>1, <3>2 DEF Finish, DIInv, DefragTypeOK, ReadInv, BufferInv
  <2> QED BY <2>3, <2>4
<1>10. CASE j # 1
  <2> DEFINE e == End(ranges[1])
  <2>1. 2 \in 1 .. j /\ e \in Nat
    BY <1>1, <1>4, <1>8, <1>10
  <2>2. e < ranges[2].off /\ ranges[2].off <= End(ranges[2]) /\ End(ranges[2]) <= szmax
    BY <1>4, <1>6, <1>7, <1>8, <2>1
  <2>3. e \in 0 .. szmax - 1
    BY <1>1, <1>4, <2>1, <2>2
  <2>4. e \notin Covered(frames)
    <3> SUFFICES ASSUME NEW k \in 1 .. j, e \in Positions(ranges[k]) PROVE FALSE
      BY <1>5, <2>1
    <3>1. CASE k = 1
      BY <2>1, <3>1 DEF Positions
    <3>2. CASE k # 1
      <4>1. e < ranges[k].off
        BY <1>7, <1>8, <3>2
      <4> QED BY <1>4, <2>1, <4>1 DEF Positions
    <3> QED BY <3>1, <3>2
  <2>5. bFull' = FALSE
    BY <1>10 DEF Finish
  <2> HIDE DEF e
  <2> QED BY <2>3, <2>4, <2>5 DEF Finish, DIInv, DefragTypeOK, ReadInv, BufferInv
<1> QED
  BY <1>9, <1>10

-----------------------------------------------------------------------------
LEMMA DefragStep == DIInv /\ [DefragNext]_defragVars => DIInv'
<1> SUFFICES ASSUME DIInv, [DefragNext]_defragVars PROVE DIInv'
  OBVIOUS
<1>1. CASE Skip
  BY <1>1, SkipStep
<1>2. CASE Refuse
  BY <1>2, RefuseStep
<1>3. CASE SkipDuplicate
  BY <1>3, SkipStep
<1>4. CASE Take
  BY <1>4, TakeStep
<1>5. CASE FindNothing
  BY <1>5, FindNothingStep
<1>6. CASE Sort
  BY <1>6, SortStep
<1>7. CASE Merge
  BY <1>7, MergeStep
<1>8. CASE Finish
  BY <1>8, FinishStep
<1>9. CASE UNCHANGED defragVars
  BY <1>9 DEF defragVars, DIInv, DefragTypeOK, ScanInv, MergeInv, ReadInv, BufferInv, Live, Ends
<1> QED
  BY <1>1, <1>2, <1>3, <1>4, <1>5, <1>6, <1>7, <1>8, <1>9 DEF DefragNext

(***************************************************************************)
(* QuicReassembly.                                                         *)
(***************************************************************************)

(* The frames of several datagrams, one after another, are frames.         *)
LEMMA FlattenType ==
    ASSUME NEW ss \in Seq(Seq(Frames))
    PROVE  FlattenSeq(ss) \in Seq(Frames)
<1> DEFINE n == Len(ss)
           Loop(m, g) == g = [k \in 1 .. m |-> IF k = 1 THEN ss[k] ELSE g[k - 1] \o ss[k]]
           S == {m \in Nat : m + 1 <= n => \E g : Loop(m + 1, g)}
           T == {m \in Nat : m + 1 <= n => \A g : Loop(n, g) => g[m + 1] \in Seq(Frames)}
<1>1. n \in Nat /\ \A k \in 1 .. n : ss[k] \in Seq(Frames)
  OBVIOUS
<1>2. CASE n = 0
  BY <1>2 DEF FlattenSeq
<1>3. CASE n # 0
  <2>1. 0 \in S
    <3>1. Loop(1, [k \in 1 .. 1 |-> ss[k]])
      OBVIOUS
    <3>2. 0 + 1 = 1
      OBVIOUS
    <3> HIDE DEF Loop
    <3> QED
      BY <3>1, <3>2
  <2>2. ASSUME NEW m \in S PROVE m + 1 \in S
    <3>1. m \in Nat
      OBVIOUS
    <3>2. SUFFICES ASSUME (m + 1) + 1 <= n PROVE \E g : Loop((m + 1) + 1, g)
      <4>1. m + 1 \in Nat
        BY <3>1
      <4> HIDE DEF Loop, n
      <4> QED
        BY <4>1, Zenon
    <3>3. PICK g : Loop(m + 1, g)
      <4>1. m + 1 <= n
        BY <3>1, <3>2, <1>1
      <4> HIDE DEF Loop, n
      <4> QED
        BY <4>1
    <3> DEFINE h == [k \in 1 .. (m + 1) + 1 |-> IF k <= m + 1 THEN g[k] ELSE g[m + 1] \o ss[k]]
    <3>4. \A k \in 1 .. m + 1 : g[k] = IF k = 1 THEN ss[k] ELSE g[k - 1] \o ss[k]
      BY <3>3
    <3>5. \A k \in 1 .. (m + 1) + 1 : h[k] = IF k = 1 THEN ss[k] ELSE h[k - 1] \o ss[k]
      <4> TAKE k \in 1 .. (m + 1) + 1
      <4>1. CASE k <= m + 1
        BY <3>1, <3>4, <4>1
      <4>2. CASE k = (m + 1) + 1
        <5>1. k # 1 /\ k - 1 = m + 1 /\ m + 1 \in 1 .. (m + 1) + 1 /\ ~(k <= m + 1) /\ m + 1 <= m + 1
          BY <3>1, <4>2
        <5>2. h[k] = g[m + 1] \o ss[k] /\ h[m + 1] = g[m + 1]
          BY <5>1
        <5> HIDE DEF h
        <5> QED
          BY <5>1, <5>2
      <4> QED
        BY <3>1, <4>1, <4>2
    <3>6. h = [k \in 1 .. (m + 1) + 1 |-> IF k = 1 THEN ss[k] ELSE h[k - 1] \o ss[k]]
      BY <3>5
    <3> HIDE DEF h
    <3> QED
      BY <3>6
  <2>3. n - 1 \in Nat /\ (n - 1) + 1 = n
    BY <1>1, <1>3
  <2>4. n - 1 \in S
    <3>1. S \in SUBSET Nat
      OBVIOUS
    <3> HIDE DEF S
    <3> QED
      BY <2>1, <2>2, <2>3, <3>1, Upwards
  <2>5. \E g : Loop(n, g)
    <3> HIDE DEF Loop
    <3> QED
      BY <2>3, <2>4, <1>1
  <2>6. 0 \in T
    <3>1. ASSUME NEW g, Loop(n, g) PROVE g[0 + 1] \in Seq(Frames)
      <4>1. 1 \in 1 .. n /\ 0 + 1 = 1
        BY <1>1, <1>3
      <4> QED
        BY <3>1, <4>1, <1>1
    <3> HIDE DEF Loop
    <3> QED
      BY <3>1
  <2>7. ASSUME NEW m \in T PROVE m + 1 \in T
    <3>1. m \in Nat
      OBVIOUS
    <3>2. SUFFICES ASSUME (m + 1) + 1 <= n, NEW g, Loop(n, g) PROVE g[(m + 1) + 1] \in Seq(Frames)
      <4>1. m + 1 \in Nat
        BY <3>1
      <4> HIDE DEF Loop, n
      <4> QED
        BY <4>1, Zenon
    <3>3. m + 1 <= n /\ (m + 1) + 1 \in 1 .. n /\ (m + 1) + 1 # 1 /\ ((m + 1) + 1) - 1 = m + 1
      BY <3>1, <3>2, <1>1
    <3>4. g[m + 1] \in Seq(Frames)
      BY <3>2, <3>3
    <3>5. g[(m + 1) + 1] = g[m + 1] \o ss[(m + 1) + 1]
      BY <3>2, <3>3
    <3> QED
      BY <3>3, <3>4, <3>5, <1>1
  <2>8. n - 1 \in T
    <3>1. T \in SUBSET Nat
      OBVIOUS
    <3> HIDE DEF T
    <3> QED
      BY <2>6, <2>7, <2>3, <3>1, Upwards
  <2>9. FlattenSeq(ss) = (CHOOSE g : Loop(n, g))[n]
    BY <1>3 DEF FlattenSeq
  <2>10. \A g : Loop(n, g) => g[n] \in Seq(Frames)
    <3> HIDE DEF Loop
    <3> QED
      BY <2>3, <2>8, <1>1
  <2> HIDE DEF Loop
  <2> QED
    BY <2>5, <2>9, <2>10
<1> QED
  BY <1>2, <1>3

(* Frames that can be read have an end.                                    *)
LEMMA TopType ==
    ASSUME NEW fs \in Seq(Frames), Parses(fs)
    PROVE  Top(fs) \in 0 .. Space /\ IsTop(fs, Top(fs))
<1> DEFINE S == {Space - End(p) : p \in Pieces(fs)}
<1>1. \A p \in Pieces(fs) : End(p) \in 0 .. Space
  <2> TAKE p \in Pieces(fs)
  <2>1. PICK k \in 1 .. Len(fs) : fs[k].kind = "crypto" /\ p = [off |-> fs[k].off, len |-> fs[k].len]
    BY DEF Pieces, PiecesTo
  <2>2. ~(End(fs[k]) > Space)
    BY <2>1 DEF Parses, Refuses
  <2>3. fs[k] \in Frames
    OBVIOUS
  <2> QED
    BY <2>1, <2>2, <2>3, FramesAssumption DEF End, Frames
<1>2. S \in SUBSET Nat /\ S # {}
  <2>1. \A e \in 0 .. Space : Space - e \in Nat
    BY FramesAssumption
  <2> QED
    BY <1>1, <2>1 DEF Parses
<1>3. PICK m \in S : \A n \in S : m <= n
  <2> HIDE DEF S
  <2> QED
    BY <1>2, LeastNumber
<1>4. PICK q \in Pieces(fs) : m = Space - End(q)
  OBVIOUS
<1>5. \A p \in Pieces(fs) : End(p) <= End(q)
  <2> TAKE p \in Pieces(fs)
  <2>1. Space - End(q) <= Space - End(p)
    BY <1>3, <1>4
  <2>2. End(p) \in Int /\ End(q) \in Int /\ Space \in Int
    BY <1>1, FramesAssumption
  <2> HIDE DEF S
  <2> QED
    BY <2>1, <2>2
<1>6. End(q) \in 0 .. Space /\ IsTop(fs, End(q))
  BY <1>1, <1>5 DEF IsTop
<1> HIDE DEF S
<1> QED
  BY <1>6 DEF Top

LEMMA DatagramType ==
    ASSUME NEW p \in Datagrams
    PROVE  /\ p.kind = "initial" => p \in Initials
           /\ p \in Initials => p.frames \in Seq(Frames) /\ p.size \in 0 .. MaxReasm
<1>1. p \in Others => p.kind # "initial"
  BY DEF Others
<1>2. p \in Initials => p.frames \in Seq(Frames) /\ p.size \in 0 .. MaxReasm
  <2>1. SUFFICES ASSUME p \in Initials PROVE p.frames \in Seq(Frames) /\ p.size \in 0 .. MaxReasm
    OBVIOUS
  <2>2. PICK d \in Payloads : p = [kind |-> "initial", frames |-> d.frames, size |-> d.size]
    BY <2>1 DEF Initials
  <2>3. d \in [frames : Seq(Frames), size : 0 .. MaxReasm]
    BY QuicAssumption
  <2> QED
    BY <2>2, <2>3
<1> QED
  BY <1>1, <1>2 DEF Datagrams

LEMMA ProbedType ==
    ASSUME NEW f \in Searches, NEW p, NEW known \in BOOLEAN
    PROVE  Probed(f, p, known) \in Searches /\ Probed(f, p, known).profile = f.profile
<1>1. [f EXCEPT !.l7 = TRUE] \in Searches /\ [f EXCEPT !.l7 = TRUE].profile = f.profile
  BY DEF Searches
<1> QED
  BY <1>1 DEF Probed

LEMMA WayType ==
    ASSUME NEW p, way \in {"none", "forward", "backward"}
    PROVE  Way(p) \in {"forward", "backward"}
BY DEF Way

(* What a datagram held back adds to what is assembled.                    *)
LEMMA FedType ==
    ASSUME SessionInv, NEW p \in Datagrams, Holds(p)
    PROVE  /\ Fed(p) \in [on : BOOLEAN, data : Seq(Seq(Frames)), present : 0 .. MaxReasm]
           /\ Fed(p).data = Data(p) /\ Fed(p).on
           /\ p \in Initials /\ Append(held, p) \in Seq(Initials)
           /\ Data(p) = [k \in 1 .. Len(Append(held, p)) |-> Append(held, p)[k].frames]
           /\ Data(p) \in Seq(Seq(Frames)) /\ Clean(p) \in Seq(Frames) /\ Parses(Clean(p))
<1>1. p \in Initials /\ p.frames \in Seq(Frames) /\ p.size \in 0 .. MaxReasm
  BY DatagramType DEF Holds, Examined
<1>2. reasm \in [on : BOOLEAN, data : Seq(Seq(Frames)), present : 0 .. MaxReasm] /\ held \in Seq(Initials)
  BY DEF SessionInv, QuicTypeOK
<1>3. reasm.data \in Seq(Seq(Frames)) /\ reasm.present \in 0 .. MaxReasm
  BY <1>2
<1>4. Data(p) \in Seq(Seq(Frames)) /\ Append(held, p) \in Seq(Initials)
  BY <1>1, <1>2, <1>3 DEF Data
<1>5. reasm.present + p.size \in 0 .. MaxReasm
  BY <1>1, <1>3, QuicAssumption DEF Holds, Fits
<1>6. Fed(p) \in [on : BOOLEAN, data : Seq(Seq(Frames)), present : 0 .. MaxReasm]
  BY <1>4, <1>5 DEF Fed
<1>7. Data(p) = [k \in 1 .. Len(Append(held, p)) |-> Append(held, p)[k].frames]
  <2>1. reasm.data = [k \in 1 .. Len(held) |-> held[k].frames]
    BY DEF SessionInv, HeldMakeTheStream
  <2>2. Len(held) \in Nat /\ Len(Append(held, p)) = Len(held) + 1 /\ Len(reasm.data) = Len(held)
    BY <1>2, <2>1
  <2>3. Append(held, p)[Len(held) + 1] = p /\ \A k \in 1 .. Len(held) : Append(held, p)[k] = held[k]
    BY <1>2
  <2>4. Data(p) = [k \in 1 .. Len(held) + 1 |-> IF k = Len(held) + 1 THEN p.frames ELSE held[k].frames]
    BY <2>1, <2>2, <1>3 DEF Data
  <2>5. \A k \in 1 .. Len(held) + 1 :
           (IF k = Len(held) + 1 THEN p.frames ELSE held[k].frames) = Append(held, p)[k].frames
    BY <2>2, <2>3
  <2> QED
    BY <2>2, <2>4, <2>5
<1>8. Clean(p) \in Seq(Frames)
  BY <1>4, FlattenType DEF Clean
<1> QED
  BY <1>1, <1>4, <1>6, <1>7, <1>8 DEF Fed, Holds


LEMMA QuicInitInv == QuicInit => SessionInv
<1> SUFFICES ASSUME QuicInit PROVE SessionInv
  OBVIOUS
<1>1. Idle \in [on : BOOLEAN, data : Seq(Seq(Frames)), present : 0 .. MaxReasm]
  BY QuicAssumption DEF Idle
<1>2. NotSearched \in Searches
  BY DEF NotSearched, Searches
<1>3. QuicTypeOK
  BY <1>1, <1>2 DEF QuicInit, QuicTypeOK
<1>4. HeldMakeTheStream
  BY QuicAssumption DEF QuicInit, HeldMakeTheStream, Idle
<1> QED
  BY <1>3, <1>4 DEF SessionInv

\* What LeaveInOrder and DecidedTogether say of a step.
InOrder ==
    \/ [k \in DOMAIN left' |-> left'[k].packet] \o held' = held \o came'
    \/ way' = "none" /\ held' = <<>> /\ left' = <<>>

StepRight == InOrder /\ WithWholeHello /\ Alike

Leaving == [packet : Datagrams, how : {"flushed", "plain", "desync"}]

LEMMA PassingType ==
    ASSUME NEW packets \in Seq(Datagrams), NEW how \in {"flushed", "plain", "desync"}
    PROVE  /\ Passing(packets, how) \in Seq(Leaving)
           /\ Len(Passing(packets, how)) = Len(packets)
           /\ \A k \in 1 .. Len(packets) :
                 Passing(packets, how)[k].packet = packets[k] /\ Passing(packets, how)[k].how = how
<1>1. \A k \in 1 .. Len(packets) : [packet |-> packets[k], how |-> how] \in Leaving
  BY DEF Leaving
<1>2. Len(packets) \in Nat
  OBVIOUS
<1> QED
  BY <1>1, <1>2 DEF Passing

(* One datagram goes on, none being held.                                  *)
LEMMA AloneStep ==
    ASSUME SessionInv, held = <<>>, NEW p \in Datagrams, NEW how \in {"flushed", "plain", "desync"},
           came' = <<p>>, held' = held, left' = Passing(<<p>>, how)
    PROVE  came' \in Seq(Datagrams) /\ left' \in Seq(Leaving) /\ StepRight
<1>1. <<p>> \in Seq(Datagrams) /\ Len(<<p>>) = 1 /\ <<p>>[1] = p
  OBVIOUS
<1>2. left' = <<[packet |-> p, how |-> how]>>
  BY <1>1 DEF Passing
<1>3. [k \in DOMAIN left' |-> left'[k].packet] = <<p>>
  BY <1>2
<1>4. InOrder
  BY <1>3 DEF InOrder
<1>5. Alike
  BY <1>2 DEF Alike
<1> QED
  BY <1>1, <1>4, <1>5, PassingType DEF StepRight, WithWholeHello

LEMMA UntrackedStep ==
    ASSUME SessionInv, NEW p \in Datagrams, Untracked(p)
    PROVE  SessionInv' /\ StepRight
<1>1. held = <<>>
  BY DEF Untracked, SessionInv, HeldMakeTheStream
<1>2. came' = <<p>> /\ UNCHANGED <<opt, hello, way, found, reasm, held>>
  BY DEF Untracked, fixed
<1>3. PICK how \in {"plain", "desync"} : left' = Passing(<<p>>, how)
  BY DEF Untracked
<1>4. came' \in Seq(Datagrams) /\ left' \in Seq(Leaving) /\ StepRight
  BY <1>1, <1>2, <1>3, AloneStep
<1>5. QuicTypeOK'
  BY <1>2, <1>4 DEF SessionInv, QuicTypeOK, Leaving
<1>6. HeldMakeTheStream'
  BY <1>1, <1>2 DEF SessionInv, HeldMakeTheStream
<1> QED
  BY <1>4, <1>5, <1>6 DEF SessionInv

LEMMA UnmatchedStep ==
    ASSUME SessionInv, NEW p \in Datagrams, Unmatched(p)
    PROVE  SessionInv' /\ StepRight
<1>1. PICK dp \in Profiles : Searched(found, dp).profile = "none" /\ found' = Searched(found, dp)
  BY DEF Unmatched
<1>2. found \in Searches /\ way \in {"none", "forward", "backward"}
  BY DEF SessionInv, QuicTypeOK
<1>3. found' \in Searches /\ found.profile # "some"
  BY <1>1, <1>2, SearchedType
<1>4. held = <<>>
  BY <1>3 DEF SessionInv, HeldMakeTheStream
<1>5. came' = <<p>> /\ way' = Way(p) /\ UNCHANGED <<opt, hello, reasm, held>>
  BY DEF Unmatched, Comes, fixed
<1>6. left' = Passing(<<p>>, "plain")
  BY DEF Unmatched
<1>7. came' \in Seq(Datagrams) /\ left' \in Seq(Leaving) /\ StepRight
  BY <1>4, <1>5, <1>6, AloneStep
<1>8. way' \in {"forward", "backward"}
  BY <1>2, <1>5, WayType
<1>9. QuicTypeOK'
  BY <1>3, <1>5, <1>7, <1>8 DEF SessionInv, QuicTypeOK, Leaving
<1>10. HeldMakeTheStream'
  BY <1>4, <1>5 DEF SessionInv, HeldMakeTheStream
<1> QED
  BY <1>7, <1>9, <1>10 DEF SessionInv

LEMMA DelayedStep ==
    ASSUME SessionInv, NEW p \in Datagrams, Delayed(p)
    PROVE  SessionInv' /\ StepRight
<1>1. opt.tracks /\ Holds(p) /\ Room /\ ~Completes(p)
  BY DEF Delayed
<1>2. came' = <<p>> /\ way' = Way(p) /\ UNCHANGED <<opt, hello>>
  BY DEF Delayed, Comes, fixed
<1>3. reasm' = Fed(p) /\ held' = Append(held, p) /\ left' = <<>>
  BY DEF Delayed
<1>4. PICK dp \in Profiles : Matched(dp) /\ found' = Probed(Searched(found, dp), p, FALSE)
  BY DEF Delayed
<1>5. /\ found \in Searches /\ way \in {"none", "forward", "backward"} /\ held \in Seq(Initials)
      /\ opt \in Options /\ hello \in Hellos
  BY DEF SessionInv, QuicTypeOK
<1>6. found' \in Searches /\ found'.profile = "some"
  BY <1>4, <1>5, SearchedType, ProbedType DEF Matched
<1>7. way' \in {"forward", "backward"} /\ way' = "forward"
  BY <1>1, <1>2, <1>5, WayType DEF Holds, Examined
<1>8. /\ Fed(p) \in [on : BOOLEAN, data : Seq(Seq(Frames)), present : 0 .. MaxReasm]
      /\ Fed(p).data = Data(p) /\ Fed(p).on /\ Append(held, p) \in Seq(Initials)
      /\ Data(p) = [k \in 1 .. Len(Append(held, p)) |-> Append(held, p)[k].frames]
      /\ Parses(Clean(p))
  BY <1>1, FedType
<1>9. came' \in Seq(Datagrams) /\ left' \in Seq(Leaving)
  BY <1>2, <1>3
<1>10. QuicTypeOK'
  BY <1>2, <1>3, <1>5, <1>6, <1>7, <1>8, <1>9 DEF QuicTypeOK, Leaving
<1>11. Len(held') <= DelayedMax /\ held' # <<>>
  <2>1. Len(held) \in Nat /\ Len(held') = Len(held) + 1
    BY <1>3, <1>5
  <2> QED
    BY <2>1, <1>1, <1>3, <1>5, QuicAssumption DEF Room
<1>12. reasm'.on /\ reasm'.data = Data(p) /\ FlattenSeq(Data(p)) = Clean(p)
  BY <1>3, <1>8 DEF Clean
<1>13. opt'.reassembles /\ opt'.tracks
  BY <1>1, <1>2 DEF Holds
<1>14. ~(Full(Clean(p)) /\ IsWhole(Clean(p)))
  BY <1>1 DEF Holds, Completes
<1>15. HeldMakeTheStream'
  BY <1>3, <1>6, <1>7, <1>8, <1>11, <1>12, <1>13, <1>14, <1>2 DEF HeldMakeTheStream, IsWhole, IsHello
<1>16. InOrder
  <2>1. [k \in DOMAIN left' |-> left'[k].packet] = <<>>
    BY <1>3
  <2> QED
    BY <2>1, <1>2, <1>3, <1>5 DEF InOrder
<1>17. WithWholeHello /\ Alike
  BY <1>3 DEF WithWholeHello, Alike
<1> QED
  BY <1>10, <1>15, <1>16, <1>17 DEF SessionInv, StepRight

LEMMA ReplaysStep ==
    ASSUME SessionInv, NEW p \in Datagrams, Replays(p)
    PROVE  SessionInv' /\ StepRight
<1> DEFINE packets == Append(held, p)
           n == Len(packets)
<1>1. opt.tracks /\ Holds(p) /\ Completes(p)
  BY DEF Replays
<1>2. came' = <<p>> /\ way' = Way(p) /\ UNCHANGED <<opt, hello>>
  BY DEF Replays, Comes, fixed
<1>3. reasm' = Idle /\ held' = <<>>
  BY DEF Replays
<1>4. PICK a \in Answers :
         LET after == Replayed(Probed(Searched(found, a.first), p, FALSE), a, n)
         IN  /\ Matched(a.first)
             /\ found' = after[n]
             /\ left' = [k \in 1 .. n |-> [packet |-> packets[k],
                                           how |-> IF Applies(after[k]) THEN "desync" ELSE "plain"]]
  BY DEF Replays
<1> DEFINE f == Probed(Searched(found, a.first), p, FALSE)
           how == IF Applies(Decide(f, a)) THEN "desync" ELSE "plain"
<1>5. /\ found \in Searches /\ way \in {"none", "forward", "backward"} /\ held \in Seq(Initials)
      /\ opt \in Options /\ hello \in Hellos
  BY DEF SessionInv, QuicTypeOK
<1>6. f \in Searches
  <2>1. a.first \in Profiles
    BY DEF Answers
  <2> QED
    BY <2>1, <1>5, SearchedType, ProbedType
<1>7. /\ packets \in Seq(Initials) /\ Data(p) = [k \in 1 .. n |-> packets[k].frames]
      /\ Clean(p) \in Seq(Frames) /\ Parses(Clean(p))
  BY <1>1, FedType
<1>8. n \in Nat \ {0} /\ n = Len(held) + 1
  BY <1>5
<1>9. \A k \in 1 .. n : Replayed(f, a, n)[k] = Decide(f, a)
  <2>1. n \in Nat
    BY <1>8
  <2> HIDE DEF f, n
  <2> QED
    BY <1>6, <2>1, ReplayedAlike
<1>10. found' = Decide(f, a) /\ left' = [k \in 1 .. n |-> [packet |-> packets[k], how |-> how]]
  <2>1. n \in 1 .. n
    BY <1>8
  <2>2. /\ found' = Replayed(f, a, n)[n]
        /\ left' = [k \in 1 .. n |-> [packet |-> packets[k],
                                      how |-> IF Applies(Replayed(f, a, n)[k]) THEN "desync" ELSE "plain"]]
    BY <1>4
  <2> HIDE DEF f, n, packets
  <2> QED
    BY <2>1, <2>2, <1>9
<1>11. found' \in Searches /\ how \in {"plain", "desync"}
  BY <1>6, <1>10, DecideType
<1> HIDE DEF f, how, packets, n
<1>12. packets \in Seq(Datagrams) /\ n = Len(packets)
  BY <1>7 DEF Datagrams, n
<1>13. left' = Passing(packets, how)
  BY <1>10, <1>12 DEF Passing
<1>14. /\ left' \in Seq(Leaving) /\ Len(left') = n
       /\ \A k \in 1 .. n : left'[k].packet = packets[k] /\ left'[k].how = how
  BY <1>11, <1>12, <1>13, PassingType
<1>15. way' \in {"forward", "backward"} /\ DOMAIN left' = 1 .. n
  BY <1>2, <1>5, <1>10, WayType
<1>16. Idle \in [on : BOOLEAN, data : Seq(Seq(Frames)), present : 0 .. MaxReasm]
  BY QuicAssumption DEF Idle
<1>17. QuicTypeOK'
  BY <1>2, <1>3, <1>5, <1>11, <1>14, <1>15, <1>16 DEF QuicTypeOK, Leaving
<1>18. HeldMakeTheStream'
  BY <1>3, QuicAssumption DEF HeldMakeTheStream, Idle
<1>19. InOrder
  <2>1. [k \in DOMAIN left' |-> left'[k].packet] = packets
    BY <1>12, <1>14, <1>15
  <2>2. packets \o <<>> = packets /\ packets = held \o <<p>>
    BY <1>5, <1>7 DEF packets
  <2> QED
    BY <2>1, <2>2, <1>2, <1>3 DEF InOrder
<1>20. Alike
  BY <1>14, <1>15 DEF Alike
<1>21. [k \in DOMAIN left' |-> left'[k].packet.frames] = Data(p)
  <2>1. \A k \in 1 .. n : left'[k].packet.frames = packets[k].frames
    BY <1>14
  <2> QED
    BY <2>1, <1>7, <1>15
<1>22. 0 .. hello - 1 \subseteq Covered(Clean(p))
  <2>1. Top(Clean(p)) \in 0 .. Space
    BY <1>7, TopType
  <2>2. Full(Clean(p)) /\ Top(Clean(p)) >= hello /\ hello \in Nat
    BY <1>1, <1>5, QuicAssumption DEF Completes, IsWhole
  <2>3. \A x \in 0 .. hello - 1 : x \in 0 .. Top(Clean(p)) - 1
    BY <2>1, <2>2, FramesAssumption
  <2> QED
    BY <2>2, <2>3 DEF Full
<1>23. WithWholeHello
  BY <1>21, <1>22 DEF WithWholeHello, Clean
<1> QED
  BY <1>17, <1>18, <1>19, <1>20, <1>23 DEF SessionInv, StepRight

(* A sequence and one element more.                                        *)
LEMMA OneMore ==
    ASSUME NEW S, NEW s \in Seq(S), NEW e \in Seq(S), Len(e) = 1
    PROVE  /\ s \o e \in Seq(S) /\ Len(s \o e) = Len(s) + 1 /\ DOMAIN (s \o e) = 1 .. Len(s) + 1
           /\ Len(s) \in Nat /\ \A k \in 1 .. Len(s) : (s \o e)[k] = s[k]
           /\ (s \o e)[Len(s) + 1] = e[1]
<1>1. s \o e \in Seq(S) /\ Len(s \o e) = Len(s) + Len(e) /\ Len(s) \in Nat
  <2>1. s \o e \in Seq(S)
    OBVIOUS
  <2>2. Len(s \o e) = Len(s) + Len(e)
    BY ConcatProperties
  <2>3. Len(s) \in Nat
    OBVIOUS
  <2> QED
    BY <2>1, <2>2, <2>3
<1>2. Len(s) + 1 \in 1 .. Len(s) + Len(e) /\ (Len(s) + 1) - Len(s) = 1 /\ ~(Len(s) + 1 <= Len(s))
  BY <1>1
<1>3. DOMAIN (s \o e) = 1 .. Len(s) + 1
  BY <1>1
<1>4. \A k \in 1 .. Len(s) : (s \o e)[k] = s[k]
  BY <1>1
<1>5. (s \o e)[Len(s) + 1] = e[1]
  BY <1>1, <1>2
<1> QED
  BY <1>1, <1>3, <1>4, <1>5

LEMMA PassesStep ==
    ASSUME SessionInv, NEW p \in Datagrams, Passes(p)
    PROVE  SessionInv' /\ StepRight
<1>1. came' = <<p>> /\ way' = Way(p) /\ UNCHANGED <<opt, hello>>
  BY DEF Passes, Comes, fixed
<1>2. reasm' = Idle /\ held' = <<>>
  BY DEF Passes, StillHeld
<1>0. PICK host \in BOOLEAN, known \in BOOLEAN :
         \E o \in Outcomes(Probed(found, p, known), host) :
            /\ found' = o.found
            /\ left' = Passing(held, "flushed") \o Passing(<<p>>, IF Applies(o.found) THEN "desync" ELSE "plain")
  BY DEF Passes, SentAway
<1>3. PICK o \in Outcomes(Probed(found, p, known), host) :
         /\ found' = o.found
         /\ left' = Passing(held, "flushed") \o Passing(<<p>>, IF Applies(o.found) THEN "desync" ELSE "plain")
  BY <1>0
<1>4. /\ found \in Searches /\ way \in {"none", "forward", "backward"} /\ held \in Seq(Initials)
      /\ opt \in Options /\ hello \in Hellos
  BY DEF SessionInv, QuicTypeOK
<1>5. found' \in Searches
  BY <1>3, <1>4, ProbedType, OutcomesType
<1> DEFINE how == IF Applies(o.found) THEN "desync" ELSE "plain"
           first == Passing(held, "flushed")
           last == Passing(<<p>>, how)
           n == Len(held)
<1>6. held \in Seq(Datagrams) /\ <<p>> \in Seq(Datagrams) /\ Len(<<p>>) = 1 /\ <<p>>[1] = p
  BY <1>4 DEF Datagrams
<1>7. how \in {"plain", "desync"} /\ how # "flushed"
  OBVIOUS
<1>8. /\ first \in Seq(Leaving) /\ Len(first) = n
      /\ \A k \in 1 .. n : first[k].packet = held[k] /\ first[k].how = "flushed"
  BY <1>6, PassingType
<1>9. /\ last \in Seq(Leaving) /\ Len(last) = 1
      /\ last[1].packet = p /\ last[1].how = how
  <2> HIDE DEF how
  <2> DEFINE one == <<p>>
  <2>1. one \in Seq(Datagrams) /\ how \in {"flushed", "plain", "desync"} /\ Len(one) = 1 /\ one[1] = p
    BY <1>6, <1>7
  <2> HIDE DEF one
  <2>2. /\ Passing(one, how) \in Seq(Leaving)
        /\ Len(Passing(one, how)) = Len(one)
        /\ \A k \in 1 .. Len(one) : Passing(one, how)[k].packet = one[k] /\ Passing(one, how)[k].how = how
    BY <2>1, PassingType
  <2>3. 1 \in 1 .. Len(one)
    BY <2>1
  <2>4. last = Passing(one, how)
    BY DEF one
  <2> HIDE DEF last
  <2> QED
    BY <2>1, <2>2, <2>3, <2>4
<1>10. left' = first \o last
  BY <1>3
<1> HIDE DEF how, first, last
<1>11. /\ left' \in Seq(Leaving) /\ Len(left') = n + 1 /\ DOMAIN left' = 1 .. n + 1 /\ n \in Nat
       /\ \A k \in 1 .. n : left'[k] = first[k]
       /\ left'[n + 1] = last[1]
  <2> HIDE DEF n
  <2> QED
    BY <1>8, <1>9, <1>10, OneMore
<1>12. way' \in {"forward", "backward"}
  BY <1>1, <1>4, WayType
<1>13. Idle \in [on : BOOLEAN, data : Seq(Seq(Frames)), present : 0 .. MaxReasm]
  BY QuicAssumption DEF Idle
<1>14. QuicTypeOK'
  BY <1>1, <1>2, <1>4, <1>5, <1>6, <1>11, <1>12, <1>13 DEF QuicTypeOK, Leaving
<1>15. HeldMakeTheStream'
  BY <1>2, QuicAssumption DEF HeldMakeTheStream, Idle
<1>16. InOrder
  <2>1. \A k \in 1 .. n + 1 : left'[k].packet = (held \o <<p>>)[k]
    <3>1. \A k \in 1 .. n : (held \o <<p>>)[k] = held[k]
      BY <1>6
    <3>2. (held \o <<p>>)[n + 1] = p
      BY <1>6
    <3>3. \A k \in 1 .. n + 1 : k \in 1 .. n \/ k = n + 1
      BY <1>11
    <3> HIDE DEF n
    <3> QED
      BY <3>1, <3>2, <3>3, <1>8, <1>9, <1>11
  <2>2. held \o <<p>> \in Seq(Datagrams) /\ Len(held \o <<p>>) = n + 1
    BY <1>6
  <2>3. [k \in DOMAIN left' |-> left'[k].packet] = held \o <<p>>
    <3>1. held \o <<p>> = [k \in 1 .. n + 1 |-> (held \o <<p>>)[k]]
      BY <2>2
    <3> QED
      BY <2>1, <3>1, <1>11
  <2>4. (held \o <<p>>) \o <<>> = held \o <<p>>
    BY <2>2
  <2> QED
    BY <2>3, <2>4, <1>1, <1>2 DEF InOrder
<1>17. Alike
  <2>1. \A k \in 1 .. n + 1 : left'[k].how # "flushed" => k = n + 1
    BY <1>8, <1>11
  <2> QED
    BY <2>1, <1>11 DEF Alike
<1>18. WithWholeHello
  <2>1. held # <<>> => left'[1].how = "flushed"
    BY <1>4, <1>8, <1>11
  <2> QED
    BY <2>1 DEF WithWholeHello
<1> QED
  BY <1>14, <1>15, <1>16, <1>17, <1>18 DEF SessionInv, StepRight

LEMMA PurgeStep ==
    ASSUME SessionInv, Purge
    PROVE  SessionInv' /\ StepRight
<1>1. /\ way' = "none" /\ found' = NotSearched /\ reasm' = Idle /\ held' = <<>>
      /\ came' = <<>> /\ left' = <<>> /\ UNCHANGED <<opt, hello>>
  BY DEF Purge, fixed
<1>2. Idle \in [on : BOOLEAN, data : Seq(Seq(Frames)), present : 0 .. MaxReasm]
  BY QuicAssumption DEF Idle
<1>3. NotSearched \in Searches
  BY DEF NotSearched, Searches
<1>4. QuicTypeOK'
  BY <1>1, <1>2, <1>3 DEF SessionInv, QuicTypeOK
<1>5. HeldMakeTheStream'
  BY <1>1, QuicAssumption DEF HeldMakeTheStream, Idle
<1> QED
  BY <1>1, <1>4, <1>5 DEF SessionInv, StepRight, InOrder, WithWholeHello, Alike

LEMMA QuicStep ==
    ASSUME SessionInv, [QuicNext]_quicVars
    PROVE  SessionInv' /\ (StepRight \/ UNCHANGED quicVars)
<1>1. CASE \E p \in Datagrams : Datagram(p)
  <2>1. PICK p \in Datagrams : Datagram(p)
    BY <1>1
  <2> QED
    BY <2>1, UntrackedStep, UnmatchedStep, DelayedStep, ReplaysStep, PassesStep DEF Datagram
<1>2. CASE Purge
  BY <1>2, PurgeStep
<1>3. CASE UNCHANGED quicVars
  BY <1>3 DEF quicVars, fixed, SessionInv, QuicTypeOK, HeldMakeTheStream, IsWhole, IsHello
<1> QED
  BY <1>1, <1>2, <1>3 DEF QuicNext

(***************************************************************************)
(* QuicInitials.                                                           *)
(***************************************************************************)

\* A call is made for an Initial, with the frames of all that are held.
CallInv ==
    /\ call # <<>> => call = <<Head(call)>> /\ Head(call) \in Initials
    /\ call # <<>> => frames = Clean(Head(call))

IInv == DIInv /\ SessionInv /\ CallInv

LEMMA InitialsInitInv == InitialsInit => IInv
<1> SUFFICES ASSUME InitialsInit PROVE IInv
  OBVIOUS
<1>1. frames \in Seq(Frames) /\ Fresh
  BY DEF InitialsInit
<1> QED
  BY <1>1, FreshInv, QuicInitInv DEF InitialsInit, IInv, CallInv

LEMMA CleanType ==
    ASSUME SessionInv, NEW p \in Initials
    PROVE  Clean(p) \in Seq(Frames)
<1>1. p.frames \in Seq(Frames)
  BY DatagramType DEF Datagrams
<1>2. reasm.data \in Seq(Seq(Frames))
  BY DEF SessionInv, QuicTypeOK
<1>3. Data(p) \in Seq(Seq(Frames))
  BY <1>1, <1>2 DEF Data
<1> QED
  BY <1>3, FlattenType DEF Clean

\* A step is one of QuicReassembly, or leaves it alone.
LEMMA InitialsStep ==
    ASSUME IInv, [InitialsNext]_initialsVars
    PROVE  IInv' /\ [QuicNext]_quicVars
<1>1. ASSUME NEW p \in Initials, Call(p) PROVE IInv' /\ UNCHANGED quicVars
  <2>1. call' = <<p>> /\ Begin(Clean(p)) /\ UNCHANGED quicVars
    BY <1>1 DEF Call
  <2>2. Clean(p) \in Seq(Frames)
    BY CleanType DEF IInv
  <2>3. DIInv'
    BY <2>1, <2>2, BeginStep
  <2>4. SessionInv'
    BY <2>1, QuicStep DEF IInv
  <2>5. CallInv'
    BY <2>1 DEF CallInv, Begin, Clean, Data, quicVars
  <2> QED
    BY <2>1, <2>3, <2>4, <2>5 DEF IInv
<1>2. CASE Run
  <2>1. DefragNext /\ UNCHANGED <<quicVars, call>>
    BY <1>2 DEF Run
  <2>2. DIInv'
    BY <2>1, DefragStep DEF IInv
  <2>3. SessionInv'
    BY <2>1, QuicStep DEF IInv
  <2>4. frames' = frames
    BY <2>1 DEF DefragNext, Skip, Refuse, SkipDuplicate, Take, FindNothing, Sort, Merge, Finish
  <2>5. CallInv'
    BY <2>1, <2>4 DEF IInv, CallInv, Clean, Data, quicVars
  <2> QED
    BY <2>1, <2>2, <2>3, <2>5 DEF IInv
<1>3. CASE Return
  <2>1. call # <<>> /\ Datagram(Head(call)) /\ call' = <<>> /\ Begin(<<>>)
    BY <1>3 DEF Return
  <2>2. Head(call) \in Datagrams
    BY <2>1 DEF IInv, CallInv, Datagrams
  <2>3. QuicNext
    BY <2>1, <2>2 DEF QuicNext
  <2>4. DIInv'
    <3>1. <<>> \in Seq(Frames)
      OBVIOUS
    <3> QED
      BY <2>1, <3>1, BeginStep
  <2> QED
    BY <2>1, <2>3, <2>4, QuicStep DEF IInv, CallInv
<1>4. ASSUME QuicNext, call = <<>>, UNCHANGED <<defragVars, call>> PROVE IInv'
  <2>1. DIInv' /\ SessionInv'
    BY <1>4, DefragStep, QuicStep DEF IInv
  <2> QED
    BY <1>4, <2>1 DEF IInv, CallInv
<1>5. ASSUME NEW p \in Datagrams, Aside(p) PROVE IInv' /\ QuicNext
  BY <1>4, <1>5 DEF Aside, QuicNext
<1>6. CASE PurgeBetween
  BY <1>4, <1>6 DEF PurgeBetween, QuicNext
<1>7. CASE UNCHANGED initialsVars
  <2>1. UNCHANGED defragVars /\ UNCHANGED quicVars /\ UNCHANGED call
    BY <1>7 DEF initialsVars
  <2>2. DIInv' /\ SessionInv'
    BY <2>1, DefragStep, QuicStep DEF IInv
  <2>3. CallInv'
    BY <2>1 DEF IInv, CallInv, Clean, Data, quicVars, defragVars
  <2> QED
    BY <2>1, <2>2, <2>3 DEF IInv
<1> QED
  BY <1>1, <1>2, <1>3, <1>5, <1>6, <1>7 DEF InitialsNext, Run

(* The ranges and the buffer agree with the frames read at every point of  *)
(* QUICDefragCrypto's loops, which read the frames of the datagrams held.  *)
THEOREM Inductive == InitialsSpec => []IInv
<1>1. IInv /\ [InitialsNext]_initialsVars => IInv'
  BY InitialsStep
<1> QED
  BY <1>1, InitialsInitInv, PTL DEF InitialsSpec

(* QUICDefragCrypto calls the CRYPTO stream full exactly when none of its  *)
(* bytes is missing, ends it where the last piece ends, and fails exactly  *)
(* on frames it cannot read: for frames in any order, repeated or          *)
(* overlapping, and however equal offsets are sorted.  The buffer it       *)
(* leaves holds the data where there is some, and zeros elsewhere.         *)
THEOREM DefragAnswers == InitialsSpec => []AnswersTheCall
<1>1. IInv => AnswersTheCall
  BY DIInvImplies DEF IInv, DIInv, CallInv, AnswersTheCall, DefragInv
<1> QED
  BY <1>1, Inductive, PTL

(* The handling with its call is the handling that is told the answer.     *)
THEOREM CallsAreInside == InitialsSpec => QuicSpec
<1>1. InitialsInit => QuicInit
  BY DEF InitialsInit
<1>2. IInv /\ [InitialsNext]_initialsVars => [QuicNext]_quicVars
  BY InitialsStep
<1> QED
  BY <1>1, <1>2, Inductive, PTL DEF InitialsSpec, QuicSpec

(* The datagrams the filter holds are those whose payloads it has          *)
(* assembled, in their order, while the hello is not whole, and no more    *)
(* than the queue has room for.                                            *)
THEOREM SessionInvariant == InitialsSpec => []SessionInv
<1>1. IInv => SessionInv
  BY DEF IInv
<1> QED
  BY <1>1, Inductive, PTL

(* No datagram is lost, sent twice or overtaken: those held, and the one   *)
(* that came, leave in this order or are still held, unless the entry is   *)
(* purged.                                                                 *)
THEOREM QuicInOrder == InitialsSpec => LeaveInOrder
<1>1. SessionInv /\ [QuicNext]_quicVars => [InOrder]_quicVars
  BY QuicStep DEF StepRight
<1> QED
  BY <1>1, SessionInvariant, CallsAreInside, PTL DEF QuicSpec, LeaveInOrder, InOrder

(* Held datagrams are decided on, and not only sent, with every byte of    *)
(* the ClientHello among them, and all of one ClientHello alike.           *)
THEOREM QuicDecides == InitialsSpec => DecidedTogether
<1>1. SessionInv /\ [QuicNext]_quicVars => [WithWholeHello /\ Alike]_quicVars
  BY QuicStep DEF StepRight
<1> QED
  BY <1>1, SessionInvariant, CallsAreInside, PTL DEF QuicSpec, DecidedTogether
=============================================================================
