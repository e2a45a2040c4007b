------------------------------ MODULE QuicDefrag ------------------------------
(***************************************************************************)
(* QUICDefragCrypto: the CRYPTO frames of decrypted QUIC Initials, which   *)
(* come in any order, repeated and overlapping, are put in their places;   *)
(* the ranges they cover are sorted and merged, and the stream is full     *)
(* when one range is left that begins at zero.                             *)
(***************************************************************************)
EXTENDS QuicFrames

VARIABLES
    frames,         \* clean
    done,           \* the frames read so far: pos
    ranges,         \* the ranges taken, no two the same before the sort
    zeropos,        \* the buffer is written up to here
    szmax,          \* where the stream ends
    buffer,         \* defrag_data: the state of each of its bytes
    i, j,           \* the merging loop's
    phase,          \* "scan", "merge", "done" or "failed"
    bFull

defragVars == <<frames, done, ranges, zeropos, szmax, buffer, i, j, phase, bFull>>

Ranges == [off : Nat, len : Nat]
Greater(m, n) == IF m > n THEN m ELSE n

DefragTypeOK ==
    /\ frames \in Seq(Frames)
    /\ done \in 0 .. Len(frames)
    /\ ranges \in Seq(Ranges)
    /\ zeropos \in 0 .. Space /\ szmax \in 0 .. Space
    /\ buffer \in [0 .. Space - 1 -> {"raw", "zero", "data"}]
    /\ i \in Nat \ {0} /\ j \in Nat \ {0}
    /\ phase \in {"scan", "merge", "done", "failed"}
    /\ bFull \in BOOLEAN

(* The variables as a call finds them.                                     *)
Fresh ==
    /\ done = 0 /\ ranges = <<>> /\ zeropos = 0 /\ szmax = 0
    /\ buffer = [x \in 0 .. Space - 1 |-> "raw"]
    /\ i = 2 /\ j = 1 /\ phase = "scan" /\ bFull = FALSE

(* It is called with frames fs.                                            *)
Begin(fs) ==
    /\ frames' = fs /\ done' = 0
    /\ ranges' = <<>> /\ zeropos' = 0 /\ szmax' = 0
    /\ buffer' = [x \in 0 .. Space - 1 |-> "raw"]
    /\ i' = 2 /\ j' = 1 /\ phase' = "scan" /\ bFull' = FALSE

-----------------------------------------------------------------------------
(* The next frame is read.                                                 *)

Reading == phase = "scan" /\ done < Len(frames)
Frame == frames[done + 1]
Piece == [off |-> Frame.off, len |-> Frame.len]

Skip ==
    /\ Reading /\ Frame.kind = "padding"
    /\ done' = done + 1
    /\ UNCHANGED <<frames, ranges, zeropos, szmax, buffer, i, j, phase, bFull>>

Refused ==
    \/ Frame.kind = "other"
    \/ Frame.kind = "crypto" /\ (Len(ranges) >= MaxPieces \/ End(Frame) > Space)

Refuse ==
    /\ Reading /\ Refused
    /\ phase' = "failed"
    /\ UNCHANGED <<frames, done, ranges, zeropos, szmax, buffer, i, j, bFull>>

Known == \E k \in DOMAIN ranges : ranges[k] = Piece

(* An exact duplicate.                                                     *)
SkipDuplicate ==
    /\ Reading /\ Frame.kind = "crypto" /\ ~Refused /\ Known
    /\ done' = done + 1
    /\ UNCHANGED <<frames, ranges, zeropos, szmax, buffer, i, j, phase, bFull>>

(* A gap between what is written and the piece is zeroed.                  *)
Written(b) ==
    [x \in DOMAIN b |->
        IF x \in Positions(Piece) THEN "data" ELSE IF x \in zeropos .. Piece.off - 1 THEN "zero" ELSE b[x]]

Take ==
    /\ Reading /\ Frame.kind = "crypto" /\ ~Refused /\ ~Known
    /\ done' = done + 1
    /\ ranges' = Append(ranges, Piece)
    /\ buffer' = Written(buffer)
    /\ zeropos' = Greater(zeropos, End(Piece))
    /\ szmax' = Greater(szmax, End(Piece))
    /\ UNCHANGED <<frames, i, j, phase, bFull>>

-----------------------------------------------------------------------------
(* All frames are read: no piece was found, or the ranges are sorted.      *)

FindNothing ==
    /\ phase = "scan" /\ done = Len(frames) /\ ranges = <<>>
    /\ phase' = "failed"
    /\ UNCHANGED <<frames, done, ranges, zeropos, szmax, buffer, i, j, bFull>>

(* What qsort may make of them: ranges with one offset come in any order.  *)
Sortings(s) ==
    {[k \in DOMAIN s |-> s[p[k]]] : p \in
        {q \in [DOMAIN s -> DOMAIN s] :
            /\ \A k, m \in DOMAIN s : q[k] = q[m] => k = m
            /\ \A m \in DOMAIN s : \E k \in DOMAIN s : q[k] = m
            /\ \A k, m \in DOMAIN s : k < m => s[q[k]].off <= s[q[m]].off}}

Sort ==
    /\ phase = "scan" /\ done = Len(frames) /\ ranges # <<>>
    /\ ranges' \in Sortings(ranges)
    /\ phase' = "merge"
    /\ UNCHANGED <<frames, done, zeropos, szmax, buffer, i, j, bFull>>

(* Fault: ranges that only touch are not joined. *)
Overlaps(p, q) == q.off < End(p)

(* The next range begins before the current one ends, or where it ends.    *)
Touches(p, q) == q.off <= End(p)

Joined(p, q) == [p EXCEPT !.len = Greater(End(q), End(p)) - p.off]

Merge ==
    /\ phase = "merge" /\ i <= Len(ranges)
    /\ IF Touches(ranges[j], ranges[i])
       THEN ranges' = [ranges EXCEPT ![j] = Joined(ranges[j], ranges[i])] /\ j' = j
       ELSE ranges' = [ranges EXCEPT ![j + 1] = ranges[i]] /\ j' = j + 1
    /\ i' = i + 1
    /\ UNCHANGED <<frames, done, zeropos, szmax, buffer, phase, bFull>>

Finish ==
    /\ phase = "merge" /\ i > Len(ranges)
    /\ bFull' = (j = 1 /\ ranges[1].off = 0)
    /\ phase' = "done"
    /\ UNCHANGED <<frames, done, ranges, zeropos, szmax, buffer, i, j>>

DefragNext ==
    \/ Skip \/ Refuse \/ SkipDuplicate \/ Take
    \/ FindNothing \/ Sort \/ Merge \/ Finish

-----------------------------------------------------------------------------
(* It answers what QuicFrames defines: it fails exactly on what does not   *)
(* parse, ends the stream where the last piece ends, and calls it full     *)
(* exactly when no byte of it is missing, whatever the order of the pieces *)
(* and of the sort.                                                        *)
AnswersAsDefined ==
    /\ phase = "failed" => ~Parses(frames)
    /\ phase = "done" => Parses(frames) /\ szmax = Top(frames) /\ (bFull <=> Full(frames))

(* Up to the end of the stream the buffer holds the data where there is    *)
(* some and zeros where there is none: no uninitialized gap remains, as    *)
(* the comment in the code promises.                                       *)
NoGapsUninitialized ==
    phase = "done" =>
        \A x \in 0 .. szmax - 1 : buffer[x] = IF x \in Covered(frames) THEN "data" ELSE "zero"

DefragInv == DefragTypeOK /\ AnswersAsDefined /\ NoGapsUninitialized
=============================================================================
