------------------------------ MODULE QuicFrames ------------------------------
(***************************************************************************)
(* The frames of decrypted QUIC Initial packets, and what QUICDefragCrypto *)
(* is to say of them: whether it can read them, how far their CRYPTO       *)
(* stream reaches, and whether any of it is missing below that.            *)
(*                                                                         *)
(* A frame is a piece of the CRYPTO stream, padding (PADDING or PING), or  *)
(* one that ends the reading: of another type or cut off.                  *)
(***************************************************************************)
EXTENDS Integers, Sequences, FiniteSets

CONSTANTS
    Space,          \* the stream's bytes that fit: UDP_MAX_REASM less ten
    MaxPieces       \* MAX_DEFRAG_PIECES

ASSUME FramesAssumption == Space \in Nat /\ MaxPieces \in Nat \ {0}

Frames == [kind : {"crypto", "padding", "other"}, off : Nat, len : Nat]

End(p) == p.off + p.len
Positions(p) == p.off .. End(p) - 1

(* The different pieces among the first n frames.                          *)
PiecesTo(fs, n) ==
    {[off |-> fs[i].off, len |-> fs[i].len] : i \in {k \in 1 .. n : fs[k].kind = "crypto"}}

Pieces(fs) == PiecesTo(fs, Len(fs))

(* Frame k is one that QUICDefragCrypto does not take.                     *)
Refuses(fs, k) ==
    \/ fs[k].kind = "other"
    \/ fs[k].kind = "crypto" /\ (Cardinality(PiecesTo(fs, k - 1)) >= MaxPieces \/ End(fs[k]) > Space)

Parses(fs) == Pieces(fs) # {} /\ \A k \in 1 .. Len(fs) : ~Refuses(fs, k)

(* The bytes some piece carries, and where the last piece ends.            *)
Covered(fs) == UNION {Positions(p) : p \in Pieces(fs)}
IsTop(fs, n) == n \in {End(p) : p \in Pieces(fs)} /\ \A p \in Pieces(fs) : End(p) <= n
Top(fs) == CHOOSE n \in 0 .. Space : IsTop(fs, n)

(* No byte below the end is missing.                                       *)
Full(fs) == \A x \in 0 .. Top(fs) - 1 : x \in Covered(fs)
=============================================================================
