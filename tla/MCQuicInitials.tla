--------------------------- MODULE MCQuicInitials ---------------------------
(* A small instance of QuicInitials for TLC: a ClientHello of four bytes,  *)
(* or another message, told by its first two, whose pieces come in any     *)
(* order, twice, alone or several in one Initial, the whole of it in one,  *)
(* its first byte alone; Initials with nothing but padding, with a frame   *)
(* that is not known, or with a piece that ends outside of the buffer.     *)
EXTENDS QuicInitials

Crypto(o, n) == [kind |-> "crypto", off |-> o, len |-> n]
NoPiece(k) == [kind |-> k, off |-> 0, len |-> 0]

MCPayloads ==
    {[frames |-> <<Crypto(0, 3)>>, size |-> 1],
     [frames |-> <<Crypto(3, 1)>>, size |-> 1],
     [frames |-> <<Crypto(3, 1), NoPiece("padding"), Crypto(0, 1)>>, size |-> 2],
     [frames |-> <<Crypto(1, 2)>>, size |-> 1],
     [frames |-> <<Crypto(0, 1)>>, size |-> 1],
     [frames |-> <<Crypto(2, 2), Crypto(0, 2)>>, size |-> 2],
     [frames |-> <<Crypto(1, 1), Crypto(2, 1)>>, size |-> 1],
     [frames |-> <<NoPiece("padding")>>, size |-> 1],
     [frames |-> <<Crypto(3, 2)>>, size |-> 1],
     [frames |-> <<Crypto(0, 1), NoPiece("other")>>, size |-> 1]}

MCHellos == {0, 4}
===============================================================================
