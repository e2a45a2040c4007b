------------------------------ MODULE TcpSplit ------------------------------
(***************************************************************************)
(* Where the packet engine cuts a TCP segment: PacketTransformer's choice  *)
(* of a position inside the server's name, and the pieces that a set of    *)
(* positions makes of a payload.  A payload is its length; its bytes are   *)
(* numbered from 0.  A server's name is where it begins in the payload,    *)
(* its length, and where in it the dots are.                               *)
(***************************************************************************)
EXTENDS Integers

Larger(m, n) == IF m > n THEN m ELSE n

(* LastIndexOf: the last dot before a place in a name, -1 if there is none. *)
LastDot(name, before) ==
    LET found == {d \in name.dots : d < before} \cup {-1}
    IN  CHOOSE d \in found : \A e \in found : e <= d

(* The label the engine cuts: the one before the last, or the only one.    *)
LabelEnd(name) == LET d == LastDot(name, name.length) IN IF d > 0 THEN d ELSE name.length
LabelStart(name) == LastDot(name, LabelEnd(name)) + 1

Middle(name) ==
    name.at + LabelStart(name) + Larger(1, (LabelEnd(name) - LabelStart(name)) \div 2)

(* The positions that count: inside of the payload, each once.             *)
Positions(given, length) == {p \in given : 0 < p /\ p < length}

(* Fault: what follows the last position is forgotten.                     *)
EndsWithoutLast(given, length) ==
    IF Positions(given, length) = {} THEN {length} ELSE Positions(given, length)

(* Where the pieces end.                                                   *)
Ends(given, length) == Positions(given, length) \cup {length}

(* A piece reaches from one cut to the next.                               *)
Pieces(given, length) ==
    {piece \in [lo : Ends(given, length) \cup {0}, hi : Ends(given, length)] :
        /\ piece.lo < piece.hi
        /\ \A e \in Ends(given, length) : e <= piece.lo \/ piece.hi <= e}

Bytes(piece) == piece.lo .. piece.hi - 1
=============================================================================
