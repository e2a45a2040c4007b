----------------------------- MODULE PacketPath -----------------------------
(***************************************************************************)
(* What the packet filter owes the client of a connection, whatever it     *)
(* does to the packets: the data packets it was given leave it in the      *)
(* order they came, each at most once, and a packet is held back only with *)
(* every packet that came after it.  Held packets disappear only all       *)
(* together, with the connection entry that holds them.                    *)
(*                                                                         *)
(* Packets are numbered in the order they arrive.                          *)
(***************************************************************************)
EXTENDS Integers, Sequences

VARIABLES
    arrived,        \* how many packets have come
    held,           \* the packets held back
    gone            \* the packets that have left, oldest first

vars == <<arrived, held, gone>>

Init == arrived = 0 /\ held = <<>> /\ gone = <<>>

(* A packet comes; it and those before it leave, or some of the oldest do. *)
Take ==
    /\ arrived' = arrived + 1
    /\ \E n \in 0 .. Len(held) + 1 :
          LET all == Append(held, arrived + 1)
          IN  /\ gone' = gone \o SubSeq(all, 1, n)
              /\ held' = SubSeq(all, n + 1, Len(all))

(* Everything held leaves. *)
Flush == held # <<>> /\ gone' = gone \o held /\ held' = <<>> /\ UNCHANGED arrived

(* The connection entry goes, and what it holds with it. *)
Forget == held # <<>> /\ held' = <<>> /\ UNCHANGED <<arrived, gone>>

Next == Take \/ Flush \/ Forget

Spec == Init /\ [][Next]_vars

(* No packet is sent before one that came earlier, and none twice.         *)
InOrder ==
    LET all == gone \o held
    IN  \A i, j \in DOMAIN all : i < j => all[i] < all[j]
=============================================================================
