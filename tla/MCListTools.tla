---------------------------- MODULE MCListTools -----------------------------
(* Instances of ListTools for TLC. *)
EXTENDS ListTools

Net(a, b) == [kind |-> "net", family |-> 4, addr |-> a, bits |-> b]
Net6(a, b) == [kind |-> "net", family |-> 6, addr |-> a, bits |-> b]
Empty == [kind |-> "empty"]
Name == [kind |-> "name"]
Bad == [kind |-> "bad"]

MCWidth == [f \in {4, 6} |-> 5]
MCPow2 == [z \in 0..5 |-> 2^z]
MCLines == {Net(a, b) : a \in 0..31, b \in {3, 5}} \cup {Net6(a, 5) : a \in 0..31}
\* The last two have, of each family, addresses that a network is made for and one
\* beside them.
MCInputs ==
    {<<Name, Name>>, <<Bad, Name>>, <<Net(19, 3), Net(3, 5)>>,
     <<Net6(9, 5), Net6(9, 6), Empty>>,
     <<Net(5, 5), Net(0, 5), Net(20, 5)>>, <<Net6(9, 5), Net6(16, 5), Net6(8, 5)>>}
MCAnswers == {<<Net(1, 5), Net6(8, 5)>>, <<Net(0, 5), Net(2, 5)>>}

Opt(f, p1, p2, m, d, t) ==
    [family |-> f, plen1 |-> p1, plen2 |-> p2, mul |-> m, div |-> d, threshold |-> t]
\* Two thirds of the largest network do not fit a word.
MCOptions == {Opt(4, 1, 4, 2, 3, 5), Opt(6, 1, 4, 2, 3, 2)}
=============================================================================
