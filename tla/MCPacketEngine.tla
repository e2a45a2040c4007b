--------------------------- MODULE MCPacketEngine ---------------------------
(* Small instances of PacketEngine for TLC: segments of up to seven bytes  *)
(* at the wrap of sixteen sequence numbers, a name of two labels, split    *)
(* positions out of range, two servers asked with the same key.            *)
EXTENDS PacketEngine, TLC

CONSTANTS f1, f2, web, s1, s2

MCFlows == {f1, f2, web}
MCWebFlows == {web}
MCStarts == f1 :> <<14, 5>> @@ f2 :> <<3>> @@ web :> <<12>>
MCLengths == {3, 7}
dotted == [at |-> 2, length |-> 4, dots |-> {2}]
MCNames == {dotted}
MCKeys == {[port |-> 1, id |-> 1], [port |-> 2, id |-> 1]}
MCServers == {s1, s2}

(* Like the strategies: strong, compatibility, and a profile with DoH.     *)
strong ==
    [splits |-> {1}, marker |-> "SniMiddle", reverse |-> TRUE, fakeRepeats |-> 2, maxPayload |-> 7,
     hosts |-> {}, fakeHosts |-> {dotted}, blockQuic |-> TRUE, dns |-> "off", usualPort |-> FALSE]
compatible ==
    [splits |-> {2, 5, 9}, marker |-> "SniStart", reverse |-> FALSE, fakeRepeats |-> 0, maxPayload |-> 5,
     hosts |-> {}, fakeHosts |-> {}, blockQuic |-> FALSE, dns |-> "redirect", usualPort |-> TRUE]
secure ==
    [splits |-> {1, 4}, marker |-> "SniMiddle", reverse |-> TRUE, fakeRepeats |-> 1, maxPayload |-> 7,
     hosts |-> {dotted}, fakeHosts |-> {}, blockQuic |-> FALSE, dns |-> "doh", usualPort |-> FALSE]
MCOptions == {strong, compatible, secure}
=============================================================================
