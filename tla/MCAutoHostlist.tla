---------------------------- MODULE MCAutoHostlist ----------------------------
(***************************************************************************)
(* An instance of AutoHostlist: a domain and a host below it, and one      *)
(* connection at a time.                                                   *)
(***************************************************************************)
EXTENDS AutoHostlist

MCHosts == {"a", "b.a"}
MCParents == [h \in MCHosts |-> IF h = "b.a" THEN {"a"} ELSE {}]
MCContents == {<<[name |-> "a", strict |-> TRUE], [name |-> "a", strict |-> FALSE]>>}
MCInitial ==
    [f \in Files |-> IF f = "exclude" THEN MCContents \cup {<<>>} ELSE {<<>>}]
MCFlows == {"f1"}
MCEdited == {"user", "ipset"}
MCAccessed == {"auto"}
=============================================================================
