---------------------------- MODULE ProfileSearch ----------------------------
(***************************************************************************)
(* The search of the desync profile of a connection: what the tracker's    *)
(* entry remembers of it, the first search, and the search anew when the   *)
(* protocol or the host name becomes known.  What the profiles and the     *)
(* host lists say is left open: it is among the arguments.                 *)
(***************************************************************************)
EXTENDS Naturals

Searches == [profile : {"unsearched", "none", "some"}, l7 : BOOLEAN, l7_discovered : BOOLEAN,
             hostname_discovered : BOOLEAN, check : {"undone", "yes", "no"}]

NotSearched == [profile |-> "unsearched", l7 |-> FALSE, l7_discovered |-> FALSE,
                hostname_discovered |-> FALSE, check |-> "undone"]

Profiles == {"none", "some"}        \* what dp_find may return

(* Fault: a search that found nothing is not remembered. *)
RediscoverForgets(f, host, dp, chk) ==
    LET l7 == f.l7 /\ ~f.l7_discovered
        hostname == host /\ ~f.hostname_discovered
        told == [f EXCEPT !.l7_discovered = @ \/ l7, !.hostname_discovered = @ \/ hostname]
    IN  IF l7 \/ hostname
        THEN [told EXCEPT !.profile = IF dp = "none" THEN "unsearched" ELSE dp,
                          !.check = IF dp = "none" THEN "undone" ELSE chk]
        ELSE IF host /\ f.check = "undone" THEN [told EXCEPT !.check = chk] ELSE told

(* The search play_prolog makes when none was made before.                 *)
Searched(f, dp) == IF f.profile = "unsearched" THEN [f EXCEPT !.profile = dp] ELSE f

(* dp_rediscovery: when the protocol or the host name is new, search anew; *)
(* when the host name is known, check it in the profile's lists once.      *)
Rediscover(f, host, dp, chk) ==
    LET l7 == f.l7 /\ ~f.l7_discovered
        hostname == host /\ ~f.hostname_discovered
        told == [f EXCEPT !.l7_discovered = @ \/ l7, !.hostname_discovered = @ \/ hostname]
    IN  IF l7 \/ hostname
        THEN [told EXCEPT !.profile = dp, !.check = IF dp = "none" THEN "undone" ELSE chk]
        ELSE IF host /\ f.check = "undone" THEN [told EXCEPT !.check = chk] ELSE told

(* What it returns: whether desync is to be applied.                       *)
Applies(f) == f.profile = "some" /\ f.check # "no"

(* The answers the searches and the check of the lists may give: only a    *)
(* host name can be refused.                                               *)
Answers ==
    {a \in [first : Profiles, again : Profiles, check : {"undone", "yes", "no"}, host : BOOLEAN] :
        a.check = "no" => a.host}

Decide(f, a) ==
    LET g == Searched(f, a.first)
    IN  IF g.profile = "none" THEN g ELSE Rediscover(g, a.host, a.again, a.check)

(* What a packet that reveals a host name, or none, can make of f; one for *)
(* which no profile matched is not decided on.                             *)
Outcomes(f, host) ==
    {[matched |-> Searched(f, a.first).profile = "some", found |-> Decide(f, a)] :
        a \in {b \in Answers : b.host = host}}

(* The decision on each of n packets replayed one after another.            *)
Replayed(f, a, n) ==
    LET after[i \in 0 .. n] == IF i = 0 THEN f ELSE Decide(after[i - 1], a)
    IN  after
==============================================================================
