------------------------- MODULE ProfileSearchProofs -------------------------
(***************************************************************************)
(* What the search of a desync profile keeps, and that the packets         *)
(* replayed one after another meet what the first met.                     *)
(***************************************************************************)
EXTENDS ProfileSearch, WellFoundedInduction, TLAPS

LEMMA SearchedType ==
    ASSUME NEW f \in Searches, NEW dp \in Profiles
    PROVE  /\ Searched(f, dp) \in Searches /\ Searched(f, dp).profile \in Profiles
           /\ f.profile = "some" => Searched(f, dp) = f
<1>1. f.profile = "unsearched" => [f EXCEPT !.profile = dp] \in Searches
  BY DEF Searches, Profiles
<1>2. f.profile = "unsearched" => [f EXCEPT !.profile = dp].profile = dp
  BY DEF Searches, Profiles
<1>3. f.profile \in {"unsearched", "none", "some"}
  BY DEF Searches
<1> QED
  BY <1>1, <1>2, <1>3 DEF Searched, Profiles

LEMMA RediscoverType ==
    ASSUME NEW f \in Searches, NEW host \in BOOLEAN, NEW dp \in Profiles, NEW chk \in {"undone", "yes", "no"}
    PROVE  Rediscover(f, host, dp, chk) \in Searches
<1> DEFINE l7 == f.l7 /\ ~f.l7_discovered
           hostname == host /\ ~f.hostname_discovered
           told == [f EXCEPT !.l7_discovered = @ \/ l7, !.hostname_discovered = @ \/ hostname]
<1>1. told \in Searches
  BY DEF Searches
<1>2. \A d \in Profiles, c \in {"undone", "yes", "no"} :
         [told EXCEPT !.profile = d, !.check = c] \in Searches /\ [told EXCEPT !.check = c] \in Searches
  <2> HIDE DEF told
  <2> QED
    BY <1>1 DEF Searches, Profiles
<1>3. Rediscover(f, host, dp, chk) =
        IF l7 \/ hostname
        THEN [told EXCEPT !.profile = dp, !.check = IF dp = "none" THEN "undone" ELSE chk]
        ELSE IF host /\ f.check = "undone" THEN [told EXCEPT !.check = chk] ELSE told
  BY DEF Rediscover
<1>4. (IF dp = "none" THEN "undone" ELSE chk) \in {"undone", "yes", "no"}
  OBVIOUS
<1> HIDE DEF told, l7, hostname
<1> QED
  BY <1>1, <1>2, <1>3, <1>4

LEMMA DecideType ==
    ASSUME NEW f \in Searches, NEW a \in Answers
    PROVE  Decide(f, a) \in Searches
<1>1. /\ a.first \in Profiles /\ a.again \in Profiles /\ a.host \in BOOLEAN
      /\ a.check \in {"undone", "yes", "no"}
  BY DEF Answers
<1> QED
  BY <1>1, SearchedType, RediscoverType DEF Decide

LEMMA OutcomesType ==
    ASSUME NEW f \in Searches, NEW host \in BOOLEAN, NEW o \in Outcomes(f, host)
    PROVE  o.found \in Searches /\ (f.profile = "some" => o.matched)
<1>1. PICK a \in Answers : o = [matched |-> Searched(f, a.first).profile = "some", found |-> Decide(f, a)]
  BY DEF Outcomes
<1>2. a.first \in Profiles
  BY DEF Answers
<1> QED
  BY <1>1, <1>2, DecideType, SearchedType

-----------------------------------------------------------------------------
(* replay_queue                                                            *)

(* What is told once is told: a second time decides nothing else.          *)
LEMMA DecideOnce ==
    ASSUME NEW f \in Searches, NEW a \in Answers
    PROVE  Decide(Decide(f, a), a) = Decide(f, a)
<1> DEFINE s == Searched(f, a.first)
           l7 == s.l7 /\ ~s.l7_discovered
           hostname == a.host /\ ~s.hostname_discovered
           told == [s EXCEPT !.l7_discovered = @ \/ l7, !.hostname_discovered = @ \/ hostname]
           chk == IF a.again = "none" THEN "undone" ELSE a.check
           g == Decide(f, a)
<1>1. /\ a.first \in Profiles /\ a.again \in Profiles /\ a.host \in BOOLEAN
      /\ a.check \in {"undone", "yes", "no"}
  BY DEF Answers
<1>2. s \in Searches /\ s.profile \in Profiles
  BY <1>1, SearchedType
<1>3. CASE s.profile = "none"
  <2>1. g = s
    BY <1>3 DEF Decide
  <2>2. Searched(s, a.first) = s
    BY <1>3 DEF Searched
  <2> QED
    BY <1>3, <2>1, <2>2 DEF Decide
<1>4. CASE s.profile = "some"
  <2>1. g = Rediscover(s, a.host, a.again, a.check)
    BY <1>4 DEF Decide
  <2>2. g = IF l7 \/ hostname THEN [told EXCEPT !.profile = a.again, !.check = chk]
            ELSE IF a.host /\ s.check = "undone" THEN [told EXCEPT !.check = a.check] ELSE told
    BY <2>1 DEF Rediscover
  <2>3. /\ told \in Searches /\ told.profile = "some" /\ told.l7 = s.l7 /\ told.check = s.check
        /\ told.l7_discovered = (s.l7_discovered \/ l7)
        /\ told.hostname_discovered = (s.hostname_discovered \/ hostname)
    BY <1>2, <1>4 DEF Searches
  <2>4. g \in Searches
    BY DecideType
  <2>5. /\ g.l7 = s.l7 /\ g.l7_discovered = (s.l7_discovered \/ l7)
        /\ g.hostname_discovered = (s.hostname_discovered \/ hostname)
        /\ g.profile = (IF l7 \/ hostname THEN a.again ELSE "some")
        /\ g.check = (IF l7 \/ hostname THEN chk
                      ELSE IF a.host /\ s.check = "undone" THEN a.check ELSE s.check)
    <3> HIDE DEF told, l7, hostname, g, s
    <3> QED
      BY <2>2, <2>3 DEF Searches
  <2>6. CASE g.profile = "none"
    <3>1. Searched(g, a.first) = g
      BY <2>6 DEF Searched
    <3> QED
      BY <2>6, <3>1 DEF Decide
  <2>7. CASE g.profile = "some"
    <3>1. Searched(g, a.first) = g
      BY <2>7 DEF Searched
    <3>2. Decide(g, a) = Rediscover(g, a.host, a.again, a.check)
      BY <2>7, <3>1 DEF Decide
    <3>3. ~(g.l7 /\ ~g.l7_discovered) /\ ~(a.host /\ ~g.hostname_discovered)
      BY <2>5
    <3>4. g.l7_discovered \in BOOLEAN /\ g.hostname_discovered \in BOOLEAN
      BY <2>4 DEF Searches
    <3>5. [g EXCEPT !.l7_discovered = g.l7_discovered \/ FALSE,
                    !.hostname_discovered = g.hostname_discovered \/ FALSE] = g
      BY <2>4, <3>4 DEF Searches
    <3>6. a.host /\ g.check = "undone" => [g EXCEPT !.check = a.check] = g
      <4>1. a.host /\ g.check = "undone" => a.check = "undone"
        BY <2>5, <2>7, <1>1 DEF Profiles
      <4> QED
        BY <2>4, <4>1 DEF Searches
    <3>7. Decide(g, a) = g
      <4> HIDE DEF g
      <4> QED
        BY <3>2, <3>3, <3>4, <3>5, <3>6 DEF Rediscover
    <3> QED
      BY <3>7
  <2>8. g.profile \in Profiles
    BY <2>5, <1>1 DEF Profiles
  <2> QED
    BY <2>6, <2>7, <2>8 DEF Profiles
<1> QED
  BY <1>2, <1>3, <1>4 DEF Profiles

(* A set of numbers has a least one.                                       *)
LEMMA LeastNumber ==
    ASSUME NEW S \in SUBSET Nat, S # {}
    PROVE  \E m \in S : \A n \in S : m <= n
<1>1. \E m \in S : \A n \in S : ~ (<<n, m>> \in OpToRel(<, Nat))
  BY WFMin, NatLessThanWellFounded
<1>2. \A m, n \in Nat : ~ (<<n, m>> \in OpToRel(<, Nat)) => m <= n
  BY DEF OpToRel
<1> QED
  BY <1>1, <1>2

(* A property of 0 that goes from each number to the next holds of all.    *)
LEMMA Upwards ==
    ASSUME NEW S \in SUBSET Nat, 0 \in S, \A n \in S : n + 1 \in S
    PROVE  S = Nat
<1> DEFINE R == Nat \ S
<1>1. SUFFICES ASSUME R # {} PROVE FALSE
  OBVIOUS
<1>2. PICK m \in R : \A n \in R : m <= n
  <2>1. R \in SUBSET Nat
    OBVIOUS
  <2> HIDE DEF R
  <2> QED
    BY <1>1, <2>1, LeastNumber
<1>3. m \in Nat /\ m # 0
  OBVIOUS
<1>4. m - 1 \in Nat /\ (m - 1) + 1 = m /\ ~(m <= m - 1)
  BY <1>3
<1>5. m - 1 \in S
  BY <1>2, <1>4
<1> QED
  BY <1>4, <1>5

(* The loop of replay_queue: every packet after the first meets what the   *)
(* first met.                                                              *)
LEMMA ReplayedIs ==
    ASSUME NEW f, NEW a, NEW n \in Nat
    PROVE  Replayed(f, a, n) = [i \in 0 .. n |-> IF i = 0 THEN f ELSE Decide(Replayed(f, a, n)[i - 1], a)]
<1> DEFINE Loop(m, g) == g = [i \in 0 .. m |-> IF i = 0 THEN f ELSE Decide(g[i - 1], a)]
           S == {m \in Nat : \E g : Loop(m, g)}
<1>1. 0 \in S
  <2>1. Loop(0, [i \in 0 .. 0 |-> f])
    OBVIOUS
  <2> QED
    BY <2>1
<1>2. ASSUME NEW m \in S PROVE m + 1 \in S
  <2>1. PICK g : Loop(m, g)
    OBVIOUS
  <2> DEFINE h == [i \in 0 .. m + 1 |-> IF i <= m THEN g[i] ELSE Decide(g[m], a)]
  <2>2. m \in Nat /\ 0 <= m
    OBVIOUS
  <2>3. \A i \in 0 .. m : g[i] = IF i = 0 THEN f ELSE Decide(g[i - 1], a)
    BY <2>1
  <2>4. \A i \in 0 .. m + 1 : h[i] = IF i = 0 THEN f ELSE Decide(h[i - 1], a)
    <3> TAKE i \in 0 .. m + 1
    <3>1. CASE i <= m
      BY <2>2, <2>3, <3>1
    <3>2. CASE i = m + 1
      BY <2>2, <3>2
    <3> QED
      BY <2>2, <3>1, <3>2
  <2>5. h = [i \in 0 .. m + 1 |-> IF i = 0 THEN f ELSE Decide(h[i - 1], a)]
    BY <2>4
  <2> HIDE DEF h
  <2> QED
    BY <2>2, <2>5
<1>3. n \in S
  <2>1. S \in SUBSET Nat
    OBVIOUS
  <2> HIDE DEF S
  <2> QED
    BY <1>1, <1>2, <2>1, Upwards
<1>4. \E g : Loop(n, g)
  BY <1>3
<1>5. Replayed(f, a, n) = CHOOSE g : Loop(n, g)
  BY DEF Replayed
<1> HIDE DEF Loop
<1>6. Loop(n, Replayed(f, a, n))
  BY <1>4, <1>5
<1> QED
  BY <1>6 DEF Loop

LEMMA ReplayedAlike ==
    ASSUME NEW f \in Searches, NEW a \in Answers, NEW n \in Nat
    PROVE  \A i \in 1 .. n : Replayed(f, a, n)[i] = Decide(f, a)
<1> DEFINE R == Replayed(f, a, n)
           S == {k \in Nat : k + 1 \in 1 .. n => R[k + 1] = Decide(f, a)}
<1>1. \A i \in 0 .. n : R[i] = IF i = 0 THEN f ELSE Decide(R[i - 1], a)
  BY ReplayedIs
<1> HIDE DEF R
<1>2. 0 \in S
  <2>1. 1 \in 1 .. n => R[1] = Decide(R[0], a) /\ R[0] = f
    BY <1>1
  <2> QED
    BY <2>1
<1>3. ASSUME NEW k \in S PROVE k + 1 \in S
  <2>1. k \in Nat
    OBVIOUS
  <2>2. ASSUME (k + 1) + 1 \in 1 .. n PROVE R[(k + 1) + 1] = Decide(f, a)
    <3>1. k + 1 \in 1 .. n /\ (k + 1) + 1 \in 0 .. n /\ ((k + 1) + 1) - 1 = k + 1 /\ (k + 1) + 1 # 0
      BY <2>1, <2>2
    <3>2. R[(k + 1) + 1] = Decide(R[k + 1], a)
      BY <1>1, <3>1
    <3>3. R[k + 1] = Decide(f, a)
      BY <3>1
    <3> QED
      BY <3>2, <3>3, DecideOnce
  <2> QED
    BY <2>1, <2>2
<1>4. S = Nat
  <2>1. S \in SUBSET Nat
    OBVIOUS
  <2> HIDE DEF S
  <2> QED
    BY <1>2, <1>3, <2>1, Upwards
<1>5. \A i \in 1 .. n : i - 1 \in S /\ (i - 1) + 1 = i
  <2>1. \A i \in 1 .. n : i - 1 \in Nat /\ (i - 1) + 1 = i
    OBVIOUS
  <2> QED
    BY <1>4, <2>1
<1> QED
  BY <1>5 DEF R
==============================================================================
