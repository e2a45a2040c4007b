---------------------------- MODULE NfqMainProofs ----------------------------
(***************************************************************************)
(* What is proved of TimerPool and NfqMain, for every set of names and     *)
(* periods, every number of timers, signals and packets, and every system: *)
(* each timer runs when it is due and once, the loop never sleeps past     *)
(* one, and nfqws2 leaves nothing open however it ends.                    *)
(* And of Options, for every menu of options and all packets: the filter   *)
(* of the driver captures what the --wf- options ask for, and the profiles *)
(* are those that the options declare.                                     *)
(***************************************************************************)
EXTENDS NfqMain, Options, WellFoundedInduction, FiniteSetTheorems, TLAPS

-----------------------------------------------------------------------------
\* The operators on pools

\* What the walk relies on of a pool.
IsPool(p) ==
    /\ \A t \in p : t.n \in Nat \ {0} /\ t.due \in Nat /\ t.due < Never
    /\ \A t, u \in p : t.n = u.n => t = u

\* A set of numbers that has one has a least.
LEMMA LeastOf ==
    ASSUME NEW S \in SUBSET Nat, S # {}
    PROVE  \E m \in S : \A n \in S : m <= n
<1>1. PICK m \in S : \A n \in S : ~(<<n, m>> \in OpToRel(<, Nat))
  BY WFMin, NatLessThanWellFounded
<1>2. ASSUME NEW n \in S PROVE m <= n
  <2>1. ~(n < m)
    BY <1>1 DEF OpToRel
  <2> QED
    BY <2>1
<1> QED
  BY <1>2

LEMMA FirstIs ==
    ASSUME NEW p, IsPool(p), p # {}
    PROVE  First(p) \in Numbers(p) /\ \A m \in Numbers(p) : First(p) <= m
<1>1. Numbers(p) \in SUBSET Nat /\ Numbers(p) # {}
  BY DEF IsPool, Numbers
<1>2. \E n \in Numbers(p) : \A m \in Numbers(p) : n <= m
  BY <1>1, LeastOf
<1> QED
  BY <1>2 DEF First

\* First and After are numbers of the pool, or 0.
LEMMA FirstBelongs ==
    ASSUME NEW p, IsPool(p)
    PROVE  First(p) \in Numbers(p) \cup {0} /\ (First(p) = 0 => p = {})
<1>1. CASE p = {}
  BY <1>1 DEF First
<1>2. CASE p # {}
  <2>1. 0 \notin Numbers(p)
    BY DEF IsPool, Numbers
  <2> QED
    BY <1>2, <2>1, FirstIs
<1> QED
  BY <1>1, <1>2

LEMMA AfterIs ==
    ASSUME NEW p, IsPool(p), NEW n \in Numbers(p)
    PROVE  /\ After(p, n) \in Numbers(p) \cup {0}
           /\ After(p, n) # 0 => After(p, n) > n
           /\ \A t \in p : t.n > n => After(p, n) # 0 /\ After(p, n) <= t.n
<1> DEFINE later == {t \in p : t.n > n}
<1>1. IsPool(later)
  BY DEF IsPool
<1>2. After(p, n) = First(later)
  BY DEF After
<1>3. Numbers(later) \subseteq Numbers(p) /\ \A m \in Numbers(later) : m > n
  BY DEF Numbers
<1>4. 0 \notin Numbers(p)
  BY DEF IsPool, Numbers
<1>5. \A t \in later : t.n \in Numbers(later)
  BY DEF Numbers
<1>6. \A t \in p : t.n > n => t \in later
  OBVIOUS
<1> HIDE DEF later
<1>7. CASE later = {}
  <2>1. First(later) = 0
    BY <1>7 DEF First
  <2> QED
    BY <1>2, <1>6, <1>7, <2>1
<1>8. CASE later # {}
  BY <1>1, <1>2, <1>3, <1>4, <1>5, <1>6, <1>8, FirstIs
<1> QED
  BY <1>7, <1>8

LEMMA AfterBelongs ==
    ASSUME NEW p, IsPool(p), NEW n
    PROVE  After(p, n) \in Numbers(p) \cup {0}
<1>1. CASE n \in Numbers(p)
  BY <1>1, AfterIs
<1>2. CASE n \notin Numbers(p)
  BY <1>2 DEF After
<1> QED
  BY <1>1, <1>2

LEMMA SoonestIs ==
    ASSUME NEW p, IsPool(p), p # {}
    PROVE  /\ \E t \in p : Soonest(p) = t.due
           /\ \A t \in p : Soonest(p) <= t.due
<1> DEFINE dues == {t.due : t \in p}
<1>1. dues \in SUBSET Nat /\ dues # {}
  BY DEF IsPool
<1>2. \E d \in dues : \A e \in dues : d <= e
  <2> HIDE DEF dues
  <2> QED
    BY <1>1, LeastOf
<1>3. \E d \in dues : \A t \in p : d <= t.due
  BY <1>2
<1> QED
  BY <1>3 DEF Soonest

\* The least due there is is the soonest.
LEMMA SoonestUnique ==
    ASSUME NEW p, IsPool(p), NEW t \in p, \A u \in p : t.due <= u.due
    PROVE  Soonest(p) = t.due
<1>1. p # {}
  OBVIOUS
<1>2. PICK u \in p : Soonest(p) = u.due
  BY <1>1, SoonestIs
<1>3. u.due <= t.due /\ t.due <= u.due
  BY <1>1, <1>2, SoonestIs
<1> QED
  BY <1>2, <1>3 DEF IsPool

LEMMA TimerIs ==
    ASSUME NEW p, IsPool(p), NEW t \in p
    PROVE  Timer(p, t.n) = t
BY DEF Timer, IsPool

LEMMA TimerOf ==
    ASSUME NEW p, IsPool(p), NEW n \in Numbers(p)
    PROVE  Timer(p, n) \in p /\ Timer(p, n).n = n
BY DEF Timer, Numbers

\* The pool of a state is one.
LEMMA PoolIs ==
    ASSUME TimersTypeOK, NumbersUnique
    PROVE  IsPool(pool) /\ Numbers(pool) \subseteq 1..created
<1>1. MaxTime \in Nat /\ created \in Nat
  BY TimerAssumption DEF TimersTypeOK
<1>2. \A t \in pool : t.n \in 1..created /\ t.due \in 1 .. (MaxTime + MaxTime)
  BY DEF TimersTypeOK, Timers
<1>3. \A t \in pool : t.n \in Nat \ {0} /\ t.due \in Nat /\ t.due < Never
  BY <1>1, <1>2 DEF Never
<1> QED
  BY <1>2, <1>3 DEF IsPool, Numbers, NumbersUnique

-----------------------------------------------------------------------------
\* The functions that Lua calls

LEMMA SetKeeps ==
    ASSUME TimersInv, walk.on => walk.calling, UNCHANGED <<now, walk, ran>>,
           NEW name \in Names, NEW period \in Periods, NEW oneshot \in BOOLEAN,
           SetTimer(name, period, oneshot)
    PROVE  TimersInv'
<1> DEFINE new == [n |-> created + 1, name |-> name, period |-> period,
                   oneshot |-> oneshot, due |-> now + period]
<1> USE DEF TimersInv
<1>1. /\ created \in Nat /\ created' = created + 1 /\ created' \in 0..MaxCreated
      /\ pool' = Others(name) \cup {new} /\ dirty' = TRUE
  BY TimerAssumption DEF SetTimer, TimersTypeOK
<1>2. new \in Timers'
  <2>1. period \in 1..MaxTime /\ now \in 1..MaxTime /\ MaxTime \in Nat
    BY TimerAssumption DEF TimersTypeOK
  <2>2. now + period \in 1 .. (MaxTime + MaxTime)
    BY <2>1
  <2>3. created + 1 \in 1..created'
    BY <1>1
  <2> QED
    BY <2>1, <2>2, <2>3 DEF Timers
<1>3. Timers \subseteq Timers'
  <2>1. 1..created \subseteq 1..created'
    BY <1>1
  <2> QED
    BY <2>1 DEF Timers
<1>4. Others(name) \subseteq pool
  BY DEF Others
<1>5. TimersTypeOK'
  <2>1. pool' \subseteq Timers'
    BY <1>1, <1>2, <1>3, <1>4 DEF TimersTypeOK
  <2>2. walk' \in Walks'
    <3>1. 0..created \subseteq 0..created' /\ now' = now /\ walk' = walk
      BY <1>1
    <3>2. Walks \subseteq Walks'
      BY <3>1 DEF Walks
    <3> QED
      BY <3>1, <3>2 DEF TimersTypeOK
  <2> QED
    BY <1>1, <2>1, <2>2 DEF TimersTypeOK
<1>6. \A t \in pool : t.n \in 1..created
  BY DEF TimersTypeOK, Timers
<1>7. new.n = created + 1
  OBVIOUS
<1> HIDE DEF new
<1>8. NumbersUnique'
  BY <1>1, <1>4, <1>6, <1>7 DEF NumbersUnique
<1>9. WalkSound'
  BY <1>1 DEF WalkSound
<1>10. RanOnce'
  <2>1. \A i \in DOMAIN ran : ran[i] # new.n
    BY <1>1, <1>7 DEF TimersTypeOK
  <2> QED
    BY <1>1, <1>4, <2>1 DEF RanOnce
<1> QED
  BY <1>5, <1>8, <1>9, <1>10

LEMMA DelKeeps ==
    ASSUME TimersInv, walk.on => walk.calling, UNCHANGED <<now, walk, ran>>,
           NEW name \in Names, DelTimer(name)
    PROVE  TimersInv'
<1> USE DEF TimersInv
<1>1. /\ pool' = Others(name) /\ created' = created /\ dirty' \in BOOLEAN
      /\ pool' \subseteq pool /\ (~dirty' => ~dirty /\ pool' = pool)
  BY DEF DelTimer, Others, TimersTypeOK
<1>2. TimersTypeOK'
  BY <1>1 DEF TimersTypeOK, Timers, Walks
<1>3. NumbersUnique'
  BY <1>1 DEF NumbersUnique
<1>4. WalkSound'
  <2>1. dirty' \in BOOLEAN /\ walk' = walk
    BY <1>1
  <2>2. ~dirty' => (WalkKept' <=> WalkKept)
    BY <1>1 DEF WalkKept, Passed
  <2> QED
    BY <1>1, <2>1, <2>2 DEF WalkSound
<1>5. RanOnce'
  BY <1>1 DEF RanOnce
<1> QED
  BY <1>2, <1>3, <1>4, <1>5

LEMMA CallsKeep ==
    ASSUME TimersInv, walk.on => walk.calling, LuaSetsTimers
    PROVE  TimersInv'
BY SetKeeps, DelKeeps DEF LuaSetsTimers

-----------------------------------------------------------------------------
\* The walk

\* What becomes of the pool when a timer has been run, or could not be.
LEMMA AfterwardsIs ==
    ASSUME TimersInv, walk.on, NEW failed \in BOOLEAN
    PROVE  /\ Afterwards(failed) \subseteq Timers /\ IsPool(Afterwards(failed))
           /\ \A t \in pool : t.n # walk.elem => t \in Afterwards(failed)
           /\ \A t \in Afterwards(failed) : t.n # walk.elem => t \in pool
           /\ \A t \in Afterwards(failed) : t.n = walk.elem => t.due > walk.bt
<1> USE DEF TimersInv
<1>1. IsPool(pool) /\ pool \subseteq Timers /\ walk.bt \in 0..now /\ now \in 1..MaxTime
  BY PoolIs DEF TimersTypeOK, Walks
<1>2. CASE ~Left
  <2>1. \A t \in pool : t.n # walk.elem
    BY <1>2 DEF Left, Numbers
  <2> QED
    BY <1>1, <1>2, <2>1 DEF Afterwards
<1>3. CASE Left /\ (failed \/ Standing.oneshot)
  BY <1>1, <1>3 DEF Afterwards, Delete, IsPool
<1>4. CASE Left /\ ~(failed \/ Standing.oneshot)
  <2> DEFINE later(t) == [t EXCEPT !.due = walk.bt + t.period]
  <2>1. Afterwards(failed) = Postponed
    BY <1>4 DEF Afterwards
  <2>2. ASSUME NEW t \in pool
        PROVE  later(t) \in Timers /\ later(t).n = t.n /\ later(t).due > walk.bt
    <3>1. t.period \in Periods /\ t.period \in 1..MaxTime /\ MaxTime \in Nat
      BY <1>1, TimerAssumption DEF Timers
    <3>2. walk.bt + t.period \in 1 .. (MaxTime + MaxTime) /\ walk.bt + t.period > walk.bt
      BY <1>1, <3>1
    <3> QED
      BY <1>1, <3>2 DEF Timers
  <2>3. Postponed = {IF t.n = walk.elem THEN later(t) ELSE t : t \in pool}
    BY DEF Postponed
  <2> HIDE DEF later
  <2>4. \A u \in Postponed : \E t \in pool :
          /\ u.n = t.n
          /\ IF t.n = walk.elem THEN u = later(t) /\ u.due > walk.bt ELSE u = t
    BY <2>2, <2>3
  <2>5. Postponed \subseteq Timers
    BY <1>1, <2>2, <2>3
  <2>6. IsPool(Postponed)
    <3>1. \A t \in Postponed : t.n \in Nat \ {0} /\ t.due \in Nat /\ t.due < Never
      BY <1>1, <2>5, TimerAssumption DEF Timers, TimersTypeOK, Never
    <3>2. \A t, u \in Postponed : t.n = u.n => t = u
      BY <1>1, <2>4 DEF IsPool
    <3> QED
      BY <3>1, <3>2 DEF IsPool
  <2>7. \A t \in pool : t.n # walk.elem => t \in Postponed
    BY <2>3
  <2> QED
    BY <2>1, <2>4, <2>5, <2>6, <2>7
<1> QED
  BY <1>2, <1>3, <1>4

\* A walk that goes on from a timer that is not due any more, or is gone, keeps
\* what it knows.
LEMMA AdvanceKeeps ==
    ASSUME TimersInv, walk.on, ~dirty, walk.elem # 0,
           IsPool(pool'), pool' \subseteq Timers,
           \A t \in pool : t.n # walk.elem => t \in pool',
           \A t \in pool' : t.n # walk.elem => t \in pool,
           \A t \in pool' : t.n = walk.elem => t.due > walk.bt,
           walk' = Advanced(pool', Counted(pool')),
           ~dirty', UNCHANGED <<now, created>>
    PROVE  walk' \in Walks' /\ walk'.on /\ walk'.bt = walk.bt /\ ~walk'.calling /\ WalkKept'
<1> USE DEF TimersInv
<1>1. WalkKept /\ walk \in Walks
  BY DEF WalkSound, TimersTypeOK
<1>2. IsPool(pool) /\ Numbers(pool) \subseteq 1..created /\ created \in Nat
  BY PoolIs DEF TimersTypeOK
<1>3. walk.elem \in Numbers(pool) /\ walk.tmp = After(pool, walk.elem)
  BY <1>1 DEF WalkKept
<1>4. /\ walk.tmp \in Numbers(pool) \cup {0}
      /\ walk.tmp # 0 => walk.tmp > walk.elem
      /\ \A t \in pool : t.n > walk.elem => walk.tmp # 0 /\ walk.tmp <= t.n
  BY <1>2, <1>3, AfterIs
<1>5. /\ walk'.elem = walk.tmp /\ walk'.tmp = After(pool', walk.tmp)
      /\ walk'.min = Counted(pool') /\ walk'.on /\ ~walk'.calling /\ walk'.bt = walk.bt
      /\ walk' = [walk EXCEPT !.calling = FALSE, !.elem = walk.tmp,
                              !.tmp = After(pool', walk.tmp), !.min = Counted(pool')]
  BY <1>1 DEF Advanced, Walks
<1>6. walk.tmp \in Numbers(pool') \cup {0}
  <2>1. ASSUME walk.tmp # 0 PROVE walk.tmp \in Numbers(pool')
    <3>1. PICK t \in pool : t.n = walk.tmp
      BY <1>4, <2>1 DEF Numbers
    <3>2. t \in pool'
      BY <1>2, <1>3, <1>4, <2>1, <3>1
    <3> QED
      BY <3>1, <3>2 DEF Numbers
  <2> QED
    BY <2>1
<1>7. Numbers(pool') \subseteq 1..created
  BY DEF Numbers, Timers
\* What counts for the timer walked on.
<1>8. /\ Counted(pool') \in 0..Never
      /\ Counted(pool') <= walk.min
      /\ \A t \in pool' : t.n = walk.elem => Counted(pool') <= t.due
      /\ \/ Counted(pool') = walk.min
         \/ \E t \in pool' : t.n = walk.elem /\ t.due = Counted(pool')
  <2>1. walk.min \in 0..Never /\ Never \in Nat
    BY <1>1, TimerAssumption DEF Walks, Never
  <2>2. CASE walk.elem \in Numbers(pool')
    <3> DEFINE t == Timer(pool', walk.elem)
    <3>1. t \in pool' /\ t.n = walk.elem
      BY <2>2, TimerOf
    <3>2. t.due \in Nat /\ t.due < Never
      BY <3>1 DEF IsPool
    <3>3. Counted(pool') = Least(walk.min, t.due)
      BY <2>2 DEF Counted
    <3>4. \A u \in pool' : u.n = walk.elem => u = t
      BY <3>1 DEF IsPool
    <3> HIDE DEF t
    <3> QED
      BY <2>1, <3>1, <3>2, <3>3, <3>4 DEF Least
  <2>3. CASE walk.elem \notin Numbers(pool')
    BY <2>1, <2>3 DEF Counted, Numbers
  <2> QED
    BY <2>2, <2>3
<1>9. walk' \in Walks'
  <2>1. After(pool', walk.tmp) \in 0..created /\ walk.tmp \in 0..created
    BY <1>2, <1>6, <1>7, AfterBelongs
  <2> QED
    BY <1>1, <1>5, <1>8, <2>1 DEF Walks
<1>10. \A t \in pool' : Passed(t)' => t.n = walk.elem \/ (t \in pool /\ Passed(t))
  <2>1. SUFFICES ASSUME NEW t \in pool', Passed(t)', t.n # walk.elem
                 PROVE  t \in pool /\ t.n < walk.elem
    BY DEF Passed
  <2>2. t \in pool /\ t.n \in Nat /\ walk.elem \in Nat
    BY <1>2, <1>3, <2>1 DEF IsPool
  <2>3. walk.tmp = 0 \/ t.n < walk.tmp
    BY <1>5, <2>1 DEF Passed
  <2>4. ~(t.n > walk.elem)
    BY <1>2, <1>4, <2>2, <2>3 
  <2> QED
    BY <2>1, <2>2, <2>4
<1>11. \A t \in pool' : Passed(t)' => t.due > walk.bt /\ Counted(pool') <= t.due
  <2>1. SUFFICES ASSUME NEW t \in pool', Passed(t)', t \in pool, Passed(t)
                 PROVE  t.due > walk.bt /\ Counted(pool') <= t.due
    BY <1>8, <1>10
  <2>2. t.due > walk.bt /\ walk.min <= t.due /\ t.due \in Nat
    BY <1>1, <1>2, <2>1 DEF WalkKept, IsPool
  <2>3. walk.min \in 0..Never /\ Never \in Nat
    BY <1>1, TimerAssumption DEF Walks, Never
  <2> QED
    BY <1>8, <2>2, <2>3
<1>12. ASSUME NEW t \in pool', t.n = walk.elem \/ (t \in pool /\ Passed(t)) PROVE Passed(t)'
  <2>1. walk.tmp = 0 \/ t.n < walk.tmp
    BY <1>2, <1>3, <1>4, <1>12 DEF Passed, IsPool
  <2> QED
    BY <1>5, <2>1 DEF Passed
<1>13. Counted(pool') = Never \/ \E t \in pool' : Passed(t)' /\ t.due = Counted(pool')
  <2>1. CASE \E t \in pool' : t.n = walk.elem /\ t.due = Counted(pool')
    BY <1>12, <2>1
  <2>2. CASE Counted(pool') = walk.min
    <3>1. CASE walk.min = Never
      BY <2>2, <3>1
    <3>2. CASE \E t \in pool : Passed(t) /\ t.due = walk.min
      <4>1. PICK t \in pool : Passed(t) /\ t.due = walk.min
        BY <3>2
      <4>2. t.n # walk.elem
        BY <1>2, <1>3, <4>1 DEF Passed, IsPool
      <4> QED
        BY <1>12, <2>2, <4>1, <4>2
    <3> QED
      BY <1>1, <3>1, <3>2 DEF WalkKept
  <2> QED
    BY <1>8, <2>1, <2>2
<1>14. Never' = Never
  BY DEF Never
<1>15. WalkKept'
  BY <1>5, <1>6, <1>11, <1>13, <1>14 DEF WalkKept
<1> QED
  BY <1>5, <1>9, <1>15

\* A walk from the first timer knows nothing yet.
LEMMA AgainKeeps ==
    ASSUME IsPool(pool'), pool' \subseteq Timers, created' = created, now' = now,
           created \in Nat, MaxTime \in Nat, NEW bt \in 0..now,
           walk' = [on |-> TRUE, calling |-> FALSE, bt |-> bt, elem |-> First(pool'),
                    tmp |-> After(pool', First(pool')), min |-> Never]
    PROVE  walk' \in Walks' /\ WalkKept'
<1>1. Numbers(pool') \subseteq 1..created
  BY DEF Numbers, Timers
<1>2. First(pool') \in Numbers(pool') \cup {0} /\ (First(pool') = 0 => pool' = {})
  BY FirstBelongs
<1>3. After(pool', First(pool')) \in Numbers(pool') \cup {0}
  BY AfterBelongs
<1>4. walk' \in Walks'
  <2>1. Never \in 0..Never /\ Never' = Never
    BY DEF Never
  <2>2. First(pool') \in 0..created /\ After(pool', First(pool')) \in 0..created
    BY <1>1, <1>2, <1>3
  <2> QED
    BY <2>1, <2>2 DEF Walks
<1>5. \A t \in pool' : ~Passed(t)'
  <2>1. SUFFICES ASSUME NEW t \in pool', Passed(t)' PROVE FALSE
    OBVIOUS
  <2>2. First(pool') # 0 /\ t.n \in Numbers(pool')
    BY <1>2 DEF Numbers
  <2>3. First(pool') <= t.n /\ t.n \in Nat /\ First(pool') \in Nat
    BY <1>1, <1>2, <2>2, FirstIs
  <2>4. t.n < First(pool')
    BY <2>1, <2>2 DEF Passed
  <2> QED
    BY <2>3, <2>4
<1>6. Never' = Never
  BY DEF Never
<1>7. WalkKept'
  BY <1>2, <1>5, <1>6 DEF WalkKept
<1> QED
  BY <1>4, <1>7

LEMMA NoneRan == <<>> \in Seq(Nat) /\ \A i \in DOMAIN <<>> : FALSE
OBVIOUS

\* What the type of the rest asks of a step of the walk.
LEMMA TypeKept ==
    ASSUME TimersTypeOK, UNCHANGED <<now, created>>, dirty' \in BOOLEAN,
           pool' \subseteq Timers, walk' \in Walks',
           ran' = ran \/ ran' = <<>> \/ \E n \in 1..created : ran' = Append(ran, n)
    PROVE  TimersTypeOK'
<1>1. Timers' = Timers
  BY DEF Timers
<1>2. ran' \in Seq(Nat) /\ \A i \in DOMAIN ran' : ran'[i] \in 1..created
  <2>1. CASE ran' = ran \/ ran' = <<>>
    BY <2>1, NoneRan DEF TimersTypeOK
  <2>2. CASE \E n \in 1..created : ran' = Append(ran, n)
    BY <2>2 DEF TimersTypeOK
  <2> QED
    BY <2>1, <2>2
<1> QED
  BY <1>1, <1>2 DEF TimersTypeOK

LEMMA UniqueIs ==
    ASSUME IsPool(pool') PROVE NumbersUnique'
BY DEF IsPool, NumbersUnique

LEMMA StartKeeps ==
    ASSUME TimersInv, StartWalk PROVE TimersInv'
<1> USE DEF TimersInv
<1>1. /\ walk' = [on |-> TRUE, calling |-> FALSE, bt |-> now, elem |-> First(pool'),
                  tmp |-> After(pool', First(pool')), min |-> Never]
      /\ dirty' = FALSE /\ ran' = <<>> /\ UNCHANGED <<now, pool, created>>
  BY DEF StartWalk, Again
<1>2. IsPool(pool') /\ pool' \subseteq Timers /\ created \in Nat /\ MaxTime \in Nat
      /\ now \in 0..now
  BY <1>1, PoolIs, TimerAssumption DEF TimersTypeOK
<1>3. walk' \in Walks' /\ WalkKept'
  BY <1>1, <1>2, AgainKeeps
<1>4. TimersTypeOK'
  BY <1>1, <1>2, <1>3, TypeKept
<1>5. WalkSound'
  BY <1>1, <1>3 DEF WalkSound
<1>6. RanOnce'
  BY <1>1 DEF RanOnce
<1> QED
  BY <1>2, <1>4, <1>5, <1>6, UniqueIs

LEMMA CallKeeps ==
    ASSUME TimersInv, CallTimer PROVE TimersInv'
<1> USE DEF TimersInv
<1>1. /\ walk.on /\ ~walk.calling /\ walk.elem \in Numbers(pool) /\ walk.bt >= Standing.due
      /\ walk' = [walk EXCEPT !.calling = TRUE] /\ ran' = Append(ran, walk.elem)
      /\ UNCHANGED <<now, pool, created, dirty>>
  BY DEF CallTimer, IsDue, OnTimer
<1>2. IsPool(pool) /\ Numbers(pool) \subseteq 1..created /\ walk \in Walks
      /\ ran \in Seq(Nat) /\ walk.elem \in 1..created
  BY <1>1, PoolIs DEF TimersTypeOK
<1>3. /\ walk'.calling /\ walk'.on = walk.on /\ walk'.bt = walk.bt /\ walk'.elem = walk.elem
      /\ walk'.tmp = walk.tmp /\ walk'.min = walk.min /\ walk' \in Walks'
  BY <1>1, <1>2 DEF Walks, Never
<1>4. TimersTypeOK'
  BY <1>1, <1>2, <1>3, TypeKept DEF TimersTypeOK, Timers
<1>5. WalkKept => WalkKept'
  BY <1>1, <1>3 DEF WalkKept, Passed, Never
<1>6. WalkSound'
  BY <1>1, <1>2, <1>3, <1>5 DEF WalkSound
<1>7. \A i \in DOMAIN ran : ran[i] # walk.elem
  <2>1. Standing \in pool /\ Standing.n = walk.elem
    BY <1>1, <1>2, TimerOf DEF Standing
  <2>2. Standing.due \in Nat /\ walk.bt \in 0..now /\ now \in Nat
    BY <1>2, <2>1 DEF IsPool, Walks, TimersTypeOK
  <2>3. ~(Standing.due > walk.bt)
    BY <1>1, <2>2
  <2> QED
    BY <1>1, <2>1, <2>3 DEF RanOnce
<1>8. RanOnce'
  <2>1. Len(ran') = Len(ran) + 1 /\ ran'[Len(ran) + 1] = walk.elem
        /\ \A i \in 1..Len(ran) : ran'[i] = ran[i]
    BY <1>1, <1>2
  <2>2. DOMAIN ran = 1..Len(ran) /\ DOMAIN ran' = 1 .. Len(ran) + 1 /\ Len(ran) \in Nat
    BY <1>1, <1>2, <2>1
  <2>3. \A i \in DOMAIN ran' : \/ i \in DOMAIN ran /\ ran'[i] = ran[i]
                               \/ i = Len(ran) + 1 /\ ran'[i] = walk.elem
    BY <2>1, <2>2
  <2>4. \A i, j \in DOMAIN ran' : i # j => ran'[i] # ran'[j]
    BY <1>7, <2>3 DEF RanOnce
  <2> QED
    BY <1>1, <1>3, <2>3, <2>4 DEF RanOnce
<1> QED
  BY <1>1, <1>2, <1>4, <1>6, <1>8, UniqueIs

\* What a step that is over with a timer keeps of RanOnce.
LEMMA RanKept ==
    ASSUME TimersInv, walk.on, ran' = ran, walk'.bt = walk.bt, walk'.on,
           \A t \in pool' : t.n # walk.elem => t \in pool,
           \A t \in pool' : t.n = walk.elem => t.due > walk.bt
    PROVE  RanOnce'
<1>1. \A t \in pool' : (\E i \in DOMAIN ran : ran[i] = t.n) => t.due > walk.bt
  BY DEF TimersInv, RanOnce
<1> QED
  BY <1>1 DEF TimersInv, RanOnce

LEMMA ReturnKeeps ==
    ASSUME TimersInv, NEW failed \in BOOLEAN, TimerReturns(failed) PROVE TimersInv'
<1> USE DEF TimersInv
<1>1. /\ walk.calling /\ walk.on /\ walk.elem # 0 /\ pool' = Afterwards(failed) /\ dirty' = FALSE
      /\ UNCHANGED <<now, created, ran>> /\ dirty \in BOOLEAN
  BY DEF TimerReturns, WalkSound, MustRestart, TimersTypeOK
<1>2. /\ IsPool(pool') /\ pool' \subseteq Timers
      /\ \A t \in pool : t.n # walk.elem => t \in pool'
      /\ \A t \in pool' : t.n # walk.elem => t \in pool
      /\ \A t \in pool' : t.n = walk.elem => t.due > walk.bt
  BY <1>1, AfterwardsIs
<1>3. walk' \in Walks' /\ walk'.on /\ ~walk'.calling /\ walk'.bt = walk.bt /\ WalkKept'
  <2>1. CASE dirty
    <3>1. walk' = Again(pool')
      BY <2>1 DEF TimerReturns, MustRestart
    <3>2. walk.bt \in 0..now /\ created \in Nat /\ MaxTime \in Nat
      BY TimerAssumption DEF TimersTypeOK, Walks
    <3>3. walk' \in Walks' /\ WalkKept'
      BY <1>1, <1>2, <3>1, <3>2, AgainKeeps DEF Again
    <3> QED
      BY <3>1, <3>3 DEF Again
  <2>2. CASE ~dirty
    <3>1. walk' = Advanced(pool', Counted(pool'))
      BY <2>2 DEF TimerReturns, MustRestart
    <3> QED
      BY <1>1, <1>2, <2>2, <3>1, AdvanceKeeps
  <2> QED
    BY <1>1, <2>1, <2>2
<1>4. TimersTypeOK'
  BY <1>1, <1>2, <1>3, TypeKept
<1>5. WalkSound'
  BY <1>1, <1>3 DEF WalkSound
<1>6. RanOnce'
  BY <1>1, <1>2, <1>3, RanKept
<1> QED
  BY <1>2, <1>4, <1>5, <1>6, UniqueIs

LEMMA PassKeeps ==
    ASSUME TimersInv, NoMemory \/ PassBy PROVE TimersInv'
<1> USE DEF TimersInv
<1>1. /\ walk.on /\ ~walk.calling /\ ~dirty /\ walk.elem \in Numbers(pool)
      /\ walk' = Advanced(pool', Counted(pool')) /\ UNCHANGED <<now, created, dirty, ran>>
  BY DEF NoMemory, PassBy, IsDue, OnTimer, WalkSound
<1>2. IsPool(pool) /\ walk.elem # 0
  BY <1>1, PoolIs DEF IsPool, Numbers
<1>3. /\ IsPool(pool') /\ pool' \subseteq Timers
      /\ \A t \in pool : t.n # walk.elem => t \in pool'
      /\ \A t \in pool' : t.n # walk.elem => t \in pool
      /\ \A t \in pool' : t.n = walk.elem => t.due > walk.bt
  <2>1. CASE NoMemory
    BY <1>1, <2>1, AfterwardsIs DEF NoMemory
  <2>2. CASE PassBy
    <3>1. pool' = pool /\ ~(walk.bt >= Standing.due)
      BY <2>2 DEF PassBy, IsDue
    <3>2. Standing.due \in Nat /\ walk.bt \in Nat
      <4>1. Standing \in pool
        BY <1>1, <1>2, TimerOf DEF Standing
      <4>2. walk.bt \in 0..now /\ now \in Nat
        BY DEF TimersTypeOK, Walks
      <4> QED
        BY <1>2, <4>1, <4>2 DEF IsPool
    <3>3. \A t \in pool : t.n = walk.elem => t = Standing
      BY <1>2, TimerIs DEF Standing
    <3>4. pool \subseteq Timers
      BY DEF TimersTypeOK
    <3> QED
      BY <1>2, <3>1, <3>2, <3>3, <3>4
  <2> QED
    BY <2>1, <2>2
<1>4. walk' \in Walks' /\ walk'.on /\ ~walk'.calling /\ walk'.bt = walk.bt /\ WalkKept'
  BY <1>1, <1>2, <1>3, AdvanceKeeps
<1>5. TimersTypeOK'
  BY <1>1, <1>3, <1>4, TypeKept DEF TimersTypeOK
<1>6. WalkSound'
  BY <1>1, <1>4 DEF WalkSound
<1>7. RanOnce'
  BY <1>1, <1>3, <1>4, RanKept
<1> QED
  BY <1>3, <1>5, <1>6, <1>7, UniqueIs

LEMMA WalkKeeps ==
    ASSUME TimersInv, Walk PROVE TimersInv'
BY CallKeeps, ReturnKeeps, PassKeeps DEF Walk

\* The end of a walk, and what else becomes of the clock and the flag.
LEMMA IdleKeeps ==
    ASSUME TimersInv, walk' = Idle, ran' = <<>>, UNCHANGED <<now, pool, created, dirty>>
    PROVE  TimersInv'
<1> USE DEF TimersInv
<1>1. walk' \in Walks' /\ ~walk'.on /\ ~walk'.calling
  BY TimerAssumption DEF Idle, Walks, TimersTypeOK, Never
<1>2. TimersTypeOK'
  BY <1>1, TypeKept DEF TimersTypeOK
<1>3. NumbersUnique' /\ RanOnce' /\ WalkSound'
  BY <1>1 DEF NumbersUnique, RanOnce, WalkSound
<1> QED
  BY <1>2, <1>3

LEMMA RestKeeps ==
    ASSUME TimersInv, UNCHANGED <<pool, created, walk, ran>>,
           dirty' = dirty \/ (~walk.on /\ dirty' \in BOOLEAN),
           now' = now \/ (now < MaxTime /\ now' = now + 1)
    PROVE  TimersInv'
<1> USE DEF TimersInv
<1>1. now' \in 1..MaxTime /\ 0..now \subseteq 0..now'
  BY TimerAssumption DEF TimersTypeOK
<1>2. TimersTypeOK'
  <2>1. Walks \subseteq Walks' /\ Timers' = Timers
    BY <1>1 DEF Walks, Timers, Never
  <2> QED
    BY <1>1, <2>1 DEF TimersTypeOK
<1>3. NumbersUnique' /\ RanOnce'
  BY DEF NumbersUnique, RanOnce
<1>4. WalkSound'
  BY DEF WalkSound, WalkKept, Passed, Never
<1> QED
  BY <1>2, <1>3, <1>4

LEMMA TimersStart ==
    ASSUME TimersInit PROVE TimersInv
<1>1. walk \in Walks
  BY TimerAssumption DEF TimersInit, Idle, Walks, Never
<1>2. TimersTypeOK
  <2>1. now \in 1..MaxTime /\ created \in 0..MaxCreated
    BY TimerAssumption DEF TimersInit
  <2>2. ran \in Seq(Nat) /\ \A i \in DOMAIN ran : ran[i] \in 1..created
    BY NoneRan DEF TimersInit
  <2> QED
    BY <1>1, <2>1, <2>2 DEF TimersInit, TimersTypeOK
<1>3. NumbersUnique /\ WalkSound /\ RanOnce
  BY DEF TimersInit, NumbersUnique, WalkSound, RanOnce, Idle
<1> QED
  BY <1>2, <1>3 DEF TimersInv

-----------------------------------------------------------------------------
\* The program around the pool

LEMMA ElementOf ==
    ASSUME NEW S, NEW q \in Seq(S) PROVE \A i \in 1..Len(q) : q[i] \in S
OBVIOUS

\* What each system's start acquires, its end releases.
LEMMA StartIs ==
    ASSUME NEW s \in {"nfq", "offline", "divert", "windivert"}
    PROVE  /\ Len(Start(s)) \in Nat \ {0}
           /\ \A i \in 1..Len(Start(s)) : Start(s)[i] \in Released(s) \cup {""}
<1>1. CASE s = "nfq"
  <2>1. Start(s) = NfqStart
    BY <1>1 DEF Start
  <2>2. Released(s) = {"pidfile", "buffers", "queue", "socket", "lua", "wlan", "rawsend"}
    BY <1>1 DEF Released
  <2>3. Len(NfqStart) = 11
    BY DEF NfqStart
  <2>4. NfqStart \in Seq({"pidfile", "buffers", "queue", "socket", "lua", "wlan", "rawsend"} \cup {""})
    BY DEF NfqStart
  <2>5. Start(s) \in Seq(Released(s) \cup {""})
    BY <2>1, <2>2, <2>4
  <2>6. Len(Start(s)) = 11 /\ 11 \in Nat \ {0}
    BY <2>1, <2>3
  <2>7. Len(Start(s)) \in Nat \ {0}
    BY <2>6, Zenon
  <2> QED
    BY <2>5, <2>7, ElementOf
<1>2. CASE s = "offline"
  <2>1. Start(s) = OfflineStart
    BY <1>2 DEF Start
  <2>2. Released(s) = {"pidfile", "buffers", "queue", "socket", "lua", "wlan", "rawsend"}
    BY <1>2 DEF Released
  <2>3. Len(OfflineStart) = 7
    BY DEF OfflineStart
  <2>4. OfflineStart \in Seq({"pidfile", "buffers", "queue", "socket", "lua", "wlan", "rawsend"} \cup {""})
    BY DEF OfflineStart
  <2>5. Start(s) \in Seq(Released(s) \cup {""})
    BY <2>1, <2>2, <2>4
  <2>6. Len(Start(s)) = 7 /\ 7 \in Nat \ {0}
    BY <2>1, <2>3
  <2>7. Len(Start(s)) \in Nat \ {0}
    BY <2>6, Zenon
  <2> QED
    BY <2>5, <2>7, ElementOf
<1>3. CASE s = "divert"
  <2>1. Start(s) = DivertStart
    BY <1>3 DEF Start
  <2>2. Released(s) = {"pidfile", "divert", "lua", "rawsend"}
    BY <1>3 DEF Released
  <2>3. Len(DivertStart) = 8
    BY DEF DivertStart
  <2>4. DivertStart \in Seq({"pidfile", "divert", "lua", "rawsend"} \cup {""})
    BY DEF DivertStart
  <2>5. Start(s) \in Seq(Released(s) \cup {""})
    BY <2>1, <2>2, <2>4
  <2>6. Len(Start(s)) = 8 /\ 8 \in Nat \ {0}
    BY <2>1, <2>3
  <2>7. Len(Start(s)) \in Nat \ {0}
    BY <2>6, Zenon
  <2> QED
    BY <2>5, <2>7, ElementOf
<1>4. CASE s = "windivert"
  <2>1. Start(s) = WindivertStart
    BY <1>4 DEF Start
  <2>2. Released(s) = {"buffers", "dark", "lua", "rawsend"}
    BY <1>4 DEF Released
  <2>3. Len(WindivertStart) = 3
    BY DEF WindivertStart
  <2>4. WindivertStart \in Seq({"buffers", "dark", "lua", "rawsend"} \cup {""})
    BY DEF WindivertStart
  <2>5. Start(s) \in Seq(Released(s) \cup {""})
    BY <2>1, <2>2, <2>4
  <2>6. Len(Start(s)) = 3 /\ 3 \in Nat \ {0}
    BY <2>1, <2>3
  <2>7. Len(Start(s)) \in Nat \ {0}
    BY <2>6, Zenon
  <2> QED
    BY <2>5, <2>7, ElementOf
<1> QED
  BY <1>1, <1>2, <1>3, <1>4

\* The times of the pool's timers, and of what a walk returns.
LEMMA DuesAre ==
    ASSUME TimersInv
    PROVE  /\ 0 \in 0..Never
           /\ pool # {} => Soonest(pool) \in 0..Never
           /\ walk.min \in 0..Never
           /\ WalkOver /\ pool # {} => walk.min = Soonest(pool)
           /\ WalkOver => \A t \in pool : t.due > walk.bt
<1> USE DEF TimersInv
<1>1. MaxTime \in Nat /\ Never \in Nat
  BY TimerAssumption DEF Never
<1>2. IsPool(pool) /\ walk \in Walks
  BY PoolIs DEF TimersTypeOK
<1>3. ASSUME pool # {} PROVE Soonest(pool) \in 0..Never
  <2>1. PICK t \in pool : Soonest(pool) = t.due
    BY <1>2, <1>3, SoonestIs
  <2> QED
    BY <1>1, <1>2, <2>1 DEF IsPool
<1>4. ASSUME WalkOver
      PROVE  /\ pool # {} => walk.min = Soonest(pool)
             /\ \A t \in pool : t.due > walk.bt
  <2>1. WalkKept /\ \A t \in pool : Passed(t)
    BY <1>4 DEF WalkOver, WalkSound, Passed
  <2>2. ASSUME pool # {} PROVE walk.min = Soonest(pool)
    <3>1. walk.min # Never
      <4>1. PICK t \in pool : TRUE
        BY <2>2
      <4>2. walk.min <= t.due /\ t.due < Never /\ t.due \in Nat /\ walk.min \in Nat
        BY <1>1, <1>2, <2>1 DEF WalkKept, IsPool, Walks
      <4> QED
        BY <1>1, <4>2
    <3>2. PICK t \in pool : t.due = walk.min
      BY <2>1, <3>1 DEF WalkKept
    <3> QED
      BY <1>2, <2>1, <3>2, SoonestUnique DEF WalkKept
  <2> QED
    BY <2>1, <2>2 DEF WalkKept
<1> QED
  BY <1>1, <1>2, <1>3, <1>4 DEF Walks

LEMMA TimersNext ==
    ASSUME TimersInv, WaitKnown, [Next]_vars PROVE TimersInv'
<1>1. CASE LuaCalls
  <2>1. walk.on => walk.calling
    BY <1>1 DEF LuaCalls, InLua, WaitKnown
  <2> QED
    BY <1>1, <2>1, CallsKeep DEF LuaCalls
<1>2. CASE RunTimers
  BY <1>2, StartKeeps, RestKeeps DEF RunTimers, timerVars
<1>3. CASE WalkStep
  BY <1>3, WalkKeeps DEF WalkStep
<1>4. CASE TimersRun
  BY <1>4, IdleKeeps DEF TimersRun
<1>5. CASE Top
  <2>1. ~walk.on
    BY <1>5 DEF Top, WaitKnown
  <2>2. dirty' \in BOOLEAN
    BY <1>5 DEF Top, TimersInv, TimersTypeOK
  <2> QED
    BY <1>5, <2>1, <2>2, RestKeeps DEF Top, poolVars
<1>6. CASE Tick
  BY <1>6, RestKeeps DEF Tick
<1>7. CASE UNCHANGED timerVars
  BY <1>7, RestKeeps DEF timerVars
<1>8. UNCHANGED timerVars \/ LuaCalls \/ RunTimers \/ WalkStep \/ TimersRun \/ Top \/ Tick
  BY DEF Next, Step, vars, StepDone, StepFails, Cleanup, NetworkThere, FilterFails,
         NetworkQuit, Selected, Polled, LoadLists, ReloadDone, Receive, ReceiveFails,
         Handle, Hup, Term, Arrive, NetworkChanges
<1> QED
  BY <1>1, <1>2, <1>3, <1>4, <1>5, <1>6, <1>7, <1>8

\* The steps that touch no timer, the wait for one or the place to wait for them.
Moves ==
    \/ StepDone \/ StepFails \/ Cleanup \/ FilterFails \/ NetworkQuit
    \/ Selected \/ Polled \/ LoadLists \/ ReloadDone \/ Receive \/ ReceiveFails \/ Handle
    \/ Hup \/ Term \/ Arrive \/ Tick \/ NetworkChanges

LEMMA MovesKeep ==
    ASSUME WaitKnown, Moves PROVE WaitKnown'
<1>1. UNCHANGED <<pool, dirty, walk, wait, os>>
  BY DEF Moves, StepDone, StepFails, Cleanup, FilterFails, NetworkQuit, Selected, Polled,
         LoadLists, ReloadDone, Receive, ReceiveFails, Handle, Hup, Term, Arrive, Tick,
         NetworkChanges, timerVars, setup
<1> DEFINE waiting == {"select", "reload", "clear", "recv"}
<1>2. \/ pc' = pc
      \/ pc' \in {"network", "cleanup", "ended"} /\ pc # "run"
      \/ pc = "start" /\ pc' = "top"
      \/ pc \in waiting /\ pc' \in waiting \cup {"top", "handle", "run"}
      \/ pc = "handle" /\ (pc' = "run" \/ (pc' = "top" /\ os = "windivert"))
  BY DEF Moves, StepDone, StepFails, Cleanup, FilterFails, NetworkQuit, Selected, Polled,
         LoadLists, ReloadDone, Receive, ReceiveFails, Handle, Hup, Term, Arrive, Tick,
         NetworkChanges, setup, Leave, GoTo, Interrupted
<1>3. Known' <=> Known
  BY <1>1 DEF Known
<1> QED
  BY <1>1, <1>2, <1>3 DEF WaitKnown

LEMMA WaitNext ==
    ASSUME TimersInv, WaitKnown, [Next]_vars PROVE WaitKnown'
<1> HIDE DEF Known
<1>1. CASE Moves
  BY <1>1, MovesKeep
<1>2. CASE NetworkThere
  BY <1>2 DEF NetworkThere, WaitKnown, timerVars
<1>3. CASE Top
  <2>1. ~walk.on /\ pc = "top" /\ UNCHANGED <<pool, walk, os>> /\ dirty \in BOOLEAN
    BY <1>3 DEF Top, WaitKnown, poolVars, TimersInv, TimersTypeOK
  <2>2. CASE UNCHANGED <<wait, dirty>> /\ pc' \in {"cleanup", "network"}
    BY <2>1, <2>2 DEF WaitKnown
  <2>3. CASE /\ wait' = NextWait /\ dirty' = (dirty /\ ~Recounts)
             /\ pc' \in {"reload", "run", "select"}
    <3>1. pool # {} => Known'
      BY <2>1, <2>3 DEF Known, WaitKnown, NextWait, Recounts
    <3> QED
      BY <2>1, <2>3, <3>1 DEF WaitKnown
  <2> QED
    BY <1>3, <2>2, <2>3 DEF Top, Leave, GoTo
<1>4. CASE LuaCalls
  <2>1. UNCHANGED <<os, pc, wait, walk>>
    BY <1>4 DEF LuaCalls, LuaSetsTimers, setup
  <2>2. (pool' = pool /\ dirty' = dirty) \/ dirty'
    BY <1>4 DEF LuaCalls, LuaSetsTimers, SetTimer, DelTimer, TimersInv, TimersTypeOK
  <2>3. CASE pool' = pool /\ dirty' = dirty
    BY <2>1, <2>3 DEF WaitKnown, Known
  <2>4. CASE dirty'
    BY <1>4, <2>1, <2>4 DEF WaitKnown, LuaCalls, InLua, TimersInv, WalkSound
  <2> QED
    BY <2>2, <2>3, <2>4
<1>5. CASE RunTimers
  <2>1. pc = "run" /\ ~walk.on /\ os' = os
    BY <1>5 DEF RunTimers, setup
  <2>2. CASE StartWalk /\ UNCHANGED pc
    BY <2>1, <2>2 DEF WaitKnown, StartWalk, Again
  <2>3. CASE /\ wait' = (IF pool # {} /\ MustForget(dirty) THEN 0 ELSE wait)
             /\ pc' = "top" /\ UNCHANGED timerVars
    BY <2>1, <2>3 DEF WaitKnown, Known, MustForget, timerVars
  <2> QED
    BY <1>5, <2>2, <2>3 DEF RunTimers
<1>6. CASE WalkStep
  <2>1. walk.on /\ pc = "run" /\ pc' = pc /\ TimersInv'
    BY <1>6, WalkKeeps DEF WalkStep, Walk, CallTimer, TimerReturns, NoMemory, PassBy, IsDue,
                           OnTimer, TimersInv, WalkSound
  <2>2. walk'.on
    <3>1. walk \in Walks /\ walk.on
      BY <2>1 DEF TimersInv, TimersTypeOK
    <3>2. \A p, m : Again(p).on /\ Advanced(p, m).on /\ [walk EXCEPT !.calling = TRUE].on
      BY <3>1 DEF Again, Advanced, Walks
    <3>3. \/ \E p, m : walk' = Again(p) \/ walk' = Advanced(p, m)
          \/ walk' = [walk EXCEPT !.calling = TRUE]
      BY <1>6 DEF WalkStep, Walk, CallTimer, TimerReturns, NoMemory, PassBy
    <3> QED
      BY <3>2, <3>3
  <2> QED
    BY <2>1, <2>2 DEF WaitKnown
<1>7. CASE TimersRun
  <2>1. /\ WalkOver /\ wait' = NextDue /\ walk' = Idle /\ UNCHANGED <<pool, dirty>>
        /\ pc' \in {"select", "top"}
    BY <1>7 DEF TimersRun, GoTo
  <2>2. ~dirty
    BY <2>1 DEF WalkOver, TimersInv, WalkSound
  <2>3. pool # {} => Known'
    BY <2>1, <2>2, DuesAre DEF Known, NextDue
  <2> QED
    BY <2>1, <2>3 DEF WaitKnown, Idle
<1>8. CASE UNCHANGED vars
  BY <1>8 DEF vars, timerVars, setup, WaitKnown, Known
<1> QED
  BY <1>1, <1>2, <1>3, <1>4, <1>5, <1>6, <1>7, <1>8 DEF Next, Step, Moves

LEMMA SystemIs ==
    ASSUME os \in Systems
    PROVE  /\ os \in {"nfq", "offline", "divert", "windivert"}
           /\ Len(Start(os)) \in Nat \ {0}
           /\ \A i \in 1..Len(Start(os)) : Start(os)[i] \in Released(os) \cup {""}
<1>1. os \in {"nfq", "offline", "divert", "windivert"}
  BY NfqMainAssumption
<1> QED
  BY <1>1, StartIs

\* The steps that acquire or release something, and the rest.
Holds == StepDone \/ Cleanup \/ NetworkThere \/ FilterFails \/ Top

LEMMA HoldsNext ==
    ASSUME PlaceTypeOK, HoldsKnown, [Next]_vars
    PROVE  HoldsKnown' /\ held' \subseteq Released(os) /\ step' \in 1 .. Len(Start(os)) + 1
<1> DEFINE n == Len(Start(os))
<1>1. /\ os \in Systems /\ held \subseteq Released(os) /\ step \in 1 .. (n + 1) /\ n \in Nat \ {0}
      /\ \A i \in 1..n : Start(os)[i] \in Released(os) \cup {""}
  BY SystemIs DEF PlaceTypeOK
<1>2. os' = os
  BY DEF Next, Step, vars, setup, StepDone, StepFails, Cleanup, NetworkThere, FilterFails,
         NetworkQuit, Top, Selected, Polled, LoadLists, ReloadDone, Receive, ReceiveFails,
         Handle, LuaCalls, RunTimers, WalkStep, TimersRun, Hup, Term, Arrive, Tick,
         NetworkChanges
<1>3. Len(Start(os'))  = n
  BY <1>2
<1> HIDE DEF n
<1>4. CASE StepDone
  <2> HIDE DEF n
  <2>1. pc = "start" /\ step \in 1..n /\ step' = step + 1
    <3>1. pc = "start" /\ step <= n /\ step' = step + 1
      BY <1>4 DEF StepDone, HoldsKnown, n
    <3>2. n \in Nat /\ step \in 1 .. (n + 1)
      BY <1>1
    <3> QED
      BY <3>1, <3>2
  <2>2. Start(os)[step] \in Released(os) \cup {""}
    BY <1>1, <2>1
  <2>3. held' \subseteq held \cup ({Start(os)[step]} \ {""})
    BY <1>4 DEF StepDone
  <2>4. held' \subseteq Released(os)
    BY <1>1, <2>2, <2>3
  <2>5. step' \in 1 .. (n + 1) /\ step' # 1
    <3>1. n \in Nat
      BY <1>1
    <3> QED
      BY <2>1, <3>1
  <2>6. /\ pc' \in {"start", "network", "top"} /\ (pc' = "network" => os = "windivert")
        /\ (pc' = "start" => step < n)
    BY <1>4 DEF StepDone, n
  <2>7. pc' = "start" => step' <= n
    <3>1. n \in Nat
      BY <1>1
    <3> QED
      BY <2>1, <2>6, <3>1
  <2> QED
    BY <1>2, <1>3, <2>4, <2>5, <2>6, <2>7 DEF HoldsKnown, n
<1>5. CASE Cleanup
  BY <1>1, <1>2, <1>5 DEF Cleanup, HoldsKnown, n
<1>6. CASE NetworkThere \/ FilterFails
  <2>1. os = "windivert"
    BY <1>6 DEF NetworkThere, FilterFails, HoldsKnown
  <2>2. {"rawsend", "lua"} \subseteq Released(os)
    BY <2>1 DEF Released
  <2>3. held' \subseteq Released(os) /\ step' = step /\ pc' \in {"top", "cleanup"}
    BY <1>1, <1>6, <2>2 DEF NetworkThere, FilterFails, Leave
  <2> QED
    BY <1>1, <1>2, <2>3 DEF HoldsKnown, n
<1>7. CASE Top
  <2>1. /\ held' \subseteq held /\ step' = step
        /\ pc' \in {"cleanup", "reload", "run", "select"} \/ (pc' = "network" /\ os = "windivert")
    BY <1>7 DEF Top, Leave, GoTo, Gone
  <2> QED
    BY <1>1, <1>2, <2>1 DEF HoldsKnown, n
<1>8. CASE ~Holds
  <2>1. UNCHANGED <<step, held>>
    BY <1>8 DEF Holds, Next, Step, vars, setup, StepFails,
         NetworkQuit, Selected, Polled, LoadLists, ReloadDone, Receive, ReceiveFails,
         Handle, LuaCalls, RunTimers, WalkStep, TimersRun, Hup, Term, Arrive, Tick,
         NetworkChanges
  <2>2. \/ pc' = pc /\ code' = code
        \/ pc' \notin {"network", "start", "ended"}
        \/ pc' = "ended" /\ (code' = "lists" \/ (pc = "start" /\ step = 1))
    BY <1>8 DEF Holds, Next, Step, vars, setup, StepFails,
         NetworkQuit, Selected, Polled, LoadLists, ReloadDone, Receive, ReceiveFails,
         Handle, LuaCalls, RunTimers, WalkStep, TimersRun, Hup, Term, Arrive, Tick,
         NetworkChanges, Leave, GoTo, Interrupted
  <2> QED
    BY <1>1, <1>2, <1>3, <2>1, <2>2 DEF HoldsKnown, n
<1> QED
  BY <1>4, <1>5, <1>6, <1>7, <1>8 DEF Holds

LEMMA PlaceNext ==
    ASSUME TimersInv, PlaceTypeOK, HoldsKnown, [Next]_vars PROVE PlaceTypeOK'
<1>1. held' \subseteq Released(os) /\ step' \in 1 .. Len(Start(os)) + 1
  BY HoldsNext
<1>2. /\ os' = os /\ pc' \in Places /\ code' \in {"none", "ok", "error", "lists"}
      /\ present' \in BOOLEAN
  BY DEF Next, Step, vars, setup, StepDone, StepFails, Cleanup, NetworkThere, FilterFails,
         NetworkQuit, Top, Selected, Polled, LoadLists, ReloadDone, Receive, ReceiveFails,
         Handle, LuaCalls, RunTimers, WalkStep, TimersRun, Hup, Term, Arrive, Tick,
         NetworkChanges, Leave, GoTo, Interrupted, Places, PlaceTypeOK
<1>3. wait' \in 0..Never'
  <2>1. wait \in 0..Never /\ Never' = Never
    BY DEF PlaceTypeOK, Never
  <2>2. wait' = wait \/ wait' = 0 \/ wait' = NextWait \/ wait' = NextDue
    BY DEF Next, Step, vars, setup, StepDone, StepFails, Cleanup, NetworkThere, FilterFails,
         NetworkQuit, Top, Selected, Polled, LoadLists, ReloadDone, Receive, ReceiveFails,
         Handle, LuaCalls, RunTimers, WalkStep, TimersRun, Hup, Term, Arrive, Tick,
         NetworkChanges
  <2> QED
    BY <2>1, <2>2, DuesAre DEF NextWait, NextDue, Recounts
<1>4. /\ sel' \in BOOLEAN /\ quit' \in BOOLEAN /\ reload' \in BOOLEAN /\ asked' \in BOOLEAN
      /\ eno' \in Garbage \cup {"ENOBUFS", "other"}
  <2>1. sel' = sel \/ sel' = (queue > 0) \/ sel' = (os = "nfq" /\ pool = {})
    BY DEF Next, Step, vars, setup, flags, StepDone, StepFails, Cleanup, NetworkThere,
         FilterFails, NetworkQuit, Top, Selected, Polled, LoadLists, ReloadDone, Receive,
         ReceiveFails, Handle, LuaCalls, RunTimers, WalkStep, TimersRun, Hup, Term, Arrive,
         Tick, NetworkChanges
  <2>2. /\ quit' = quit \/ quit' = TRUE
        /\ reload' = reload \/ reload' = TRUE \/ reload' = FALSE
        /\ asked' = asked \/ asked' = FALSE \/ asked' = (asked \/ pc # "clear")
    BY DEF Next, Step, vars, setup, flags, StepDone, StepFails, Cleanup, NetworkThere,
         FilterFails, NetworkQuit, Top, Selected, Polled, LoadLists, ReloadDone, Receive,
         ReceiveFails, Handle, LuaCalls, RunTimers, WalkStep, TimersRun, Hup, Term, Arrive,
         Tick, NetworkChanges
  <2>3. eno' = eno \/ eno' \in {"ENOBUFS", "other"}
    BY DEF Next, Step, vars, setup, flags, StepDone, StepFails, Cleanup, NetworkThere,
         FilterFails, NetworkQuit, Top, Selected, Polled, LoadLists, ReloadDone, Receive,
         ReceiveFails, Handle, LuaCalls, RunTimers, WalkStep, TimersRun, Hup, Term, Arrive,
         Tick, NetworkChanges
  <2>4. sel' \in BOOLEAN
    <3>1. (queue > 0) \in BOOLEAN
      OBVIOUS
    <3>2. (os = "nfq" /\ pool = {}) \in BOOLEAN
      BY Zenon
    <3> QED
      BY <2>1, <3>1, <3>2, Zenon DEF PlaceTypeOK
  <2>5. quit' \in BOOLEAN /\ reload' \in BOOLEAN
    BY <2>2 DEF PlaceTypeOK
  <2>6. asked' \in BOOLEAN
    BY <2>2 DEF PlaceTypeOK
  <2>7. eno' \in Garbage \cup {"ENOBUFS", "other"}
    BY <2>3 DEF PlaceTypeOK
  <2> QED
    BY <2>4, <2>5, <2>6, <2>7
<1>5. queue' \in 0..1
  <2>1. queue' = queue \/ queue' = 1 \/ (queue > 0 /\ queue' = queue - 1)
    BY DEF Next, Step, vars, setup, flags, StepDone, StepFails, Cleanup, NetworkThere,
         FilterFails, NetworkQuit, Top, Selected, Polled, LoadLists, ReloadDone, Receive,
         ReceiveFails, Handle, LuaCalls, RunTimers, WalkStep, TimersRun, Hup, Term, Arrive,
         Tick, NetworkChanges
  <2> QED
    BY <2>1 DEF PlaceTypeOK
<1>6. hups' \in 0..MaxHups
  <2>1. hups' = hups \/ (hups < MaxHups /\ hups' = hups + 1)
    BY DEF Next, Step, vars, setup, flags, StepDone, StepFails, Cleanup, NetworkThere,
         FilterFails, NetworkQuit, Top, Selected, Polled, LoadLists, ReloadDone, Receive,
         ReceiveFails, Handle, LuaCalls, RunTimers, WalkStep, TimersRun, Hup, Term, Arrive,
         Tick, NetworkChanges
  <2> QED
    BY <2>1, NfqMainAssumption DEF PlaceTypeOK
<1> QED
  BY <1>1, <1>2, <1>3, <1>4, <1>5, <1>6 DEF PlaceTypeOK

-----------------------------------------------------------------------------
\* The theorems

LEMMA InitHolds == Init => IInv
<1> SUFFICES ASSUME Init PROVE IInv
  OBVIOUS
<1>1. TimersInv /\ ~walk.on
  BY TimersStart DEF Init, TimersInit, Idle
<1>2. os \in Systems /\ Len(Start(os)) \in Nat \ {0}
  BY SystemIs DEF Init
<1>3. PlaceTypeOK
  <2>1. wait \in 0..Never
    BY <1>1, DuesAre DEF Init
  <2>2. step \in 1 .. Len(Start(os)) + 1 /\ hups \in 0..MaxHups /\ queue \in 0..1
    BY <1>2, NfqMainAssumption DEF Init
  <2>3. eno \in Garbage \cup {"ENOBUFS", "other"}
    BY DEF Init
  <2> QED
    BY <1>2, <2>1, <2>2, <2>3 DEF Init, PlaceTypeOK, Places
<1>4. WaitKnown
  BY <1>1 DEF Init, WaitKnown
<1>5. HoldsKnown
  BY <1>2 DEF Init, HoldsKnown
<1> QED
  BY <1>1, <1>3, <1>4, <1>5 DEF IInv

LEMMA NextHolds == IInv /\ [Next]_vars => IInv'
<1> SUFFICES ASSUME IInv, [Next]_vars PROVE IInv'
  OBVIOUS
<1> USE DEF IInv
<1>1. TimersInv'
  BY TimersNext
<1>2. PlaceTypeOK'
  BY PlaceNext
<1>3. WaitKnown'
  BY WaitNext
<1>4. HoldsKnown'
  BY HoldsNext
<1> QED
  BY <1>1, <1>2, <1>3, <1>4

\* What holds at every step of the loop: the pool's timers, the walk's place in
\* it, the wait the loop knows, what the program has acquired.
THEOREM LoopInvariant == Spec => []IInv
BY InitHolds, NextHolds, PTL DEF Spec

\* For every number of timers, names, periods, packets and signals: whatever the
\* functions of timers and packets do to the timers, the walk stands on a timer
\* that is there, runs none twice and leaves none that is due, and the loop waits
\* until the soonest (TimerPoolRun; bt_next and timers_dirty of the loops).
THEOREM OnTime == Spec => []TimersOnTime
<1>1. IInv => TimersOnTime
  <2> SUFFICES ASSUME IInv PROVE TimersOnTime
    OBVIOUS
  <2> USE DEF IInv
  <2>1. WalkOnTimers
    <3>1. ASSUME walk.on, ~walk.calling
          PROVE  {walk.elem, walk.tmp} \subseteq Numbers(pool) \cup {0}
      <4>1. WalkKept
        BY <3>1 DEF TimersInv, WalkSound, TimersTypeOK
      <4>2. IsPool(pool)
        BY PoolIs DEF TimersInv
      <4>3. After(pool, walk.elem) \in Numbers(pool) \cup {0}
        BY <4>2, AfterBelongs
      <4> QED
        BY <4>1, <4>3 DEF WalkKept
    <3> QED
      BY <3>1 DEF WalkOnTimers
  <2>2. WalkRunsDue
    BY DuesAre DEF WalkRunsDue, TimersInv, RanOnce, NextDue
  <2>3. SleepsUntilDue
    BY DEF SleepsUntilDue, WaitKnown, Known
  <2> QED
    BY <2>1, <2>2, <2>3 DEF TimersOnTime
<1> QED
  BY <1>1, LoopInvariant, PTL

\* On each of the systems: however the program comes to its end, other than by a
\* failed load of the lists, it has released all it had acquired (nfq_main,
\* dvt_main, NoInterceptLoop, win_main).
THEOREM LeavesNothing == Spec => []EndsClean
<1>1. IInv => EndsClean
  BY DEF IInv, HoldsKnown, EndsClean
<1> QED
  BY <1>1, LoopInvariant, PTL

-----------------------------------------------------------------------------
\* Options: what has been said last

LEMMA LastOfIs ==
    ASSUME NEW n \in Nat, NEW ks \in SUBSET (1..n), ks # {}
    PROVE  LastOf(ks) \in ks /\ \A j \in ks : j <= LastOf(ks)
<1> DEFINE back == {n - k : k \in ks}
<1>1. back \in SUBSET Nat /\ back # {}
  <2>1. \A k \in ks : n - k \in Nat
    OBVIOUS
  <2>2. PICK k \in ks : TRUE
    OBVIOUS
  <2>3. n - k \in back
    BY <2>2
  <2> QED
    BY <2>1, <2>3
<1>2. PICK m \in back : \A b \in back : m <= b
  <2> HIDE DEF back
  <2> QED
    BY <1>1, LeastOf
<1>3. PICK last \in ks : m = n - last
  OBVIOUS
<1>4. \A j \in ks : j <= last
  <2> TAKE j \in ks
  <2>1. n - j \in back
    OBVIOUS
  <2>2. m <= n - j
    BY <1>2, <2>1
  <2> QED
    BY <1>3, <2>2
<1> QED
  BY <1>3, <1>4 DEF LastOf

LEMMA GivenIs ==
    ASSUME menu \in DOMAIN Menus, said \in Seq(DOMAIN All(menu))
    PROVE  /\ Len(said) \in Nat /\ DOMAIN Given = 1..Len(said)
           /\ \A k \in 1..Len(said) : Given[k] = All(menu)[said[k]]
           /\ \A name : Saying(Given, name) \in SUBSET (1..Len(said))
<1>1. Len(said) \in Nat /\ DOMAIN said = 1..Len(said)
  OBVIOUS
<1> QED
  BY <1>1 DEF Given, Saying

\* An option more.
Says1(i) ==
    /\ menu \in DOMAIN Menus /\ said \in Seq(DOMAIN All(menu))
    /\ i \in DOMAIN All(menu)
    /\ menu' = menu /\ said' = Append(said, i)

LEMMA GivenGrows ==
    ASSUME NEW i, Says1(i)
    PROVE  /\ said' \in Seq(DOMAIN All(menu)) /\ Len(said) \in Nat
           /\ DOMAIN Given = 1..Len(said) /\ DOMAIN Given' = 1..(Len(said) + 1)
           /\ \A k \in 1..Len(said) : Given'[k] = Given[k]
           /\ Given'[Len(said) + 1] = All(menu)[i]
<1>1. /\ Len(said) \in Nat /\ DOMAIN said = 1..Len(said)
      /\ said' \in Seq(DOMAIN All(menu)) /\ DOMAIN said' = 1..(Len(said) + 1)
      /\ \A k \in 1..Len(said) : said'[k] = said[k]
      /\ said'[Len(said) + 1] = i
  BY DEF Says1
<1>2. menu' = menu
  BY DEF Says1
<1> QED
  BY <1>1, <1>2 DEF Given

LEMMA SayingGrows ==
    ASSUME NEW i, Says1(i), NEW name
    PROVE  Saying(Given', name) =
             Saying(Given, name) \cup (IF All(menu)[i].o = name THEN {Len(said) + 1} ELSE {})
<1>1. \A k : k \in 1..(Len(said) + 1) <=> k \in 1..Len(said) \/ k = Len(said) + 1
  BY GivenGrows
<1> QED
  BY <1>1, GivenGrows DEF Saying

LEMMA LatestGrows ==
    ASSUME NEW i, Says1(i), NEW name, NEW default
    PROVE  /\ Says(Given', name) <=> All(menu)[i].o = name \/ Says(Given, name)
           /\ Latest(Given', name, default) =
                IF All(menu)[i].o = name THEN All(menu)[i].a ELSE Latest(Given, name, default)
<1> DEFINE ks == Saying(Given, name)
           n == Len(said) + 1
<1>1. /\ n \in Nat /\ ks \in SUBSET (1..Len(said)) /\ Len(said) \in Nat
      /\ \A k \in 1..Len(said) : Given'[k] = Given[k]
      /\ Given'[n] = All(menu)[i]
  BY GivenGrows DEF Saying
<1>2. CASE All(menu)[i].o = name
  <2>1. Saying(Given', name) = ks \cup {n}
    BY <1>2, SayingGrows
  <2>2. ks \cup {n} \in SUBSET (1..n)
    BY <1>1
  <2>3. LastOf(ks \cup {n}) \in ks \cup {n} /\ \A j \in ks \cup {n} : j <= LastOf(ks \cup {n})
    <3> HIDE DEF ks, n
    <3> QED
      BY <1>1, <2>2, LastOfIs
  <2>4. LastOf(ks \cup {n}) = n
    <3>1. \A j \in ks : j \in Nat /\ j <= Len(said)
      BY <1>1
    <3>2. n <= LastOf(ks \cup {n}) /\ (LastOf(ks \cup {n}) = n \/ LastOf(ks \cup {n}) <= Len(said))
      BY <2>3, <3>1
    <3>3. LastOf(ks \cup {n}) \in Nat
      BY <1>1, <2>3, <3>1
    <3> QED
      BY <1>1, <3>2, <3>3
  <2> QED
    BY <1>1, <1>2, <2>1, <2>4 DEF Latest, Says
<1>3. CASE All(menu)[i].o # name
  <2>1. Saying(Given', name) = ks
    BY <1>3, SayingGrows
  <2>2. ks # {} => LastOf(ks) \in ks
    BY <1>1, LastOfIs
  <2> QED
    BY <1>1, <1>3, <2>1, <2>2 DEF Latest, Says
<1> QED
  BY <1>2, <1>3

-----------------------------------------------------------------------------
\* Options: what is kept of it

WfFields ==
    {"iface", "empty", "lan", "loopback", "save", "dup", "parts", "rawFilter", "raw", "ipv4", "ipv6"}
      \cup PortLists \cup IcmpLists \cup IppLists

LEMMA FieldsAre ==
    /\ DOMAIN NoWf = WfFields
    /\ Plain = {"iface", "empty", "lan", "loopback", "save", "dup"}
                 \cup PortLists \cup IcmpLists \cup IppLists
<1>1. DOMAIN NoWf = WfFields
  BY DEF NoWf, WfFields, PortLists, IcmpLists, IppLists
<1> QED
  BY <1>1 DEF Plain, WfFields, PortLists, IcmpLists, IppLists

LEMMA WfIs ==
    ASSUME DOMAIN wf = DOMAIN NoWf, wf.ipv4, wf.ipv6, NEW opt, wf' = WfSet(opt),
           opt.o \in (DOMAIN NoWf \ {"ipv4", "ipv6"}) \cup {"wf-l3"}
    PROVE  /\ DOMAIN wf' = DOMAIN NoWf /\ wf'.ipv4 /\ wf'.ipv6
           /\ \A f \in Plain : wf'[f] = IF opt.o = f THEN opt.a ELSE wf[f]
           /\ wf'.rawFilter = IF opt.o = "rawFilter" THEN <<opt.a>> ELSE wf.rawFilter
           /\ wf'.parts = IF opt.o = "parts" THEN <<opt.a>> \o wf.parts ELSE wf.parts
<1> USE FieldsAre DEF WfFields, PortLists, IcmpLists, IppLists
<1>1. CASE opt.o = "wf-l3"
  <2>1. wf' = [wf EXCEPT !.ipv4 = TRUE, !.ipv6 = TRUE]
    BY <1>1 DEF WfSet, WfL3
  <2> QED
    BY <1>1, <2>1
<1>2. CASE opt.o = "parts"
  <2>1. wf' = [wf EXCEPT !.parts = <<opt.a>> \o wf.parts]
    BY <1>2 DEF WfSet
  <2> QED
    BY <1>2, <2>1
<1>3. CASE opt.o \in {"raw", "rawFilter"}
  <2>1. wf' = [wf EXCEPT ![opt.o] = <<opt.a>>]
    BY <1>3 DEF WfSet
  <2> QED
    BY <1>3, <2>1
<1>4. CASE opt.o \notin {"wf-l3", "parts", "raw", "rawFilter"}
  <2>1. wf' = [wf EXCEPT ![opt.o] = opt.a]
    BY <1>4 DEF WfSet
  <2> QED
    BY <1>4, <2>1
<1> QED
  BY <1>1, <1>2, <1>3, <1>4

\* What WfGood has let through.
LEMMA GoodLists ==
    ASSUME NEW opt, Typed(opt), WfGood(opt)
    PROVE  /\ opt.o \in PortLists => opt.a \in Seq(Texts) /\ AllItems(PfGood, opt.a)
           /\ opt.o \in IcmpLists => opt.a \in Seq(Texts) /\ AllItems(IcfGood, opt.a)
           /\ opt.o \in IppLists => opt.a \in Seq(Texts) /\ AllItems(IppGood, opt.a)
           /\ opt.o \in {"empty", "lan", "loopback"} => opt.a \in BOOLEAN
<1>1. /\ opt.o \in PortLists \cup IcmpLists \cup IppLists => opt.a \in Seq(Texts)
      /\ opt.o \in {"empty", "lan", "loopback"} => opt.a \in BOOLEAN
  BY DEF Typed
<1>2. /\ opt.o \in PortLists => AllItems(PfGood, opt.a)
      /\ opt.o \in IcmpLists => AllItems(IcfGood, opt.a)
      /\ opt.o \in IppLists => AllItems(IppGood, opt.a)
  BY DEF WfGood, PortLists, IcmpLists, IppLists
<1> QED
  BY <1>1, <1>2

LEMMA WfTaken ==
    ASSUME WfInv, NEW i, Says1(i), Typed(All(menu)[i]), WfGood(All(menu)[i]),
           wf' = WfSet(All(menu)[i]),
           All(menu)[i].o \in (DOMAIN NoWf \ {"ipv4", "ipv6"}) \cup {"wf-l3"}
    PROVE  WfInv'
<1> DEFINE opt == All(menu)[i]
<1>1. /\ DOMAIN wf' = DOMAIN NoWf /\ wf'.ipv4 /\ wf'.ipv6
      /\ \A f \in Plain : wf'[f] = IF opt.o = f THEN opt.a ELSE wf[f]
      /\ wf'.rawFilter = IF opt.o = "rawFilter" THEN <<opt.a>> ELSE wf.rawFilter
      /\ wf'.parts = IF opt.o = "parts" THEN <<opt.a>> \o wf.parts ELSE wf.parts
  BY WfIs DEF WfInv
<1>2. /\ opt.o \in PortLists => opt.a \in Seq(Texts) /\ AllItems(PfGood, opt.a)
      /\ opt.o \in IcmpLists => opt.a \in Seq(Texts) /\ AllItems(IcfGood, opt.a)
      /\ opt.o \in IppLists => opt.a \in Seq(Texts) /\ AllItems(IppGood, opt.a)
      /\ opt.o \in {"empty", "lan", "loopback"} => opt.a \in BOOLEAN
  BY GoodLists
<1>3. PortLists \cup IcmpLists \cup IppLists \cup {"empty", "lan", "loopback"} \subseteq Plain
  BY FieldsAre
<1>4. \A name, default :
         /\ Says(Given', name) <=> opt.o = name \/ Says(Given, name)
         /\ Latest(Given', name, default) =
              IF opt.o = name THEN opt.a ELSE Latest(Given, name, default)
  BY LatestGrows
<1> HIDE DEF opt
<1>5. \A f \in Plain : wf'[f] = Latest(Given', f, NoWf[f])
  BY <1>1, <1>4 DEF WfInv
<1>6. /\ \A f \in PortLists : wf'[f] \in Seq(Texts) /\ AllItems(PfGood, wf'[f])
      /\ \A f \in IcmpLists : wf'[f] \in Seq(Texts) /\ AllItems(IcfGood, wf'[f])
      /\ \A f \in IppLists : wf'[f] \in Seq(Texts) /\ AllItems(IppGood, wf'[f])
  BY <1>1, <1>2, <1>3 DEF WfInv
<1>7. {wf'.empty, wf'.lan, wf'.loopback} \subseteq BOOLEAN
  BY <1>1, <1>2, <1>3 DEF WfInv
<1>8. wf'.rawFilter = IF Says(Given', "rawFilter") THEN <<Latest(Given', "rawFilter", {})>> ELSE <<>>
  BY <1>1, <1>4 DEF WfInv
<1>9. /\ wf'.parts \in Seq({Given'[k].a : k \in Saying(Given', "parts")})
      /\ \A k \in Saying(Given', "parts") : Given'[k].a \in ToSet(wf'.parts)
  <2> DEFINE old == {Given[k].a : k \in Saying(Given, "parts")}
             new == {Given'[k].a : k \in Saying(Given', "parts")}
  <2>1. /\ Len(said) \in Nat /\ Given'[Len(said) + 1] = opt
        /\ \A k \in Saying(Given, "parts") : Given'[k] = Given[k]
    BY GivenGrows DEF Saying, opt
  <2>2. Saying(Given', "parts") =
          Saying(Given, "parts") \cup (IF opt.o = "parts" THEN {Len(said) + 1} ELSE {})
    BY SayingGrows DEF opt
  <2>3. new = old \cup (IF opt.o = "parts" THEN {opt.a} ELSE {})
    BY <2>1, <2>2
  <2>4. wf.parts \in Seq(old) /\ \A a \in old : a \in ToSet(wf.parts)
    BY DEF WfInv
  <2> HIDE DEF old, new
  <2>5. CASE opt.o = "parts"
    <3>1. new = old \cup {opt.a} /\ wf'.parts = <<opt.a>> \o wf.parts
      BY <1>1, <2>3, <2>5
    <3>2. <<opt.a>> \in Seq(new) /\ wf.parts \in Seq(new)
      BY <2>4, <3>1
    <3>3. wf'.parts \in Seq(new)
      BY <3>1, <3>2
    <3>4. ToSet(<<opt.a>> \o wf.parts) = {opt.a} \cup ToSet(wf.parts)
      <4>1. /\ Len(wf.parts) \in Nat /\ DOMAIN wf.parts = 1..Len(wf.parts)
            /\ DOMAIN (<<opt.a>> \o wf.parts) = 1..(Len(wf.parts) + 1)
            /\ (<<opt.a>> \o wf.parts)[1] = opt.a
            /\ \A k \in 1..Len(wf.parts) : (<<opt.a>> \o wf.parts)[k + 1] = wf.parts[k]
        BY <3>2
      <4>2. \A k \in 1..(Len(wf.parts) + 1) :
               k = 1 \/ (k - 1 \in 1..Len(wf.parts) /\ (<<opt.a>> \o wf.parts)[k] = wf.parts[k - 1])
        <5> TAKE k \in 1..(Len(wf.parts) + 1)
        <5>1. CASE k # 1
          <6>1. k - 1 \in 1..Len(wf.parts) /\ (k - 1) + 1 = k
            BY <4>1, <5>1
          <6> QED
            BY <4>1, <6>1
        <5> QED
          BY <5>1
      <4>3. 1 \in 1..(Len(wf.parts) + 1) /\ \A k \in 1..Len(wf.parts) : k + 1 \in 1..(Len(wf.parts) + 1)
        BY <4>1
      <4> HIDE DEF new, old
      <4>4. ASSUME NEW x PROVE x \in ToSet(<<opt.a>> \o wf.parts) <=> x \in {opt.a} \cup ToSet(wf.parts)
        <5>1. x \in ToSet(<<opt.a>> \o wf.parts)
                 <=> \E k \in 1..(Len(wf.parts) + 1) : x = (<<opt.a>> \o wf.parts)[k]
          BY <4>1 DEF ToSet
        <5>2. x \in ToSet(wf.parts) <=> \E k \in 1..Len(wf.parts) : x = wf.parts[k]
          BY <4>1 DEF ToSet
        <5>3. ASSUME NEW k \in 1..(Len(wf.parts) + 1), x = (<<opt.a>> \o wf.parts)[k]
              PROVE  x = opt.a \/ x \in ToSet(wf.parts)
          BY <4>1, <4>2, <5>2, <5>3
        <5>4. ASSUME NEW k \in 1..Len(wf.parts), x = wf.parts[k]
              PROVE  x \in ToSet(<<opt.a>> \o wf.parts)
          BY <4>1, <4>3, <5>1, <5>4
        <5>5. opt.a \in ToSet(<<opt.a>> \o wf.parts)
          BY <4>1, <4>3 DEF ToSet
        <5> QED
          BY <5>1, <5>2, <5>3, <5>4, <5>5
      <4> QED
        BY <4>4
    <3>5. \A a \in new : a \in ToSet(wf'.parts)
      BY <2>4, <3>1, <3>4
    <3> QED
      BY <3>3, <3>5 DEF new
  <2>6. CASE opt.o # "parts"
    <3>1. new = old /\ wf'.parts = wf.parts
      BY <1>1, <2>3, <2>6
    <3>2. wf'.parts \in Seq(new) /\ \A a \in new : a \in ToSet(wf'.parts)
      BY <2>4, <3>1
    <3> QED
      BY <3>2 DEF new
  <2> QED
    BY <2>5, <2>6
<1> QED
  BY <1>1, <1>5, <1>6, <1>7, <1>8, <1>9 DEF WfInv

\* An option that is not the filter's leaves it.
LEMMA WfLeft ==
    ASSUME WfInv, NEW i, Says1(i), wf' = wf, All(menu)[i].o \notin DOMAIN NoWf
    PROVE  WfInv'
<1> DEFINE opt == All(menu)[i]
<1>1. \A f \in DOMAIN NoWf : opt.o # f
  OBVIOUS
<1>2. Plain \subseteq DOMAIN NoWf /\ "rawFilter" \in DOMAIN NoWf /\ "parts" \in DOMAIN NoWf
  BY FieldsAre DEF WfFields
<1>3. \A name \in DOMAIN NoWf : \A default :
         /\ Says(Given', name) <=> Says(Given, name)
         /\ Latest(Given', name, default) = Latest(Given, name, default)
         /\ Saying(Given', name) = Saying(Given, name)
  BY <1>1, LatestGrows, SayingGrows
<1>4. \A k \in Saying(Given, "parts") : Given'[k] = Given[k]
  BY GivenGrows DEF Saying
<1>5. {Given'[k].a : k \in Saying(Given', "parts")} = {Given[k].a : k \in Saying(Given, "parts")}
  BY <1>2, <1>3, <1>4
<1>6. \A k \in Saying(Given', "parts") : Given'[k].a \in ToSet(wf'.parts)
  BY <1>2, <1>3, <1>4 DEF WfInv
<1>7. /\ DOMAIN wf' = DOMAIN NoWf /\ wf'.ipv4 /\ wf'.ipv6
      /\ \A f \in Plain : wf'[f] = Latest(Given', f, NoWf[f])
      /\ wf'.rawFilter = IF Says(Given', "rawFilter") THEN <<Latest(Given', "rawFilter", {})>> ELSE <<>>
      /\ {wf'.empty, wf'.lan, wf'.loopback} \subseteq BOOLEAN
  BY <1>2, <1>3 DEF WfInv
<1>8. /\ \A f \in PortLists : wf'[f] \in Seq(Texts) /\ AllItems(PfGood, wf'[f])
      /\ \A f \in IcmpLists : wf'[f] \in Seq(Texts) /\ AllItems(IcfGood, wf'[f])
      /\ \A f \in IppLists : wf'[f] \in Seq(Texts) /\ AllItems(IppGood, wf'[f])
  BY DEF WfInv
<1>9. wf'.parts \in Seq({Given'[k].a : k \in Saying(Given', "parts")})
  BY <1>5 DEF WfInv
<1> QED
  BY <1>6, <1>7, <1>8, <1>9 DEF WfInv

\* An option of a profile is none of the filter's, and the program goes on to read
\* options or ends.
LEMMA ProfileOptionIs ==
    ASSUME NEW opt, ProfileOption(opt), status = "options"
    PROVE  opt.o \notin DOMAIN NoWf /\ status' \in {"options", "exit0", "exit1"}
<1> USE FieldsAre DEF WfFields, PortLists, IcmpLists, IppLists, LeaveWith, Refuse
<1>1. CASE New(opt) \/ Skip(opt) \/ Name(opt)
  BY <1>1 DEF New, Skip, Name
<1>2. CASE Import(opt)
  BY <1>2 DEF Import
<1>3. CASE FilterL3(opt) \/ FilterTcp(opt) \/ FilterUdp(opt) \/ FilterIcmp(opt)
             \/ FilterIpp(opt) \/ FilterL7(opt) \/ Cookie(opt) \/ FailThreshold(opt)
  BY <1>3 DEF FilterL3, FilterTcp, FilterUdp, FilterIcmp, FilterIpp, FilterL7, Cookie,
              FailThreshold, WriteIf
<1>4. CASE Payload(opt) \/ OutRange(opt) \/ InRange(opt) \/ LuaDesync(opt)
  BY <1>4 DEF Payload, OutRange, InRange, LuaDesync, SectionIf, WriteIf
<1>5. CASE ListFile(opt)
  BY <1>5 DEF ListFile, profileVars
<1>6. CASE ListItems(opt)
  BY <1>6 DEF ListItems, profileVars
<1>7. CASE ListAuto(opt)
  BY <1>7 DEF ListAuto, profileVars
<1>8. CASE Server(opt) \/ Intercept(opt) \/ DryRun(opt) \/ Blob(opt)
  BY <1>8 DEF Server, Intercept, DryRun, Blob, GlobalIf
<1>9. CASE Unknown(opt) \/ Version(opt)
  BY <1>9 DEF Unknown, Version
<1> QED
  BY <1>1, <1>2, <1>3, <1>4, <1>5, <1>6, <1>7, <1>8, <1>9 DEF ProfileOption

LEMMA CaptureBegins == OptionsInit => CaptureInv
<1> SUFFICES ASSUME OptionsInit PROVE CaptureInv
  OBVIOUS
<1>1. /\ menu \in DOMAIN Menus /\ said = <<>> /\ wf = NoWf /\ status = "options"
      /\ said \in Seq(DOMAIN All(menu))
  <2>1. menu \in DOMAIN Menus /\ said = <<>> /\ wf = NoWf /\ status = "options"
    BY DEF OptionsInit, WfInit, ProfilesInit
  <2>2. ASSUME NEW S PROVE <<>> \in Seq(S)
    OBVIOUS
  <2> QED
    BY <2>1, <2>2
<1>2. \A name : Saying(Given, name) = {}
  BY <1>1, GivenIs
<1>3. /\ \A name : ~Says(Given, name)
      /\ \A name, default : Latest(Given, name, default) = default
  BY <1>2 DEF Says, Latest
<1>4. \A f \in PortLists \cup IcmpLists \cup IppLists : NoWf[f] = <<>>
  BY DEF NoWf, PortLists, IcmpLists, IppLists, None
<1>5. /\ \A f \in PortLists : wf[f] \in Seq(Texts) /\ AllItems(PfGood, wf[f])
      /\ \A f \in IcmpLists : wf[f] \in Seq(Texts) /\ AllItems(IcfGood, wf[f])
      /\ \A f \in IppLists : wf[f] \in Seq(Texts) /\ AllItems(IppGood, wf[f])
  <2>1. ASSUME NEW S PROVE <<>> \in Seq(S)
    OBVIOUS
  <2>2. DOMAIN <<>> = {}
    OBVIOUS
  <2>3. AllItems(PfGood, <<>>) /\ AllItems(IcfGood, <<>>) /\ AllItems(IppGood, <<>>)
    BY <2>2 DEF AllItems
  <2> QED
    BY <1>1, <1>4, <2>1, <2>3
<1>6. /\ wf.ipv4 /\ wf.ipv6 /\ {wf.empty, wf.lan, wf.loopback} \subseteq BOOLEAN
      /\ wf.rawFilter = <<>> /\ wf.parts = <<>>
  BY <1>1 DEF NoWf
<1>7. WfInv
  BY <1>1, <1>2, <1>3, <1>5, <1>6 DEF WfInv
<1> QED
  BY <1>1, <1>7 DEF CaptureInv

LEMMA TakeKeeps == CaptureInv /\ Take => CaptureInv'
<1> SUFFICES ASSUME CaptureInv, Take PROVE CaptureInv'
  OBVIOUS
<1>1. PICK i \in Offered :
        /\ said' = Append(said, i)
        /\ (ProfileOption(All(menu)[i]) /\ wf' = wf) \/ WfOption(All(menu)[i])
  BY DEF Take
<1>2. status = "options" /\ menu' = menu /\ WfInv /\ menu \in DOMAIN Menus
      /\ said \in Seq(DOMAIN All(menu))
  BY DEF Take, CaptureInv, Going
<1>3. i \in DOMAIN All(menu) /\ Typed(All(menu)[i])
  <2>1. /\ Menus[menu].first \in Seq(ToSet(Menus[menu].first))
        /\ Menus[menu].then \in Seq(ToSet(Menus[menu].then))
        /\ \A opt \in ToSet(All(menu)) : Typed(opt)
    BY <1>2, MenuAssumption
  <2>2. /\ Len(Menus[menu].first) \in Nat /\ Len(Menus[menu].then) \in Nat
        /\ Len(All(menu)) = Len(Menus[menu].first) + Len(Menus[menu].then)
        /\ DOMAIN All(menu) = 1..Len(All(menu))
    <3> DEFINE S == ToSet(Menus[menu].first)
               T == ToSet(Menus[menu].then)
    <3>1. Menus[menu].first \in Seq(S \cup T) /\ Menus[menu].then \in Seq(S \cup T)
      BY <2>1
    <3> HIDE DEF S, T
    <3> QED
      BY <3>1 DEF All
  <2>3. Len(said) \in Nat
    BY <1>2
  <2>4. i \in 1..Len(All(menu))
    <3> DEFINE first == Len(Menus[menu].first)
    <3>1. i \in IF Len(said) < first THEN {Len(said) + 1}
                ELSE {j \in (first + 1)..Len(All(menu)) : Len(said) < first + MaxOptions}
      BY <1>1 DEF Offered
    <3> DEFINE rest == Len(Menus[menu].then)
    <3>2. first \in Nat /\ rest \in Nat /\ Len(All(menu)) = first + rest
      BY <2>2
    <3> HIDE DEF first, rest
    <3>3. CASE Len(said) < first
      BY <2>3, <3>1, <3>2, <3>3
    <3>4. CASE ~(Len(said) < first)
      <4>1. i \in (first + 1)..Len(All(menu))
        BY <3>1, <3>4
      <4> QED
        BY <3>2, <4>1
    <3> QED
      BY <3>3, <3>4
  <2>5. All(menu)[i] \in ToSet(All(menu))
    BY <2>2, <2>4 DEF ToSet
  <2> QED
    BY <2>1, <2>2, <2>4, <2>5
<1>4. Says1(i)
  BY <1>1, <1>2, <1>3 DEF Says1
<1>5. menu' \in DOMAIN Menus /\ said' \in Seq(DOMAIN All(menu'))
  BY <1>2, <1>4, GivenGrows
<1>6. (Going => WfInv)' /\ status' \notin {"start", "run"}
  <2>1. CASE ProfileOption(All(menu)[i]) /\ wf' = wf
    BY <1>2, <1>4, <2>1, ProfileOptionIs, WfLeft
  <2>2. CASE WfOption(All(menu)[i])
    <3>1. CASE WfGood(All(menu)[i])
      <4>1. wf' = WfSet(All(menu)[i]) /\ status' = status
        BY <2>2, <3>1 DEF WfOption, profileVars
      <4> QED
        BY <1>2, <1>3, <1>4, <2>2, <3>1, <4>1, WfTaken DEF WfOption
    <3>2. CASE ~WfGood(All(menu)[i])
      <4>1. status' = "exit1"
        BY <2>2, <3>2 DEF WfOption, Refuse, LeaveWith
      <4> QED
        BY <4>1 DEF Going
    <3> QED
      BY <3>1, <3>2
  <2> QED
    BY <1>1, <2>1, <2>2
<1> QED
  BY <1>5, <1>6 DEF CaptureInv

LEMMA CaptureGoesOn == CaptureInv /\ [OptionsNext]_commandVars => CaptureInv'
<1> SUFFICES ASSUME CaptureInv, [OptionsNext]_commandVars PROVE CaptureInv'
  OBVIOUS
<1>1. ASSUME said' = said, menu' = menu, wf' = wf, Going' => Going
      PROVE  menu' \in DOMAIN Menus /\ said' \in Seq(DOMAIN All(menu')) /\ (Going => WfInv)'
  <2>1. Given' = Given
    BY <1>1 DEF Given
  <2> QED
    BY <1>1, <2>1 DEF CaptureInv, WfInv
<1>2. CASE Take
  BY <1>2, TakeKeeps
<1>3. CASE EndTaking \/ Testing \/ Loading \/ LoseFile
  <2>1. said' = said /\ menu' = menu /\ wf' = wf /\ filter' = filter
    BY <1>3 DEF EndTaking, Testing, Loading, LoseFile
  <2>2. status \in {"options", "test", "load"} /\ status' \in {"options", "test", "load", "filter", "exit1"}
    <3>1. CASE EndTaking
      BY <3>1 DEF EndTaking, EndOfOptions, Refuse, LeaveWith
    <3>2. CASE Testing
      BY <3>2 DEF Testing, TestFiles, Refuse, LeaveWith
    <3>3. CASE Loading
      BY <3>3 DEF Loading, ReadLists, Refuse, LeaveWith
    <3>4. CASE LoseFile
      BY <3>4 DEF LoseFile, Vanish
    <3> QED
      BY <1>3, <3>1, <3>2, <3>3, <3>4
  <2> QED
    BY <1>1, <2>1, <2>2 DEF CaptureInv, Going
<1>4. CASE MakeFilter
  <2>1. said' = said /\ menu' = menu /\ wf' = wf /\ status = "filter" /\ status' \in {"start", "exit1"}
    BY <1>4 DEF MakeFilter, Refuse, LeaveWith
  <2>2. status' = "start" => global' = global
    BY <1>4 DEF MakeFilter, Refuse, LeaveWith, optionVars
  <2>3. status' = "start" =>
          \/ filter' = NoFilter \/ filter' = [kind |-> "raw", tags |-> wf.raw[1]]
          \/ filter' = Made(global.server)
    BY <1>4 DEF MakeFilter, Refuse, LeaveWith
  <2>4. Made(global.server)' = Made(global'.server)
    BY <2>1 DEF Made, Args
  <2>5. NoFilter.kind # "made" /\ [kind |-> "raw", tags |-> wf.raw[1]].kind # "made"
    BY DEF NoFilter
  <2>6. status' \in {"start", "run"} /\ filter'.kind = "made" => filter' = Made(global.server)'
    BY <2>1, <2>2, <2>3, <2>5 DEF Made
  <2> QED
    BY <1>1, <2>1, <2>6 DEF CaptureInv, Going
<1>5. CASE Save \/ Duplicate \/ Launch \/ UNCHANGED commandVars
  <2>1. /\ said' = said /\ menu' = menu /\ wf' = wf /\ filter' = filter /\ global' = global
        /\ status' \in {"exit0", "exit1"} \/ status' = status \/ (status = "start" /\ status' = "run")
    BY <1>5 DEF Save, Duplicate, Launch, Refuse, LeaveWith, commandVars, profileVars, optionVars
  <2>2. Made(global.server)' = Made(global.server)
    BY <2>1 DEF Made
  <2> QED
    BY <1>1, <2>1, <2>2 DEF CaptureInv, Going
<1> QED
  BY <1>2, <1>3, <1>4, <1>5 DEF OptionsNext

\* What is kept of the options is what they said last, and a filter that was made is
\* made of it, as long as nfqws2 goes on (main, wf_make_filter).
THEOREM CaptureKept == OptionsSpec => []CaptureInv
<1>1. CaptureInv /\ [OptionsNext]_commandVars => CaptureInv'
  BY CaptureGoesOn
<1> QED
  BY <1>1, CaptureBegins, PTL DEF OptionsSpec

-----------------------------------------------------------------------------
\* Options: what the filter lets through

\* One item of a list of ports, as the option and as the text of the filter have it.
LEMMA PortItem ==
    ASSUME NEW t \in Texts, PfGood(t), NEW port \in 1..MaxPort
    PROVE  /\ InText(t, port) => PortText(Pf(t), port)
           /\ PortText(Pf(t), port) =>
                InText(t, port) \/ (t.a = 0 /\ t.b = 0 /\ t.form # "any")
<1>1. t.form \in {"any", "skip", "one", "pair"} /\ t.neg \in BOOLEAN /\ t.a \in Nat /\ t.b \in Nat
  BY DEF Texts
<1>2. CASE t.form = "any"
  <2>1. Pf(t).from = 1 /\ Pf(t).to = MaxPort /\ Pf(t).neg = FALSE /\ InText(t, port)
    BY <1>2 DEF Pf, InText
  <2>2. 1 # MaxPort
    BY SMT DEF MaxPort
  <2>3. PortText(Pf(t), port) = ((port \in 1..MaxPort) # FALSE)
    BY <2>1, <2>2 DEF PortText
  <2>4. PortText(Pf(t), port)
    BY <2>3
  <2> QED
    BY <2>1, <2>4
<1>3. CASE t.form \in {"one", "pair"} /\ t.a = 0 /\ t.b = 0
  BY <1>3 DEF InText
<1>4. CASE t.form \in {"one", "pair"} /\ (t.a # 0 \/ t.b # 0)
  <2>1. Pf(t).from = t.a /\ Pf(t).to = t.b /\ Pf(t).neg = t.neg
    BY <1>1, <1>4 DEF Pf
  <2>2. InText(t, port) <=> ((port \in t.a..t.b) # t.neg)
    BY <1>4 DEF InText
  <2>3. PortText(Pf(t), port) <=> ((port \in t.a..t.b) # t.neg)
    <3>1. CASE t.a = t.b
      <4>1. port \in t.a..t.b <=> port = t.a
        BY <1>1, <3>1
      <4>2. PortText(Pf(t), port) <=> ((port = t.a) # t.neg)
        BY <2>1, <3>1 DEF PortText
      <4> QED
        BY <4>1, <4>2
    <3>2. CASE t.a # t.b
      BY <2>1, <3>2 DEF PortText
    <3> QED
      BY <3>1, <3>2
  <2> QED
    BY <2>2, <2>3
<1> QED
  BY <1>1, <1>2, <1>3, <1>4 DEF PfGood

LEMMA PortsAsk ==
    ASSUME NEW list \in Seq(Texts), AllItems(PfGood, list), NEW kind \in {"tcp", "udp"},
           NEW seen, seen.port \in 1..MaxPort
    PROVE  /\ TextTakes(kind, list, seen) => PortsText(list, seen.port)
           /\ PortsText(list, seen.port) =>
                \/ TextTakes(kind, list, seen)
                \/ \E t \in ToSet(list) : t.a = 0 /\ t.b = 0 /\ t.form # "any"
<1>1. \A i \in DOMAIN list : list[i] \in Texts /\ PfGood(list[i]) /\ list[i] \in ToSet(list)
  BY DEF AllItems, ToSet
<1>2. TextTakes(kind, list, seen) <=> \E i \in DOMAIN list : InText(list[i], seen.port)
  BY DEF TextTakes, ItemTakes
<1>3. PortsText(list, seen.port) <=> \E i \in DOMAIN list : PortText(Pf(list[i]), seen.port)
  BY DEF PortsText
<1>4. \A i \in DOMAIN list :
        /\ InText(list[i], seen.port) => PortText(Pf(list[i]), seen.port)
        /\ PortText(Pf(list[i]), seen.port) =>
             InText(list[i], seen.port)
               \/ (list[i].a = 0 /\ list[i].b = 0 /\ list[i].form # "any")
  BY <1>1, PortItem
<1> QED
  BY <1>1, <1>2, <1>3, <1>4

LEMMA IcmpAsks ==
    ASSUME NEW list \in Seq(Texts), NEW seen
    PROVE  TextTakes("icmp", list, seen) <=>
             \E i \in DOMAIN list : IcfMatch(seen.type, seen.code, Icf(list[i]))
<1>1. ASSUME NEW t \in Texts
      PROVE  IcfMatch(seen.type, seen.code, Icf(t)) <=>
               \/ t.form = "any" \/ (t.form = "one" /\ seen.type = t.a)
               \/ t.form = "pair" /\ seen.type = t.a /\ seen.code = t.b
  <2>1. t.form \in {"any", "skip", "one", "pair"}
    BY DEF Texts
  <2> QED
    BY <2>1 DEF IcfMatch, Icf, ModeOf
<1>2. \A i \in DOMAIN list : list[i] \in Texts
  OBVIOUS
<1>3. TextTakes("icmp", list, seen) <=>
        \E i \in DOMAIN list :
          \/ list[i].form = "any" \/ (list[i].form = "one" /\ seen.type = list[i].a)
          \/ list[i].form = "pair" /\ seen.type = list[i].a /\ seen.code = list[i].b
  BY DEF TextTakes, ItemTakes
<1> QED
  BY <1>1, <1>2, <1>3

LEMMA IppAsks ==
    ASSUME NEW list \in Seq(Texts), AllItems(IppGood, list), NEW seen
    PROVE  TextTakes("ipp", list, seen) <=>
             \E i \in DOMAIN list : IppMatch(seen.proto, Ipp(list[i]))
<1>1. ASSUME NEW t \in Texts, IppGood(t)
      PROVE  IppMatch(seen.proto, Ipp(t)) <=>
               t.form = "any" \/ (t.form = "one" /\ seen.proto = t.a)
  <2>1. t.form \in {"any", "skip", "one"}
    BY <1>1 DEF Texts, IppGood
  <2> QED
    BY <2>1 DEF IppMatch, Ipp, ModeOf
<1>2. \A i \in DOMAIN list : list[i] \in Texts /\ IppGood(list[i])
  BY DEF AllItems
<1>3. TextTakes("ipp", list, seen) <=>
        \E i \in DOMAIN list :
          list[i].form = "any" \/ (list[i].form = "one" /\ seen.proto = list[i].a)
  BY DEF TextTakes, ItemTakes
<1> QED
  BY <1>1, <1>2, <1>3

\* What is kept of the lists is what was asked.
LEMMA ListsAreAsked ==
    ASSUME WfInv
    PROVE  /\ wf.tcp_in = AskedOf("tcp", "in") /\ wf.tcp_out = AskedOf("tcp", "out")
           /\ wf.udp_in = AskedOf("udp", "in") /\ wf.udp_out = AskedOf("udp", "out")
           /\ wf.icmp_in = AskedOf("icmp", "in") /\ wf.icmp_out = AskedOf("icmp", "out")
           /\ wf.ipp_in = AskedOf("ipp", "in") /\ wf.ipp_out = AskedOf("ipp", "out")
<1>1. \A f \in PortLists \cup IcmpLists \cup IppLists : wf[f] = Latest(Given, f, None)
  <2>1. \A f \in PortLists \cup IcmpLists \cup IppLists : f \in Plain /\ NoWf[f] = None
    BY FieldsAre DEF NoWf, PortLists, IcmpLists, IppLists
  <2> QED
    BY <2>1 DEF WfInv
<1> QED
  BY <1>1 DEF AskedOf, WfNames, PortLists, IcmpLists, IppLists

\* The prologue of the filter and its last clause leave out what is spared.
LEMMA SparedIs ==
    ASSUME WfInv, NEW pkt \in Wire, NEW server
    PROVE  Prolog(Made(server), pkt) /\ NotLan(Made(server), pkt) <=> ~Spared(pkt)
<1>1. Made(server).wf = wf
  BY DEF Made
<1>2. /\ wf.loopback = Latest(Given, "loopback", TRUE) /\ wf.loopback \in BOOLEAN
      /\ wf.lan = Latest(Given, "lan", TRUE) /\ wf.lan \in BOOLEAN
      /\ wf.empty = Latest(Given, "empty", FALSE) /\ wf.empty \in BOOLEAN
      /\ wf.iface = Latest(Given, "iface", 0)
  <2>1. /\ {"loopback", "lan", "empty", "iface"} \subseteq Plain
        /\ NoWf.loopback = TRUE /\ NoWf.lan = TRUE /\ NoWf.empty = FALSE /\ NoWf.iface = 0
    BY FieldsAre DEF NoWf
  <2> QED
    BY <2>1 DEF WfInv
<1>3. HaveTcp(Made(server)) <=> TcpAsked
  BY <1>1, ListsAreAsked DEF HaveTcp, TcpAsked
<1>4. (wf.rawFilter # <<>> => pkt.tag \in wf.rawFilter[1])
        <=> ~(Says(Given, "rawFilter") /\ pkt.tag \notin Latest(Given, "rawFilter", {}))
  BY DEF WfInv
<1>5. ~(wf.ipv4 # wf.ipv6)
  BY DEF WfInv
<1>6. {pkt.impostor, pkt.loop, pkt.lan, pkt.sig, pkt.data} \subseteq BOOLEAN
  BY MenuAssumption DEF OnWire
<1>7. Prolog(Made(server), pkt) <=>
        /\ ~pkt.impostor /\ (wf.loopback => ~pkt.loop)
        /\ wf.iface # 0 => pkt.iface = wf.iface
        /\ TcpAsked /\ ~wf.empty => pkt.kind # "tcp" \/ pkt.sig \/ pkt.data
        /\ wf.rawFilter # <<>> => pkt.tag \in wf.rawFilter[1]
  BY <1>1, <1>3, <1>5 DEF Prolog
<1>8. NotLan(Made(server), pkt) <=> (wf.lan => ~pkt.lan)
  BY <1>1 DEF NotLan
<1> QED
  BY <1>2, <1>4, <1>6, <1>7, <1>8 DEF Spared

\* The port of its direction is the one that a profile is looked for with.
LEMMA SidesAreTaken ==
    ASSUME NEW server, NEW pkt, pkt.dir \in {"in", "out"}
    PROVE  /\ pkt.dir = "out" => pkt[Made(server).sides.out] = SdPort(server, pkt)
           /\ pkt.dir = "in" => pkt[OtherSide(Made(server).sides.out)] = SdPort(server, pkt)
           /\ pkt.dir = "in" => pkt[Made(server).sides.in] = SdPort(server, pkt)
           /\ pkt.dir = "out" => pkt[OtherSide(Made(server).sides.in)] = SdPort(server, pkt)
<1>1. Made(server).sides = Args(server)
  BY DEF Made
<1>2. CASE server
  BY <1>1, <1>2 DEF Args, OtherSide, SdPort
<1>3. CASE ~server
  BY <1>1, <1>3 DEF Args, OtherSide, SdPort
<1> QED
  BY <1>2, <1>3

\* The parts that were given are the parts of the filter.
LEMMA PartsAreAsked ==
    ASSUME WfInv, NEW tag
    PROVE  (\E i \in DOMAIN wf.parts : tag \in wf.parts[i])
             <=> \E k \in Saying(Given, "parts") : tag \in Given[k].a
<1> DEFINE sets == {Given[k].a : k \in Saying(Given, "parts")}
<1>1. wf.parts \in Seq(sets) /\ \A a \in sets : a \in ToSet(wf.parts)
  BY DEF WfInv
<1>2. \A i \in DOMAIN wf.parts : wf.parts[i] \in sets
  <2> HIDE DEF sets
  <2> QED
    BY <1>1
<1>3. \A a \in sets : \E i \in DOMAIN wf.parts : wf.parts[i] = a
  BY <1>1 DEF ToSet
<1> QED
  BY <1>2, <1>3

\* The clauses of the filter are what was asked for.
LEMMA ClausesAreAsked ==
    ASSUME WfInv, NEW pkt \in Wire
    PROVE  LET f == Made(global.server)
               taken == TcpClause(f, pkt) \/ UdpClause(f, pkt) \/ OtherClause(f, pkt)
           IN  /\ Asked(pkt) => taken
               /\ taken => Asked(pkt) \/ (TcpAsked /\ pkt.redirect) \/ AskedByZero
<1> DEFINE f == Made(global.server)
           port == SdPort(global.server, pkt)
           seen == [port |-> port, type |-> pkt.type, code |-> pkt.code, proto |-> pkt.next]
<1>1. f.wf = wf
  BY DEF Made
<1>2. /\ pkt.kind \in {"tcp", "udp", "icmp", "ipp"} /\ pkt.dir \in {"in", "out"}
      /\ pkt.kind \in {"tcp", "udp"} => port \in 1..MaxPort
  BY MenuAssumption DEF OnWire, SdPort
<1>3. /\ pkt.dir = "out" => pkt[f.sides.out] = port /\ pkt[OtherSide(f.sides.in)] = port
      /\ pkt.dir = "in" => pkt[f.sides.in] = port /\ pkt[OtherSide(f.sides.out)] = port
  BY <1>2, SidesAreTaken
<1>4. HaveTcp(f) <=> TcpAsked
  BY <1>1, ListsAreAsked DEF HaveTcp, TcpAsked
<1>5. /\ seen.port = port /\ seen.type = pkt.type /\ seen.code = pkt.code /\ seen.proto = pkt.next
  OBVIOUS
<1> HIDE DEF f, port, seen
<1>6. ASSUME pkt.kind \in {"tcp", "udp"}, NEW kind \in {"tcp", "udp"}, NEW dir \in {"in", "out"}
      PROVE  /\ TextTakes(kind, AskedOf(kind, dir), seen) => PortsText(AskedOf(kind, dir), port)
             /\ PortsText(AskedOf(kind, dir), port) =>
                  TextTakes(kind, AskedOf(kind, dir), seen) \/ AskedByZero
  <2>1. AskedOf(kind, dir) \in Seq(Texts) /\ AllItems(PfGood, AskedOf(kind, dir))
    BY ListsAreAsked DEF WfInv, PortLists
  <2> QED
    BY <1>2, <1>5, <1>6, <2>1, PortsAsk DEF AskedByZero
<1>7. ASSUME NEW dir \in {"in", "out"}
      PROVE  TextTakes("ipp", AskedOf("ipp", dir), seen) <=> IppText(AskedOf("ipp", dir), pkt)
  <2>1. AskedOf("ipp", dir) \in Seq(Texts) /\ AllItems(IppGood, AskedOf("ipp", dir))
    BY ListsAreAsked DEF WfInv, IppLists
  <2> QED
    BY <1>5, <2>1, IppAsks DEF IppText
<1>8. ASSUME NEW dir \in {"in", "out"}
      PROVE  pkt.kind = "icmp" /\ TextTakes("icmp", AskedOf("icmp", dir), seen)
               <=> IcmpText(AskedOf("icmp", dir), pkt)
  <2>1. AskedOf("icmp", dir) \in Seq(Texts)
    BY ListsAreAsked DEF WfInv, IcmpLists
  <2> QED
    BY <1>5, <2>1, IcmpAsks DEF IcmpText
<1>9. (\E i \in DOMAIN wf.parts : pkt.tag \in wf.parts[i])
        <=> \E k \in Saying(Given, "parts") : pkt.tag \in Given[k].a
  BY PartsAreAsked
<1>10. TcpClause(f, pkt) <=>
         /\ pkt.kind = "tcp"
         /\ \/ pkt.dir = "out" /\ PortsText(AskedOf("tcp", "out"), port)
            \/ pkt.dir = "in" /\ Signals(pkt) /\ PortsText(AskedOf("tcp", "out"), port)
            \/ pkt.dir = "in" /\ PortsText(AskedOf("tcp", "in"), port)
            \/ pkt.dir = "out" /\ Signals(pkt) /\ PortsText(AskedOf("tcp", "in"), port)
            \/ TcpAsked /\ pkt.redirect
  BY <1>1, <1>3, <1>4, ListsAreAsked DEF TcpClause
<1>11. UdpClause(f, pkt) <=>
         /\ pkt.kind = "udp"
         /\ \/ pkt.dir = "out" /\ PortsText(AskedOf("udp", "out"), port)
            \/ pkt.dir = "in" /\ PortsText(AskedOf("udp", "in"), port)
  BY <1>1, <1>3, ListsAreAsked DEF UdpClause
<1>12. OtherClause(f, pkt) <=>
         \/ \E k \in Saying(Given, "parts") : pkt.tag \in Given[k].a
         \/ IcmpText(AskedOf("icmp", pkt.dir), pkt) \/ IppText(AskedOf("ipp", pkt.dir), pkt)
  BY <1>1, <1>2, <1>9, ListsAreAsked DEF OtherClause
<1>13. Asked(pkt) <=>
         \/ TextTakes(pkt.kind, AskedOf(pkt.kind, pkt.dir), seen)
         \/ TextTakes("ipp", AskedOf("ipp", pkt.dir), seen)
         \/ Signals(pkt) /\ TextTakes("tcp", AskedOf("tcp", Opposite(pkt.dir)), seen)
         \/ \E k \in Saying(Given, "parts") : pkt.tag \in Given[k].a
  BY DEF Asked, seen, port
<1>14. CASE pkt.kind = "tcp"
  <2>1. CASE pkt.dir = "out"
    BY <1>6, <1>7, <1>8, <1>10, <1>11, <1>12, <1>13, <1>14, <2>1 DEF Opposite, f
  <2>2. CASE pkt.dir = "in"
    BY <1>6, <1>7, <1>8, <1>10, <1>11, <1>12, <1>13, <1>14, <2>2 DEF Opposite, f
  <2> QED
    BY <1>2, <2>1, <2>2
<1>15. CASE pkt.kind # "tcp"
  <2>1. ~Signals(pkt)
    BY <1>15 DEF Signals
  <2>2. CASE pkt.kind = "udp"
    BY <1>2, <1>6, <1>7, <1>8, <1>10, <1>11, <1>12, <1>13, <2>1, <2>2 DEF f
  <2>3. CASE pkt.kind \in {"icmp", "ipp"}
    BY <1>2, <1>7, <1>8, <1>10, <1>11, <1>12, <1>13, <2>1, <2>3 DEF f
  <2> QED
    BY <1>2, <1>15, <2>2, <2>3
<1> QED
  BY <1>14, <1>15

LEMMA CapturedAsAsked == CaptureInv => CaptureAsAsked
<1> SUFFICES ASSUME CaptureInv, status = "run", filter.kind = "made", NEW pkt \in Wire
             PROVE  /\ Asked(pkt) /\ ~Spared(pkt) => Passes(filter, pkt)
                    /\ Passes(filter, pkt) =>
                         /\ ~Spared(pkt)
                         /\ Asked(pkt) \/ (TcpAsked /\ pkt.redirect) \/ AskedByZero
  BY DEF CaptureAsAsked
<1>1. filter = Made(global.server) /\ WfInv
  BY DEF CaptureInv, Going
<1>2. Passes(filter, pkt) <=>
        /\ Prolog(filter, pkt) /\ NotLan(filter, pkt)
        /\ TcpClause(filter, pkt) \/ UdpClause(filter, pkt) \/ OtherClause(filter, pkt)
  BY DEF Passes
<1> QED
  BY <1>1, <1>2, SparedIs, ClausesAreAsked

\* What the driver hands to nfqws2 is what the last of each --wf- option asks for, in
\* client and in server mode, for every command line (wf_make_filter).
THEOREM CapturesAsAsked == OptionsSpec => []CaptureAsAsked
BY CaptureKept, CapturedAsAsked, PTL

-----------------------------------------------------------------------------
\* Options: the places of the options of a section

\* The function that PlacesOf says there is.
PlacesUpTo(opts, name, n, places) ==
    places = [k \in 0..n |-> PlacesAt(opts, name, places, k)]

\* A place is told by those before it.
LEMMA PlacesAtAgree ==
    ASSUME NEW opts, NEW name, NEW k \in Nat, NEW f, NEW g, \A j \in 0..(k - 1) : f[j] = g[j]
    PROVE  PlacesAt(opts, name, f, k) = PlacesAt(opts, name, g, k)
<1>1. CASE k = 0
  BY <1>1 DEF PlacesAt
<1>2. CASE k # 0
  <2>1. k - 1 \in 0..(k - 1)
    BY <1>2
  <2>2. Source(opts, k) \in 0..(k - 1)
    <3>1. Named(opts, k) # {} => Source(opts, k) \in 1..(k - 1)
      BY DEF Named, Source
    <3> QED
      BY <2>1, <3>1 DEF Source
  <2>3. f[k - 1] = g[k - 1] /\ f[Source(opts, k)] = g[Source(opts, k)]
    BY <2>1, <2>2
  <2> QED
    BY <1>2, <2>3 DEF PlacesAt
<1> QED
  BY <1>1, <1>2

LEMMA PlacesGrow ==
    ASSUME NEW opts, NEW name, NEW n \in Nat, NEW f, PlacesUpTo(opts, name, n, f)
    PROVE  \E g : PlacesUpTo(opts, name, n + 1, g)
<1> DEFINE g == [k \in 0..(n + 1) |-> IF k <= n THEN f[k] ELSE PlacesAt(opts, name, f, n + 1)]
<1>1. \A k \in 0..n : f[k] = PlacesAt(opts, name, f, k)
  BY DEF PlacesUpTo
<1>2. \A k \in 0..n : g[k] = f[k]
  OBVIOUS
<1>3. ASSUME NEW k \in 0..(n + 1)
      PROVE  g[k] = PlacesAt(opts, name, g, k)
  <2>1. \A j \in 0..(k - 1) : f[j] = g[j]
    BY <1>2
  <2>2. PlacesAt(opts, name, f, k) = PlacesAt(opts, name, g, k)
    <3> HIDE DEF g
    <3> QED
      BY <2>1, PlacesAtAgree
  <2>3. g[k] = PlacesAt(opts, name, f, k)
    BY <1>1
  <2> QED
    BY <2>2, <2>3
<1>4. g = [k \in 0..(n + 1) |-> g[k]]
  OBVIOUS
<1>5. g = [k \in 0..(n + 1) |-> PlacesAt(opts, name, g, k)]
  <2> HIDE DEF g
  <2> QED
    BY <1>3, <1>4
<1> QED
  BY <1>5 DEF PlacesUpTo

LEMMA PlacesThere ==
    ASSUME NEW opts, NEW name, NEW n \in Nat
    PROVE  \E f : PlacesUpTo(opts, name, n, f)
<1> DEFINE none == {m \in Nat : ~ \E f : PlacesUpTo(opts, name, m, f)}
<1>1. SUFFICES ASSUME none # {}
               PROVE  FALSE
  OBVIOUS
<1>2. PICK m \in none : \A k \in none : m <= k
  BY <1>1, LeastOf
<1>3. CASE m = 0
  <2> DEFINE f == [k \in 0..0 |-> <<>>]
  <2>1. \A k \in 0..0 : PlacesAt(opts, name, f, k) = <<>>
    BY DEF PlacesAt
  <2>2. f = [k \in 0..0 |-> PlacesAt(opts, name, f, k)]
    <3>1. f = [k \in 0..0 |-> f[k]] /\ \A k \in 0..0 : f[k] = <<>>
      OBVIOUS
    <3> HIDE DEF f
    <3> QED
      BY <2>1, <3>1
  <2>3. PlacesUpTo(opts, name, 0, f)
    BY <2>2 DEF PlacesUpTo
  <2> QED
    BY <1>2, <1>3, <2>3
<1>4. CASE m # 0
  <2>1. m - 1 \in Nat /\ m - 1 \notin none
    BY <1>2, <1>4
  <2>2. PICK f : PlacesUpTo(opts, name, m - 1, f)
    BY <2>1
  <2>3. \E g : PlacesUpTo(opts, name, (m - 1) + 1, g)
    BY <2>1, <2>2, PlacesGrow
  <2>4. (m - 1) + 1 = m
    OBVIOUS
  <2> QED
    BY <1>2, <2>3, <2>4
<1> QED
  BY <1>3, <1>4

LEMMA PlacesOfIs ==
    ASSUME NEW opts, Len(opts) \in Nat, NEW name
    PROVE  /\ PlacesUpTo(opts, name, Len(opts), PlacesOf(opts, name))
           /\ \A k \in 0..Len(opts) :
                PlacesOf(opts, name)[k] = PlacesAt(opts, name, PlacesOf(opts, name), k)
<1>1. PlacesOf(opts, name) = CHOOSE f : f = [k \in 0..Len(opts) |-> PlacesAt(opts, name, f, k)]
  BY DEF PlacesOf
<1>2. \E f : f = [k \in 0..Len(opts) |-> PlacesAt(opts, name, f, k)]
  BY PlacesThere DEF PlacesUpTo
<1>3. PlacesOf(opts, name) = [k \in 0..Len(opts) |-> PlacesAt(opts, name, PlacesOf(opts, name), k)]
  BY <1>1, <1>2
<1> QED
  BY <1>3 DEF PlacesUpTo

LEMMA SourceIs ==
    ASSUME NEW opts, NEW k \in Nat \ {0}
    PROVE  /\ Source(opts, k) \in 0..(k - 1)
           /\ Named(opts, k) # {} => Source(opts, k) \in Named(opts, k)
<1>1. Named(opts, k) # {} => Source(opts, k) \in Named(opts, k)
  BY DEF Source
<1>2. Named(opts, k) = {} => Source(opts, k) = 0
  BY DEF Source
<1> QED
  BY <1>1, <1>2 DEF Named

\* They are places of the text up to here.
LEMMA PlacesType ==
    ASSUME NEW opts, Len(opts) \in Nat, NEW name, NEW k \in 0..Len(opts)
    PROVE  PlacesOf(opts, name)[k] \in Seq(1..k)
<1> DEFINE places == PlacesOf(opts, name)
           other == {j \in 0..Len(opts) : places[j] \notin Seq(1..j)}
<1>1. SUFFICES ASSUME other # {}
               PROVE  FALSE
  BY <1>1
<1>2. PICK m \in other : \A j \in other : m <= j
  <2>1. other \in SUBSET Nat
    OBVIOUS
  <2> HIDE DEF other
  <2> QED
    BY <1>1, <2>1, LeastOf
<1>3. \A j \in 0..(m - 1) : places[j] \in Seq(1..j)
  BY <1>2
<1>4. places[m] = PlacesAt(opts, name, places, m)
  BY <1>2, PlacesOfIs
<1>5. m \in Nat /\ places[m] \notin Seq(1..m)
  BY <1>2
<1>6. \A j \in 0..(m - 1) : places[j] \in Seq(1..m)
  <2> TAKE j \in 0..(m - 1)
  <2>1. places[j] \in Seq(1..j) /\ 1..j \subseteq 1..m
    BY <1>3, <1>5
  <2> HIDE DEF places
  <2> QED
    BY <2>1
<1>7. <<>> \in Seq(1..m)
  OBVIOUS
<1>8. CASE m = 0
  BY <1>4, <1>5, <1>7, <1>8 DEF PlacesAt
<1>9. CASE m # 0
  <2> DEFINE before == IF opts[m].o = "new" THEN <<>> ELSE places[m - 1]
  <2>1. before \in Seq(1..m) /\ places[Source(opts, m)] \in Seq(1..m)
    <3>1. m - 1 \in 0..(m - 1) /\ Source(opts, m) \in 0..(m - 1)
      BY <1>5, <1>9, SourceIs
    <3> HIDE DEF places
    <3> QED
      BY <1>6, <1>7, <3>1
  <2>2. m \in 1..m
    BY <1>5, <1>9
  <2>3. before \o places[Source(opts, m)] \in Seq(1..m) /\ Append(before, m) \in Seq(1..m)
    <3> HIDE DEF before, places
    <3> QED
      BY <2>1, <2>2
  <2>4. places[m] = IF opts[m].o = "import" THEN before \o places[Source(opts, m)]
                    ELSE IF opts[m].o = name THEN Append(before, m) ELSE before
    BY <1>4, <1>9 DEF PlacesAt
  <2> HIDE DEF before, places
  <2> QED
    BY <1>5, <2>1, <2>3, <2>4
<1> QED
  BY <1>8, <1>9

-----------------------------------------------------------------------------
\* Options: a text and one option more

Longer(opts, more, opt) ==
    /\ Len(opts) \in Nat /\ DOMAIN opts = 1..Len(opts)
    /\ Len(more) = Len(opts) + 1 /\ DOMAIN more = 1..Len(more)
    /\ \A k \in 1..Len(opts) : more[k] = opts[k]
    /\ more[Len(opts) + 1] = opt

LEMMA OwnKept ==
    ASSUME NEW opts, NEW more, NEW opt, Longer(opts, more, opt), NEW k \in 0..Len(opts)
    PROVE  /\ \A names : Own(more, k, names) = Own(opts, k, names)
           /\ NameOf(more, k) = NameOf(opts, k)
           /\ IsTemplate(more, k) = IsTemplate(opts, k) /\ IsProfile(more, k) = IsProfile(opts, k)
<1>1. \A j \in 1..k : more[j] = opts[j]
  BY DEF Longer
<1>2. \A names : Own(more, k, names) = Own(opts, k, names)
  BY <1>1 DEF Own
<1>3. Naming(more, k) = Naming(opts, k)
  BY <1>1, <1>2 DEF Naming, Own
<1>4. Naming(opts, k) # {} => LastOf(Naming(opts, k)) \in 1..k
  <2>1. Naming(opts, k) \in SUBSET (1..k)
    BY DEF Naming, Own
  <2>2. k \in Nat
    BY DEF Longer
  <2> QED
    BY <2>1, <2>2, LastOfIs
<1>5. NameOf(more, k) = NameOf(opts, k)
  BY <1>1, <1>3, <1>4 DEF NameOf
<1> QED
  BY <1>2, <1>5 DEF IsTemplate, IsProfile

LEMMA SettingKept ==
    ASSUME NEW opts, NEW more, NEW opt, Longer(opts, more, opt), NEW k \in 0..Len(opts),
           NEW name, NEW default
    PROVE  Setting(more, k, name, default) = Setting(opts, k, name, default)
<1> DEFINE ks == Own(opts, k, {name})
<1>1. Own(more, k, {name}) = ks
  BY OwnKept
<1>2. ks # {} => LastOf(ks) \in 1..k
  <2>1. ks \in SUBSET (1..k) /\ k \in Nat
    BY DEF Own, Longer
  <2> HIDE DEF ks
  <2> QED
    BY <2>1, LastOfIs
<1>3. \A j \in 1..k : more[j] = opts[j]
  BY DEF Longer
<1> HIDE DEF ks
<1> QED
  BY <1>1, <1>2, <1>3 DEF Setting, ks

LEMMA SourceKept ==
    ASSUME NEW opts, NEW more, NEW opt, Longer(opts, more, opt), NEW k \in 1..Len(opts)
    PROVE  Source(more, k) = Source(opts, k)
<1>1. \A e \in 1..(k - 1) : /\ more[e + 1] = opts[e + 1] /\ NameOf(more, e) = NameOf(opts, e)
                            /\ IsTemplate(more, e) = IsTemplate(opts, e)
  <2> TAKE e \in 1..(k - 1)
  <2>1. e \in 0..Len(opts) /\ e + 1 \in 1..Len(opts)
    BY DEF Longer
  <2> QED
    BY <2>1, OwnKept DEF Longer
<1>2. more[k] = opts[k]
  BY DEF Longer
<1>3. Named(more, k) = Named(opts, k)
  BY <1>1, <1>2 DEF Named
<1> QED
  BY <1>3 DEF Source

LEMMA PlacesKept ==
    ASSUME NEW opts, NEW more, NEW opt, Longer(opts, more, opt), NEW name, NEW k \in 0..Len(opts)
    PROVE  PlacesOf(more, name)[k] = PlacesOf(opts, name)[k]
<1> DEFINE f == PlacesOf(opts, name)
           g == PlacesOf(more, name)
           other == {j \in 0..Len(opts) : g[j] # f[j]}
<1>1. SUFFICES ASSUME other # {}
               PROVE  FALSE
  BY <1>1
<1>2. PICK m \in other : \A j \in other : m <= j
  <2>1. other \in SUBSET Nat
    BY DEF Longer
  <2> HIDE DEF other
  <2> QED
    BY <1>1, <2>1, LeastOf
<1>3. m \in Nat /\ m \in 0..Len(opts) /\ m \in 0..Len(more) /\ g[m] # f[m]
  BY <1>2 DEF Longer
<1>4. \A j \in 0..(m - 1) : g[j] = f[j]
  BY <1>2, <1>3
<1>5. f[m] = PlacesAt(opts, name, f, m) /\ g[m] = PlacesAt(more, name, g, m)
  <2>1. Len(opts) \in Nat /\ Len(more) \in Nat
    BY DEF Longer
  <2> QED
    BY <1>3, <2>1, PlacesOfIs
<1>6. PlacesAt(more, name, g, m) = PlacesAt(more, name, f, m)
  <2> HIDE DEF f, g
  <2> QED
    BY <1>3, <1>4, PlacesAtAgree
<1>7. PlacesAt(more, name, f, m) = PlacesAt(opts, name, f, m)
  <2>1. m # 0 => more[m] = opts[m] /\ Source(more, m) = Source(opts, m)
    BY <1>3, SourceKept DEF Longer
  <2> HIDE DEF f
  <2> QED
    BY <2>1 DEF PlacesAt
<1> QED
  BY <1>3, <1>5, <1>6, <1>7

LEMMA ArgumentsKept ==
    ASSUME NEW opts, NEW more, NEW opt, Longer(opts, more, opt), NEW k \in 0..Len(opts)
    PROVE  /\ \A name : Arguments(more, name, k) = Arguments(opts, name, k)
           /\ \A name : PlacesOf(more, name)[k] = PlacesOf(opts, name)[k]
           /\ LastMask(more, PlacesOf(more, "filter-l7")[k])
                = LastMask(opts, PlacesOf(opts, "filter-l7")[k])
           /\ InstancesOf(more, k) = InstancesOf(opts, k)
<1>1. \A name : PlacesOf(more, name)[k] = PlacesOf(opts, name)[k]
  BY PlacesKept
<1>2. \A name : PlacesOf(opts, name)[k] \in Seq(1..k)
  BY PlacesType DEF Longer
<1>3. \A j \in 1..k : more[j] = opts[j] /\ j \in 0..Len(opts)
  BY DEF Longer
<1>4. \A name : Arguments(more, name, k) = Arguments(opts, name, k)
  <2> TAKE name
  <2>1. \A j \in ToSet(PlacesOf(opts, name)[k]) : j \in 1..k
    BY <1>2 DEF ToSet
  <2> QED
    BY <1>1, <1>3, <2>1 DEF Arguments
<1>5. ASSUME NEW places \in Seq(1..k), places # <<>>
      PROVE  Last(places) \in 1..k
  BY <1>5 DEF Last
<1>6. \A j \in 1..k : Settled(more, j) = Settled(opts, j)
  BY <1>3, SettingKept DEF Settled
<1>7. InstancesOf(more, k) = InstancesOf(opts, k)
  <2>1. \A i \in DOMAIN PlacesOf(opts, "lua-desync")[k] : PlacesOf(opts, "lua-desync")[k][i] \in 1..k
    BY <1>2
  <2> QED
    BY <1>1, <1>6, <2>1 DEF InstancesOf
<1> QED
  BY <1>1, <1>2, <1>3, <1>4, <1>5, <1>7 DEF LastMask

\* What the new option makes of the settings of its section ...
LEMMA OwnGrows ==
    ASSUME NEW opts, NEW more, NEW opt, Longer(opts, more, opt), NEW names
    PROVE  /\ opt.o = "new" => Own(more, Len(more), names) =
                                 (IF "new" \in names THEN {Len(more)} ELSE {})
           /\ opt.o # "new" => Own(more, Len(more), names) =
                Own(opts, Len(opts), names) \cup (IF opt.o \in names THEN {Len(more)} ELSE {})
<1> DEFINE n == Len(opts)
<1>1. /\ n \in Nat /\ Len(more) = n + 1 /\ more[n + 1] = opt
      /\ \A j \in 1..n : more[j] = opts[j]
  BY DEF Longer
<1>2. \A j : j \in 1..(n + 1) <=> j \in 1..n \/ j = n + 1
  BY <1>1
<1>3. CASE opt.o = "new"
  <2>1. \A j \in 1..n : n + 1 \in (j + 1)..(n + 1)
    BY <1>1
  <2>2. (n + 1 + 1)..(n + 1) = {}
    BY <1>1
  <2> QED
    BY <1>1, <1>2, <1>3, <2>1, <2>2 DEF Own
<1>4. CASE opt.o # "new"
  <2>1. (n + 1 + 1)..(n + 1) = {}
    BY <1>1
  <2>2. \A j \in 1..n : (\A i \in (j + 1)..(n + 1) : more[i].o # "new")
                          <=> (\A i \in (j + 1)..n : opts[i].o # "new")
    <3> TAKE j \in 1..n
    <3>1. \A i : i \in (j + 1)..(n + 1) <=> i \in (j + 1)..n \/ i = n + 1
      BY <1>1
    <3>2. \A i \in (j + 1)..n : i \in 1..n
      BY <1>1
    <3> QED
      BY <1>1, <1>4, <3>1, <3>2
  <2>3. Own(more, n + 1, names) =
          {j \in 1..n : opts[j].o \in names /\ \A i \in (j + 1)..n : opts[i].o # "new"}
            \cup (IF opt.o \in names THEN {n + 1} ELSE {})
    <3>1. \A j \in 1..n : j \in Own(more, n + 1, names) <=>
             opts[j].o \in names /\ \A i \in (j + 1)..n : opts[i].o # "new"
      BY <1>1, <1>2, <2>2 DEF Own
    <3>2. n + 1 \in Own(more, n + 1, names) <=> opt.o \in names
      BY <1>1, <1>2, <2>1 DEF Own
    <3>3. Own(more, n + 1, names) \subseteq 1..(n + 1)
      BY DEF Own
    <3> QED
      BY <1>2, <3>1, <3>2, <3>3
  <2> QED
    BY <1>1, <1>4, <2>3 DEF Own
<1> QED
  BY <1>3, <1>4

\* The last of a set of places and one after them.
LEMMA LastGrows ==
    ASSUME NEW n \in Nat, NEW ks \in SUBSET (1..n)
    PROVE  LastOf(ks \cup {n + 1}) = n + 1
<1>1. ks \cup {n + 1} \in SUBSET (1..(n + 1)) /\ ks \cup {n + 1} # {}
  OBVIOUS
<1>2. LastOf(ks \cup {n + 1}) \in ks \cup {n + 1} /\ \A j \in ks \cup {n + 1} : j <= LastOf(ks \cup {n + 1})
  <2>1. n + 1 \in Nat
    OBVIOUS
  <2> QED
    BY <1>1, <2>1, LastOfIs
<1>3. \A j \in ks : j \in Nat /\ j <= n
  OBVIOUS
<1>4. n + 1 <= LastOf(ks \cup {n + 1})
  BY <1>2
<1>5. LastOf(ks \cup {n + 1}) = n + 1 \/ LastOf(ks \cup {n + 1}) \in ks
  BY <1>2
<1>6. LastOf(ks \cup {n + 1}) \notin ks
  <2>1. \A j \in ks : ~(n + 1 <= j)
    BY <1>3
  <2> QED
    BY <1>4, <2>1
<1> QED
  BY <1>5, <1>6

LEMMA SettingGrows ==
    ASSUME NEW opts, NEW more, NEW opt, Longer(opts, more, opt), NEW name, name # "new", NEW default
    PROVE  Setting(more, Len(more), name, default) =
             IF opt.o = "new" THEN default
             ELSE IF opt.o = name THEN opt.a ELSE Setting(opts, Len(opts), name, default)
<1> DEFINE ks == Own(opts, Len(opts), {name})
<1>1. Len(opts) \in Nat /\ ks \in SUBSET (1..Len(opts)) /\ Len(more) = Len(opts) + 1
      /\ more[Len(opts) + 1] = opt
  BY DEF Own, Longer
<1>2. CASE opt.o = "new"
  BY <1>2, OwnGrows DEF Setting
<1>3. CASE opt.o = name
  <2>1. Own(more, Len(more), {name}) = ks \cup {Len(opts) + 1}
    BY <1>1, <1>3, OwnGrows
  <2>2. LastOf(ks \cup {Len(opts) + 1}) = Len(opts) + 1
    <3> HIDE DEF ks
    <3> QED
      BY <1>1, LastGrows
  <2> QED
    BY <1>1, <1>3, <2>1, <2>2 DEF Setting
<1>4. CASE opt.o \notin {"new", name}
  <2>1. Own(more, Len(more), {name}) = ks \cup (IF opt.o \in {name} THEN {Len(more)} ELSE {})
    <3>1. opt.o # "new"
      BY <1>4
    <3> QED
      BY <3>1, OwnGrows
  <2>2. ks # {} => LastOf(ks) \in 1..Len(opts)
    <3> HIDE DEF ks
    <3> QED
      BY <1>1, LastOfIs
  <2>3. \A j \in 1..Len(opts) : more[j] = opts[j]
    BY DEF Longer
  <2>4. Own(more, Len(more), {name}) = ks
    BY <1>4, <2>1
  <2> QED
    BY <1>4, <2>2, <2>3, <2>4 DEF Setting
<1> QED
  BY <1>2, <1>3, <1>4

LEMMA NameGrows ==
    ASSUME NEW opts, NEW more, NEW opt, Longer(opts, more, opt)
    PROVE  NameOf(more, Len(more)) =
             IF opt.o = "new" THEN opt.a
             ELSE IF opt.o \in {"template", "name"} /\ opt.a # "" THEN opt.a
             ELSE NameOf(opts, Len(opts))
<1> DEFINE names == {"new", "template", "name"}
           ks == Naming(opts, Len(opts))
           n == Len(opts) + 1
<1>1. Len(opts) \in Nat /\ Len(more) = n /\ more[n] = opt
  BY DEF Longer
<1>2. ks \in SUBSET (1..Len(opts)) /\ Own(opts, Len(opts), names) \in SUBSET (1..Len(opts))
  BY DEF Naming, Own
<1>3. \A j \in 1..Len(opts) : more[j] = opts[j]
  BY DEF Longer
<1>4. ks # {} => LastOf(ks) \in 1..Len(opts)
  <2> HIDE DEF ks
  <2> QED
    BY <1>1, <1>2, LastOfIs
<1>5. CASE opt.o = "new"
  <2>1. Naming(more, n) = IF opt.a # "" THEN {n} ELSE {}
    <3>1. Own(more, n, names) = {n}
      BY <1>1, <1>5, OwnGrows
    <3> QED
      BY <1>1, <3>1 DEF Naming
  <2>2. LastOf({} \cup {n}) = n
    BY <1>1, LastGrows
  <2> QED
    BY <1>1, <1>5, <2>1, <2>2 DEF NameOf
<1>6. CASE opt.o # "new" /\ opt.o \in names /\ opt.a # ""
  <2>1. Own(more, n, names) = Own(opts, Len(opts), names) \cup {n}
    <3>1. Own(more, Len(more), names) =
            Own(opts, Len(opts), names) \cup (IF opt.o \in names THEN {Len(more)} ELSE {})
      BY <1>6, OwnGrows
    <3> HIDE DEF names
    <3> QED
      BY <1>1, <1>6, <3>1
  <2>2. Naming(more, n) = ks \cup {n}
    BY <1>1, <1>2, <1>3, <1>6, <2>1 DEF Naming
  <2>3. LastOf(ks \cup {n}) = n
    <3> HIDE DEF ks
    <3> QED
      BY <1>1, <1>2, LastGrows
  <2> QED
    BY <1>1, <1>6, <2>2, <2>3 DEF NameOf
<1>7. CASE opt.o # "new" /\ ~(opt.o \in names /\ opt.a # "")
  <2>1. Own(more, n, names) = Own(opts, Len(opts), names) \cup (IF opt.o \in names THEN {n} ELSE {})
    <3>1. Own(more, Len(more), names) =
            Own(opts, Len(opts), names) \cup (IF opt.o \in names THEN {Len(more)} ELSE {})
      <4>1. opt.o # "new"
        BY <1>7
      <4> HIDE DEF names
      <4> QED
        BY <4>1, OwnGrows
    <3> HIDE DEF names
    <3> QED
      BY <1>1, <3>1
  <2>2. Naming(more, n) = ks
    BY <1>1, <1>2, <1>3, <1>7, <2>1 DEF Naming
  <2> QED
    BY <1>1, <1>3, <1>4, <1>7, <2>2 DEF NameOf
<1> QED
  BY <1>5, <1>6, <1>7

\* ... and of the places.
LEMMA LastPlaces ==
    ASSUME NEW opts, NEW more, NEW opt, Longer(opts, more, opt), NEW name
    PROVE  /\ PlacesOf(more, name)[Len(more)] = PlacesAt(more, name, PlacesOf(more, name), Len(more))
           /\ Len(more) # 0 /\ more[Len(more)] = opt
           /\ PlacesOf(more, name)[Len(more) - 1] = PlacesOf(opts, name)[Len(opts)]
           /\ PlacesOf(more, name)[Source(more, Len(more))] =
                PlacesOf(opts, name)[Source(more, Len(more))]
           /\ Source(more, Len(more)) \in 0..Len(opts)
<1> DEFINE n == Len(opts) + 1
<1>1. n \in Nat /\ Len(opts) \in Nat /\ Len(more) = n /\ more[n] = opt /\ n # 0 /\ n - 1 = Len(opts)
  BY DEF Longer
<1>2. Source(more, n) \in 0..Len(opts)
  BY <1>1, SourceIs
<1>3. \A k \in 0..Len(opts) : PlacesOf(more, name)[k] = PlacesOf(opts, name)[k]
  BY PlacesKept
<1>4. PlacesOf(more, name)[n - 1] = PlacesOf(opts, name)[Len(opts)]
  BY <1>1, <1>3
<1>5. PlacesOf(more, name)[Source(more, n)] = PlacesOf(opts, name)[Source(more, n)]
  BY <1>2, <1>3
<1>6. PlacesOf(more, name)[n] = PlacesAt(more, name, PlacesOf(more, name), n)
  <2>1. n \in 0..Len(more)
    BY <1>1
  <2> QED
    BY <1>1, <2>1, PlacesOfIs
<1> QED
  BY <1>1, <1>2, <1>4, <1>5, <1>6

LEMMA PlacesImported ==
    ASSUME NEW opts, NEW more, NEW opt, Longer(opts, more, opt), opt.o = "import", NEW name
    PROVE  PlacesOf(more, name)[Len(more)] =
             PlacesOf(opts, name)[Len(opts)] \o PlacesOf(opts, name)[Source(more, Len(more))]
<1> DEFINE f == PlacesOf(more, name)
           n == Len(more)
<1>1. n # 0 /\ more[n].o = "import" /\ more[n].o # "new"
  BY LastPlaces
<1>2. PlacesAt(more, name, f, n) = f[n - 1] \o f[Source(more, n)]
  <2> HIDE DEF f, n
  <2> QED
    BY <1>1 DEF PlacesAt
<1>3. f[n] = PlacesAt(more, name, f, n)
  BY LastPlaces
<1>4. f[n - 1] = PlacesOf(opts, name)[Len(opts)]
  BY LastPlaces
<1>5. f[Source(more, n)] = PlacesOf(opts, name)[Source(more, n)]
  BY LastPlaces
<1> HIDE DEF f
<1> QED
  BY <1>2, <1>3, <1>4, <1>5 DEF f

LEMMA PlacesDropped ==
    ASSUME NEW opts, NEW more, NEW opt, Longer(opts, more, opt), opt.o = "new", NEW name, name # "new"
    PROVE  PlacesOf(more, name)[Len(more)] = <<>>
  BY LastPlaces DEF PlacesAt

\* An option that the section itself has.
OfSection(opt) == opt.o \notin {"new", "import"}

LEMMA PlacesAdded ==
    ASSUME NEW opts, NEW more, NEW opt, Longer(opts, more, opt), OfSection(opt), NEW name
    PROVE  PlacesOf(more, name)[Len(more)] =
             IF opt.o = name THEN Append(PlacesOf(opts, name)[Len(opts)], Len(more))
             ELSE PlacesOf(opts, name)[Len(opts)]
<1> DEFINE f == PlacesOf(more, name)
           n == Len(more)
<1>1. f[n] = PlacesAt(more, name, f, n) /\ n # 0 /\ more[n] = opt
      /\ f[n - 1] = PlacesOf(opts, name)[Len(opts)]
  BY LastPlaces
<1>2. opt.o # "new" /\ opt.o # "import"
  BY DEF OfSection
<1> HIDE DEF f
<1> QED
  BY <1>1, <1>2 DEF PlacesAt, f

LEMMA PlacesAppended ==
    ASSUME NEW opts, NEW more, NEW opt, Longer(opts, more, opt), OfSection(opt)
    PROVE  PlacesOf(more, opt.o)[Len(more)] = Append(PlacesOf(opts, opt.o)[Len(opts)], Len(more))
<1>1. PICK name : name = opt.o
  OBVIOUS
<1>2. PlacesOf(more, name)[Len(more)] =
        IF opt.o = name THEN Append(PlacesOf(opts, name)[Len(opts)], Len(more))
        ELSE PlacesOf(opts, name)[Len(opts)]
  BY PlacesAdded
<1>3. PlacesOf(more, name)[Len(more)] = Append(PlacesOf(opts, name)[Len(opts)], Len(more))
  BY <1>1, <1>2
<1> QED
  BY <1>1, <1>3

LEMMA SeqWider ==
    ASSUME NEW n \in Nat, NEW e \in 0..n, NEW t \in Seq(1..e)
    PROVE  t \in Seq(1..n)
<1>1. 1..e \subseteq 1..n
  OBVIOUS
<1> QED
  BY <1>1

LEMMA SeqInto ==
    ASSUME NEW s, s \in Seq(ToSet(s)), NEW S, ToSet(s) \subseteq S
    PROVE  s \in Seq(S)
<1>1. PICK T : T = ToSet(s)
  OBVIOUS
<1> QED
  BY <1>1

LEMMA SeqOfOne ==
    ASSUME NEW S, NEW x \in S
    PROVE  <<x>> \in Seq(S)
  OBVIOUS

LEMMA SeqIsFunction ==
    ASSUME NEW S, NEW s \in Seq(S)
    PROVE  s = [i \in DOMAIN s |-> s[i]]
  OBVIOUS

LEMMA ToSetJoined ==
    ASSUME NEW S, NEW s \in Seq(S), NEW t \in Seq(S)
    PROVE  ToSet(s \o t) = ToSet(s) \cup ToSet(t)
<1>1. \A i \in DOMAIN s : i \in DOMAIN (s \o t) /\ (s \o t)[i] = s[i]
  OBVIOUS
<1>2. \A i \in DOMAIN t : Len(s) + i \in DOMAIN (s \o t) /\ (s \o t)[Len(s) + i] = t[i]
  OBVIOUS
<1>3. \A i \in DOMAIN (s \o t) : \/ i \in DOMAIN s /\ (s \o t)[i] = s[i]
                                 \/ i - Len(s) \in DOMAIN t /\ (s \o t)[i] = t[i - Len(s)]
  OBVIOUS
<1>4. ToSet(s) \subseteq ToSet(s \o t)
  BY <1>1 DEF ToSet
<1>5. ToSet(t) \subseteq ToSet(s \o t)
  BY <1>2 DEF ToSet
<1>6. ToSet(s \o t) \subseteq ToSet(s) \cup ToSet(t)
  BY <1>3 DEF ToSet
<1> QED
  BY <1>4, <1>5, <1>6

LEMMA ToSetAppended ==
    ASSUME NEW S, NEW s \in Seq(S), NEW x
    PROVE  ToSet(Append(s, x)) = ToSet(s) \cup {x} /\ ToSet(<<x>>) = {x}
<1>1. /\ DOMAIN Append(s, x) = DOMAIN s \cup {Len(s) + 1}
      /\ \A i \in DOMAIN s : Append(s, x)[i] = s[i]
      /\ Append(s, x)[Len(s) + 1] = x
  OBVIOUS
<1> QED
  BY <1>1 DEF ToSet

LEMMA ToSetPrepended ==
    ASSUME NEW S, NEW s \in Seq(S), NEW x \in S
    PROVE  <<x>> \o s \in Seq(S) /\ ToSet(<<x>> \o s) = {x} \cup ToSet(s)
<1>1. PICK t : t = <<x>>
  OBVIOUS
<1>2. t \in Seq(S)
  BY <1>1, SeqOfOne
<1>3. t \o s \in Seq(S) /\ ToSet(t \o s) = ToSet(t) \cup ToSet(s)
  BY <1>2, ToSetJoined
<1>4. ToSet(<<x>>) = {x}
  BY ToSetAppended
<1> QED
  BY <1>1, <1>3, <1>4

LEMMA ToSetIs ==
    ASSUME NEW S, NEW s \in Seq(S)
    PROVE  /\ ToSet(s) \subseteq S
           /\ ToSet(s) = {} <=> s = <<>>
           /\ s \in Seq(ToSet(s))
<1>1. \A i \in DOMAIN s : s[i] \in S /\ s[i] \in ToSet(s)
  BY DEF ToSet
<1>2. ToSet(s) \subseteq S
  BY <1>1 DEF ToSet
<1>3. ToSet(s) = {} => s = <<>>
  <2>1. s # <<>> => 1 \in DOMAIN s
    OBVIOUS
  <2> QED
    BY <1>1, <2>1
<1>4. ToSet(<<>>) = {}
  BY DEF ToSet
<1> QED
  BY <1>1, <1>2, <1>3, <1>4

\* After --new nothing is said yet.
LEMMA NothingSaid ==
    ASSUME NEW opts, NEW more, NEW opt, Longer(opts, more, opt), opt.o = "new"
    PROVE  /\ \A name : name # "new" => PlacesOf(more, name)[Len(more)] = <<>>
           /\ \A name : name # "new" => Arguments(more, name, Len(more)) = {}
           /\ InstancesOf(more, Len(more)) = <<>>
<1>1. \A name : name # "new" => PlacesOf(more, name)[Len(more)] = <<>>
  BY PlacesDropped
<1>2. ToSet(<<>>) = {}
  BY DEF ToSet
<1>3. ASSUME NEW name, name # "new" PROVE Arguments(more, name, Len(more)) = {}
  BY <1>1, <1>2, <1>3 DEF Arguments
<1>4. PlacesOf(more, "lua-desync")[Len(more)] = <<>>
  BY <1>1
<1> QED
  BY <1>1, <1>3, <1>4 DEF InstancesOf

\* Where nothing has been said at all.
LEMMA NothingAtFirst ==
    ASSUME NEW opts, Len(opts) \in Nat
    PROVE  /\ \A name : PlacesOf(opts, name)[0] = <<>> /\ Arguments(opts, name, 0) = {}
           /\ InstancesOf(opts, 0) = <<>>
<1>1. \A name : PlacesOf(opts, name)[0] = <<>>
  BY PlacesOfIs DEF PlacesAt
<1>2. ToSet(<<>>) = {}
  BY DEF ToSet
<1>3. ASSUME NEW name PROVE Arguments(opts, name, 0) = {}
  BY <1>1, <1>2 DEF Arguments
<1>4. PlacesOf(opts, "lua-desync")[0] = <<>>
  BY <1>1
<1> QED
  BY <1>1, <1>3, <1>4 DEF InstancesOf

\* An option of the section itself.
LEMMA ArgumentsGrow ==
    ASSUME NEW opts, NEW more, NEW opt, Longer(opts, more, opt), OfSection(opt), NEW name
    PROVE  Arguments(more, name, Len(more)) =
             Arguments(opts, name, Len(opts)) \cup (IF opt.o = name THEN {opt.a} ELSE {})
<1> DEFINE s == PlacesOf(opts, name)[Len(opts)]
<1>1. /\ Len(opts) \in Nat /\ Len(more) = Len(opts) + 1 /\ more[Len(more)] = opt
      /\ \A j \in 1..Len(opts) : more[j] = opts[j]
  BY DEF Longer
<1>2. s \in Seq(1..Len(opts))
  BY <1>1, PlacesType
<1>3. PlacesOf(more, name)[Len(more)] = IF opt.o = name THEN Append(s, Len(more)) ELSE s
  BY PlacesAdded
<1>4. ToSet(Append(s, Len(more))) = ToSet(s) \cup {Len(more)} /\ ToSet(s) \subseteq 1..Len(opts)
  <2> HIDE DEF s
  <2> QED
    BY <1>2, ToSetIs, ToSetAppended
<1> HIDE DEF s
<1> QED
  BY <1>1, <1>3, <1>4 DEF Arguments, s

LEMMA InstancesGrow ==
    ASSUME NEW opts, NEW more, NEW opt, Longer(opts, more, opt), OfSection(opt)
    PROVE  /\ InstancesOf(more, Len(more)) =
                IF opt.o = "lua-desync" THEN Append(InstancesOf(opts, Len(opts)), Settled(more, Len(more)))
                ELSE InstancesOf(opts, Len(opts))
           /\ InstancesOf(opts, Len(opts)) \in Seq(ToSet(InstancesOf(opts, Len(opts))))
<1> DEFINE s == PlacesOf(opts, "lua-desync")[Len(opts)]
           n == Len(opts) + 1
<1>1. Len(opts) \in Nat /\ Len(more) = n /\ \A j \in 1..Len(opts) : more[j] = opts[j]
  BY DEF Longer
<1>2. s \in Seq(1..Len(opts))
  BY <1>1, PlacesType
<1>3. PlacesOf(more, "lua-desync")[n] = IF opt.o = "lua-desync" THEN Append(s, n) ELSE s
  BY <1>1, PlacesAdded
<1>4. \A j \in 1..Len(opts) : Settled(more, j) = Settled(opts, j)
  BY <1>1, SettingKept DEF Settled
<1>5. /\ InstancesOf(opts, Len(opts)) = [i \in DOMAIN s |-> Settled(opts, s[i])]
      /\ InstancesOf(more, n) = IF opt.o = "lua-desync"
                                THEN [i \in DOMAIN Append(s, n) |-> Settled(more, Append(s, n)[i])]
                                ELSE [i \in DOMAIN s |-> Settled(more, s[i])]
  BY <1>3 DEF InstancesOf
<1>6. [i \in DOMAIN s |-> Settled(more, s[i])] = [i \in DOMAIN s |-> Settled(opts, s[i])]
  <2> HIDE DEF s
  <2> QED
    BY <1>2, <1>4
<1>7. [i \in DOMAIN Append(s, n) |-> Settled(more, Append(s, n)[i])]
        = Append([i \in DOMAIN s |-> Settled(opts, s[i])], Settled(more, n))
  <2> HIDE DEF s, n
  <2>1. /\ DOMAIN s = 1..Len(s) /\ Len(s) \in Nat /\ DOMAIN Append(s, n) = 1..(Len(s) + 1)
        /\ \A i \in 1..Len(s) : Append(s, n)[i] = s[i] /\ s[i] \in 1..Len(opts)
        /\ Append(s, n)[Len(s) + 1] = n
    BY <1>2
  <2> DEFINE before == [i \in DOMAIN s |-> Settled(opts, s[i])]
  <2>2. before \in Seq({Settled(opts, s[i]) : i \in DOMAIN s}) /\ Len(before) = Len(s)
    BY <2>1
  <2>3. /\ DOMAIN Append(before, Settled(more, n)) = 1..(Len(s) + 1)
        /\ \A i \in 1..Len(s) : Append(before, Settled(more, n))[i] = before[i]
        /\ Append(before, Settled(more, n))[Len(s) + 1] = Settled(more, n)
    <3> HIDE DEF before
    <3> QED
      BY <2>2
  <2>4. \A i \in 1..Len(s) : before[i] = Settled(opts, s[i]) /\ before[i] = Settled(more, s[i])
    BY <1>4, <2>1
  <2>5. \A i \in 1..(Len(s) + 1) : Settled(more, Append(s, n)[i]) = Append(before, Settled(more, n))[i]
    <3> HIDE DEF before
    <3>1. \A i \in 1..(Len(s) + 1) : i \in 1..Len(s) \/ i = Len(s) + 1
      BY <2>1
    <3> QED
      BY <2>1, <2>3, <2>4, <3>1
  <2>6. Append(before, Settled(more, n)) =
          [i \in 1..(Len(s) + 1) |-> Append(before, Settled(more, n))[i]]
    <3> HIDE DEF before
    <3>1. Append(before, Settled(more, n)) = [i \in DOMAIN Append(before, Settled(more, n)) |->
                                                Append(before, Settled(more, n))[i]]
      <4>1. before \in Seq({Settled(opts, s[i]) : i \in DOMAIN s} \cup {Settled(more, n)})
        BY <2>2
      <4>2. Append(before, Settled(more, n))
              \in Seq({Settled(opts, s[i]) : i \in DOMAIN s} \cup {Settled(more, n)})
        BY <4>1
      <4> QED
        BY <4>2, SeqIsFunction
    <3> QED
      BY <2>3, <3>1
  <2> HIDE DEF before
  <2> QED
    BY <2>1, <2>5, <2>6 DEF before
<1>8. InstancesOf(opts, Len(opts)) \in Seq(ToSet(InstancesOf(opts, Len(opts))))
  <2>1. InstancesOf(opts, Len(opts)) \in Seq({Settled(opts, s[i]) : i \in DOMAIN s})
    <3> HIDE DEF s
    <3> QED
      BY <1>2, <1>5
  <2> QED
    BY <2>1, ToSetIs
<1> QED
  BY <1>1, <1>5, <1>6, <1>7, <1>8

\* An import, of what the section up to e has.
LEMMA ArgumentsImported ==
    ASSUME NEW opts, NEW more, NEW opt, Longer(opts, more, opt), opt.o = "import",
           NEW name
    PROVE  /\ Source(more, Len(more)) \in 0..Len(opts)
           /\ Arguments(more, name, Len(more)) =
                Arguments(opts, name, Len(opts)) \cup Arguments(opts, name, Source(more, Len(more)))
<1> DEFINE e == Source(more, Len(more))
           s == PlacesOf(opts, name)[Len(opts)]
           t == PlacesOf(opts, name)[e]
<1>1. /\ Len(opts) \in Nat /\ Len(more) = Len(opts) + 1
      /\ \A j \in 1..Len(opts) : more[j] = opts[j]
  BY DEF Longer
<1>2. e \in 0..Len(opts)
  <2>1. Len(more) \in Nat \ {0} /\ Len(more) - 1 = Len(opts)
    BY <1>1
  <2> QED
    BY <2>1, SourceIs
<1>3. s \in Seq(1..Len(opts)) /\ t \in Seq(1..Len(opts))
  <2>1. t \in Seq(1..e)
    BY <1>1, <1>2, PlacesType
  <2>2. s \in Seq(1..Len(opts))
    BY <1>1, PlacesType
  <2> HIDE DEF s, t, e
  <2> QED
    BY <1>1, <1>2, <2>1, <2>2, SeqWider
<1>4. PlacesOf(more, name)[Len(more)] = s \o t
  BY PlacesImported
<1>5. ToSet(s \o t) = ToSet(s) \cup ToSet(t) /\ ToSet(s) \subseteq 1..Len(opts) /\ ToSet(t) \subseteq 1..Len(opts)
  <2> HIDE DEF s, t
  <2> QED
    BY <1>3, ToSetIs, ToSetJoined
<1>6. Arguments(more, name, Len(more)) = {more[j].a : j \in ToSet(s) \cup ToSet(t)}
  BY <1>4, <1>5 DEF Arguments
<1>7. Arguments(more, name, Len(more)) = {opts[j].a : j \in ToSet(s) \cup ToSet(t)}
  <2> HIDE DEF s, t
  <2> QED
    BY <1>1, <1>5, <1>6
<1> QED
  BY <1>2, <1>4, <1>7 DEF Arguments

LEMMA SeqBuilt ==
    ASSUME NEW R, NEW n \in Nat, NEW x, x = [i \in 1..n |-> x[i]], \A i \in 1..n : x[i] \in R
    PROVE  x \in Seq(R) /\ Len(x) = n
  OBVIOUS

LEMMA JoinedIs ==
    ASSUME NEW R, NEW s \in Seq(R), NEW t \in Seq(R), NEW u \in Seq(R),
           Len(u) = Len(s) + Len(t),
           \A i \in 1..Len(s) : u[i] = s[i],
           \A i \in 1..Len(t) : u[Len(s) + i] = t[i]
    PROVE  u = s \o t
<1>1. s \o t \in Seq(R) /\ Len(s \o t) = Len(s) + Len(t) /\ Len(s) \in Nat /\ Len(t) \in Nat
  OBVIOUS
<1>2. ASSUME NEW i \in 1..(Len(s) + Len(t))
      PROVE  u[i] = (s \o t)[i]
  <2>1. CASE i <= Len(s)
    BY <1>1, <2>1
  <2>2. CASE i > Len(s)
    <3>1. i - Len(s) \in 1..Len(t) /\ Len(s) + (i - Len(s)) = i /\ (s \o t)[i] = t[i - Len(s)]
      BY <1>1, <2>2
    <3>2. u[Len(s) + (i - Len(s))] = t[i - Len(s)]
      BY <3>1
    <3> QED
      BY <3>1, <3>2
  <2> QED
    BY <1>1, <2>1, <2>2
<1>3. u = [i \in DOMAIN u |-> u[i]] /\ s \o t = [i \in DOMAIN (s \o t) |-> (s \o t)[i]]
  BY <1>1, SeqIsFunction
<1>4. DOMAIN u = 1..(Len(s) + Len(t)) /\ DOMAIN (s \o t) = 1..(Len(s) + Len(t))
  BY <1>1
<1> QED
  BY <1>2, <1>3, <1>4

LEMMA InstancesImported ==
    ASSUME NEW opts, NEW more, NEW opt, Longer(opts, more, opt), opt.o = "import"
    PROVE  InstancesOf(more, Len(more)) =
             InstancesOf(opts, Len(opts)) \o InstancesOf(opts, Source(more, Len(more)))
<1> DEFINE e == Source(more, Len(more))
           s == PlacesOf(opts, "lua-desync")[Len(opts)]
           t == PlacesOf(opts, "lua-desync")[e]
           g == [j \in 1..Len(opts) |-> Settled(opts, j)]
<1>1. Len(opts) \in Nat /\ Len(more) = Len(opts) + 1
  BY DEF Longer
<1>2. e \in 0..Len(opts) /\ PlacesOf(more, "lua-desync")[Len(more)] = s \o t
  <2> HIDE DEF g
  <2> QED
    BY ArgumentsImported, PlacesImported
<1>3. s \in Seq(1..Len(opts)) /\ t \in Seq(1..Len(opts))
  <2>1. t \in Seq(1..e)
    BY <1>1, <1>2, PlacesType
  <2>2. s \in Seq(1..Len(opts))
    BY <1>1, PlacesType
  <2> HIDE DEF s, t, e
  <2> QED
    BY <1>1, <1>2, <2>1, <2>2, SeqWider
<1>4. \A j \in 1..Len(opts) : Settled(more, j) = Settled(opts, j) /\ g[j] = Settled(opts, j)
  <2> TAKE j \in 1..Len(opts)
  <2>1. j \in 0..Len(opts) /\ more[j] = opts[j]
    BY DEF Longer
  <2>2. Settled(more, j) = Settled(opts, j)
    BY <2>1, SettingKept DEF Settled
  <2>3. g[j] = Settled(opts, j)
    OBVIOUS
  <2> QED
    BY <2>2, <2>3
<1>5. s \o t \in Seq(1..Len(opts))
  <2> HIDE DEF s, t
  <2> QED
    BY <1>3
<1>6. InstancesOf(more, Len(more)) = [i \in DOMAIN (s \o t) |-> g[(s \o t)[i]]]
  <2>1. InstancesOf(more, Len(more)) = [i \in DOMAIN (s \o t) |-> Settled(more, (s \o t)[i])]
    BY <1>2 DEF InstancesOf
  <2>2. \A i \in DOMAIN (s \o t) : (s \o t)[i] \in 1..Len(opts)
    <3> HIDE DEF s, t
    <3> QED
      BY <1>5
  <2> HIDE DEF s, t, g
  <2> QED
    BY <1>4, <2>1, <2>2
<1>7. InstancesOf(opts, Len(opts)) = [i \in DOMAIN s |-> g[s[i]]]
  <2>1. \A i \in DOMAIN s : s[i] \in 1..Len(opts)
    <3> HIDE DEF s, t
    <3> QED
      BY <1>3
  <2> HIDE DEF g
  <2> QED
    BY <1>4, <2>1 DEF InstancesOf
<1>8. InstancesOf(opts, e) = [i \in DOMAIN t |-> g[t[i]]]
  <2>1. \A i \in DOMAIN t : t[i] \in 1..Len(opts)
    <3> HIDE DEF s, t
    <3> QED
      BY <1>3
  <2> HIDE DEF g
  <2> QED
    BY <1>4, <2>1 DEF InstancesOf
<1>9. ASSUME NEW x, NEW y, NEW z, x = [i \in DOMAIN s |-> g[s[i]]],
             y = [i \in DOMAIN t |-> g[t[i]]], z = [i \in DOMAIN (s \o t) |-> g[(s \o t)[i]]]
      PROVE  z = x \o y
  <2> DEFINE R == {g[j] : j \in 1..Len(opts)}
  <2>6. \A j \in 1..Len(opts) : g[j] \in R
    OBVIOUS
  <2>1. /\ Len(s) \in Nat /\ Len(t) \in Nat /\ Len(s \o t) = Len(s) + Len(t)
        /\ \A i \in 1..Len(s) : (s \o t)[i] = s[i]
        /\ \A i \in 1..Len(t) : (s \o t)[Len(s) + i] = t[i]
    <3> HIDE DEF s, t, g
    <3> QED
      BY <1>3
  <2>2. x \in Seq(R) /\ y \in Seq(R) /\ Len(x) = Len(s) /\ Len(y) = Len(t)
    <3> HIDE DEF s, t, g, R
    <3>1. \A i \in 1..Len(s) : x[i] \in R
      <4>1. \A i \in 1..Len(s) : s[i] \in 1..Len(opts) /\ x[i] = g[s[i]]
        BY <1>3, <1>9
      <4> QED
        BY <2>6, <4>1
    <3>2. \A i \in 1..Len(t) : y[i] \in R
      <4>1. \A i \in 1..Len(t) : t[i] \in 1..Len(opts) /\ y[i] = g[t[i]]
        BY <1>3, <1>9
      <4> QED
        BY <2>6, <4>1
    <3>3. DOMAIN s = 1..Len(s) /\ DOMAIN t = 1..Len(t)
      BY <1>3
    <3>4. x = [i \in 1..Len(s) |-> x[i]] /\ y = [i \in 1..Len(t) |-> y[i]]
      BY <1>9, <3>3
    <3> QED
      BY <2>1, <3>1, <3>2, <3>4, SeqBuilt
  <2>3. z \in Seq(R) /\ Len(z) = Len(s) + Len(t)
    <3> HIDE DEF s, t, g, R
    <3>1. \A i \in 1..Len(s \o t) : z[i] \in R
      BY <1>5, <1>9, <2>6
    <3> QED
      BY <1>5, <1>9, <2>1, <3>1
  <2>4. \A i \in 1..Len(s) : z[i] = x[i]
    <3> HIDE DEF s, t, g
    <3> QED
      BY <1>3, <1>5, <1>9, <2>1
  <2>5. \A i \in 1..Len(t) : z[Len(s) + i] = y[i]
    <3> HIDE DEF s, t, g
    <3> QED
      BY <1>3, <1>5, <1>9, <2>1
  <2> HIDE DEF s, t, g, R
  <2> QED
    <3>1. Len(z) = Len(x) + Len(y)
      BY <2>2, <2>3
    <3>2. \A i \in 1..Len(x) : z[i] = x[i]
      BY <2>2, <2>4
    <3>3. \A i \in 1..Len(y) : z[Len(x) + i] = y[i]
      BY <2>2, <2>5
    <3> QED
      BY <2>2, <2>3, <3>1, <3>2, <3>3, JoinedIs
<1> HIDE DEF s, t, g
<1> QED
  BY <1>6, <1>7, <1>8, <1>9

-----------------------------------------------------------------------------
\* Options: the numbers of the profiles

LEMMA RankIs ==
    ASSUME NEW n \in Nat, NEW S \in SUBSET (0..n)
    PROVE  /\ IsFiniteSet(S) /\ Cardinality(S) \in Nat
           /\ \A e \in S : Rank(S, e) \in 1..Cardinality(S)
           /\ \A d, e \in S : d < e => Rank(S, d) < Rank(S, e)
<1>1. IsFiniteSet(0..n)
  BY FS_Interval
<1>2. IsFiniteSet(S) /\ Cardinality(S) \in Nat
  BY <1>1, FS_Subset, FS_CardinalityType
<1>3. ASSUME NEW e \in S
      PROVE  Rank(S, e) \in 1..Cardinality(S)
  <2> DEFINE T == {d \in S : d <= e}
  <2>1. T \subseteq S /\ e \in T
    OBVIOUS
  <2>2. IsFiniteSet(T) /\ Cardinality(T) <= Cardinality(S) /\ Cardinality(T) \in Nat
    <3> HIDE DEF T
    <3> QED
      BY <1>2, <2>1, FS_Subset, FS_CardinalityType
  <2>3. Cardinality(T) # 0
    <3> HIDE DEF T
    <3> QED
      BY <2>1, <2>2, FS_EmptySet
  <2> QED
    BY <1>2, <2>2, <2>3 DEF Rank
<1>4. ASSUME NEW d \in S, NEW e \in S, d < e
      PROVE  Rank(S, d) < Rank(S, e)
  <2> DEFINE T == {c \in S : c <= d}
             U == {c \in S : c <= e}
  <2>1. T \subseteq U /\ e \in U /\ e \notin T /\ U \subseteq S
    <3>1. d \in 0..n /\ e \in 0..n /\ \A c \in S : c \in 0..n
      OBVIOUS
    <3>2. \A c \in S : c <= d => c <= e
      BY <1>4, <3>1
    <3>3. ~(e <= d) /\ e <= e
      BY <1>4, <3>1
    <3> QED
      BY <3>2, <3>3
  <2>2. IsFiniteSet(U) /\ IsFiniteSet(T)
    <3> HIDE DEF T, U
    <3> QED
      BY <1>2, <2>1, FS_Subset
  <2>3. Cardinality(T) < Cardinality(U)
    <3> HIDE DEF T, U
    <3>1. Cardinality(T) <= Cardinality(U) /\ (Cardinality(T) = Cardinality(U) => T = U)
      BY <2>1, <2>2, FS_Subset
    <3>2. Cardinality(T) \in Nat /\ Cardinality(U) \in Nat
      BY <2>2, FS_CardinalityType
    <3> QED
      BY <2>1, <3>1, <3>2
  <2> QED
    BY <2>3 DEF Rank
<1> QED
  BY <1>2, <1>3, <1>4

\* Every number is one's.
LEMMA RankOnto ==
    ASSUME NEW n \in Nat, NEW S \in SUBSET (0..n), NEW i \in 1..Cardinality(S)
    PROVE  \E e \in S : Rank(S, e) = i
<1> DEFINE T == 1..Cardinality(S)
           f == [e \in S |-> Rank(S, e)]
<1>1. /\ IsFiniteSet(S) /\ Cardinality(S) \in Nat
      /\ \A e \in S : Rank(S, e) \in T
      /\ \A d, e \in S : d < e => Rank(S, d) < Rank(S, e)
  BY RankIs
<1>2. IsFiniteSet(T) /\ Cardinality(T) = Cardinality(S)
  BY <1>1, FS_Interval
<1>3. f \in Injection(S, T)
  <2>1. f \in [S -> T]
    BY <1>1
  <2>2. \A d, e \in S : d # e => Rank(S, d) # Rank(S, e)
    <3> TAKE d \in S, e \in S
    <3>1. d < e \/ e < d \/ d = e
      OBVIOUS
    <3>2. Rank(S, d) \in Nat /\ Rank(S, e) \in Nat
      BY <1>1
    <3> QED
      BY <1>1, <3>1, <3>2
  <2>3. \A d, e \in S : f[d] = f[e] => d = e
    BY <2>2
  <2> HIDE DEF f, T
  <2> QED
    BY <2>1, <2>3 DEF Injection, IsInjective
<1>4. f \in Surjection(S, T)
  <2> HIDE DEF f, T
  <2> QED
    BY <1>2, <1>3, FS_Injection
<1>5. PICK e \in S : f[e] = i
  <2> HIDE DEF f
  <2> QED
    BY <1>4 DEF Surjection
<1> QED
  BY <1>5

\* An end after the others gets the next number.
LEMMA RankGrows ==
    ASSUME NEW n \in Nat, NEW S \in SUBSET (0..n), n \notin S
    PROVE  /\ Cardinality(S \cup {n}) = Cardinality(S) + 1
           /\ Rank(S \cup {n}, n) = Cardinality(S) + 1
           /\ \A e \in S : Rank(S \cup {n}, e) = Rank(S, e)
<1>1. IsFiniteSet(S)
  BY RankIs
<1>2. Cardinality(S \cup {n}) = Cardinality(S) + 1
  BY <1>1, FS_AddElement
<1>3. {d \in S \cup {n} : d <= n} = S \cup {n}
  <2>1. \A d \in S \cup {n} : d \in 0..n
    OBVIOUS
  <2>2. \A d \in S \cup {n} : d <= n
    BY <2>1
  <2> QED
    BY <2>2
<1>4. \A e \in S : {d \in S \cup {n} : d <= e} = {d \in S : d <= e}
  <2> TAKE e \in S
  <2>1. ~(n <= e)
    OBVIOUS
  <2> QED
    BY <2>1
<1> QED
  BY <1>2, <1>3, <1>4 DEF Rank

-----------------------------------------------------------------------------
\* Options: a profile that is built of what is said

FourFilters == {"filter-tcp", "filter-udp", "filter-icmp", "filter-ipp"}
ListOptions ==
    {"hostlist", "hostlist_exclude", "ipset", "ipset_exclude", "hostlist_domains",
     "hostlist_exclude_domains", "ipset_ip", "ipset_exclude_ip", "hostlist_auto"}

\* The same is said at two places.
SameArguments(opts, k, more, m, names) ==
    \A name \in names : Arguments(more, name, m) = Arguments(opts, name, k)
SameMask(opts, k, more, m) ==
    /\ LastMask(more, PlacesOf(more, "filter-l7")[m]) = LastMask(opts, PlacesOf(opts, "filter-l7")[k])
    /\ PlacesOf(more, "filter-l7")[m] = <<>> <=> PlacesOf(opts, "filter-l7")[k] = <<>>

\* The lists of a profile are as they were.
ListsLeft(ls, new, p) ==
    /\ p.auto # 0 => p.auto \in DOMAIN new /\ new[p.auto] = ls[p.auto]
    /\ \A field \in ListFields : \A i \in ToSet(p[field]) : i \in DOMAIN new /\ new[i] = ls[i]

LEMMA KindsAre ==
    /\ DOMAIN FilterNames = {"tcp", "udp", "icmp", "ipp"}
    /\ \A kind \in DOMAIN FilterNames : FilterNames[kind] \in FourFilters
    /\ ListFields = {"hl", "hlx", "ips", "ipsx"}
    /\ \A field \in ListFields : FileOptions[field] \subseteq ListOptions
                                 /\ ItemOption[field] \in ListOptions
<1>1. /\ DOMAIN FilterNames = {"tcp", "udp", "icmp", "ipp"}
      /\ \A kind \in DOMAIN FilterNames : FilterNames[kind] \in FourFilters
  BY DEF FilterNames, FourFilters
<1>2. ListFields = {"hl", "hlx", "ips", "ipsx"}
  BY DEF ListFields, NoAnon
<1>3. \A field \in {"hl", "hlx", "ips", "ipsx"} :
         FileOptions[field] \subseteq ListOptions /\ ItemOption[field] \in ListOptions
  BY DEF FileOptions, ItemOption, ListOptions
<1> QED
  BY <1>1, <1>2, <1>3

LEMMA RestSame ==
    ASSUME NEW opts, NEW k, NEW more, NEW m, NEW p, NEW q, RestBuilt(opts, p, k),
           q.fns = p.fns, q.l7 = p.l7,
           InstancesOf(more, m) = InstancesOf(opts, k), SameMask(opts, k, more, m),
           SameArguments(opts, k, more, m, FourFilters)
    PROVE  RestBuilt(more, q, m)
<1>1. \A kind \in DOMAIN FilterNames : Items(more, kind, m) = Items(opts, kind, k)
  BY KindsAre DEF SameArguments, Items
<1> QED
  BY <1>1 DEF RestBuilt, SameMask

LEMMA FiltersSame ==
    ASSUME NEW opts, NEW k, NEW more, NEW m, NEW p, NEW q, FiltersBuilt(opts, p, k),
           q.l3 = p.l3, q.l3set = p.l3set, q.l7set = p.l7set,
           q.tcp = p.tcp, q.udp = p.udp, q.icmp = p.icmp, q.ipp = p.ipp,
           SameMask(opts, k, more, m), SameArguments(opts, k, more, m, FourFilters \cup {"filter-l3"})
    PROVE  FiltersBuilt(more, q, m)
<1>1. \A kind \in DOMAIN FilterNames : Items(more, kind, m) = Items(opts, kind, k)
  BY KindsAre DEF SameArguments, Items
<1>2. \A kind \in DOMAIN FilterNames : FilterRead(more, kind, m) = FilterRead(opts, kind, k)
  BY <1>1 DEF FilterRead
<1>3. Arguments(more, "filter-l3", m) = Arguments(opts, "filter-l3", k)
  BY DEF SameArguments
<1>4. \A kind \in DOMAIN FilterNames : q[kind] = p[kind]
  BY KindsAre
<1> QED
  BY <1>2, <1>3, <1>4 DEF FiltersBuilt, SameMask

LEMMA AutoSame ==
    ASSUME NEW ls, NEW opts, NEW k, NEW new, NEW more, NEW m, NEW p, NEW q,
           AutoBuilt(ls, opts, p, k), q.auto = p.auto,
           p.auto # 0 => p.auto \in DOMAIN new /\ new[p.auto] = ls[p.auto],
           Arguments(more, "hostlist_auto", m) = Arguments(opts, "hostlist_auto", k)
    PROVE  AutoBuilt(new, more, q, m)
  BY DEF AutoBuilt

LEMMA ListsSame ==
    ASSUME NEW ls, NEW opts, NEW k, NEW new, NEW more, NEW m, NEW collection, NEW field,
           ListsBuilt(ls, opts, collection, field, k),
           \A i \in ToSet(collection) : i \in DOMAIN new /\ new[i] = ls[i],
           FilesAsked(more, field, m) = FilesAsked(opts, field, k),
           ItemsAsked(more, field, m) = ItemsAsked(opts, field, k)
    PROVE  ListsBuilt(new, more, collection, field, m)
<1> DEFINE S == {i \in DOMAIN ls : ls[i].kind = Kind(field)}
           T == {i \in DOMAIN new : new[i].kind = Kind(field)}
<1>1. collection \in Seq(S)
  BY DEF ListsBuilt
<1>2. collection \in Seq(ToSet(collection)) /\ ToSet(collection) \subseteq S
  <2> HIDE DEF S
  <2> QED
    BY <1>1, ToSetIs
<1>3. ToSet(collection) \subseteq T
  BY <1>2
<1>4. collection \in Seq(T)
  <2> HIDE DEF T
  <2> QED
    BY <1>2, <1>3
<1>5. /\ FileLists(new, collection) = FileLists(ls, collection)
      /\ FileLists(ls, collection) \subseteq ToSet(collection)
  BY DEF FileLists
<1>6. /\ ItemLists(new, collection) = ItemLists(ls, collection)
      /\ ItemLists(ls, collection) \subseteq ToSet(collection)
  BY <1>5 DEF ItemLists
<1>7. {new[i].file : i \in FileLists(new, collection)} = {ls[i].file : i \in FileLists(ls, collection)}
  BY <1>5
<1>8. {new[i].items : i \in ItemLists(new, collection)} = {ls[i].items : i \in ItemLists(ls, collection)}
  BY <1>6
<1> QED
  BY <1>4, <1>7, <1>8 DEF ListsBuilt

LEMMA AskedSame ==
    ASSUME NEW opts, NEW k, NEW more, NEW m, SameArguments(opts, k, more, m, ListOptions),
           NEW field \in ListFields
    PROVE  /\ FilesAsked(more, field, m) = FilesAsked(opts, field, k)
           /\ ItemsAsked(more, field, m) = ItemsAsked(opts, field, k)
<1>1. FileOptions[field] \subseteq ListOptions /\ ItemOption[field] \in ListOptions
  BY KindsAre
<1>2. \A name \in FileOptions[field] : Arguments(more, name, m) = Arguments(opts, name, k)
  BY <1>1 DEF SameArguments
<1>3. Arguments(more, ItemOption[field], m) = Arguments(opts, ItemOption[field], k)
  BY <1>1 DEF SameArguments
<1> QED
  BY <1>2, <1>3 DEF FilesAsked, ItemsAsked

LEMMA CollectionsSame ==
    ASSUME NEW ls, NEW opts, NEW k, NEW new, NEW more, NEW m, NEW p, NEW q,
           CollectionsBuilt(ls, opts, p, k), ListsLeft(ls, new, p), q.auto = p.auto,
           \A field \in ListFields : q[field] = p[field],
           SameArguments(opts, k, more, m, ListOptions)
    PROVE  CollectionsBuilt(new, more, q, m)
<1>1. Arguments(more, "hostlist_auto", m) = Arguments(opts, "hostlist_auto", k)
  BY DEF SameArguments, ListOptions
<1>2. AutoBuilt(new, more, q, m)
  BY <1>1, AutoSame DEF CollectionsBuilt, ListsLeft
<1>3. ASSUME NEW field \in ListFields
      PROVE  ListsBuilt(new, more, q[field], field, m)
  <2>1. q[field] = p[field] /\ ListsBuilt(ls, opts, p[field], field, k)
    BY DEF CollectionsBuilt
  <2>2. \A i \in ToSet(p[field]) : i \in DOMAIN new /\ new[i] = ls[i]
    BY DEF ListsLeft
  <2> QED
    BY <2>1, <2>2, AskedSame, ListsSame
<1> QED
  BY <1>2, <1>3 DEF CollectionsBuilt

\* What is built is built still when the text has grown.
LEMMA BuiltKept ==
    ASSUME NEW opts, NEW more, NEW opt, Longer(opts, more, opt), NEW k \in 0..Len(opts),
           NEW ls, NEW new, NEW p, Built(ls, opts, p, k), ListsLeft(ls, new, p)
    PROVE  Built(new, more, p, k)
<1>1. /\ \A names : SameArguments(opts, k, more, k, names) /\ SameMask(opts, k, more, k)
      /\ InstancesOf(more, k) = InstancesOf(opts, k)
  BY ArgumentsKept DEF SameArguments, SameMask
<1>2. RestBuilt(more, p, k)
  BY <1>1, RestSame DEF Built
<1>3. FiltersBuilt(more, p, k)
  BY <1>1, FiltersSame DEF Built
<1>4. CollectionsBuilt(new, more, p, k)
  BY <1>1, CollectionsSame DEF Built
<1> QED
  BY <1>2, <1>3, <1>4 DEF Built

-----------------------------------------------------------------------------
\* Options: what an option makes of the profile of its section

LEMMA ProfileFieldsAre ==
    ProfileFields = {"n", "name", "cookie", "l3set", "l3", "tcp", "udp", "icmp", "ipp", "l7set",
                     "l7", "hl", "hlx", "ips", "ipsx", "auto", "fails", "failsSet", "fns"}
  BY DEF ProfileFields, NewProfile

LEMMA SectionSame ==
    ASSUME NEW opts, NEW more, NEW opt, Longer(opts, more, opt), OfSection(opt)
    PROVE  /\ \A names : opt.o \notin names => SameArguments(opts, Len(opts), more, Len(more), names)
           /\ opt.o # "filter-l7" => SameMask(opts, Len(opts), more, Len(more))
           /\ opt.o # "lua-desync" => InstancesOf(more, Len(more)) = InstancesOf(opts, Len(opts))
<1>1. ASSUME NEW names, opt.o \notin names
      PROVE  SameArguments(opts, Len(opts), more, Len(more), names)
  <2>1. ASSUME NEW name \in names
        PROVE  Arguments(more, name, Len(more)) = Arguments(opts, name, Len(opts))
    <3>1. Arguments(more, name, Len(more)) =
             Arguments(opts, name, Len(opts)) \cup (IF opt.o = name THEN {opt.a} ELSE {})
      BY ArgumentsGrow
    <3>2. opt.o # name
      BY <1>1
    <3> QED
      BY <3>1, <3>2
  <2> QED
    BY <2>1 DEF SameArguments
<1>2. ASSUME opt.o # "filter-l7"
      PROVE  SameMask(opts, Len(opts), more, Len(more))
  <2> DEFINE s == PlacesOf(opts, "filter-l7")[Len(opts)]
  <2>1. PlacesOf(more, "filter-l7")[Len(more)] = s
    BY <1>2, PlacesAdded
  <2>2. s \in Seq(1..Len(opts)) /\ \A j \in 1..Len(opts) : more[j] = opts[j]
    BY PlacesType DEF Longer
  <2>3. s # <<>> => Last(s) \in 1..Len(opts)
    <3> HIDE DEF s
    <3> QED
      BY <2>2 DEF Last
  <2> HIDE DEF s
  <2> QED
    BY <2>1, <2>2, <2>3 DEF SameMask, LastMask, s
<1> QED
  BY <1>1, <1>2, InstancesGrow

\* No part of what is built speaks of it.
LEMMA BuiltUnmoved ==
    ASSUME NEW opts, NEW more, NEW opt, Longer(opts, more, opt),
           opt.o \notin {"new", "import", "lua-desync", "filter-l3", "filter-l7"}
                          \cup FourFilters \cup ListOptions,
           NEW ls, NEW p, NEW q, Built(ls, opts, p, Len(opts)),
           ListsLeft(ls, ls, p), DOMAIN q = ProfileFields,
           \A f \in ProfileFields \ {"n", "name", "cookie", "fails", "failsSet"} : q[f] = p[f]
    PROVE  Built(ls, more, q, Len(more))
<1> DEFINE n == Len(opts)
           m == Len(more)
<1>1. /\ opt.o \notin FourFilters /\ opt.o \notin FourFilters \cup {"filter-l3"}
      /\ opt.o \notin ListOptions /\ opt.o # "filter-l7" /\ opt.o # "lua-desync"
      /\ OfSection(opt)
  BY DEF OfSection
<1>2. /\ SameArguments(opts, n, more, m, FourFilters)
      /\ SameArguments(opts, n, more, m, FourFilters \cup {"filter-l3"})
      /\ SameArguments(opts, n, more, m, ListOptions)
      /\ SameMask(opts, n, more, m) /\ InstancesOf(more, m) = InstancesOf(opts, n)
  BY <1>1, SectionSame
<1>3. /\ q.fns = p.fns /\ q.l7 = p.l7 /\ q.l3 = p.l3 /\ q.l3set = p.l3set /\ q.l7set = p.l7set
      /\ q.tcp = p.tcp /\ q.udp = p.udp /\ q.icmp = p.icmp /\ q.ipp = p.ipp /\ q.auto = p.auto
      /\ \A field \in ListFields : q[field] = p[field]
  BY ProfileFieldsAre, KindsAre
<1>4. RestBuilt(more, q, m)
  BY <1>2, <1>3, RestSame DEF Built
<1>5. FiltersBuilt(more, q, m)
  BY <1>2, <1>3, FiltersSame DEF Built
<1>6. CollectionsBuilt(ls, more, q, m)
  BY <1>2, <1>3, CollectionsSame DEF Built
<1> QED
  BY <1>4, <1>5, <1>6 DEF Built

LEMMA MembersJoined ==
    ASSUME NEW args, NEW a, NEW others
    PROVE  /\ Members(args \cup {a}) = Members(args) \cup ToSet(a)
           /\ Members(args \cup others) = Members(args) \cup Members(others)
  BY DEF Members

\* What a profile is filtered by.
LEMMA BuiltL3 ==
    ASSUME NEW opts, NEW more, NEW opt, Longer(opts, more, opt), opt.o = "filter-l3",
           NEW ls, NEW p, NEW q, Built(ls, opts, p, Len(opts)), ListsLeft(ls, ls, p),
           DOMAIN q = ProfileFields, q.l3 = p.l3 \cup ToSet(opt.a), q.l3set = TRUE,
           \A f \in ProfileFields \ {"l3", "l3set"} : q[f] = p[f]
    PROVE  Built(ls, more, q, Len(more))
<1> DEFINE n == Len(opts)
           m == Len(more)
<1>1. /\ opt.o \notin FourFilters /\ opt.o \notin ListOptions /\ opt.o # "filter-l7"
      /\ opt.o # "lua-desync" /\ OfSection(opt)
  BY DEF FourFilters, ListOptions, OfSection
<1>2. /\ SameArguments(opts, n, more, m, FourFilters) /\ SameArguments(opts, n, more, m, ListOptions)
      /\ SameMask(opts, n, more, m) /\ InstancesOf(more, m) = InstancesOf(opts, n)
  BY <1>1, SectionSame
<1>5. /\ q.fns = p.fns /\ q.l7 = p.l7 /\ q.l7set = p.l7set
      /\ q.tcp = p.tcp /\ q.udp = p.udp /\ q.icmp = p.icmp /\ q.ipp = p.ipp /\ q.auto = p.auto
      /\ \A field \in ListFields : q[field] = p[field]
  BY ProfileFieldsAre, KindsAre
<1>6. RestBuilt(more, q, m)
  BY <1>2, <1>5, RestSame DEF Built
<1>7. CollectionsBuilt(ls, more, q, m)
  BY <1>2, <1>5, CollectionsSame DEF Built
<1>8. Arguments(more, "filter-l3", m) = Arguments(opts, "filter-l3", n) \cup {opt.a}
  BY <1>1, ArgumentsGrow
<1>9. Members(Arguments(more, "filter-l3", m)) = Members(Arguments(opts, "filter-l3", n)) \cup ToSet(opt.a)
  BY <1>8, MembersJoined
<1>10. \A kind \in DOMAIN FilterNames : FilterRead(more, kind, m) = FilterRead(opts, kind, n)
  BY <1>2, KindsAre DEF SameArguments, Items, FilterRead
<1>11. \A kind \in DOMAIN FilterNames : q[kind] = p[kind]
  BY <1>5, KindsAre
<1>12. FiltersBuilt(opts, p, n)
  BY DEF Built
<1>13. FiltersBuilt(more, q, m)
  <2>1. q.l3 = Members(Arguments(more, "filter-l3", m))
    BY <1>9, <1>12 DEF FiltersBuilt
  <2>2. q.l3set = (Arguments(more, "filter-l3", m) # {})
    BY <1>8
  <2>3. q.l7set = (PlacesOf(more, "filter-l7")[m] # <<>>)
    BY <1>2, <1>5, <1>12 DEF FiltersBuilt, SameMask
  <2>4. \A kind \in DOMAIN FilterNames :
         q[kind] \in Seq(FilterRead(more, kind, m)) /\ ToSet(q[kind]) = FilterRead(more, kind, m)
    BY <1>10, <1>11, <1>12 DEF FiltersBuilt
  <2> QED
    BY <2>1, <2>2, <2>3, <2>4 DEF FiltersBuilt
<1> QED
  BY <1>6, <1>7, <1>13 DEF Built

LEMMA BuiltL7 ==
    ASSUME NEW opts, NEW more, NEW opt, Longer(opts, more, opt), opt.o = "filter-l7",
           NEW ls, NEW p, NEW q, Built(ls, opts, p, Len(opts)), ListsLeft(ls, ls, p),
           DOMAIN q = ProfileFields, q.l7 = Mask(opt.a), q.l7set = TRUE,
           \A f \in ProfileFields \ {"l7", "l7set"} : q[f] = p[f]
    PROVE  Built(ls, more, q, Len(more))
<1> DEFINE n == Len(opts)
           m == Len(more)
           s == PlacesOf(opts, "filter-l7")[n]
<1>1. /\ opt.o \notin FourFilters /\ opt.o \notin ListOptions /\ opt.o \notin FourFilters \cup {"filter-l3"}
      /\ opt.o # "lua-desync" /\ OfSection(opt)
  BY DEF FourFilters, ListOptions, OfSection
<1>2. /\ SameArguments(opts, n, more, m, FourFilters) /\ SameArguments(opts, n, more, m, ListOptions)
      /\ SameArguments(opts, n, more, m, FourFilters \cup {"filter-l3"})
      /\ InstancesOf(more, m) = InstancesOf(opts, n)
  BY <1>1, SectionSame
<1>5. /\ q.fns = p.fns /\ q.l3 = p.l3 /\ q.l3set = p.l3set
      /\ q.tcp = p.tcp /\ q.udp = p.udp /\ q.icmp = p.icmp /\ q.ipp = p.ipp /\ q.auto = p.auto
      /\ \A field \in ListFields : q[field] = p[field]
  BY ProfileFieldsAre, KindsAre
<1>6. CollectionsBuilt(ls, more, q, m)
  BY <1>2, <1>5, CollectionsSame DEF Built
<1>7. PlacesOf(more, "filter-l7")[m] = Append(s, m) /\ more[m] = opt /\ s \in Seq(1..n)
  <2>1. s \in Seq(1..n)
    BY PlacesType DEF Longer
  <2>2. more[m] = opt
    BY DEF Longer
  <2>3. PlacesOf(more, "filter-l7")[m] = Append(s, m)
    <3>1. PlacesOf(more, opt.o)[Len(more)] = Append(PlacesOf(opts, opt.o)[Len(opts)], Len(more))
      BY <1>1, PlacesAppended
    <3> QED
      BY <3>1
  <2> QED
    BY <2>1, <2>2, <2>3
<1>8. Append(s, m) # <<>> /\ Last(Append(s, m)) = m
  <2> HIDE DEF s, m
  <2>1. Len(Append(s, m)) = Len(s) + 1 /\ Append(s, m)[Len(s) + 1] = m /\ Len(s) \in Nat
    BY <1>7
  <2>2. Append(s, m) # <<>>
    BY <1>7
  <2> QED
    BY <2>1, <2>2 DEF Last
<1>9. q.l7 = LastMask(more, PlacesOf(more, "filter-l7")[m]) /\ PlacesOf(more, "filter-l7")[m] # <<>>
  <2> HIDE DEF s, m
  <2> QED
    BY <1>7, <1>8 DEF LastMask
<1>10. \A kind \in DOMAIN FilterNames : Items(more, kind, m) = Items(opts, kind, n)
  BY <1>2, KindsAre DEF SameArguments, Items
<1>11. RestBuilt(more, q, m)
  BY <1>2, <1>5, <1>9, <1>10 DEF RestBuilt, Built
<1>12. \A kind \in DOMAIN FilterNames : q[kind] = p[kind] /\ FilterRead(more, kind, m) = FilterRead(opts, kind, n)
  BY <1>5, <1>10, KindsAre DEF FilterRead
<1>13. Arguments(more, "filter-l3", m) = Arguments(opts, "filter-l3", n)
  BY <1>2 DEF SameArguments
<1>14. FiltersBuilt(more, q, m)
  BY <1>5, <1>9, <1>12, <1>13 DEF FiltersBuilt, Built
<1> QED
  BY <1>6, <1>11, <1>14 DEF Built

LEMMA BuiltInstance ==
    ASSUME NEW opts, NEW more, NEW opt, Longer(opts, more, opt), opt.o = "lua-desync",
           NEW ls, NEW p, NEW q, Built(ls, opts, p, Len(opts)), ListsLeft(ls, ls, p),
           DOMAIN q = ProfileFields, q.fns = Append(p.fns, Settled(more, Len(more))),
           \A f \in ProfileFields \ {"fns"} : q[f] = p[f]
    PROVE  Built(ls, more, q, Len(more))
<1> DEFINE n == Len(opts)
           m == Len(more)
<1>1. /\ opt.o \notin FourFilters /\ opt.o \notin ListOptions /\ opt.o \notin FourFilters \cup {"filter-l3"}
      /\ opt.o # "filter-l7" /\ OfSection(opt)
  BY DEF FourFilters, ListOptions, OfSection
<1>2. /\ SameArguments(opts, n, more, m, FourFilters) /\ SameArguments(opts, n, more, m, ListOptions)
      /\ SameArguments(opts, n, more, m, FourFilters \cup {"filter-l3"})
      /\ SameMask(opts, n, more, m)
  BY <1>1, SectionSame
<1>5. /\ q.l3 = p.l3 /\ q.l3set = p.l3set /\ q.l7 = p.l7 /\ q.l7set = p.l7set
      /\ q.tcp = p.tcp /\ q.udp = p.udp /\ q.icmp = p.icmp /\ q.ipp = p.ipp /\ q.auto = p.auto
      /\ \A field \in ListFields : q[field] = p[field]
  BY ProfileFieldsAre, KindsAre
<1>6. CollectionsBuilt(ls, more, q, m)
  BY <1>2, <1>5, CollectionsSame DEF Built
<1>7. FiltersBuilt(more, q, m)
  BY <1>2, <1>5, FiltersSame DEF Built
<1>8. q.fns = InstancesOf(more, m)
  <2>1. p.fns = InstancesOf(opts, n)
    BY DEF Built, RestBuilt
  <2>2. InstancesOf(more, m) = Append(InstancesOf(opts, n), Settled(more, m))
    BY <1>1, InstancesGrow
  <2> QED
    BY <2>1, <2>2
<1>9. \A kind \in DOMAIN FilterNames : Items(more, kind, m) = Items(opts, kind, n)
  BY <1>2, KindsAre DEF SameArguments, Items
<1>10. RestBuilt(more, q, m)
  BY <1>2, <1>5, <1>8, <1>9 DEF RestBuilt, Built, SameMask
<1> QED
  BY <1>6, <1>7, <1>10 DEF Built

Filtered(kind, list) == [i \in DOMAIN list |-> ReadAs(kind, list[i])]

LEMMA BuiltKind ==
    ASSUME NEW opts, NEW more, NEW opt, Longer(opts, more, opt), NEW kind \in DOMAIN FilterNames,
           opt.o = FilterNames[kind], opt.a \in Seq(Texts),
           \A i \in DOMAIN opt.a : GoodAs(kind, opt.a[i]),
           NEW ls, NEW p, NEW q, Built(ls, opts, p, Len(opts)), ListsLeft(ls, ls, p),
           DOMAIN q = ProfileFields,
           q[kind] = Filtered(kind, opt.a) \o p[kind],
           \A f \in ProfileFields \ {kind} : q[f] = p[f]
    PROVE  Built(ls, more, q, Len(more))
<1> DEFINE n == Len(opts)
           m == Len(more)
           read == [i \in DOMAIN opt.a |-> ReadAs(kind, opt.a[i])]
<1>1. opt.o \in FourFilters /\ kind \in {"tcp", "udp", "icmp", "ipp"}
  BY KindsAre
<1>2. /\ opt.o \notin ListOptions /\ opt.o # "filter-l7" /\ opt.o # "lua-desync"
      /\ opt.o # "filter-l3" /\ OfSection(opt)
  BY <1>1 DEF FourFilters, ListOptions, OfSection
<1>3. /\ SameArguments(opts, n, more, m, ListOptions) /\ SameArguments(opts, n, more, m, {"filter-l3"})
      /\ SameMask(opts, n, more, m) /\ InstancesOf(more, m) = InstancesOf(opts, n)
  <2>1. opt.o \notin {"filter-l3"}
    BY <1>2
  <2> QED
    BY <1>2, <2>1, SectionSame
<1>4. /\ q.fns = p.fns /\ q.l3 = p.l3 /\ q.l3set = p.l3set /\ q.l7 = p.l7 /\ q.l7set = p.l7set
      /\ q.auto = p.auto /\ \A field \in ListFields : q[field] = p[field]
  BY <1>1, ProfileFieldsAre, KindsAre
<1>5. CollectionsBuilt(ls, more, q, m)
  BY <1>3, <1>4, CollectionsSame DEF Built
<1>6. ASSUME NEW other \in DOMAIN FilterNames
      PROVE  /\ other = kind => Items(more, other, m) = Items(opts, other, n) \cup ToSet(opt.a)
             /\ other # kind => Items(more, other, m) = Items(opts, other, n) /\ q[other] = p[other]
  <2>1. CASE other = kind
    <3>1. PICK name : name = FilterNames[kind]
      OBVIOUS
    <3>2. Arguments(more, name, m) = Arguments(opts, name, n) \cup (IF opt.o = name THEN {opt.a} ELSE {})
      BY <1>2, ArgumentsGrow
    <3>3. Arguments(more, name, m) = Arguments(opts, name, n) \cup {opt.a}
      BY <3>1, <3>2
    <3> QED
      <4>1. Members(Arguments(more, name, m)) = Members(Arguments(opts, name, n)) \cup ToSet(opt.a)
        BY <3>3, MembersJoined
      <4>2. Items(more, other, m) = Members(Arguments(more, name, m))
        BY <2>1, <3>1 DEF Items
      <4>3. Items(opts, other, n) = Members(Arguments(opts, name, n))
        BY <2>1, <3>1 DEF Items
      <4> QED
        BY <2>1, <4>1, <4>2, <4>3
  <2>2. CASE other # kind
    <3>1. FilterNames[other] # opt.o /\ other \in {"tcp", "udp", "icmp", "ipp"}
      BY <1>1, <2>2, KindsAre DEF FilterNames
    <3>2. SameArguments(opts, n, more, m, {FilterNames[other]})
      <4>1. opt.o \notin {FilterNames[other]}
        BY <3>1
      <4> QED
        BY <1>2, <4>1, SectionSame
    <3>3. other \in ProfileFields \ {kind}
      BY <2>2, <3>1, ProfileFieldsAre
    <3> QED
      BY <2>2, <3>2, <3>3 DEF SameArguments, Items
  <2> QED
    BY <2>1, <2>2
<1>7. /\ Len(opt.a) \in Nat /\ DOMAIN opt.a = 1..Len(opt.a)
      /\ \A i \in 1..Len(opt.a) : opt.a[i] \in Texts /\ opt.a[i] \in ToSet(opt.a)
      /\ \A t \in ToSet(opt.a) : t \in Texts /\ GoodAs(kind, t) /\ \E i \in 1..Len(opt.a) : t = opt.a[i]
  BY DEF ToSet
<1>8. RestBuilt(more, q, m)
  <2>1. RestBuilt(opts, p, n)
    BY DEF Built
  <2>2. \A other \in DOMAIN FilterNames : \A t \in Items(more, other, m) : t \in Texts /\ GoodAs(other, t)
    BY <1>6, <1>7, <2>1 DEF RestBuilt
  <2> QED
    BY <1>3, <1>4, <2>1, <2>2 DEF RestBuilt, SameMask
<1>9. /\ FilterRead(more, kind, m) = FilterRead(opts, kind, n) \cup {ReadAs(kind, t) : t \in ToSet(opt.a)}
      /\ \A other \in DOMAIN FilterNames : other # kind => FilterRead(more, other, m) = FilterRead(opts, other, n)
  BY <1>6 DEF FilterRead
<1>10. FiltersBuilt(opts, p, n)
  BY DEF Built
<1>11. q[kind] \in Seq(FilterRead(more, kind, m)) /\ ToSet(q[kind]) = FilterRead(more, kind, m)
  <2> DEFINE new == {ReadAs(kind, t) : t \in ToSet(opt.a)}
             all == FilterRead(more, kind, m)
  <2>1. all = FilterRead(opts, kind, n) \cup new
    BY <1>9
  <2>2. \A i \in 1..Len(opt.a) : read[i] \in new
    BY <1>7
  <2>3. \A r \in new : \E i \in 1..Len(opt.a) : r = read[i]
    BY <1>7
  <2>4. read = [i \in 1..Len(opt.a) |-> read[i]]
    BY <1>7
  <2>5. read \in Seq(new) /\ Len(read) = Len(opt.a)
    <3> HIDE DEF new, read
    <3>1. PICK x : x = read
      OBVIOUS
    <3>2. PICK len \in Nat : len = Len(opt.a)
      BY <1>7
    <3>3. PICK R : R = new
      OBVIOUS
    <3>4. x = [i \in 1..len |-> x[i]] /\ \A i \in 1..len : x[i] \in R
      BY <2>2, <2>4, <3>1, <3>2, <3>3
    <3>5. x \in Seq(R) /\ Len(x) = len
      BY <3>4, SeqBuilt
    <3> QED
      BY <3>1, <3>2, <3>3, <3>5
  <2>6. ToSet(read) = new
    <3> HIDE DEF new, read
    <3>1. DOMAIN read = 1..Len(opt.a)
      BY <1>7, <2>5
    <3> QED
      BY <2>2, <2>3, <3>1 DEF ToSet
  <2>7. p[kind] \in Seq(FilterRead(opts, kind, n)) /\ ToSet(p[kind]) = FilterRead(opts, kind, n)
    BY <1>10 DEF FiltersBuilt
  <2>8. read \in Seq(all) /\ p[kind] \in Seq(all)
    <3> HIDE DEF new, read, all
    <3> QED
      BY <2>1, <2>5, <2>7
  <2>9. q[kind] = read \o p[kind]
    BY DEF Filtered
  <2>10. read \o p[kind] \in Seq(all) /\ ToSet(read \o p[kind]) = ToSet(read) \cup ToSet(p[kind])
    <3> HIDE DEF new, read, all
    <3> QED
      BY <2>8, ToSetJoined
  <2> HIDE DEF new, read
  <2> QED
    BY <2>1, <2>6, <2>7, <2>9, <2>10
<1>12. FiltersBuilt(more, q, m)
  <2>1. Arguments(more, "filter-l3", m) = Arguments(opts, "filter-l3", n)
    BY <1>3 DEF SameArguments
  <2>2. \A other \in DOMAIN FilterNames :
          q[other] \in Seq(FilterRead(more, other, m)) /\ ToSet(q[other]) = FilterRead(more, other, m)
    BY <1>6, <1>9, <1>10, <1>11 DEF FiltersBuilt
  <2> HIDE DEF read
  <2> QED
    BY <1>3, <1>4, <1>10, <2>1, <2>2 DEF FiltersBuilt, SameMask
<1> QED
  BY <1>5, <1>8, <1>12 DEF Built

\* A list more in a collection.
HasFile(l) == l.file # ""

LEMMA ListsWithFile ==
    ASSUME NEW ls, NEW opts, NEW k, NEW new, NEW more, NEW m, NEW collection, NEW field,
           ListsBuilt(ls, opts, collection, field, k),
           \A i \in ToSet(collection) : i \in DOMAIN new /\ new[i] = ls[i],
           NEW id \in DOMAIN new, new[id].kind = Kind(field), HasFile(new[id]),
           FilesAsked(more, field, m) = FilesAsked(opts, field, k) \cup {new[id].file},
           ItemsAsked(more, field, m) = ItemsAsked(opts, field, k)
    PROVE  ListsBuilt(new, more, Once(collection, id), field, m)
<1> DEFINE S == {i \in DOMAIN ls : ls[i].kind = Kind(field)}
           T == {i \in DOMAIN new : new[i].kind = Kind(field)}
           d == Once(collection, id)
<1>1. collection \in Seq(ToSet(collection)) /\ ToSet(collection) \subseteq S
  <2>1. collection \in Seq(S)
    BY DEF ListsBuilt
  <2> HIDE DEF S
  <2> QED
    BY <2>1, ToSetIs
<1>2. ToSet(collection) \subseteq T /\ id \in T
  BY <1>1
<1>3. d \in Seq(T) /\ ToSet(d) = ToSet(collection) \cup {id}
  <2> HIDE DEF S, T, d
  <2>1. collection \in Seq(T) /\ <<id>> \in Seq(T)
    <3>1. collection \in Seq(T)
      <4>1. ToSet(collection) \subseteq T
        BY <1>2
      <4> QED
        BY <1>1, <4>1, SeqInto
    <3> QED
      BY <1>2, <3>1, SeqOfOne
  <2>2. <<id>> \o collection \in Seq(T) /\ ToSet(<<id>> \o collection) = {id} \cup ToSet(collection)
    BY <1>2, <2>1, ToSetPrepended
  <2> QED
    BY <2>1, <2>2 DEF Once, d
<1>4. FileLists(new, d) = FileLists(ls, collection) \cup {id}
  BY <1>3 DEF FileLists, HasFile
<1>5. ItemLists(new, d) = ItemLists(ls, collection)
  <2>1. id \in ToSet(collection) => id \in FileLists(ls, collection)
    BY DEF FileLists, HasFile
  <2> QED
    BY <1>3, <1>4, <2>1 DEF ItemLists
<1>6. \A i \in FileLists(ls, collection) : new[i] = ls[i]
  BY DEF FileLists
<1>7. \A i \in ItemLists(ls, collection) : new[i] = ls[i]
  BY DEF ItemLists
<1>8. {new[i].file : i \in FileLists(new, d)} = {ls[i].file : i \in FileLists(ls, collection)} \cup {new[id].file}
  <2> DEFINE file == [i \in DOMAIN new |-> new[i].file]
             F == FileLists(ls, collection)
  <2>1. F \subseteq DOMAIN new /\ \A i \in F : file[i] = ls[i].file
    BY <1>6 DEF FileLists
  <2>2. {file[i] : i \in F \cup {id}} = {file[i] : i \in F} \cup {file[id]}
    <3> HIDE DEF file, F
    <3> QED
      OBVIOUS
  <2>3. {new[i].file : i \in F \cup {id}} = {file[i] : i \in F \cup {id}} /\ file[id] = new[id].file
    BY <2>1
  <2>4. {ls[i].file : i \in F} = {file[i] : i \in F}
    <3> HIDE DEF file
    <3> QED
      BY <2>1
  <2> HIDE DEF file
  <2> QED
    BY <1>4, <2>2, <2>3, <2>4
<1>9. {new[i].items : i \in ItemLists(new, d)} = {ls[i].items : i \in ItemLists(ls, collection)}
  BY <1>5, <1>7
<1> HIDE DEF d
<1> QED
  BY <1>3, <1>8, <1>9 DEF ListsBuilt, d

LEMMA ListsWithItems ==
    ASSUME NEW ls, NEW opts, NEW k, NEW new, NEW more, NEW m, NEW collection, NEW field,
           ListsBuilt(ls, opts, collection, field, k),
           \A i \in ToSet(collection) : i \in DOMAIN new /\ new[i] = ls[i],
           NEW id \in DOMAIN new, new[id].kind = Kind(field), ~HasFile(new[id]),
           id \notin ToSet(collection),
           FilesAsked(more, field, m) = FilesAsked(opts, field, k),
           ItemsAsked(more, field, m) = ItemsAsked(opts, field, k) \cup new[id].items
    PROVE  ListsBuilt(new, more, <<id>> \o collection, field, m)
<1> DEFINE S == {i \in DOMAIN ls : ls[i].kind = Kind(field)}
           T == {i \in DOMAIN new : new[i].kind = Kind(field)}
           d == <<id>> \o collection
<1>1. collection \in Seq(ToSet(collection)) /\ ToSet(collection) \subseteq S
  <2>1. collection \in Seq(S)
    BY DEF ListsBuilt
  <2> HIDE DEF S
  <2> QED
    BY <2>1, ToSetIs
<1>2. ToSet(collection) \subseteq T /\ id \in T
  BY <1>1
<1>3. d \in Seq(T) /\ ToSet(d) = ToSet(collection) \cup {id}
  <2> HIDE DEF S, T, d
  <2>1. collection \in Seq(T) /\ <<id>> \in Seq(T)
    <3>1. collection \in Seq(T)
      <4>1. ToSet(collection) \subseteq T
        BY <1>2
      <4> QED
        BY <1>1, <4>1, SeqInto
    <3> QED
      BY <1>2, <3>1, SeqOfOne
  <2>2. <<id>> \o collection \in Seq(T) /\ ToSet(<<id>> \o collection) = {id} \cup ToSet(collection)
    BY <1>2, <2>1, ToSetPrepended
  <2> QED
    BY <2>2 DEF d
<1>4. FileLists(new, d) = FileLists(ls, collection)
  BY <1>3 DEF FileLists, HasFile
<1>5. ItemLists(new, d) = ItemLists(ls, collection) \cup {id}
  BY <1>3, <1>4 DEF ItemLists, FileLists, HasFile
<1>6. \A i \in FileLists(ls, collection) : new[i] = ls[i]
  BY DEF FileLists
<1>7. \A i \in ItemLists(ls, collection) : new[i] = ls[i]
  BY DEF ItemLists
<1>8. {new[i].file : i \in FileLists(new, d)} = {ls[i].file : i \in FileLists(ls, collection)}
  BY <1>4, <1>6
<1>9. {new[i].items : i \in ItemLists(new, d)} = {ls[i].items : i \in ItemLists(ls, collection)} \cup {new[id].items}
  BY <1>5, <1>7
<1>10. UNION {new[i].items : i \in ItemLists(new, d)} =
         (UNION {ls[i].items : i \in ItemLists(ls, collection)}) \cup new[id].items
  BY <1>9
<1> HIDE DEF d
<1> QED
  BY <1>3, <1>8, <1>10 DEF ListsBuilt, d

\* More items in a list that a collection has.
LEMMA ListsWithMore ==
    ASSUME NEW ls, NEW opts, NEW k, NEW new, NEW more, NEW m, NEW collection, NEW field,
           ListsBuilt(ls, opts, collection, field, k),
           NEW id \in ToSet(collection), NEW items,
           DOMAIN new = DOMAIN ls,
           \A i \in DOMAIN ls : i # id => new[i] = ls[i],
           new[id].kind = ls[id].kind, ~HasFile(ls[id]), ~HasFile(new[id]),
           new[id].items = ls[id].items \cup items,
           FilesAsked(more, field, m) = FilesAsked(opts, field, k),
           ItemsAsked(more, field, m) = ItemsAsked(opts, field, k) \cup items
    PROVE  ListsBuilt(new, more, collection, field, m)
<1> DEFINE S == {i \in DOMAIN ls : ls[i].kind = Kind(field)}
           T == {i \in DOMAIN new : new[i].kind = Kind(field)}
<1>1. collection \in Seq(S)
  BY DEF ListsBuilt
<1>2. ToSet(collection) \subseteq S
  <2> HIDE DEF S
  <2> QED
    BY <1>1, ToSetIs
<1>3. S = T
  BY <1>2
<1>4. FileLists(new, collection) = FileLists(ls, collection) /\ id \notin FileLists(ls, collection)
  BY <1>2 DEF FileLists, HasFile
<1>5. ItemLists(new, collection) = ItemLists(ls, collection) /\ id \in ItemLists(ls, collection)
  BY <1>4 DEF ItemLists
<1>6. \A i \in FileLists(ls, collection) : new[i] = ls[i]
  BY <1>2, <1>4 DEF FileLists
<1>7. {new[i].file : i \in FileLists(new, collection)} = {ls[i].file : i \in FileLists(ls, collection)}
  BY <1>4, <1>6
<1>8. \A i \in ItemLists(ls, collection) : new[i].items = ls[i].items \cup (IF i = id THEN items ELSE {})
  BY <1>2 DEF ItemLists
<1>9. UNION {new[i].items : i \in ItemLists(new, collection)} =
         (UNION {ls[i].items : i \in ItemLists(ls, collection)}) \cup items
  <2>1. ASSUME NEW x
        PROVE  x \in UNION {new[i].items : i \in ItemLists(new, collection)} <=>
                 x \in UNION {ls[i].items : i \in ItemLists(ls, collection)} \/ x \in items
    <3>1. x \in UNION {new[i].items : i \in ItemLists(new, collection)}
            <=> \E i \in ItemLists(ls, collection) : x \in new[i].items
      BY <1>5
    <3>2. x \in UNION {ls[i].items : i \in ItemLists(ls, collection)}
            <=> \E i \in ItemLists(ls, collection) : x \in ls[i].items
      OBVIOUS
    <3> QED
      BY <1>5, <1>8, <3>1, <3>2
  <2> QED
    BY <2>1
<1> QED
  BY <1>1, <1>3, <1>7, <1>9 DEF ListsBuilt

\* A profile that nothing has been said of.
LEMMA BuiltOfNothing ==
    ASSUME NEW ls, NEW opts, NEW k, NEW n, NEW name,
           \A o \in FourFilters \cup ListOptions \cup {"filter-l3", "filter-l7"} :
               Arguments(opts, o, k) = {},
           PlacesOf(opts, "filter-l7")[k] = <<>>, InstancesOf(opts, k) = <<>>
    PROVE  Built(ls, opts, NewProfile(n, name), k)
<1> DEFINE p == NewProfile(n, name)
<1>1. Members({}) = {}
  BY DEF Members
<1>2. \A kind \in DOMAIN FilterNames : Items(opts, kind, k) = {}
  <2>1. \A kind \in DOMAIN FilterNames : Arguments(opts, FilterNames[kind], k) = {}
    BY KindsAre
  <2> QED
    BY <1>1, <2>1 DEF Items
<1>3. \A kind \in DOMAIN FilterNames : FilterRead(opts, kind, k) = {} /\ p[kind] = <<>>
  <2>1. p.tcp = <<>> /\ p.udp = <<>> /\ p.icmp = <<>> /\ p.ipp = <<>>
    BY DEF NewProfile
  <2> HIDE DEF p
  <2> QED
    BY <1>2, <2>1, KindsAre DEF FilterRead
<1>4. \A field \in ListFields : p[field] = <<>>
  <2>1. p.hl = <<>> /\ p.hlx = <<>> /\ p.ips = <<>> /\ p.ipsx = <<>>
    BY DEF NewProfile
  <2> HIDE DEF p
  <2> QED
    BY <2>1, KindsAre
<1>5. /\ p.fns = <<>> /\ p.l7 = {} /\ p.l3 = {} /\ p.l3set = FALSE /\ p.l7set = FALSE
      /\ p.auto = 0 /\ DOMAIN p = ProfileFields
  BY DEF NewProfile, ProfileFields
<1>6. Mask(<<"all">>) = {} /\ ToSet(<<>>) = {}
  BY DEF Mask, ToSet
<1>7. RestBuilt(opts, p, k)
  BY <1>2, <1>5, <1>6 DEF RestBuilt, LastMask
<1>8. FiltersBuilt(opts, p, k)
  <2>1. Arguments(opts, "filter-l3", k) = {}
    OBVIOUS
  <2>2. <<>> \in Seq({})
    OBVIOUS
  <2> HIDE DEF p
  <2> QED
    BY <1>1, <1>3, <1>5, <1>6, <2>1, <2>2 DEF FiltersBuilt
<1>9. \A field \in ListFields : FilesAsked(opts, field, k) = {} /\ ItemsAsked(opts, field, k) = {}
  <2> TAKE field \in ListFields
  <2>1. \A o \in FileOptions[field] : Arguments(opts, o, k) = {}
    BY KindsAre
  <2>2. Arguments(opts, ItemOption[field], k) = {}
    BY KindsAre
  <2> QED
    BY <1>1, <2>1, <2>2 DEF FilesAsked, ItemsAsked
<1>10. ASSUME NEW field \in ListFields
       PROVE  ListsBuilt(ls, opts, p[field], field, k)
  <2>1. FileLists(ls, <<>>) = {} /\ ItemLists(ls, <<>>) = {}
    BY <1>6 DEF FileLists, ItemLists
  <2>2. <<>> \in Seq({i \in DOMAIN ls : ls[i].kind = Kind(field)})
    OBVIOUS
  <2>3. ListsBuilt(ls, opts, <<>>, field, k)
    BY <1>9, <2>1, <2>2 DEF ListsBuilt
  <2> QED
    BY <1>4, <2>3
<1>11. AutoBuilt(ls, opts, p, k)
  <2>1. Arguments(opts, "hostlist_auto", k) = {}
    BY DEF ListOptions
  <2> QED
    BY <1>5, <2>1 DEF AutoBuilt
<1> HIDE DEF p
<1> QED
  BY <1>5, <1>7, <1>8, <1>10, <1>11 DEF Built, CollectionsBuilt, p

LEMMA BuiltNew ==
    ASSUME NEW opts, NEW more, NEW opt, Longer(opts, more, opt), opt.o = "new",
           NEW ls, NEW n, NEW name
    PROVE  Built(ls, more, NewProfile(n, name), Len(more))
<1>1. \A o \in FourFilters \cup ListOptions \cup {"filter-l3", "filter-l7"} : o # "new"
  BY DEF FourFilters, ListOptions
<1>2. \A o \in FourFilters \cup ListOptions \cup {"filter-l3", "filter-l7"} :
        Arguments(more, o, Len(more)) = {}
  BY <1>1, NothingSaid
<1>3. PlacesOf(more, "filter-l7")[Len(more)] = <<>> /\ InstancesOf(more, Len(more)) = <<>>
  BY NothingSaid
<1> QED
  BY <1>2, <1>3, BuiltOfNothing

LEMMA BuiltFirst ==
    ASSUME NEW opts, Len(opts) \in Nat, NEW ls, NEW n, NEW name
    PROVE  Built(ls, opts, NewProfile(n, name), 0)
<1>1. \A o \in FourFilters \cup ListOptions \cup {"filter-l3", "filter-l7"} : Arguments(opts, o, 0) = {}
  BY NothingAtFirst
<1>2. PlacesOf(opts, "filter-l7")[0] = <<>> /\ InstancesOf(opts, 0) = <<>>
  BY NothingAtFirst
<1> QED
  BY <1>1, <1>2, BuiltOfNothing

\* A profile and a template.
LEMMA ListsJoined ==
    ASSUME NEW ls, NEW opts, NEW k, NEW e, NEW more, NEW m, NEW c, NEW d, NEW field,
           ListsBuilt(ls, opts, c, field, k), ListsBuilt(ls, opts, d, field, e),
           FilesAsked(more, field, m) = FilesAsked(opts, field, k) \cup FilesAsked(opts, field, e),
           ItemsAsked(more, field, m) = ItemsAsked(opts, field, k) \cup ItemsAsked(opts, field, e)
    PROVE  ListsBuilt(ls, more, c \o d, field, m)
<1> DEFINE S == {i \in DOMAIN ls : ls[i].kind = Kind(field)}
<1>1. c \in Seq(S) /\ d \in Seq(S)
  BY DEF ListsBuilt
<1>2. c \o d \in Seq(S) /\ ToSet(c \o d) = ToSet(c) \cup ToSet(d)
  <2> HIDE DEF S
  <2> QED
    BY <1>1, ToSetJoined
<1>3. FileLists(ls, c \o d) = FileLists(ls, c) \cup FileLists(ls, d)
  BY <1>2 DEF FileLists
<1>4. ItemLists(ls, c \o d) = ItemLists(ls, c) \cup ItemLists(ls, d)
  BY <1>2 DEF FileLists, ItemLists
<1>5. {ls[i].file : i \in FileLists(ls, c \o d)} =
        {ls[i].file : i \in FileLists(ls, c)} \cup {ls[i].file : i \in FileLists(ls, d)}
  BY <1>3
<1>6. UNION {ls[i].items : i \in ItemLists(ls, c \o d)} =
        (UNION {ls[i].items : i \in ItemLists(ls, c)}) \cup UNION {ls[i].items : i \in ItemLists(ls, d)}
  BY <1>4
<1> HIDE DEF S
<1> QED
  BY <1>2, <1>5, <1>6 DEF ListsBuilt, S

LEMMA BuiltImported ==
    ASSUME NEW opts, NEW more, NEW opt, Longer(opts, more, opt), opt.o = "import",
           NEW ls, NEW p, NEW t, NEW q, Built(ls, opts, p, Len(opts)),
           Built(ls, opts, t, Source(more, Len(more))), t.auto \in {0, p.auto} \/ p.auto = 0,
           DOMAIN q = ProfileFields,
           q.l3 = IF t.l3set THEN p.l3 \cup t.l3 ELSE p.l3, q.l3set = (p.l3set \/ t.l3set),
           q.l7 = IF t.l7set THEN t.l7 ELSE p.l7, q.l7set = (p.l7set \/ t.l7set),
           q.auto = IF t.auto = 0 THEN p.auto ELSE t.auto,
           \A f \in DOMAIN FilterNames \cup ListFields \cup {"fns"} : q[f] = p[f] \o t[f]
    PROVE  Built(ls, more, q, Len(more))
<1> DEFINE n == Len(opts)
           m == Len(more)
           e == Source(more, m)
<1>1. \A name : Arguments(more, name, m) = Arguments(opts, name, n) \cup Arguments(opts, name, e)
  BY ArgumentsImported
<1>2. InstancesOf(more, m) = InstancesOf(opts, n) \o InstancesOf(opts, e)
  BY InstancesImported
<1>3. /\ RestBuilt(opts, p, n) /\ FiltersBuilt(opts, p, n) /\ CollectionsBuilt(ls, opts, p, n)
      /\ RestBuilt(opts, t, e) /\ FiltersBuilt(opts, t, e) /\ CollectionsBuilt(ls, opts, t, e)
  BY DEF Built
<1>4. \A kind \in DOMAIN FilterNames : Items(more, kind, m) = Items(opts, kind, n) \cup Items(opts, kind, e)
  BY <1>1, MembersJoined DEF Items
<1>5. \A kind \in DOMAIN FilterNames :
        FilterRead(more, kind, m) = FilterRead(opts, kind, n) \cup FilterRead(opts, kind, e)
  BY <1>4 DEF FilterRead
<1>6. /\ PlacesOf(more, "filter-l7")[m] = PlacesOf(opts, "filter-l7")[n] \o PlacesOf(opts, "filter-l7")[e]
      /\ PlacesOf(opts, "filter-l7")[n] \in Seq(1..n) /\ PlacesOf(opts, "filter-l7")[e] \in Seq(1..n)
      /\ \A j \in 1..n : more[j] = opts[j]
  <2>1. e \in 0..n /\ n \in Nat /\ \A j \in 1..n : more[j] = opts[j]
    BY ArgumentsImported DEF Longer
  <2>2. PlacesOf(opts, "filter-l7")[n] \in Seq(1..n) /\ PlacesOf(opts, "filter-l7")[e] \in Seq(1..e)
    BY <2>1, PlacesType
  <2>3. PlacesOf(opts, "filter-l7")[e] \in Seq(1..n)
    BY <2>1, <2>2, SeqWider
  <2>4. PlacesOf(more, "filter-l7")[m] = PlacesOf(opts, "filter-l7")[n] \o PlacesOf(opts, "filter-l7")[e]
    BY PlacesImported
  <2> QED
    BY <2>1, <2>2, <2>3, <2>4
<1>7. q.l7 = LastMask(more, PlacesOf(more, "filter-l7")[m])
      /\ q.l7set = (PlacesOf(more, "filter-l7")[m] # <<>>)
  <2>1. PICK x, y, z : /\ x = PlacesOf(opts, "filter-l7")[n] /\ y = PlacesOf(opts, "filter-l7")[e]
                       /\ z = PlacesOf(more, "filter-l7")[m]
    OBVIOUS
  <2>2. x \in Seq(1..n) /\ y \in Seq(1..n) /\ z = x \o y
    BY <1>6, <2>1
  <2>3. z = <<>> <=> x = <<>> /\ y = <<>>
    BY <2>2
  <2>4. CASE y = <<>>
    <3>1. z = x /\ (x # <<>> => Last(x) \in 1..n)
      BY <2>2, <2>4 DEF Last
    <3>2. t.l7set = FALSE /\ p.l7 = LastMask(opts, x) /\ p.l7set = (x # <<>>)
      BY <1>3, <2>1, <2>4 DEF FiltersBuilt, RestBuilt
    <3>3. LastMask(more, z) = LastMask(opts, x)
      BY <1>6, <3>1 DEF LastMask
    <3> QED
      BY <2>1, <2>3, <2>4, <3>2, <3>3
  <2>5. CASE y # <<>>
    <3>1. Last(z) = Last(y) /\ Last(y) \in 1..n
      BY <2>2, <2>5 DEF Last
    <3>2. t.l7set = TRUE /\ t.l7 = LastMask(opts, y)
      BY <1>3, <2>1, <2>5 DEF FiltersBuilt, RestBuilt
    <3>3. LastMask(more, z) = LastMask(opts, y)
      BY <1>6, <2>3, <2>5, <3>1 DEF LastMask
    <3> QED
      BY <2>1, <2>3, <2>5, <3>2, <3>3
  <2> QED
    BY <2>4, <2>5
<1>8. RestBuilt(more, q, m)
  <2>1. q.fns = InstancesOf(more, m)
    BY <1>2, <1>3 DEF RestBuilt
  <2>2. \A kind \in DOMAIN FilterNames : \A i \in Items(more, kind, m) : i \in Texts /\ GoodAs(kind, i)
    BY <1>3, <1>4 DEF RestBuilt
  <2> QED
    BY <1>7, <2>1, <2>2 DEF RestBuilt
<1>9. FiltersBuilt(more, q, m)
  <2> DEFINE x == Arguments(opts, "filter-l3", n)
             y == Arguments(opts, "filter-l3", e)
  <2>1. Arguments(more, "filter-l3", m) = x \cup y
    BY <1>1
  <2>2. Members(x \cup y) = Members(x) \cup Members(y) /\ Members({}) = {}
    BY MembersJoined DEF Members
  <2>3. /\ p.l3 = Members(x) /\ p.l3set = (x # {}) /\ t.l3 = Members(y) /\ t.l3set = (y # {})
    BY <1>3 DEF FiltersBuilt
  <2>4. q.l3 = Members(x \cup y) /\ q.l3set = (x \cup y # {})
    <3> HIDE DEF x, y
    <3> QED
      BY <2>2, <2>3
  <2>5. ASSUME NEW kind \in DOMAIN FilterNames
        PROVE  /\ q[kind] \in Seq(FilterRead(more, kind, m))
               /\ ToSet(q[kind]) = FilterRead(more, kind, m)
    <3> DEFINE all == FilterRead(more, kind, m)
    <3>1. /\ p[kind] \in Seq(FilterRead(opts, kind, n)) /\ ToSet(p[kind]) = FilterRead(opts, kind, n)
          /\ t[kind] \in Seq(FilterRead(opts, kind, e)) /\ ToSet(t[kind]) = FilterRead(opts, kind, e)
      BY <1>3 DEF FiltersBuilt
    <3>2. all = FilterRead(opts, kind, n) \cup FilterRead(opts, kind, e)
      BY <1>5
    <3>3. p[kind] \in Seq(all) /\ t[kind] \in Seq(all)
      <4> HIDE DEF all
      <4> QED
        BY <3>1, <3>2
    <3>4. q[kind] = p[kind] \o t[kind]
      OBVIOUS
    <3>5. p[kind] \o t[kind] \in Seq(all) /\ ToSet(p[kind] \o t[kind]) = ToSet(p[kind]) \cup ToSet(t[kind])
      <4> HIDE DEF all
      <4> QED
        BY <3>3, ToSetJoined
    <3> QED
      BY <3>1, <3>2, <3>4, <3>5
  <2> HIDE DEF x, y
  <2> QED
    BY <1>7, <2>1, <2>4, <2>5 DEF FiltersBuilt
<1>10. CollectionsBuilt(ls, more, q, m)
  <2>1. AutoBuilt(ls, more, q, m)
    <3>1. Arguments(more, "hostlist_auto", m) = Arguments(opts, "hostlist_auto", n) \cup Arguments(opts, "hostlist_auto", e)
      BY <1>1
    <3> QED
      BY <1>3, <3>1 DEF AutoBuilt, CollectionsBuilt
  <2>2. ASSUME NEW field \in ListFields
        PROVE  ListsBuilt(ls, more, q[field], field, m)
    <3>1. FilesAsked(more, field, m) = FilesAsked(opts, field, n) \cup FilesAsked(opts, field, e)
      BY <1>1 DEF FilesAsked
    <3>2. ItemsAsked(more, field, m) = ItemsAsked(opts, field, n) \cup ItemsAsked(opts, field, e)
      BY <1>1, MembersJoined DEF ItemsAsked
    <3>3. ListsBuilt(ls, opts, p[field], field, n) /\ ListsBuilt(ls, opts, t[field], field, e)
      BY <1>3 DEF CollectionsBuilt
    <3>4. q[field] = p[field] \o t[field]
      OBVIOUS
    <3> QED
      BY <3>1, <3>2, <3>3, <3>4, ListsJoined
  <2> QED
    BY <2>1, <2>2 DEF CollectionsBuilt
<1> QED
  BY <1>8, <1>9, <1>10 DEF Built

\* The lists of a profile are lists.
LEMMA ListsOfBuilt ==
    ASSUME NEW ls, NEW opts, NEW p, NEW k, CollectionsBuilt(ls, opts, p, k)
    PROVE  /\ p.auto # 0 => p.auto \in DOMAIN ls /\ HasFile(ls[p.auto])
           /\ \A field \in ListFields :
                /\ p[field] \in Seq({i \in DOMAIN ls : ls[i].kind = Kind(field)})
                /\ \A i \in ToSet(p[field]) : i \in DOMAIN ls /\ ls[i].kind = Kind(field)
           /\ ListsLeft(ls, ls, p)
           /\ \A new : (\A i \in DOMAIN ls : i \in DOMAIN new /\ new[i] = ls[i]) => ListsLeft(ls, new, p)
<1>1. p.auto # 0 => p.auto \in DOMAIN ls /\ HasFile(ls[p.auto])
  BY DEF CollectionsBuilt, AutoBuilt, HasFile
<1>2. ASSUME NEW field \in ListFields
      PROVE  /\ p[field] \in Seq({i \in DOMAIN ls : ls[i].kind = Kind(field)})
             /\ \A i \in ToSet(p[field]) : i \in DOMAIN ls /\ ls[i].kind = Kind(field)
  <2> DEFINE S == {i \in DOMAIN ls : ls[i].kind = Kind(field)}
  <2>1. p[field] \in Seq(S)
    BY DEF CollectionsBuilt, ListsBuilt
  <2>2. ToSet(p[field]) \subseteq S
    <3> HIDE DEF S
    <3> QED
      BY <2>1, ToSetIs
  <2> QED
    BY <2>1, <2>2
<1> QED
  BY <1>1, <1>2 DEF ListsLeft

LEMMA AskedGrow ==
    ASSUME NEW opts, NEW more, NEW opt, Longer(opts, more, opt), OfSection(opt), NEW field
    PROVE  /\ opt.o \in FileOptions[field] => FilesAsked(more, field, Len(more))
                = FilesAsked(opts, field, Len(opts)) \cup {opt.a}
           /\ opt.o \notin FileOptions[field] =>
                FilesAsked(more, field, Len(more)) = FilesAsked(opts, field, Len(opts))
           /\ opt.o = ItemOption[field] => ItemsAsked(more, field, Len(more))
                = ItemsAsked(opts, field, Len(opts)) \cup ToSet(opt.a)
           /\ opt.o # ItemOption[field] =>
                ItemsAsked(more, field, Len(more)) = ItemsAsked(opts, field, Len(opts))
<1> DEFINE m == Len(more)
           n == Len(opts)
<1>1. \A name : Arguments(more, name, m) = Arguments(opts, name, n) \cup (IF opt.o = name THEN {opt.a} ELSE {})
  BY ArgumentsGrow
<1>2. FilesAsked(more, field, m) = FilesAsked(opts, field, n)
                \cup (IF opt.o \in FileOptions[field] THEN {opt.a} ELSE {})
  BY <1>1 DEF FilesAsked
<1>3. ItemsAsked(more, field, m) = ItemsAsked(opts, field, n)
                \cup (IF opt.o = ItemOption[field] THEN ToSet(opt.a) ELSE {})
  <2>1. Arguments(more, ItemOption[field], m) = Arguments(opts, ItemOption[field], n)
           \cup (IF opt.o = ItemOption[field] THEN {opt.a} ELSE {})
    BY <1>1
  <2> QED
    BY <2>1, MembersJoined DEF ItemsAsked
<1> QED
  BY <1>2, <1>3

\* Every option is of one collection.
LEMMA OptionsOfFields ==
    ASSUME NEW o, NEW field \in ListFields
    PROVE  /\ o \in FileOptions[field] =>
                /\ \A other \in ListFields : o # ItemOption[other]
                /\ \A other \in ListFields \ {field} : o \notin FileOptions[other]
           /\ o = ItemOption[field] =>
                /\ \A other \in ListFields : o \notin FileOptions[other]
                /\ \A other \in ListFields \ {field} : o # ItemOption[other]
<1>1. /\ FileOptions.hl = {"hostlist", "hostlist_auto"} /\ FileOptions.hlx = {"hostlist_exclude"}
      /\ FileOptions.ips = {"ipset"} /\ FileOptions.ipsx = {"ipset_exclude"}
      /\ ItemOption.hl = "hostlist_domains" /\ ItemOption.hlx = "hostlist_exclude_domains"
      /\ ItemOption.ips = "ipset_ip" /\ ItemOption.ipsx = "ipset_exclude_ip"
  BY DEF FileOptions, ItemOption
<1>2. ListFields = {"hl", "hlx", "ips", "ipsx"}
  BY KindsAre
<1> QED
  BY <1>1, <1>2

LEMMA ListOptionIs ==
    ASSUME NEW opts, NEW more, NEW opt, Longer(opts, more, opt), opt.o \in ListOptions,
           NEW p, NEW q, RestBuilt(opts, p, Len(opts)), FiltersBuilt(opts, p, Len(opts)),
           \A f \in ProfileFields \ (ListFields \cup {"auto"}) : q[f] = p[f]
    PROVE  RestBuilt(more, q, Len(more)) /\ FiltersBuilt(more, q, Len(more)) /\ OfSection(opt)
<1> DEFINE n == Len(opts)
           m == Len(more)
<1>1. /\ opt.o \notin FourFilters /\ opt.o \notin FourFilters \cup {"filter-l3"}
      /\ opt.o # "filter-l7" /\ opt.o # "lua-desync" /\ OfSection(opt)
  BY DEF FourFilters, ListOptions, OfSection
<1>2. /\ SameArguments(opts, n, more, m, FourFilters)
      /\ SameArguments(opts, n, more, m, FourFilters \cup {"filter-l3"})
      /\ SameMask(opts, n, more, m) /\ InstancesOf(more, m) = InstancesOf(opts, n)
  BY <1>1, SectionSame
<1>3. /\ q.fns = p.fns /\ q.l7 = p.l7 /\ q.l3 = p.l3 /\ q.l3set = p.l3set /\ q.l7set = p.l7set
      /\ q.tcp = p.tcp /\ q.udp = p.udp /\ q.icmp = p.icmp /\ q.ipp = p.ipp
  BY ProfileFieldsAre, KindsAre
<1> QED
  BY <1>1, <1>2, <1>3, RestSame, FiltersSame

LEMMA AskedFile ==
    ASSUME NEW opts, NEW more, NEW opt, Longer(opts, more, opt), OfSection(opt),
           NEW field \in ListFields, opt.o \in FileOptions[field]
    PROVE  /\ FilesAsked(more, field, Len(more)) = FilesAsked(opts, field, Len(opts)) \cup {opt.a}
           /\ ItemsAsked(more, field, Len(more)) = ItemsAsked(opts, field, Len(opts))
           /\ \A other \in ListFields \ {field} :
                /\ FilesAsked(more, other, Len(more)) = FilesAsked(opts, other, Len(opts))
                /\ ItemsAsked(more, other, Len(more)) = ItemsAsked(opts, other, Len(opts))
<1>1. /\ \A other \in ListFields : opt.o # ItemOption[other]
      /\ \A other \in ListFields \ {field} : opt.o \notin FileOptions[other]
  BY OptionsOfFields
<1>2. ASSUME NEW other \in ListFields \ {field}
      PROVE  /\ FilesAsked(more, other, Len(more)) = FilesAsked(opts, other, Len(opts))
             /\ ItemsAsked(more, other, Len(more)) = ItemsAsked(opts, other, Len(opts))
  BY <1>1, AskedGrow
<1> QED
  BY <1>1, <1>2, AskedGrow

LEMMA AskedItem ==
    ASSUME NEW opts, NEW more, NEW opt, Longer(opts, more, opt), OfSection(opt),
           NEW field \in ListFields, opt.o = ItemOption[field]
    PROVE  /\ FilesAsked(more, field, Len(more)) = FilesAsked(opts, field, Len(opts))
           /\ ItemsAsked(more, field, Len(more))
                = ItemsAsked(opts, field, Len(opts)) \cup ToSet(opt.a)
           /\ \A other \in ListFields \ {field} :
                /\ FilesAsked(more, other, Len(more)) = FilesAsked(opts, other, Len(opts))
                /\ ItemsAsked(more, other, Len(more)) = ItemsAsked(opts, other, Len(opts))
<1>1. /\ \A other \in ListFields : opt.o \notin FileOptions[other]
      /\ \A other \in ListFields \ {field} : opt.o # ItemOption[other]
  BY OptionsOfFields
<1>2. ASSUME NEW other \in ListFields \ {field}
      PROVE  /\ FilesAsked(more, other, Len(more)) = FilesAsked(opts, other, Len(opts))
             /\ ItemsAsked(more, other, Len(more)) = ItemsAsked(opts, other, Len(opts))
  BY <1>1, AskedGrow
<1> QED
  BY <1>1, <1>2, AskedGrow

LEMMA CollectionsFile ==
    ASSUME NEW opts, NEW more, NEW opt, Longer(opts, more, opt), OfSection(opt),
           NEW field \in ListFields, opt.o \in FileOptions[field],
           NEW ls, NEW new, NEW p, NEW q, CollectionsBuilt(ls, opts, p, Len(opts)),
           ListsLeft(ls, new, p),
           NEW id \in DOMAIN new, new[id].kind = Kind(field), new[id].file = opt.a,
           HasFile(new[id]), q[field] = Once(p[field], id),
           \A f \in ListFields \ {field} : q[f] = p[f]
    PROVE  \A other \in ListFields : ListsBuilt(new, more, q[other], other, Len(more))
<1>1. \A other \in ListFields :
        /\ ListsBuilt(ls, opts, p[other], other, Len(opts))
        /\ \A i \in ToSet(p[other]) : i \in DOMAIN new /\ new[i] = ls[i]
  BY DEF CollectionsBuilt, ListsLeft
<1>2. /\ FilesAsked(more, field, Len(more)) = FilesAsked(opts, field, Len(opts)) \cup {opt.a}
      /\ ItemsAsked(more, field, Len(more)) = ItemsAsked(opts, field, Len(opts))
      /\ \A other \in ListFields \ {field} :
           /\ FilesAsked(more, other, Len(more)) = FilesAsked(opts, other, Len(opts))
           /\ ItemsAsked(more, other, Len(more)) = ItemsAsked(opts, other, Len(opts))
  BY AskedFile
<1>3. ListsBuilt(new, more, q[field], field, Len(more))
  BY <1>1, <1>2, ListsWithFile
<1>4. ASSUME NEW other \in ListFields \ {field}
      PROVE  ListsBuilt(new, more, q[other], other, Len(more))
  BY <1>1, <1>2, ListsSame
<1> QED
  BY <1>3, <1>4

ItemsMade(opts, more, opt, ls, new, p, q, field) ==
    (/\ ListsBuilt(ls, opts, p[field], field, Len(opts))
     /\ FilesAsked(more, field, Len(more)) = FilesAsked(opts, field, Len(opts))
     /\ ItemsAsked(more, field, Len(more)) = ItemsAsked(opts, field, Len(opts)) \cup ToSet(opt.a))
      => ListsBuilt(new, more, q[field], field, Len(more))

LEMMA CollectionsItems ==
    ASSUME NEW opts, NEW more, NEW opt, Longer(opts, more, opt), OfSection(opt),
           NEW field \in ListFields, opt.o = ItemOption[field],
           NEW ls, NEW new, NEW p, NEW q, CollectionsBuilt(ls, opts, p, Len(opts)),
           \A f \in ListFields \ {field} : q[f] = p[f],
           \A other \in ListFields \ {field} : \A i \in ToSet(p[other]) :
               i \in DOMAIN new /\ new[i] = ls[i],
           ItemsMade(opts, more, opt, ls, new, p, q, field)
    PROVE  \A other \in ListFields : ListsBuilt(new, more, q[other], other, Len(more))
<1>1. \A other \in ListFields : ListsBuilt(ls, opts, p[other], other, Len(opts))
  BY DEF CollectionsBuilt
<1>2. /\ FilesAsked(more, field, Len(more)) = FilesAsked(opts, field, Len(opts))
      /\ ItemsAsked(more, field, Len(more)) = ItemsAsked(opts, field, Len(opts)) \cup ToSet(opt.a)
      /\ \A other \in ListFields \ {field} :
           /\ FilesAsked(more, other, Len(more)) = FilesAsked(opts, other, Len(opts))
           /\ ItemsAsked(more, other, Len(more)) = ItemsAsked(opts, other, Len(opts))
  BY AskedItem
<1>3. ListsBuilt(new, more, q[field], field, Len(more))
  BY <1>1, <1>2 DEF ItemsMade
<1>4. ASSUME NEW other \in ListFields \ {field}
      PROVE  ListsBuilt(new, more, q[other], other, Len(more))
  BY <1>1, <1>2, ListsSame
<1> QED
  BY <1>3, <1>4

LEMMA AutoKeeps ==
    ASSUME NEW opts, NEW more, NEW opt, Longer(opts, more, opt), OfSection(opt),
           opt.o # "hostlist_auto", NEW ls, NEW new, NEW p, NEW q,
           AutoBuilt(ls, opts, p, Len(opts)), q.auto = p.auto,
           p.auto # 0 => p.auto \in DOMAIN new /\ new[p.auto] = ls[p.auto]
    PROVE  AutoBuilt(new, more, q, Len(more))
<1>1. SameArguments(opts, Len(opts), more, Len(more), {"hostlist_auto"})
  <2>1. opt.o \notin {"hostlist_auto"}
    OBVIOUS
  <2> QED
    BY <2>1, SectionSame
<1> QED
  BY <1>1, AutoSame DEF SameArguments

LEMMA AutoSaid ==
    ASSUME NEW opts, NEW more, NEW opt, Longer(opts, more, opt), OfSection(opt)
    PROVE  opt.o = "hostlist_auto" => Arguments(more, "hostlist_auto", Len(more))
             = Arguments(opts, "hostlist_auto", Len(opts)) \cup {opt.a}
<1>1. PICK name : name = "hostlist_auto"
  OBVIOUS
<1>2. Arguments(more, name, Len(more))
        = Arguments(opts, name, Len(opts)) \cup (IF opt.o = name THEN {opt.a} ELSE {})
  BY ArgumentsGrow
<1> QED
  BY <1>1, <1>2

LEMMA AutoGiven ==
    ASSUME NEW opts, NEW more, NEW opt, Longer(opts, more, opt), OfSection(opt),
           opt.o = "hostlist_auto", NEW ls, NEW new, NEW p, NEW q,
           AutoBuilt(ls, opts, p, Len(opts)), p.auto = 0, q.auto \in DOMAIN new, q.auto # 0,
           new[q.auto].kind = "host", new[q.auto].file = opt.a, HasFile(new[q.auto])
    PROVE  AutoBuilt(new, more, q, Len(more))
<1>1. Arguments(more, "hostlist_auto", Len(more)) = {opt.a}
  <2>1. Arguments(opts, "hostlist_auto", Len(opts)) = {}
    BY DEF AutoBuilt
  <2> QED
    BY <2>1, AutoSaid
<1> QED
  BY <1>1 DEF AutoBuilt, HasFile

LEMMA FieldsOfLists ==
    \A field \in ListFields :
      /\ field \in ProfileFields /\ field # "auto"
      /\ FileOptions[field] \cup {ItemOption[field]} \subseteq ListOptions
      /\ "hostlist_auto" # ItemOption[field]
      /\ "hostlist_auto" \in FileOptions[field] => Kind(field) = "host"
<1>1. /\ FileOptions.hl = {"hostlist", "hostlist_auto"} /\ FileOptions.hlx = {"hostlist_exclude"}
      /\ FileOptions.ips = {"ipset"} /\ FileOptions.ipsx = {"ipset_exclude"}
      /\ ItemOption.hl = "hostlist_domains" /\ ItemOption.hlx = "hostlist_exclude_domains"
      /\ ItemOption.ips = "ipset_ip" /\ ItemOption.ipsx = "ipset_exclude_ip"
  BY DEF FileOptions, ItemOption
<1>2. ListFields = {"hl", "hlx", "ips", "ipsx"} /\ Kind("hl") = "host"
  BY KindsAre DEF Kind
<1>3. \A field \in ListFields : field \in ProfileFields /\ field # "auto"
  BY <1>2, ProfileFieldsAre
<1>4. \A field \in ListFields : FileOptions[field] \cup {ItemOption[field]} \subseteq ListOptions
  BY KindsAre
<1>5. \A field \in ListFields :
        /\ "hostlist_auto" # ItemOption[field]
        /\ "hostlist_auto" \in FileOptions[field] => Kind(field) = "host"
  BY <1>1, <1>2
<1> QED
  BY <1>3, <1>4, <1>5

LEMMA BuiltFile ==
    ASSUME NEW opts, NEW more, NEW opt, Longer(opts, more, opt), NEW field \in ListFields,
           opt.o \in FileOptions[field],
           NEW ls, NEW new, NEW p, NEW q, Built(ls, opts, p, Len(opts)), ListsLeft(ls, new, p),
           NEW id \in DOMAIN new, new[id].kind = Kind(field), new[id].file = opt.a,
           HasFile(new[id]), id # 0,
           DOMAIN q = ProfileFields, q[field] = Once(p[field], id),
           opt.o = "hostlist_auto" => p.auto = 0,
           q.auto = IF opt.o = "hostlist_auto" THEN id ELSE p.auto,
           \A f \in ProfileFields \ {field, "auto"} : q[f] = p[f]
    PROVE  Built(new, more, q, Len(more))
<1>1. opt.o \in ListOptions
  BY FieldsOfLists
<1>2. RestBuilt(more, q, Len(more)) /\ FiltersBuilt(more, q, Len(more)) /\ OfSection(opt)
  BY <1>1, ListOptionIs DEF Built
<1>3. CollectionsBuilt(ls, opts, p, Len(opts)) /\ AutoBuilt(ls, opts, p, Len(opts))
  BY DEF Built, CollectionsBuilt
<1>4. \A f \in ListFields \ {field} : q[f] = p[f]
  BY FieldsOfLists
<1>5. \A other \in ListFields : ListsBuilt(new, more, q[other], other, Len(more))
  BY <1>2, <1>3, <1>4, CollectionsFile
<1>6. AutoBuilt(new, more, q, Len(more))
  <2>1. CASE opt.o = "hostlist_auto"
    <3>1. Kind(field) = "host"
      BY <2>1, FieldsOfLists
    <3> QED
      BY <1>2, <1>3, <2>1, <3>1, AutoGiven
  <2>2. CASE opt.o # "hostlist_auto"
    BY <1>2, <1>3, <2>2, AutoKeeps DEF ListsLeft
  <2> QED
    BY <2>1, <2>2
<1> QED
  BY <1>2, <1>5, <1>6 DEF Built, CollectionsBuilt

LEMMA BuiltItems ==
    ASSUME NEW opts, NEW more, NEW opt, Longer(opts, more, opt), NEW field \in ListFields,
           opt.o = ItemOption[field],
           NEW ls, NEW new, NEW p, NEW q, Built(ls, opts, p, Len(opts)),
           DOMAIN q = ProfileFields, \A f \in ProfileFields \ {field} : q[f] = p[f],
           p.auto # 0 => p.auto \in DOMAIN new /\ new[p.auto] = ls[p.auto],
           \A other \in ListFields \ {field} : \A i \in ToSet(p[other]) :
               i \in DOMAIN new /\ new[i] = ls[i],
           ItemsMade(opts, more, opt, ls, new, p, q, field)
    PROVE  Built(new, more, q, Len(more))
<1>1. opt.o \in ListOptions /\ opt.o # "hostlist_auto"
  BY FieldsOfLists
<1>2. RestBuilt(more, q, Len(more)) /\ FiltersBuilt(more, q, Len(more)) /\ OfSection(opt)
  <2>1. \A f \in ProfileFields \ (ListFields \cup {"auto"}) : q[f] = p[f]
    OBVIOUS
  <2> QED
    BY <1>1, <2>1, ListOptionIs DEF Built
<1>3. CollectionsBuilt(ls, opts, p, Len(opts)) /\ AutoBuilt(ls, opts, p, Len(opts))
  BY DEF Built, CollectionsBuilt
<1>4. \A f \in ListFields \ {field} : q[f] = p[f]
  BY FieldsOfLists
<1>5. \A other \in ListFields : ListsBuilt(new, more, q[other], other, Len(more))
  BY <1>2, <1>3, <1>4, CollectionsItems
<1>6. AutoBuilt(new, more, q, Len(more))
  <2>1. q.auto = p.auto
    BY FieldsOfLists, ProfileFieldsAre
  <2> QED
    BY <1>1, <1>2, <1>3, <2>1, AutoKeeps
<1> QED
  BY <1>2, <1>5, <1>6 DEF Built, CollectionsBuilt

-----------------------------------------------------------------------------
\* Options: the sections that are closed

LEMMA EndsAre ==
    ASSUME NEW opts, Len(opts) \in Nat
    PROVE  /\ ClosedEnds(opts) \in SUBSET (0..(Len(opts) - 1)) /\ ClosedEnds(opts) \in SUBSET (0..Len(opts))
           /\ TemplateEnds(opts) \in SUBSET (0..(Len(opts) - 1))
           /\ IsFiniteSet(ClosedEnds(opts)) /\ Cardinality(ClosedEnds(opts)) \in Nat
           /\ \A e \in ClosedEnds(opts) : Rank(ClosedEnds(opts), e) \in 1..Cardinality(ClosedEnds(opts))
<1>1. ClosedEnds(opts) \in SUBSET (0..(Len(opts) - 1)) /\ ClosedEnds(opts) \in SUBSET (0..Len(opts))
  BY DEF ClosedEnds
<1>2. TemplateEnds(opts) \in SUBSET (0..(Len(opts) - 1))
  BY DEF TemplateEnds
<1> QED
  BY <1>1, <1>2, RankIs

LEMMA EndsGrow ==
    ASSUME NEW opts, NEW more, NEW opt, Longer(opts, more, opt)
    PROVE  /\ opt.o = "new" /\ IsProfile(opts, Len(opts)) =>
                ClosedEnds(more) = ClosedEnds(opts) \cup {Len(opts)}
           /\ ~(opt.o = "new" /\ IsProfile(opts, Len(opts))) => ClosedEnds(more) = ClosedEnds(opts)
           /\ opt.o = "new" /\ IsTemplate(opts, Len(opts)) =>
                TemplateEnds(more) = TemplateEnds(opts) \cup {Len(opts)}
           /\ ~(opt.o = "new" /\ IsTemplate(opts, Len(opts))) => TemplateEnds(more) = TemplateEnds(opts)
<1> DEFINE n == Len(opts)
<1>1. n \in Nat /\ Len(more) = n + 1 /\ 0..(Len(more) - 1) = 0..n /\ 0..n = 0..(n - 1) \cup {n}
  BY DEF Longer
<1>2. \A e \in 0..n : IsTemplate(more, e) = IsTemplate(opts, e) /\ IsProfile(more, e) = IsProfile(opts, e)
  BY OwnKept
<1>3. (\A e \in 0..(n - 1) : more[e + 1] = opts[e + 1]) /\ more[n + 1] = opt
  <2>1. \A e \in 0..(n - 1) : e + 1 \in 1..n
    BY <1>1
  <2> QED
    BY <2>1 DEF Longer
<1>4. ClosedEnds(more) = {e \in 0..n : more[e + 1].o = "new" /\ IsProfile(opts, e)}
  BY <1>1, <1>2 DEF ClosedEnds
<1>5. TemplateEnds(more) = {e \in 0..n : more[e + 1].o = "new" /\ IsTemplate(opts, e)}
  BY <1>1, <1>2 DEF TemplateEnds
<1> QED
  BY <1>1, <1>3, <1>4, <1>5 DEF ClosedEnds, TemplateEnds

LEMMA FrontIs ==
    ASSUME NEW s, s \in Seq(ToSet(s)), Len(s) # 0
    PROVE  ToSet(Front(s)) = {s[i] : i \in 1..(Len(s) - 1)}
<1> DEFINE n == Len(s)
<1>1. n \in Nat \ {0} /\ DOMAIN s = 1..n
  OBVIOUS
<1>2. DOMAIN Front(s) = 1..(n - 1) /\ \A i \in 1..(n - 1) : Front(s)[i] = s[i]
  BY <1>1 DEF Front
<1> HIDE DEF n
<1> QED
  BY <1>2 DEF ToSet, n

\* The lists of the closed profiles and templates stay as they are.
ClosedLeft ==
    /\ \A i \in 1..(Len(profiles) - 1) : ListsLeft(lists, lists', profiles[i])
    /\ \A t \in Importable : ListsLeft(lists, lists', t)

\* Of the profiles only the one that is written changes.
OnlyLast ==
    /\ profiles' \in Seq(ToSet(profiles')) /\ Len(profiles') = Len(profiles)
    /\ \A i \in 1..(Len(profiles) - 1) : profiles'[i] = profiles[i]
Rewritten == OnlyLast /\ count' = count /\ templates' = templates

LEMMA ProfilesStay ==
    ASSUME NEW opts, NEW more, NEW opt, Longer(opts, more, opt), ClosedEnds(more) = ClosedEnds(opts),
           ProfilesBuilt(opts), OnlyLast, count' = count, ClosedLeft
    PROVE  ProfilesBuilt(more)'
<1>1. Len(opts) \in Nat
  BY DEF Longer
<1>2. Len(profiles) = Cardinality(ClosedEnds(opts)) + 1
  BY DEF ProfilesBuilt
<1>3. ASSUME NEW e \in ClosedEnds(opts)
      PROVE  \A i \in {Rank(ClosedEnds(opts), e)} :
               Built(lists', more, profiles'[i], e) /\ profiles'[i].n = i
  <2>1. PICK i : i = Rank(ClosedEnds(opts), e)
    OBVIOUS
  <2>2. i \in 1..(Len(profiles) - 1) /\ e \in 0..Len(opts)
    BY <1>1, <1>2, <2>1, EndsAre
  <2>3. Built(lists, opts, profiles[i], e) /\ profiles[i].n = i /\ profiles'[i] = profiles[i]
    BY <2>1, <2>2 DEF ProfilesBuilt, OnlyLast
  <2>4. Built(lists', more, profiles[i], e)
    BY <2>2, <2>3, BuiltKept DEF ClosedLeft
  <2> QED
    BY <2>1, <2>3, <2>4
<1> QED
  BY <1>3 DEF ProfilesBuilt, OnlyLast

LEMMA TemplatesStay ==
    ASSUME NEW opts, NEW more, NEW opt, Longer(opts, more, opt),
           TemplateEnds(more) = TemplateEnds(opts),
           TemplatesBuilt(opts), templates' = templates, ClosedLeft
    PROVE  TemplatesBuilt(more)'
<1>1. Len(opts) \in Nat
  BY DEF Longer
<1>2. ASSUME NEW e \in TemplateEnds(opts)
      PROVE  /\ NameOf(more, e) = NameOf(opts, e)
             /\ \A t \in Importable : Built(lists, opts, t, e) => Built(lists', more, t, e)
  <2>1. e \in 0..Len(opts)
    BY <1>1, EndsAre
  <2> QED
    BY <2>1, OwnKept, BuiltKept DEF ClosedLeft
<1>3. Importable' = Importable
  BY DEF Importable
<1> QED
  BY <1>2, <1>3 DEF TemplatesBuilt

LEMMA ProfilesAre ==
    ASSUME NEW opts, Len(opts) \in Nat, ProfilesBuilt(opts)
    PROVE  /\ Len(profiles) \in Nat \ {0} /\ DOMAIN profiles = 1..Len(profiles)
           /\ profiles \in Seq(ToSet(profiles)) /\ count = Len(profiles)
           /\ ToSet(Front(profiles)) = {profiles[i] : i \in 1..(Len(profiles) - 1)}
<1>1. Len(profiles) = Cardinality(ClosedEnds(opts)) + 1 /\ profiles \in Seq(ToSet(profiles))
  BY DEF ProfilesBuilt
<1>2. Len(profiles) \in Nat \ {0}
  BY <1>1, EndsAre
<1> QED
  BY <1>1, <1>2, FrontIs DEF ProfilesBuilt

LEMMA WriteLast ==
    ASSUME NEW opts, Len(opts) \in Nat, ProfilesBuilt(opts), NEW q, Write(q)
    PROVE  OnlyLast /\ dp' = q
<1> DEFINE n == Len(profiles)
<1>1. n \in Nat \ {0} /\ DOMAIN profiles = 1..n /\ profiles \in Seq(ToSet(profiles))
  BY ProfilesAre
<1>2. profiles' = [i \in 1..n |-> IF i = n THEN q ELSE profiles[i]]
  BY <1>1 DEF Write
<1>3. DOMAIN profiles' = 1..n /\ \A i \in 1..n : profiles'[i] \in ToSet(profiles')
  BY <1>1, <1>2 DEF ToSet
<1>4. profiles' \in [1..n -> ToSet(profiles')]
  BY <1>2, <1>3
<1>5. profiles' \in Seq(ToSet(profiles')) /\ Len(profiles') = n
  <2> HIDE DEF n
  <2> QED
    BY <1>1, <1>4
<1>6. \A i \in 1..n : profiles'[i] = IF i = n THEN q ELSE profiles[i]
  BY <1>2
<1>7. dp' = q
  <2>1. dp' = profiles'[n] /\ n \in 1..n
    BY <1>1, <1>5 DEF dp
  <2> HIDE DEF n
  <2> QED
    BY <1>6, <2>1
<1>8. \A i \in 1..(n - 1) : profiles'[i] = profiles[i]
  <2> HIDE DEF n
  <2> QED
    BY <1>1, <1>6
<1> QED
  BY <1>5, <1>7, <1>8 DEF OnlyLast

LEMMA WriteIs ==
    ASSUME NEW opts, Len(opts) \in Nat, ProfilesBuilt(opts), NEW q, Write(q),
           count' = count, templates' = templates
    PROVE  Rewritten /\ dp' = q
  BY WriteLast DEF Rewritten

LEMMA UnwrittenIs ==
    ASSUME NEW opts, Len(opts) \in Nat, ProfilesBuilt(opts), profiles' = profiles,
           count' = count, templates' = templates
    PROVE  Rewritten /\ dp' = dp
<1>1. profiles \in Seq(ToSet(profiles))
  BY DEF ProfilesBuilt
<1> QED
  BY <1>1 DEF Rewritten, OnlyLast, dp

\* An option that does not end the section.
LEMMA BuildOn ==
    ASSUME NEW opts, NEW more, NEW opt, Longer(opts, more, opt), opt.o # "new",
           BuildInv(opts), Rewritten, ClosedLeft, existing' \subseteq Files, ListsKept',
           DOMAIN section' = DOMAIN section, DOMAIN section'.anon = ListFields,
           section'.skip <=> (section.skip \/ opt.o = "skip"), section'.skip \in BOOLEAN,
           ~section'.skip => SectionBuilt(more)'
    PROVE  BuildInv(more)'
<1>1. ProfilesBuilt(more)' /\ TemplatesBuilt(more)'
  <2>1. ClosedEnds(more) = ClosedEnds(opts) /\ TemplateEnds(more) = TemplateEnds(opts)
    BY EndsGrow
  <2> QED
    BY <2>1, ProfilesStay, TemplatesStay DEF BuildInv, Rewritten
<1>2. SectionKept(more)'
  <2>1. Own(more, Len(more), {"skip"}) # {}
          <=> (Own(opts, Len(opts), {"skip"}) # {} \/ opt.o = "skip")
    BY OwnGrows
  <2>2. section.skip <=> Own(opts, Len(opts), {"skip"}) # {}
    BY DEF BuildInv, SectionKept
  <2> QED
    BY <2>1, <2>2 DEF SectionKept, BuildInv
<1> QED
  BY <1>1, <1>2 DEF BuildInv

LEMMA LeftWithin ==
    ASSUME NEW opts, Len(opts) \in Nat, BuildInv(opts),
           \A i \in DOMAIN lists : i \in DOMAIN lists' /\ lists'[i] = lists[i]
    PROVE  ClosedLeft
<1>1. ASSUME NEW i \in 1..(Len(profiles) - 1)
      PROVE  ListsLeft(lists, lists', profiles[i])
  <2>1. Cardinality(ClosedEnds(opts)) = Len(profiles) - 1 /\ ClosedEnds(opts) \in SUBSET (0..Len(opts))
    BY EndsAre DEF BuildInv, ProfilesBuilt
  <2>2. PICK e \in ClosedEnds(opts) : Rank(ClosedEnds(opts), e) = i
    BY <2>1, RankOnto
  <2>3. Built(lists, opts, profiles[i], e)
    BY <2>2 DEF BuildInv, ProfilesBuilt
  <2> QED
    BY <2>3, ListsOfBuilt DEF Built
<1>2. ASSUME NEW t \in Importable
      PROVE  ListsLeft(lists, lists', t)
  <2>1. PICK e \in TemplateEnds(opts) : t.name = NameOf(opts, e)
    BY DEF BuildInv, TemplatesBuilt, Importable
  <2>2. Built(lists, opts, t, e)
    BY <1>2, <2>1 DEF BuildInv, TemplatesBuilt
  <2> QED
    BY <2>2, ListsOfBuilt DEF Built
<1> QED
  BY <1>1, <1>2 DEF ClosedLeft

-----------------------------------------------------------------------------
\* Options: the section that is being written

SettingsBuilt(opts) ==
    /\ section.template = (Own(opts, Len(opts), {"template"}) # {})
    /\ section.payload = Mask(Setting(opts, Len(opts), "payload", <<"all">>))
    /\ section.in = PosRange(Setting(opts, Len(opts), "in-range", InDefault))
    /\ section.out = PosRange(Setting(opts, Len(opts), "out-range", OutDefault))

LEMMA SettingsOn ==
    ASSUME NEW opts, NEW more, NEW opt, Longer(opts, more, opt), opt.o # "new",
           SettingsBuilt(opts),
           section'.template = (section.template \/ opt.o = "template"),
           opt.o = "payload" => section'.payload = Mask(opt.a),
           opt.o # "payload" => section'.payload = section.payload,
           opt.o = "in-range" => section'.in = PosRange(opt.a),
           opt.o # "in-range" => section'.in = section.in,
           opt.o = "out-range" => section'.out = PosRange(opt.a),
           opt.o # "out-range" => section'.out = section.out
    PROVE  SettingsBuilt(more)'
<1>1. section'.template = (Own(more, Len(more), {"template"}) # {})
  <2>1. Own(more, Len(more), {"template"}) # {}
          <=> (Own(opts, Len(opts), {"template"}) # {} \/ opt.o = "template")
    BY OwnGrows
  <2> QED
    BY <2>1 DEF SettingsBuilt
<1>2. section'.payload = Mask(Setting(more, Len(more), "payload", <<"all">>))
  <2>1. Setting(more, Len(more), "payload", <<"all">>) =
          IF opt.o = "payload" THEN opt.a ELSE Setting(opts, Len(opts), "payload", <<"all">>)
    BY SettingGrows
  <2> QED
    BY <2>1 DEF SettingsBuilt
<1>3. section'.in = PosRange(Setting(more, Len(more), "in-range", InDefault))
  <2>1. Setting(more, Len(more), "in-range", InDefault) =
          IF opt.o = "in-range" THEN opt.a ELSE Setting(opts, Len(opts), "in-range", InDefault)
    BY SettingGrows
  <2> QED
    BY <2>1 DEF SettingsBuilt
<1>4. section'.out = PosRange(Setting(more, Len(more), "out-range", OutDefault))
  <2>1. Setting(more, Len(more), "out-range", OutDefault) =
          IF opt.o = "out-range" THEN opt.a ELSE Setting(opts, Len(opts), "out-range", OutDefault)
    BY SettingGrows
  <2> QED
    BY <2>1 DEF SettingsBuilt
<1> QED
  BY <1>1, <1>2, <1>3, <1>4 DEF SettingsBuilt

LEMMA ClosedSame ==
    ASSUME NEW opts, Len(opts) \in Nat, ProfilesBuilt(opts), Rewritten
    PROVE  ToSet(Front(profiles')) = ToSet(Front(profiles)) /\ Importable' = Importable
<1>1. ToSet(Front(profiles)) = {profiles[i] : i \in 1..(Len(profiles) - 1)} /\ Len(profiles) # 0
  BY ProfilesAre
<1>2. ToSet(Front(profiles'))
        = {profiles'[i] : i \in 1..(Len(profiles') - 1)}
  BY <1>1, FrontIs DEF Rewritten, OnlyLast
<1>3. ToSet(Front(profiles')) = ToSet(Front(profiles))
  BY <1>1, <1>2 DEF Rewritten, OnlyLast
<1>4. Importable' = Importable
  BY DEF Rewritten, OnlyLast, Importable
<1> QED
  BY <1>3, <1>4

LEMMA AnonIs ==
    ASSUME \A f \in ListFields : \A a \in {section'.anon[f]} : a # 0 =>
             /\ a \in DOMAIN lists' /\ ~HasFile(lists'[a]) /\ a \in ToSet(dp'[f])
             /\ \A other \in ListFields \ {f} : a \notin ToSet(dp'[other])
             /\ \A p \in ToSet(Front(profiles')) \cup Importable' : \A g \in ListFields :
                  a \notin ToSet(p[g])
    PROVE  AnonBuilt'
  BY DEF AnonBuilt, HasFile

LEMMA AnonSays ==
    ASSUME AnonBuilt, NEW f \in ListFields, NEW a, a = section.anon[f], a # 0
    PROVE  /\ a \in DOMAIN lists /\ ~HasFile(lists[a]) /\ a \in ToSet(dp[f])
           /\ \A other \in ListFields \ {f} : a \notin ToSet(dp[other])
           /\ \A p \in ToSet(Front(profiles)) \cup Importable : \A g \in ListFields :
                a \notin ToSet(p[g])
<1>1. PICK anon : anon = section.anon
  OBVIOUS
<1>2. \A field \in ListFields : anon[field] # 0 =>
        LET id == anon[field] IN
        /\ id \in DOMAIN lists /\ lists[id].file = "" /\ id \in ToSet(dp[field])
        /\ \A other \in ListFields \ {field} : id \notin ToSet(dp[other])
        /\ \A p \in ToSet(Front(profiles)) \cup Importable : \A g \in ListFields :
             id \notin ToSet(p[g])
  BY <1>1 DEF AnonBuilt
<1> QED
  BY <1>1, <1>2 DEF HasFile

LEMMA AnonOn ==
    ASSUME NEW opts, Len(opts) \in Nat, BuildInv(opts), AnonBuilt, Rewritten,
           section'.anon = section.anon,
           \A i \in DOMAIN lists : i \in DOMAIN lists' /\ lists'[i] = lists[i],
           \A f \in ListFields :
             /\ ToSet(dp[f]) \subseteq ToSet(dp'[f])
             /\ \A id \in ToSet(dp'[f]) : \/ id \in ToSet(dp[f])
                                         \/ HasFile(lists'[id])
                                         \/ \E t \in Importable : id \in ToSet(t[f])
    PROVE  AnonBuilt'
<1>1. ToSet(Front(profiles))' = ToSet(Front(profiles)) /\ Importable' = Importable
  BY ClosedSame DEF BuildInv
<1>2. ASSUME NEW field \in ListFields, section.anon[field] # 0
      PROVE  LET id == section'.anon[field] IN
             /\ id \in DOMAIN lists' /\ lists'[id].file = "" /\ id \in ToSet(dp'[field])
             /\ \A other \in ListFields \ {field} : id \notin ToSet(dp'[other])
             /\ \A p \in ToSet(Front(profiles')) \cup Importable' : \A f \in ListFields :
                  id \notin ToSet(p[f])
  <2>1. PICK id : id = section.anon[field]
    OBVIOUS
  <2>2. /\ id \in DOMAIN lists /\ lists[id].file = "" /\ id \in ToSet(dp[field])
        /\ \A other \in ListFields \ {field} : id \notin ToSet(dp[other])
        /\ \A p \in ToSet(Front(profiles)) \cup Importable : \A f \in ListFields :
             id \notin ToSet(p[f])
    BY <1>2, <2>1 DEF AnonBuilt
  <2>3. id \in DOMAIN lists' /\ lists'[id].file = "" /\ ~HasFile(lists'[id])
    BY <2>2 DEF HasFile
  <2>4. /\ id \in ToSet(dp'[field])
        /\ \A other \in ListFields \ {field} : id \notin ToSet(dp'[other])
    BY <2>2, <2>3
  <2> QED
    BY <1>1, <2>1, <2>2, <2>3, <2>4
<1>3. \A field \in ListFields : section'.anon[field] # 0 => section.anon[field] # 0
  OBVIOUS
<1> QED
  BY <1>2, <1>3 DEF AnonBuilt

\* An option of a section, and what it may do to the section.
SectionMoved(opt) ==
    /\ DOMAIN section' = DOMAIN section /\ section'.anon = section.anon
    /\ section'.skip \in BOOLEAN /\ (section'.skip <=> (section.skip \/ opt.o = "skip"))
    /\ ~section.skip =>
         /\ section'.template \in BOOLEAN
         /\ section'.template <=> (section.template \/ opt.o = "template")
         /\ opt.o = "payload" => section'.payload = Mask(opt.a)
         /\ opt.o # "payload" => section'.payload = section.payload
         /\ opt.o = "in-range" => section'.in = PosRange(opt.a)
         /\ opt.o # "in-range" => section'.in = section.in
         /\ opt.o = "out-range" => section'.out = PosRange(opt.a)
         /\ opt.o # "out-range" => section'.out = section.out

ListsOn ==
    \A f \in ListFields :
      /\ ToSet(dp[f]) \subseteq ToSet(dp'[f])
      /\ \A id \in ToSet(dp'[f]) : \/ id \in ToSet(dp[f])
                                  \/ HasFile(lists'[id])
                                  \/ \E t \in Importable : id \in ToSet(t[f])

LEMMA WrittenOn ==
    ASSUME NEW opts, NEW more, NEW opt, Longer(opts, more, opt), opt.o # "new",
           BuildInv(opts), Rewritten, existing' \subseteq Files, ListsKept', SectionMoved(opt),
           \A i \in DOMAIN lists : i \in DOMAIN lists' /\ lists'[i] = lists[i],
           ~section'.skip /\ SectionBuilt(opts) =>
             /\ dp'.name = NameOf(more, Len(more)) /\ dp'.n = dp.n
             /\ Built(lists', more, dp', Len(more)) /\ ListsOn
    PROVE  BuildInv(more)'
<1>1. Len(opts) \in Nat
  BY DEF Longer
<1>2. ClosedLeft
  BY <1>1, LeftWithin
<1>3. DOMAIN section'.anon = ListFields /\ section'.skip \in BOOLEAN
      /\ (section'.skip <=> (section.skip \/ opt.o = "skip"))
  BY DEF BuildInv, SectionKept, SectionMoved
<1>4. ASSUME ~section'.skip
      PROVE  SectionBuilt(more)'
  <2>1. SectionBuilt(opts) /\ ~section.skip
    BY <1>3, <1>4 DEF BuildInv
  <2>2. SettingsBuilt(more)'
    <3>1. SettingsBuilt(opts)
      BY <2>1 DEF SectionBuilt, SettingsBuilt
    <3>2. section'.template = (section.template \/ opt.o = "template")
      BY <2>1 DEF SectionMoved
    <3> QED
      BY <2>1, <3>1, <3>2, SettingsOn DEF SectionMoved
  <2>3. AnonBuilt'
    <3>1. AnonBuilt /\ section'.anon = section.anon
      BY <2>1 DEF SectionBuilt, SectionMoved
    <3> QED
      BY <1>1, <1>4, <2>1, <3>1, AnonOn DEF ListsOn
  <2>4. dp'.n = Len(profiles')
    BY <1>4, <2>1 DEF SectionBuilt, Rewritten, OnlyLast
  <2> QED
    BY <1>4, <2>1, <2>2, <2>3, <2>4 DEF SectionBuilt, SettingsBuilt
<1> QED
  BY <1>2, <1>3, <1>4, BuildOn DEF SectionMoved

\* What leaves the collections of the profile leaves them built.
LEMMA UnmovedOn ==
    ASSUME NEW opts, NEW more, NEW opt, Longer(opts, more, opt),
           opt.o \notin {"new", "import", "lua-desync", "filter-l3", "filter-l7"}
                          \cup FourFilters \cup ListOptions,
           BuildInv(opts), Rewritten, UNCHANGED <<existing, lists>>, SectionMoved(opt),
           SectionBuilt(opts) =>
             /\ dp'.name = NameOf(more, Len(more)) /\ dp'.n = dp.n /\ DOMAIN dp' = ProfileFields
             /\ \A f \in ProfileFields \ {"n", "name", "cookie", "fails", "failsSet"} :
                  dp'[f] = dp[f]
    PROVE  BuildInv(more)'
<1>1. ASSUME SectionBuilt(opts)
      PROVE  Built(lists', more, dp', Len(more)) /\ ListsOn
  <2>1. Built(lists, opts, dp, Len(opts)) /\ ListsLeft(lists, lists, dp)
    BY <1>1, ListsOfBuilt DEF SectionBuilt, Built
  <2>2. Built(lists, more, dp', Len(more))
    BY <1>1, <2>1, BuiltUnmoved
  <2>3. \A f \in ListFields : dp'[f] = dp[f]
    BY <1>1, ProfileFieldsAre, KindsAre
  <2> QED
    BY <2>2, <2>3 DEF ListsOn
<1>2. existing' \subseteq Files /\ ListsKept'
  BY DEF BuildInv, ListsKept
<1>3. opt.o # "new"
  OBVIOUS
<1> QED
  BY <1>1, <1>2, <1>3, WrittenOn

LEMMA SectionIs ==
    ASSUME NEW opts, SectionKept(opts)
    PROVE  /\ DOMAIN section = {"skip", "template", "anon", "payload", "in", "out"}
           /\ section.skip \in BOOLEAN
           /\ SectionBuilt(opts) => section.template \in BOOLEAN
  BY DEF SectionKept, NewSection, SectionBuilt

LEMMA SectionSteady ==
    ASSUME NEW opts, BuildInv(opts), section' = section, NEW opt,
           opt.o \notin {"skip", "template", "payload", "in-range", "out-range"}
    PROVE  SectionMoved(opt)
<1>1. section.skip \in BOOLEAN /\ (~section.skip => section.template \in BOOLEAN)
  BY SectionIs DEF BuildInv
<1> QED
  BY <1>1 DEF SectionMoved

-----------------------------------------------------------------------------
\* Options: one step

LEMMA SettingStep ==
    ASSUME NEW opts, NEW more, NEW opt, Longer(opts, more, opt), BuildInv(opts), status' = "options",
           Skip(opt) \/ Payload(opt) \/ OutRange(opt) \/ InRange(opt)
    PROVE  BuildInv(more)'
<1>1. /\ opt.o \in {"skip", "payload", "out-range", "in-range"}
      /\ UNCHANGED <<profiles, templates, count, lists, existing>>
  BY DEF Skip, Payload, OutRange, InRange, SectionIf, Refuse, LeaveWith
<1>2. /\ opt.o = "skip" => section' = [section EXCEPT !.skip = TRUE]
      /\ opt.o = "payload" => section' = [section EXCEPT !.payload = Mask(opt.a)]
      /\ opt.o = "out-range" => section' = [section EXCEPT !.out = PosRange(opt.a)]
      /\ opt.o = "in-range" => section' = [section EXCEPT !.in = PosRange(opt.a)]
  BY DEF Skip, Payload, OutRange, InRange, SectionIf, Refuse, LeaveWith
<1>3. /\ DOMAIN section = {"skip", "template", "anon", "payload", "in", "out"}
      /\ section.skip \in BOOLEAN /\ (~section.skip => section.template \in BOOLEAN)
  BY SectionIs DEF BuildInv
<1>4. SectionMoved(opt)
  <2>1. CASE opt.o = "skip"
    BY <1>2, <1>3, <2>1 DEF SectionMoved
  <2>2. CASE opt.o = "payload"
    BY <1>2, <1>3, <2>2 DEF SectionMoved
  <2>3. CASE opt.o = "out-range"
    BY <1>2, <1>3, <2>3 DEF SectionMoved
  <2>4. CASE opt.o = "in-range"
    BY <1>2, <1>3, <2>4 DEF SectionMoved
  <2> QED
    BY <1>1, <2>1, <2>2, <2>3, <2>4
<1>5. Rewritten /\ dp' = dp
  BY <1>1, UnwrittenIs DEF BuildInv, Longer
<1>6. SectionBuilt(opts) => dp.name = NameOf(more, Len(more)) /\ DOMAIN dp = ProfileFields
  <2>1. NameOf(more, Len(more)) = NameOf(opts, Len(opts))
    BY <1>1, NameGrows
  <2> QED
    BY <2>1 DEF SectionBuilt, Built
<1>7. opt.o \notin {"new", "import", "lua-desync", "filter-l3", "filter-l7"}
                     \cup FourFilters \cup ListOptions
  BY <1>1 DEF FourFilters, ListOptions
<1> QED
  BY <1>1, <1>4, <1>5, <1>6, <1>7, UnmovedOn

\* The options of the program.
LEMMA GlobalStep ==
    ASSUME NEW opts, NEW more, NEW opt, Longer(opts, more, opt), BuildInv(opts), status' = "options",
           \/ Server(opt) \/ Intercept(opt) \/ DryRun(opt) \/ Blob(opt)
           \/ Unknown(opt) \/ Version(opt) \/ WfOption(opt)
    PROVE  BuildInv(more)'
<1>1. /\ opt.o \in {"server", "intercept", "dry-run", "blob"} \cup DOMAIN NoWf \cup {"wf-l3"}
      /\ UNCHANGED <<profiles, templates, count, section, lists, existing>>
  BY DEF Server, Intercept, DryRun, Blob, Unknown, Version, WfOption, GlobalIf, Refuse, LeaveWith,
         profileVars, optionVars
<1>2. opt.o \notin {"new", "import", "lua-desync", "filter-l3", "filter-l7", "skip", "template",
                    "payload", "in-range", "out-range", "name"} \cup FourFilters \cup ListOptions
  BY <1>1 DEF FourFilters, ListOptions, NoWf
<1>3. SectionMoved(opt)
  BY <1>1, <1>2, SectionSteady
<1>4. Rewritten /\ dp' = dp
  BY <1>1, UnwrittenIs DEF BuildInv, Longer
<1>5. SectionBuilt(opts) => dp.name = NameOf(more, Len(more)) /\ DOMAIN dp = ProfileFields
  <2>1. NameOf(more, Len(more)) = NameOf(opts, Len(opts))
    BY <1>2, NameGrows
  <2> QED
    BY <2>1 DEF SectionBuilt, Built
<1> QED
  BY <1>1, <1>2, <1>3, <1>4, <1>5, UnmovedOn

LEMMA NameStep ==
    ASSUME NEW opts, NEW more, NEW opt, Longer(opts, more, opt), BuildInv(opts), status' = "options",
           Name(opt)
    PROVE  BuildInv(more)'
<1>1. /\ opt.o \in {"template", "name"} /\ UNCHANGED <<templates, count, lists, existing>>
      /\ section' = [section EXCEPT !.template = @ \/ opt.o = "template"]
      /\ Write(IF opt.a = "" THEN dp ELSE [dp EXCEPT !.name = opt.a])
  BY DEF Name
<1>2. /\ DOMAIN section = {"skip", "template", "anon", "payload", "in", "out"}
      /\ section.skip \in BOOLEAN /\ (~section.skip => section.template \in BOOLEAN)
  BY SectionIs DEF BuildInv
<1>3. SectionMoved(opt)
  BY <1>1, <1>2 DEF SectionMoved
<1>4. PICK q : /\ q = IF opt.a = "" THEN dp ELSE [dp EXCEPT !.name = opt.a]
               /\ Rewritten /\ dp' = q
  <2>1. PICK q : q = IF opt.a = "" THEN dp ELSE [dp EXCEPT !.name = opt.a]
    OBVIOUS
  <2>2. Write(q) /\ UNCHANGED <<templates, count>>
    BY <1>1, <2>1
  <2>3. Rewritten /\ dp' = q
    BY <2>2, WriteIs DEF BuildInv, Longer
  <2> QED
    BY <2>1, <2>3
<1>5. ASSUME SectionBuilt(opts)
      PROVE  /\ dp'.name = NameOf(more, Len(more)) /\ dp'.n = dp.n /\ DOMAIN dp' = ProfileFields
             /\ \A f \in ProfileFields \ {"n", "name", "cookie", "fails", "failsSet"} :
                  dp'[f] = dp[f]
  <2>1. /\ opt.a # "" => NameOf(more, Len(more)) = opt.a
        /\ opt.a = "" => NameOf(more, Len(more)) = NameOf(opts, Len(opts))
    <3>1. opt.o # "new" /\ opt.o \in {"template", "name"}
      BY <1>1
    <3>2. NameOf(more, Len(more)) = IF opt.o = "new" THEN opt.a
             ELSE IF opt.o \in {"template", "name"} /\ opt.a # "" THEN opt.a
             ELSE NameOf(opts, Len(opts))
      BY NameGrows
    <3> QED
      BY <3>1, <3>2
  <2>2. dp.name = NameOf(opts, Len(opts)) /\ DOMAIN dp = ProfileFields
        /\ {"name", "n"} \subseteq ProfileFields
    BY <1>5, ProfileFieldsAre DEF SectionBuilt, Built
  <2>3. CASE opt.a = ""
    BY <1>4, <2>1, <2>2, <2>3
  <2>4. CASE opt.a # ""
    BY <1>4, <2>1, <2>2, <2>4
  <2> QED
    BY <2>3, <2>4
<1>6. opt.o \notin {"new", "import", "lua-desync", "filter-l3", "filter-l7"}
                     \cup FourFilters \cup ListOptions
  BY <1>1 DEF FourFilters, ListOptions
<1> QED
  BY <1>1, <1>3, <1>4, <1>5, <1>6, UnmovedOn

LEMMA NoteStep ==
    ASSUME NEW opts, NEW more, NEW opt, Longer(opts, more, opt), BuildInv(opts), status' = "options",
           Cookie(opt) \/ FailThreshold(opt)
    PROVE  BuildInv(more)'
<1>1. /\ opt.o \in {"cookie", "hostlist-auto-fail-threshold"}
      /\ UNCHANGED <<templates, count, section, lists, existing>>
      /\ \/ Write([dp EXCEPT !.cookie = opt.a])
         \/ Write([dp EXCEPT !.fails = opt.a, !.failsSet = TRUE])
  BY DEF Cookie, FailThreshold, WriteIf, Refuse, LeaveWith
<1>2. opt.o \notin {"new", "import", "lua-desync", "filter-l3", "filter-l7", "skip", "template",
                    "payload", "in-range", "out-range", "name"} \cup FourFilters \cup ListOptions
  BY <1>1 DEF FourFilters, ListOptions
<1>3. SectionMoved(opt)
  BY <1>1, <1>2, SectionSteady
<1>4. Rewritten /\ \/ dp' = [dp EXCEPT !.cookie = opt.a]
                   \/ dp' = [dp EXCEPT !.fails = opt.a, !.failsSet = TRUE]
  BY <1>1, WriteIs DEF BuildInv, Longer
<1>5. ASSUME SectionBuilt(opts)
      PROVE  /\ dp'.name = NameOf(more, Len(more)) /\ dp'.n = dp.n /\ DOMAIN dp' = ProfileFields
             /\ \A f \in ProfileFields \ {"n", "name", "cookie", "fails", "failsSet"} :
                  dp'[f] = dp[f]
  <2>1. NameOf(more, Len(more)) = NameOf(opts, Len(opts))
    BY <1>2, NameGrows
  <2>2. dp.name = NameOf(opts, Len(opts)) /\ DOMAIN dp = ProfileFields
        /\ {"name", "n", "cookie", "fails"} \subseteq ProfileFields
    BY <1>5, ProfileFieldsAre DEF SectionBuilt, Built
  <2> QED
    BY <1>4, <2>1, <2>2
<1> QED
  BY <1>1, <1>2, <1>3, <1>4, <1>5, UnmovedOn

LEMMA FilterOn ==
    ASSUME NEW opts, NEW more, NEW opt, Longer(opts, more, opt), BuildInv(opts),
           opt.o \in {"filter-l3", "filter-l7", "lua-desync", "import"} \cup FourFilters,
           NEW q, Write(q), UNCHANGED <<templates, count, section, lists, existing>>,
           SectionBuilt(opts) =>
             /\ q.name = dp.name /\ q.n = dp.n /\ Built(lists, more, q, Len(more))
             /\ \A f \in ListFields :
                  /\ ToSet(dp[f]) \subseteq ToSet(q[f])
                  /\ \A id \in ToSet(q[f]) : \/ id \in ToSet(dp[f])
                                            \/ \E t \in Importable : id \in ToSet(t[f])
    PROVE  BuildInv(more)'
<1>1. opt.o \notin {"new", "skip", "template", "payload", "in-range", "out-range", "name"}
  BY DEF FourFilters
<1>2. SectionMoved(opt)
  BY <1>1, SectionSteady
<1>3. Rewritten /\ dp' = q
  BY WriteIs DEF BuildInv, Longer
<1>4. NameOf(more, Len(more)) = NameOf(opts, Len(opts))
  BY <1>1, NameGrows
<1>5. ASSUME SectionBuilt(opts)
      PROVE  /\ dp'.name = NameOf(more, Len(more)) /\ dp'.n = dp.n
             /\ Built(lists', more, dp', Len(more)) /\ ListsOn
  <2>1. dp.name = NameOf(opts, Len(opts))
    BY <1>5 DEF SectionBuilt
  <2> QED
    BY <1>3, <1>4, <1>5, <2>1 DEF ListsOn
<1>6. existing' \subseteq Files /\ ListsKept' /\ opt.o # "new"
  BY <1>1 DEF BuildInv, ListsKept
<1> QED
  BY <1>2, <1>3, <1>5, <1>6, WrittenOn

LEMMA DpIs ==
    ASSUME NEW opts, SectionBuilt(opts)
    PROVE  /\ Built(lists, opts, dp, Len(opts)) /\ ListsLeft(lists, lists, dp)
           /\ DOMAIN dp = ProfileFields /\ dp.n = Len(profiles) /\ dp.name = NameOf(opts, Len(opts))
  BY ListsOfBuilt DEF SectionBuilt, Built

LEMMA L3Step ==
    ASSUME NEW opts, NEW more, NEW opt, Longer(opts, more, opt), BuildInv(opts), status' = "options",
           status = "options", FilterL3(opt)
    PROVE  BuildInv(more)'
<1> DEFINE q == [dp EXCEPT !.l3 = @ \cup ToSet(opt.a), !.l3set = TRUE]
<1>1. opt.o = "filter-l3" /\ Write(q) /\ UNCHANGED <<templates, count, section, lists, existing>>
  BY DEF FilterL3, WriteIf, Refuse, LeaveWith
<1>2. ASSUME SectionBuilt(opts)
      PROVE  /\ q.name = dp.name /\ q.n = dp.n /\ Built(lists, more, q, Len(more))
             /\ \A f \in ListFields : q[f] = dp[f]
  <2>1. /\ DOMAIN q = ProfileFields /\ q.l3 = dp.l3 \cup ToSet(opt.a) /\ q.l3set = TRUE
        /\ \A f \in ProfileFields \ {"l3", "l3set"} : q[f] = dp[f]
    BY <1>2, DpIs, ProfileFieldsAre
  <2>2. q.name = dp.name /\ q.n = dp.n /\ \A f \in ListFields : q[f] = dp[f]
    BY <2>1, ProfileFieldsAre, KindsAre
  <2> HIDE DEF q
  <2> QED
    BY <1>1, <1>2, <2>1, <2>2, DpIs, BuiltL3
<1> HIDE DEF q
<1> QED
  BY <1>1, <1>2, FilterOn

LEMMA L7Step ==
    ASSUME NEW opts, NEW more, NEW opt, Longer(opts, more, opt), BuildInv(opts), status' = "options",
           status = "options", FilterL7(opt)
    PROVE  BuildInv(more)'
<1> DEFINE q == [dp EXCEPT !.l7 = Mask(opt.a), !.l7set = TRUE]
<1>1. opt.o = "filter-l7" /\ Write(q) /\ UNCHANGED <<templates, count, section, lists, existing>>
  BY DEF FilterL7, WriteIf, Refuse, LeaveWith
<1>2. ASSUME SectionBuilt(opts)
      PROVE  /\ q.name = dp.name /\ q.n = dp.n /\ Built(lists, more, q, Len(more))
             /\ \A f \in ListFields : q[f] = dp[f]
  <2>1. /\ DOMAIN q = ProfileFields /\ q.l7 = Mask(opt.a) /\ q.l7set = TRUE
        /\ \A f \in ProfileFields \ {"l7", "l7set"} : q[f] = dp[f]
    BY <1>2, DpIs, ProfileFieldsAre
  <2>2. q.name = dp.name /\ q.n = dp.n /\ \A f \in ListFields : q[f] = dp[f]
    BY <2>1, ProfileFieldsAre, KindsAre
  <2> HIDE DEF q
  <2> QED
    BY <1>1, <1>2, <2>1, <2>2, DpIs, BuiltL7
<1> HIDE DEF q
<1> QED
  BY <1>1, <1>2, FilterOn

LEMMA InstanceStep ==
    ASSUME NEW opts, NEW more, NEW opt, Longer(opts, more, opt), BuildInv(opts), status' = "options",
           status = "options", LuaDesync(opt)
    PROVE  BuildInv(more)'
<1> DEFINE fn == [func |-> opt.a, payload |-> section.payload,
                  in |-> section.in, out |-> section.out]
           q == [dp EXCEPT !.fns = Append(@, fn)]
<1>1. opt.o = "lua-desync" /\ Write(q) /\ UNCHANGED <<templates, count, section, lists, existing>>
  BY DEF LuaDesync, WriteIf, Refuse, LeaveWith
<1>2. ASSUME SectionBuilt(opts)
      PROVE  /\ q.name = dp.name /\ q.n = dp.n /\ Built(lists, more, q, Len(more))
             /\ \A f \in ListFields : q[f] = dp[f]
  <2>1. /\ DOMAIN q = ProfileFields /\ q.fns = Append(dp.fns, fn)
        /\ \A f \in ProfileFields \ {"fns"} : q[f] = dp[f]
    <3> HIDE DEF fn
    <3> QED
      BY <1>2, DpIs, ProfileFieldsAre
  <2>2. fn = Settled(more, Len(more))
    <3>1. /\ Setting(more, Len(more), "payload", <<"all">>)
               = Setting(opts, Len(opts), "payload", <<"all">>)
          /\ Setting(more, Len(more), "in-range", InDefault)
               = Setting(opts, Len(opts), "in-range", InDefault)
          /\ Setting(more, Len(more), "out-range", OutDefault)
               = Setting(opts, Len(opts), "out-range", OutDefault)
      BY <1>1, SettingGrows
    <3>2. more[Len(more)] = opt
      BY DEF Longer
    <3> QED
      BY <1>2, <3>1, <3>2 DEF SectionBuilt, Settled
  <2>3. q.name = dp.name /\ q.n = dp.n /\ \A f \in ListFields : q[f] = dp[f]
    BY <2>1, ProfileFieldsAre, KindsAre
  <2> HIDE DEF q, fn
  <2> QED
    BY <1>1, <1>2, <2>1, <2>2, <2>3, DpIs, BuiltInstance
<1> HIDE DEF q
<1> QED
  BY <1>1, <1>2, FilterOn

LEMMA KindBuilt ==
    ASSUME NEW opts, NEW more, NEW opt, Longer(opts, more, opt), NEW kind \in DOMAIN FilterNames,
           opt.o = FilterNames[kind], opt.a \in Seq(Texts),
           \A i \in DOMAIN opt.a : GoodAs(kind, opt.a[i]),
           NEW q, Built(lists, opts, dp, Len(opts)), ListsLeft(lists, lists, dp),
           DOMAIN q = ProfileFields, q[kind] = Filtered(kind, opt.a) \o dp[kind],
           \A f \in ProfileFields \ {kind} : q[f] = dp[f]
    PROVE  Built(lists, more, q, Len(more))
<1>1. PICK p : p = dp
  OBVIOUS
<1>2. PICK ls : ls = lists
  OBVIOUS
<1>3. Built(ls, opts, p, Len(opts)) /\ ListsLeft(ls, ls, p)
  BY <1>1, <1>2
<1>4. DOMAIN q = ProfileFields /\ q[kind] = Filtered(kind, opt.a) \o p[kind]
  BY <1>1
<1>5. \A f \in ProfileFields \ {kind} : q[f] = p[f]
  BY <1>1
<1>6. Built(ls, more, q, Len(more))
  BY <1>3, <1>4, <1>5, BuiltKind
<1> QED
  BY <1>2, <1>6

KindWritten(kind, s, q) ==
    /\ DOMAIN q = DOMAIN dp /\ \A f \in DOMAIN dp \ {kind} : q[f] = dp[f]
    /\ kind \in DOMAIN dp => q[kind] = s \o dp[kind]

LEMMA KindOn ==
    ASSUME NEW opts, NEW more, NEW opt, Longer(opts, more, opt), BuildInv(opts),
           NEW kind \in DOMAIN FilterNames, opt.o = FilterNames[kind], opt.a \in Seq(Texts),
           \A i \in DOMAIN opt.a : GoodAs(kind, opt.a[i]),
           NEW q, KindWritten(kind, Filtered(kind, opt.a), q), Write(q),
           UNCHANGED <<templates, count, section, lists, existing>>
    PROVE  BuildInv(more)'
<1>1. opt.o \in FourFilters
  BY KindsAre
<1>2. kind \in ProfileFields \ (ListFields \cup {"name", "n"})
  BY ProfileFieldsAre, KindsAre
<1>3. ASSUME SectionBuilt(opts)
      PROVE  /\ q.name = dp.name /\ q.n = dp.n /\ Built(lists, more, q, Len(more))
             /\ \A f \in ListFields : q[f] = dp[f]
  <2>1. /\ DOMAIN q = ProfileFields /\ q[kind] = Filtered(kind, opt.a) \o dp[kind]
        /\ \A f \in ProfileFields \ {kind} : q[f] = dp[f]
    <3>1. DOMAIN dp = ProfileFields
      BY <1>3, DpIs
    <3> QED
      BY <1>2, <3>1 DEF KindWritten
  <2>2. q.name = dp.name /\ q.n = dp.n /\ \A f \in ListFields : q[f] = dp[f]
    <3>1. {"name", "n"} \cup ListFields \subseteq ProfileFields \ {kind}
      BY <1>2, ProfileFieldsAre, KindsAre
    <3> QED
      BY <2>1, <3>1
  <2>3. Built(lists, opts, dp, Len(opts)) /\ ListsLeft(lists, lists, dp)
    BY <1>3, DpIs
  <2>4. Built(lists, more, q, Len(more))
    BY <2>1, <2>3, KindBuilt
  <2> QED
    BY <2>2, <2>4
<1> QED
  BY <1>1, <1>3, FilterOn

LEMMA KindStep ==
    ASSUME NEW opts, NEW more, NEW opt, Longer(opts, more, opt), BuildInv(opts), status' = "options",
           status = "options", Typed(opt),
           FilterTcp(opt) \/ FilterUdp(opt) \/ FilterIcmp(opt) \/ FilterIpp(opt)
    PROVE  BuildInv(more)'
<1>1. /\ FilterNames.tcp = "filter-tcp" /\ FilterNames.udp = "filter-udp"
      /\ FilterNames.icmp = "filter-icmp" /\ FilterNames.ipp = "filter-ipp"
      /\ {"tcp", "udp", "icmp", "ipp"} \subseteq DOMAIN FilterNames
  BY DEF FilterNames
<1>2. opt.o \in FilterLists /\ opt.a \in Seq(Texts)
  BY DEF Typed, FilterLists, FilterTcp, FilterUdp, FilterIcmp, FilterIpp
<1>3. CASE FilterTcp(opt)
  <2>1. /\ opt.o = FilterNames["tcp"] /\ \A i \in DOMAIN opt.a : GoodAs("tcp", opt.a[i])
        /\ \E q : Write(q) /\ q = [dp EXCEPT !["tcp"] = Filtered("tcp", opt.a) \o @]
        /\ UNCHANGED <<templates, count, section, lists, existing>>
    BY <1>1, <1>3 DEF FilterTcp, WriteIf, Refuse, LeaveWith, AllItems, Mapped, GoodAs,
       ReadAs, Filtered
  <2>2. \E q : Write(q) /\ KindWritten("tcp", Filtered("tcp", opt.a), q)
    BY <2>1 DEF KindWritten
  <2> QED
    BY <1>1, <1>2, <2>1, <2>2, KindOn
<1>4. CASE FilterUdp(opt)
  <2>1. /\ opt.o = FilterNames["udp"] /\ \A i \in DOMAIN opt.a : GoodAs("udp", opt.a[i])
        /\ \E q : Write(q) /\ q = [dp EXCEPT !["udp"] = Filtered("udp", opt.a) \o @]
        /\ UNCHANGED <<templates, count, section, lists, existing>>
    BY <1>1, <1>4 DEF FilterUdp, WriteIf, Refuse, LeaveWith, AllItems, Mapped, GoodAs,
       ReadAs, Filtered
  <2>2. \E q : Write(q) /\ KindWritten("udp", Filtered("udp", opt.a), q)
    BY <2>1 DEF KindWritten
  <2> QED
    BY <1>1, <1>2, <2>1, <2>2, KindOn
<1>5. CASE FilterIcmp(opt)
  <2>1. /\ opt.o = FilterNames["icmp"] /\ \A i \in DOMAIN opt.a : GoodAs("icmp", opt.a[i])
        /\ \E q : Write(q) /\ q = [dp EXCEPT !["icmp"] = Filtered("icmp", opt.a) \o @]
        /\ UNCHANGED <<templates, count, section, lists, existing>>
    BY <1>1, <1>5 DEF FilterIcmp, WriteIf, Refuse, LeaveWith, AllItems, Mapped, GoodAs,
       ReadAs, Filtered
  <2>2. \E q : Write(q) /\ KindWritten("icmp", Filtered("icmp", opt.a), q)
    BY <2>1 DEF KindWritten
  <2> QED
    BY <1>1, <1>2, <2>1, <2>2, KindOn
<1>6. CASE FilterIpp(opt)
  <2>1. /\ opt.o = FilterNames["ipp"] /\ \A i \in DOMAIN opt.a : GoodAs("ipp", opt.a[i])
        /\ \E q : Write(q) /\ q = [dp EXCEPT !["ipp"] = Filtered("ipp", opt.a) \o @]
        /\ UNCHANGED <<templates, count, section, lists, existing>>
    BY <1>1, <1>6 DEF FilterIpp, WriteIf, Refuse, LeaveWith, AllItems, Mapped, GoodAs,
       ReadAs, Filtered
  <2>2. \E q : Write(q) /\ KindWritten("ipp", Filtered("ipp", opt.a), q)
    BY <2>1 DEF KindWritten
  <2> QED
    BY <1>1, <1>2, <2>1, <2>2, KindOn
<1> QED
  BY <1>3, <1>4, <1>5, <1>6

LEMMA TemplateIs ==
    ASSUME templates \in Seq(ToSet(templates)), NEW name
    PROVE  /\ Template(name) # 0 => /\ name # "" /\ Template(name) \in DOMAIN templates
                                    /\ templates[Template(name)].name = name
                                    /\ templates[Template(name)] \in ToSet(templates)
           /\ Template(name) = 0 => name = "" \/ \A t \in ToSet(templates) : t.name # name
<1> DEFINE found == {i \in DOMAIN templates : name # "" /\ templates[i].name = name}
<1>1. found \in SUBSET Nat /\ 0 \notin found
  <2>1. \A i \in DOMAIN templates : i \in Nat /\ i # 0
    <3>1. PICK T : T = ToSet(templates)
      OBVIOUS
    <3>2. templates \in Seq(T)
      BY <3>1
    <3> QED
      BY <3>2
  <2> QED
    BY <2>1
<1>2. Template(name) = IF found = {} THEN 0 ELSE CHOOSE i \in found : \A j \in found : i <= j
  BY DEF Template
<1>3. found # {} => Template(name) \in found
  <2> HIDE DEF found
  <2>1. found # {} => \E m \in found : \A n \in found : m <= n
    BY <1>1, LeastOf
  <2> QED
    BY <1>2, <2>1
<1>4. found = {} => name = "" \/ \A t \in ToSet(templates) : t.name # name
  BY DEF ToSet
<1>5. \A i \in found : i \in DOMAIN templates /\ name # "" /\ templates[i].name = name
                       /\ templates[i] \in ToSet(templates)
  BY DEF ToSet
<1> HIDE DEF found
<1> QED
  BY <1>1, <1>2, <1>3, <1>4, <1>5

LEMMA LongerIs ==
    ASSUME NEW opts, NEW more, NEW opt, Longer(opts, more, opt)
    PROVE  /\ Len(opts) \in Nat /\ Len(more) \in Nat \ {0} /\ Len(more) - 1 = Len(opts)
           /\ more[Len(more)] = opt
           /\ \A e \in 0..(Len(opts) - 1) : e \in 0..Len(opts) /\ more[e + 1] = opts[e + 1]
<1>1. \A e \in 0..(Len(opts) - 1) : e + 1 \in 1..Len(opts) /\ e \in 0..Len(opts)
  BY DEF Longer
<1> QED
  BY <1>1 DEF Longer

LEMMA NoTemplateAtZero == \A opts : ~IsTemplate(opts, 0)
<1>1. \A opts : Own(opts, 0, {"template"}) = {}
  BY DEF Own
<1> QED
  BY <1>1 DEF IsTemplate

LEMMA NamedAre ==
    ASSUME NEW opts, NEW more, NEW opt, Longer(opts, more, opt), opt.o # "new"
    PROVE  Named(more, Len(more)) = {e \in TemplateEnds(opts) : NameOf(opts, e) = opt.a}
<1>1. PICK n : n = Len(opts)
  OBVIOUS
<1>2. /\ n \in Nat /\ Len(more) = n + 1 /\ Len(more) - 1 = n /\ more[n + 1] = opt
      /\ \A e \in 0..(n - 1) : e \in 0..n /\ more[e + 1] = opts[e + 1]
  <2>1. n \in Nat /\ Len(more) = n + 1 /\ Len(more) - 1 = n /\ more[n + 1] = opt
    BY <1>1 DEF Longer
  <2>2. \A e \in 0..(n - 1) : e \in 0..n /\ e + 1 \in 1..n
    BY <2>1
  <2>3. \A k \in 1..n : more[k] = opts[k]
    BY <1>1 DEF Longer
  <2> QED
    BY <2>1, <2>2, <2>3
<1>3. \A e \in 0..n : /\ IsTemplate(more, e) = IsTemplate(opts, e)
                      /\ NameOf(more, e) = NameOf(opts, e)
  BY <1>1, OwnKept
<1>4. TemplateEnds(opts) = {e \in 0..(n - 1) : opts[e + 1].o = "new" /\ IsTemplate(opts, e)}
  BY <1>1 DEF TemplateEnds
<1>5. Named(more, n + 1) = {e \in 1..n : /\ more[e + 1].o = "new" /\ IsTemplate(more, e)
                                         /\ NameOf(more, e) = opt.a}
  BY <1>2 DEF Named
<1>6. \A e : e \in 1..n <=> e \in 0..n /\ e # 0
  BY <1>2
<1>7. \A e : e \in 0..(n - 1) <=> e \in 0..n /\ e # n
  BY <1>2
<1>8. \A e \in 0..n : (e \in 1..n /\ more[e + 1].o = "new" /\ IsTemplate(more, e))
                       <=> (e \in 0..(n - 1) /\ opts[e + 1].o = "new" /\ IsTemplate(opts, e))
  <2>1. \A e \in 0..n : e = 0 => ~IsTemplate(opts, e)
    BY NoTemplateAtZero
  <2>2. \A e \in 0..n : e = n => more[e + 1].o # "new"
    BY <1>2
  <2> QED
    BY <1>2, <1>3, <1>6, <1>7, <2>1, <2>2
<1> QED
  BY <1>2, <1>3, <1>4, <1>5, <1>6, <1>7, <1>8

LEMMA SourceOfTemplate ==
    ASSUME NEW opts, NEW more, NEW opt, Longer(opts, more, opt), opt.o = "import",
           TemplatesBuilt(opts), NEW t \in Importable, t.name = opt.a
    PROVE  Built(lists, opts, t, Source(more, Len(more)))
<1>1. opt.o # "new"
  OBVIOUS
<1>2. Named(more, Len(more)) = {e \in TemplateEnds(opts) : NameOf(opts, e) = opt.a}
  BY <1>1, NamedAre
<1>3. Named(more, Len(more)) # {}
  BY <1>2 DEF TemplatesBuilt, Importable
<1>4. PICK e : e = Source(more, Len(more))
  OBVIOUS
<1>5. e \in TemplateEnds(opts) /\ NameOf(opts, e) = opt.a
  <2>1. Len(more) \in Nat \ {0}
    BY LongerIs
  <2>2. Source(more, Len(more)) \in Named(more, Len(more))
    BY <1>3, <2>1, SourceIs
  <2> QED
    BY <1>2, <1>4, <2>2
<1>6. Built(lists, opts, t, e)
  BY <1>5 DEF TemplatesBuilt
<1> QED
  BY <1>4, <1>6

LEMMA CopiedIs ==
    ASSUME DOMAIN dp = ProfileFields, NEW t, NEW q, q = Copied(t)
    PROVE  /\ DOMAIN q = ProfileFields /\ q.n = count /\ q.name = dp.name
           /\ q.l3 = IF t.l3set THEN dp.l3 \cup t.l3 ELSE dp.l3
           /\ q.l3set = (dp.l3set \/ t.l3set)
           /\ q.l7 = IF t.l7set THEN t.l7 ELSE dp.l7
           /\ q.l7set = (dp.l7set \/ t.l7set)
           /\ q.auto = IF t.auto = 0 THEN dp.auto ELSE t.auto
           /\ \A f \in DOMAIN FilterNames \cup ListFields \cup {"fns"} : q[f] = dp[f] \o t[f]
<1>1. DOMAIN q = ProfileFields
  BY DEF Copied
<1>2. /\ q.n = count /\ q.name = dp.name
      /\ q.l3 = (IF t.l3set THEN dp.l3 \cup t.l3 ELSE dp.l3)
      /\ q.l3set = (dp.l3set \/ t.l3set)
      /\ q.l7 = (IF t.l7set THEN t.l7 ELSE dp.l7)
      /\ q.l7set = (dp.l7set \/ t.l7set)
      /\ q.auto = (IF t.auto = 0 THEN dp.auto ELSE t.auto)
  BY ProfileFieldsAre DEF Copied, L3Copied
<1>3. /\ q.fns = dp.fns \o t.fns /\ q.hl = dp.hl \o t.hl /\ q.hlx = dp.hlx \o t.hlx
      /\ q.ips = dp.ips \o t.ips /\ q.ipsx = dp.ipsx \o t.ipsx /\ q.tcp = dp.tcp \o t.tcp
      /\ q.udp = dp.udp \o t.udp /\ q.icmp = dp.icmp \o t.icmp /\ q.ipp = dp.ipp \o t.ipp
  BY ProfileFieldsAre DEF Copied
<1>4. DOMAIN FilterNames \cup ListFields \cup {"fns"}
        = {"tcp", "udp", "icmp", "ipp", "hl", "hlx", "ips", "ipsx", "fns"}
  BY KindsAre
<1> HIDE DEF Copied
<1> QED
  BY <1>1, <1>2, <1>3, <1>4

LEMMA ImportStep ==
    ASSUME NEW opts, NEW more, NEW opt, Longer(opts, more, opt), BuildInv(opts), status' = "options",
           status = "options", Import(opt)
    PROVE  BuildInv(more)'
<1>1. PICK i : i = Template(opt.a)
  OBVIOUS
<1>2. PICK t : t = templates[i]
  OBVIOUS
<1>3. PICK q : q = Copied(t)
  OBVIOUS
<1>4. /\ opt.o = "import" /\ i # 0 /\ ~Replaces(t) /\ Write(q)
      /\ UNCHANGED <<templates, count, section, lists, existing>>
  BY <1>1, <1>2, <1>3 DEF Import, Refuse, LeaveWith
<1>5. t \in Importable /\ t.name = opt.a
  <2>1. templates \in Seq(ToSet(templates))
    BY DEF BuildInv, TemplatesBuilt
  <2> QED
    BY <1>1, <1>2, <1>4, <2>1, TemplateIs DEF Importable
<1>6. ASSUME SectionBuilt(opts)
      PROVE  /\ q.name = dp.name /\ q.n = dp.n /\ Built(lists, more, q, Len(more))
             /\ \A f \in ListFields :
                  /\ ToSet(dp[f]) \subseteq ToSet(q[f])
                  /\ \A id \in ToSet(q[f]) : \/ id \in ToSet(dp[f])
                                            \/ \E u \in Importable : id \in ToSet(u[f])
  <2>1. Built(lists, opts, t, Source(more, Len(more)))
    BY <1>4, <1>5, SourceOfTemplate DEF BuildInv
  <2>2. Built(lists, opts, dp, Len(opts)) /\ DOMAIN dp = ProfileFields /\ dp.n = Len(profiles)
    BY <1>6, DpIs
  <2>3. /\ DOMAIN q = ProfileFields /\ q.n = count /\ q.name = dp.name
        /\ q.l3 = IF t.l3set THEN dp.l3 \cup t.l3 ELSE dp.l3
        /\ q.l3set = (dp.l3set \/ t.l3set)
        /\ q.l7 = IF t.l7set THEN t.l7 ELSE dp.l7
        /\ q.l7set = (dp.l7set \/ t.l7set)
        /\ q.auto = IF t.auto = 0 THEN dp.auto ELSE t.auto
        /\ \A f \in DOMAIN FilterNames \cup ListFields \cup {"fns"} : q[f] = dp[f] \o t[f]
    BY <1>3, <2>2, CopiedIs
  <2>4. t.auto \in {0, dp.auto} \/ dp.auto = 0
    BY <1>4 DEF Replaces
  <2>5. Built(lists, more, q, Len(more))
    BY <1>4, <2>1, <2>2, <2>3, <2>4, BuiltImported
  <2>6. q.n = dp.n
    BY <2>2, <2>3 DEF BuildInv, ProfilesBuilt
  <2>7. ASSUME NEW f \in ListFields
        PROVE  ToSet(q[f]) = ToSet(dp[f]) \cup ToSet(t[f])
    <3>1. PICK S : S = {id \in DOMAIN lists : lists[id].kind = Kind(f)}
      OBVIOUS
    <3>2. dp[f] \in Seq(S) /\ t[f] \in Seq(S)
      BY <2>1, <2>2, <3>1, ListsOfBuilt DEF Built
    <3>3. q[f] = dp[f] \o t[f]
      BY <2>3
    <3> QED
      BY <3>2, <3>3, ToSetJoined
  <2>8. ASSUME NEW f \in ListFields
        PROVE  /\ ToSet(dp[f]) \subseteq ToSet(q[f])
               /\ \A id \in ToSet(q[f]) : \/ id \in ToSet(dp[f])
                                         \/ \E u \in Importable : id \in ToSet(u[f])
    BY <1>5, <2>7
  <2> QED
    BY <2>3, <2>5, <2>6, <2>8
<1> QED
  BY <1>4, <1>6, FilterOn

-----------------------------------------------------------------------------
\* Options: the lists

Listed(l) ==
    /\ l = [kind |-> l.kind, file |-> l.file, items |-> l.items]
    /\ l.kind \in {"host", "ip"} /\ l.file \in Files \cup {""}

LEMMA RecordIs ==
    ASSUME NEW K, NEW F, NEW I, NEW l
    PROVE  l \in [kind : K, file : F, items : I]
             <=> /\ l = [kind |-> l.kind, file |-> l.file, items |-> l.items]
                 /\ l.kind \in K /\ l.file \in F /\ l.items \in I
  OBVIOUS

LEMMA ListsAre ==
    ASSUME NEW ls
    PROVE  ls \in Seq([kind : {"host", "ip"}, file : Files \cup {""},
                       items : {l.items : l \in ToSet(ls)}])
             <=> ls \in Seq(ToSet(ls)) /\ \A l \in ToSet(ls) : Listed(l)
<1> DEFINE I == {l.items : l \in ToSet(ls)}
           R == [kind : {"host", "ip"}, file : Files \cup {""}, items : I]
<1>1. ASSUME ls \in Seq(R)
      PROVE  ls \in Seq(ToSet(ls)) /\ \A l \in ToSet(ls) : Listed(l)
  <2>1. ls \in Seq(ToSet(ls)) /\ ToSet(ls) \subseteq R
    <3> HIDE DEF R
    <3> QED
      BY <1>1, ToSetIs
  <2>2. \A l \in R : Listed(l)
    <3> HIDE DEF I
    <3>1. PICK K : K = {"host", "ip"}
      OBVIOUS
    <3>2. PICK F : F = Files \cup {""}
      OBVIOUS
    <3>3. R = [kind : K, file : F, items : I]
      BY <3>1, <3>2
    <3>4. \A l \in R : /\ l = [kind |-> l.kind, file |-> l.file, items |-> l.items]
                       /\ l.kind \in K /\ l.file \in F
      <4> HIDE DEF R
      <4> QED
        BY <3>3, RecordIs
    <3> QED
      BY <3>1, <3>2, <3>4 DEF Listed
  <2> QED
    BY <2>1, <2>2
<1>2. ASSUME ls \in Seq(ToSet(ls)), \A l \in ToSet(ls) : Listed(l)
      PROVE  ls \in Seq(R)
  <2>1. \A l \in ToSet(ls) : l.items \in I
    OBVIOUS
  <2>2. ToSet(ls) \subseteq R
    <3> HIDE DEF I
    <3> QED
      BY <1>2, <2>1, RecordIs DEF Listed
  <2> HIDE DEF R
  <2> QED
    BY <1>2, <2>2, SeqInto
<1> QED
  BY <1>1, <1>2

OnlyOnce(ls) ==
    /\ \A i \in DOMAIN ls : HasFile(ls[i]) => ls[i].items = {}
    /\ \A i, j \in DOMAIN ls :
         ls[i].kind = ls[j].kind /\ ls[i].file = ls[j].file /\ i # j => ~HasFile(ls[i])

LEMMA ListsKeptIs ==
    ListsKept <=> /\ lists \in Seq(ToSet(lists)) /\ \A l \in ToSet(lists) : Listed(l)
                  /\ OnlyOnce(lists)
  BY ListsAre DEF ListsKept, OnlyOnce, HasFile

LEMMA ListsAppended ==
    ASSUME ListsKept, NEW l, Listed(l), HasFile(l) => l.items = {}, lists' = Append(lists, l),
           HasFile(l) => \A i \in DOMAIN lists : lists[i].kind = l.kind => lists[i].file # l.file
    PROVE  /\ ListsKept' /\ Len(lists) \in Nat /\ Len(lists) + 1 \in DOMAIN lists'
           /\ lists'[Len(lists) + 1] = l /\ Len(lists) + 1 \notin DOMAIN lists
           /\ \A i \in DOMAIN lists : i \in DOMAIN lists' /\ lists'[i] = lists[i]
<1> DEFINE n == Len(lists)
<1>1. lists \in Seq(ToSet(lists)) /\ (\A m \in ToSet(lists) : Listed(m)) /\ OnlyOnce(lists)
  BY ListsKeptIs
<1>2. /\ n \in Nat /\ DOMAIN lists = 1..n /\ n + 1 \notin 1..n
      /\ DOMAIN lists' = 1..(n + 1) /\ lists'[n + 1] = l
      /\ \A i \in 1..n : i \in 1..(n + 1) /\ lists'[i] = lists[i]
  BY <1>1
<1>3. ToSet(lists') = ToSet(lists) \cup {l}
  BY <1>1, ToSetAppended
<1>4. lists' \in Seq(ToSet(lists'))
  <2>1. \A i \in 1..n : lists[i] \in ToSet(lists)
    BY <1>1, <1>2
  <2>2. PICK T : T = ToSet(lists) \cup {l}
    OBVIOUS
  <2>3. lists \in Seq(T) /\ l \in T
    BY <1>1, <2>2, SeqInto
  <2>4. Append(lists, l) \in Seq(T)
    BY <2>3
  <2> QED
    BY <1>3, <2>2, <2>4
<1>5. \A m \in ToSet(lists') : Listed(m)
  BY <1>1, <1>3
<1>6. OnlyOnce(lists')
  <2>1. ASSUME NEW i \in 1..(n + 1), HasFile(lists'[i])
        PROVE  lists'[i].items = {}
    BY <1>1, <1>2, <2>1 DEF OnlyOnce
  <2>2. ASSUME NEW i \in 1..(n + 1), NEW j \in 1..(n + 1), i # j,
               lists'[i].kind = lists'[j].kind, lists'[i].file = lists'[j].file
        PROVE  ~HasFile(lists'[i])
    <3>1. CASE i \in 1..n /\ j \in 1..n
      BY <1>1, <1>2, <2>2, <3>1 DEF OnlyOnce
    <3>2. CASE i = n + 1
      <4>1. j \in 1..n
        BY <1>2, <2>2, <3>2
      <4> QED
        BY <1>2, <2>2, <3>2, <4>1
    <3>3. CASE j = n + 1
      <4>1. i \in 1..n
        BY <1>2, <2>2, <3>3
      <4>2. HasFile(lists'[i]) <=> HasFile(lists'[j])
        BY <2>2 DEF HasFile
      <4> QED
        BY <1>2, <2>2, <3>3, <4>1, <4>2
    <3> QED
      BY <1>2, <3>1, <3>2, <3>3
  <2> QED
    BY <1>2, <2>1, <2>2 DEF OnlyOnce
<1>7. ListsKept'
  <2>1. lists' \in Seq([kind : {"host", "ip"}, file : Files \cup {""},
                        items : {m.items : m \in ToSet(lists')}])
    BY <1>4, <1>5, ListsAre
  <2> QED
    BY <1>6, <2>1 DEF ListsKept, OnlyOnce, HasFile
<1> QED
  BY <1>2, <1>7

LEMMA PlaceIs ==
    ASSUME ListsKept, NEW kind, NEW file
    PROVE  /\ Len(lists) \in Nat /\ DOMAIN lists = 1..Len(lists)
           /\ \/ Place(kind, file) = Len(lists) + 1
              \/ /\ Place(kind, file) \in 1..Len(lists)
                 /\ lists[Place(kind, file)].kind = kind /\ lists[Place(kind, file)].file = file
           /\ Place(kind, file) = Len(lists) + 1 =>
                \A i \in DOMAIN lists : lists[i].kind = kind => lists[i].file # file
<1>1. Len(lists) \in Nat /\ DOMAIN lists = 1..Len(lists)
  BY ListsKeptIs
<1> DEFINE at == {i \in DOMAIN lists : lists[i].kind = kind /\ lists[i].file = file}
<1>2. Place(kind, file) = IF at = {} THEN Len(lists) + 1 ELSE CHOOSE i \in at : TRUE
  BY DEF Place
<1>3. at # {} => Place(kind, file) \in at
  <2> HIDE DEF at
  <2> QED
    BY <1>2
<1>4. \A i \in at : i \in 1..Len(lists) /\ lists[i].kind = kind /\ lists[i].file = file
  BY <1>1
<1>5. at = {} => \A i \in DOMAIN lists : lists[i].kind = kind => lists[i].file # file
  OBVIOUS
<1> HIDE DEF at
<1> QED
  BY <1>1, <1>2, <1>3, <1>4, <1>5

LEMMA RegisteredIs ==
    ASSUME ListsKept, NEW field \in ListFields, NEW file \in Files, NEW p,
           Registered(field, file, p)
    PROVE  LET id == Place(Kind(field), file) IN
           /\ ListsKept' /\ id \in DOMAIN lists' /\ id # 0
           /\ lists'[id].kind = Kind(field) /\ lists'[id].file = file /\ HasFile(lists'[id])
           /\ \A i \in DOMAIN lists : i \in DOMAIN lists' /\ lists'[i] = lists[i]
           /\ Write([p EXCEPT ![field] = Once(@, id)])
<1>1. PICK id : id = Place(Kind(field), file)
  OBVIOUS
<1>2. PICK l : l = [kind |-> Kind(field), file |-> file, items |-> {}]
  OBVIOUS
<1>3. /\ lists' = IF id <= Len(lists) THEN lists ELSE Append(lists, l)
      /\ Write([p EXCEPT ![field] = Once(@, id)])
  BY <1>1, <1>2 DEF Registered
<1>4. /\ Listed(l) /\ l.items = {} /\ l.kind = Kind(field) /\ l.file = file /\ HasFile(l)
  <2>1. file # ""
    BY MenuAssumption
  <2>2. Kind(field) \in {"host", "ip"}
    BY DEF Kind
  <2> QED
    BY <1>2, <2>1, <2>2 DEF Listed, HasFile
<1>5. Len(lists) \in Nat /\ DOMAIN lists = 1..Len(lists)
  BY PlaceIs
<1>6. \A m : m.file = l.file => HasFile(m)
  BY <1>4 DEF HasFile
<1>7. CASE id = Len(lists) + 1
  <2>1. lists' = Append(lists, l)
    <3>1. ~(id <= Len(lists))
      BY <1>5, <1>7
    <3> QED
      BY <1>3, <3>1
  <2>2. \A i \in DOMAIN lists : lists[i].kind = l.kind => lists[i].file # l.file
    <3>1. Place(Kind(field), file) = Len(lists) + 1
      BY <1>1, <1>7
    <3>2. \A i \in DOMAIN lists : lists[i].kind = Kind(field) => lists[i].file # file
      BY <3>1, PlaceIs
    <3> QED
      BY <1>4, <3>2
  <2>3. /\ ListsKept' /\ id \in DOMAIN lists' /\ lists'[id] = l
        /\ \A i \in DOMAIN lists : i \in DOMAIN lists' /\ lists'[i] = lists[i]
    BY <1>4, <1>7, <2>1, <2>2, ListsAppended
  <2> QED
    BY <1>1, <1>3, <1>4, <1>5, <1>7, <2>3
<1>8. CASE id # Len(lists) + 1
  <2>1. id \in 1..Len(lists) /\ lists[id].kind = Kind(field) /\ lists[id].file = file
    BY <1>1, <1>8, PlaceIs
  <2>2. lists' = lists
    BY <1>3, <1>5, <2>1
  <2>3. ListsKept'
    BY <2>2 DEF ListsKept
  <2>4. HasFile(lists[id])
    BY <1>4, <1>6, <2>1
  <2> QED
    BY <1>1, <1>3, <1>5, <2>1, <2>2, <2>3, <2>4
<1> QED
  BY <1>7, <1>8

LEMMA OnceIs ==
    ASSUME NEW S, NEW s \in Seq(S), NEW id
    PROVE  ToSet(Once(s, id)) = ToSet(s) \cup {id}
<1>1. PICK T : T = S \cup {id}
  OBVIOUS
<1>2. s \in Seq(T) /\ id \in T
  <2>1. s \in Seq(ToSet(s)) /\ ToSet(s) \subseteq S
    BY ToSetIs
  <2> QED
    BY <1>1, <2>1, SeqInto
<1>3. ToSet(<<id>> \o s) = {id} \cup ToSet(s)
  BY <1>2, ToSetPrepended
<1> QED
  BY <1>3 DEF Once

\* An option of a section that is skipped does not touch the lists.
LEMMA SkippedStep ==
    ASSUME NEW opts, NEW more, NEW opt, Longer(opts, more, opt), BuildInv(opts),
           opt.o \in ListOptions, section.skip,
           UNCHANGED <<profiles, templates, count, section, lists, existing>>
    PROVE  BuildInv(more)'
<1>1. opt.o \notin {"new", "skip", "template", "payload", "in-range", "out-range", "name"}
  BY DEF ListOptions
<1>2. SectionMoved(opt)
  BY <1>1, SectionSteady
<1>3. Rewritten
  BY UnwrittenIs DEF BuildInv, Longer
<1>4. existing' \subseteq Files /\ ListsKept' /\ opt.o # "new" /\ section'.skip
  BY <1>1 DEF BuildInv, ListsKept
<1> QED
  BY <1>2, <1>3, <1>4, WrittenOn

FileWritten(opt, field, id, q) ==
    /\ DOMAIN q = DOMAIN dp /\ \A f \in DOMAIN dp \ {field, "auto"} : q[f] = dp[f]
    /\ field \in DOMAIN dp => q[field] = Once(dp[field], id)
    /\ opt.o = "hostlist_auto" => dp.auto = 0
    /\ "auto" \in DOMAIN dp => q.auto = IF opt.o = "hostlist_auto" THEN id ELSE dp.auto

LEMMA FileBuilt ==
    ASSUME NEW opts, NEW more, NEW opt, Longer(opts, more, opt), NEW field \in ListFields,
           opt.o \in FileOptions[field], NEW p, DOMAIN p = ProfileFields,
           NEW ls, NEW new, NEW id \in DOMAIN new, id # 0,
           new[id].kind = Kind(field), new[id].file = opt.a, HasFile(new[id]),
           \A i \in DOMAIN ls : i \in DOMAIN new /\ new[i] = ls[i],
           Built(ls, opts, p, Len(opts)), NEW q, p = dp, FileWritten(opt, field, id, q)
    PROVE  /\ Built(new, more, q, Len(more)) /\ DOMAIN q = ProfileFields
           /\ \A f \in ProfileFields \ {field, "auto"} : q[f] = p[f]
           /\ ToSet(q[field]) = ToSet(p[field]) \cup {id}
<1>1. field \in ProfileFields /\ field # "auto" /\ "auto" \in ProfileFields
  BY FieldsOfLists, ProfileFieldsAre
<1>2. /\ DOMAIN q = ProfileFields /\ q[field] = Once(p[field], id)
      /\ opt.o = "hostlist_auto" => p.auto = 0
      /\ q.auto = IF opt.o = "hostlist_auto" THEN id ELSE p.auto
      /\ \A f \in ProfileFields \ {field, "auto"} : q[f] = p[f]
  BY <1>1 DEF FileWritten
<1>3. ListsLeft(ls, new, p)
  BY ListsOfBuilt DEF Built
<1>4. Built(new, more, q, Len(more))
  BY <1>2, <1>3, BuiltFile
<1>5. ToSet(q[field]) = ToSet(p[field]) \cup {id}
  <2> DEFINE S == {i \in DOMAIN ls : ls[i].kind = Kind(field)}
  <2>1. p[field] \in Seq(S)
    BY DEF Built, CollectionsBuilt, ListsBuilt
  <2> HIDE DEF S
  <2> QED
    BY <1>2, <2>1, OnceIs
<1> QED
  BY <1>2, <1>4, <1>5

LEMMA FileOn ==
    ASSUME NEW opts, NEW more, NEW opt, Longer(opts, more, opt), BuildInv(opts),
           NEW field \in ListFields, opt.o \in FileOptions[field], existing' \subseteq Files,
           UNCHANGED <<templates, count, section>>, ListsKept',
           NEW id \in DOMAIN lists', id # 0,
           lists'[id].kind = Kind(field), lists'[id].file = opt.a, HasFile(lists'[id]),
           \A i \in DOMAIN lists : i \in DOMAIN lists' /\ lists'[i] = lists[i],
           NEW q, Write(q), FileWritten(opt, field, id, q)
    PROVE  BuildInv(more)'
<1>1. opt.o \notin {"new", "skip", "template", "payload", "in-range", "out-range", "name"}
  <2>1. opt.o \in ListOptions
    BY FieldsOfLists
  <2> QED
    BY <2>1 DEF ListOptions
<1>2. SectionMoved(opt) /\ opt.o # "new"
  BY <1>1, SectionSteady
<1>3. Rewritten /\ dp' = q
  BY WriteIs DEF BuildInv, Longer
<1>4. NameOf(more, Len(more)) = NameOf(opts, Len(opts))
  BY <1>1, NameGrows
<1>5. ASSUME SectionBuilt(opts)
      PROVE  /\ dp'.name = NameOf(more, Len(more)) /\ dp'.n = dp.n
             /\ Built(lists', more, dp', Len(more)) /\ ListsOn
  <2>1. Built(lists, opts, dp, Len(opts)) /\ DOMAIN dp = ProfileFields /\ dp.name = NameOf(opts, Len(opts))
    BY <1>5, DpIs
  <2>2. PICK p : p = dp
    OBVIOUS
  <2>3. /\ Built(lists', more, q, Len(more)) /\ DOMAIN q = ProfileFields
        /\ \A f \in ProfileFields \ {field, "auto"} : q[f] = p[f]
        /\ ToSet(q[field]) = ToSet(p[field]) \cup {id}
    BY <2>1, <2>2, FileBuilt
  <2>4. {"name", "n"} \subseteq ProfileFields \ {field, "auto"}
        /\ ListFields \ {field} \subseteq ProfileFields \ {field, "auto"}
    BY ProfileFieldsAre, KindsAre
  <2>5. ListsOn
    BY <1>3, <2>2, <2>3, <2>4 DEF ListsOn
  <2> QED
    BY <1>3, <1>4, <2>1, <2>2, <2>3, <2>4, <2>5
<1> QED
  BY <1>2, <1>3, <1>5, WrittenOn

LEMMA FieldsAreListed ==
    /\ \A o \in {"hostlist", "hostlist_exclude", "ipset", "ipset_exclude"} :
         Fields[o] \in ListFields /\ o \in FileOptions[Fields[o]] /\ o # "hostlist_auto"
    /\ \A o \in {"hostlist_domains", "hostlist_exclude_domains", "ipset_ip", "ipset_exclude_ip"} :
         Fields[o] \in ListFields /\ o = ItemOption[Fields[o]]
    /\ "hl" \in ListFields /\ "hostlist_auto" \in FileOptions["hl"] /\ Kind("hl") = "host"
  BY KindsAre DEF Fields, FileOptions, ItemOption, Kind

LEMMA FileStep ==
    ASSUME NEW opts, NEW more, NEW opt, Longer(opts, more, opt), BuildInv(opts), status' = "options",
           status = "options", ListFile(opt)
    PROVE  BuildInv(more)'
<1>1. opt.o \in {"hostlist", "hostlist_exclude", "ipset", "ipset_exclude"}
  BY DEF ListFile
<1>2. CASE section.skip
  <2>1. opt.o \in ListOptions
    BY <1>1 DEF ListOptions
  <2>2. UNCHANGED profileVars
    BY <1>2 DEF ListFile
  <2> QED
    BY <1>2, <2>1, <2>2, SkippedStep DEF profileVars, optionVars
<1>3. CASE ~section.skip
  <2>1. /\ opt.a \in existing /\ Registered(Fields[opt.o], opt.a, dp)
        /\ UNCHANGED <<templates, count, section, existing>>
    BY <1>3 DEF ListFile, Refuse, LeaveWith
  <2>2. PICK field : field = Fields[opt.o]
    OBVIOUS
  <2>3. field \in ListFields /\ opt.o \in FileOptions[field] /\ opt.o # "hostlist_auto"
    BY <1>1, <2>2, FieldsAreListed
  <2>4. opt.a \in Files /\ existing' \subseteq Files /\ ListsKept
    BY <2>1 DEF BuildInv
  <2>5. PICK id : id = Place(Kind(field), opt.a)
    OBVIOUS
  <2>6. /\ ListsKept' /\ id \in DOMAIN lists' /\ id # 0
        /\ lists'[id].kind = Kind(field) /\ lists'[id].file = opt.a /\ HasFile(lists'[id])
        /\ \A i \in DOMAIN lists : i \in DOMAIN lists' /\ lists'[i] = lists[i]
        /\ Write([dp EXCEPT ![field] = Once(@, id)])
    BY <2>1, <2>2, <2>3, <2>4, <2>5, RegisteredIs
  <2>7. \E q : Write(q) /\ FileWritten(opt, field, id, q)
    <3>1. PICK q : q = [dp EXCEPT ![field] = Once(@, id)]
      OBVIOUS
    <3>2. field # "auto"
      BY <2>3, FieldsOfLists
    <3>3. FileWritten(opt, field, id, q)
      BY <2>3, <3>1, <3>2 DEF FileWritten
    <3> QED
      BY <2>6, <3>1, <3>3
  <2> QED
    BY <2>1, <2>3, <2>4, <2>6, <2>7, FileOn
<1> QED
  BY <1>2, <1>3

LEMMA AutoStep ==
    ASSUME NEW opts, NEW more, NEW opt, Longer(opts, more, opt), BuildInv(opts), status' = "options",
           status = "options", Typed(opt), ListAuto(opt)
    PROVE  BuildInv(more)'
<1>1. opt.o = "hostlist_auto"
  BY DEF ListAuto
<1>2. CASE section.skip
  <2>1. opt.o \in ListOptions
    BY <1>1 DEF ListOptions
  <2>2. UNCHANGED profileVars
    BY <1>2 DEF ListAuto
  <2> QED
    BY <1>2, <2>1, <2>2, SkippedStep DEF profileVars, optionVars
<1>3. CASE ~section.skip
  <2>1. PICK id : id = Place("host", opt.a)
    OBVIOUS
  <2>2. PICK p : p = [dp EXCEPT !.auto = id]
    OBVIOUS
  <2>3. /\ dp.auto = 0 /\ Registered("hl", opt.a, p) /\ existing' = existing \cup {opt.a}
        /\ UNCHANGED <<templates, count, section>>
    BY <1>3, <2>1, <2>2 DEF ListAuto, Refuse, LeaveWith
  <2>4. "hl" \in ListFields /\ opt.o \in FileOptions["hl"] /\ Kind("hl") = "host"
    BY <1>1, FieldsAreListed
  <2>5. opt.a \in Files /\ existing' \subseteq Files /\ ListsKept
    BY <1>1, <2>3 DEF BuildInv, Typed
  <2>6. /\ ListsKept' /\ id \in DOMAIN lists' /\ id # 0
        /\ lists'[id].kind = Kind("hl") /\ lists'[id].file = opt.a /\ HasFile(lists'[id])
        /\ \A i \in DOMAIN lists : i \in DOMAIN lists' /\ lists'[i] = lists[i]
        /\ Write([p EXCEPT !["hl"] = Once(@, id)])
    BY <2>1, <2>3, <2>4, <2>5, RegisteredIs
  <2>7. \E q : Write(q) /\ FileWritten(opt, "hl", id, q)
    <3>1. PICK q : q = [p EXCEPT !["hl"] = Once(@, id)]
      OBVIOUS
    <3>2. FileWritten(opt, "hl", id, q)
      BY <1>1, <2>2, <2>3, <3>1 DEF FileWritten
    <3> QED
      BY <2>6, <3>1, <3>2
  <2> QED
    BY <2>3, <2>4, <2>5, <2>6, <2>7, FileOn
<1> QED
  BY <1>2, <1>3

\* The first item of the command line: a list for it comes before the others.
ItemsPut(field, id, p, q) ==
    /\ DOMAIN q = ProfileFields /\ q[field] = <<id>> \o p[field]
    /\ \A f \in ProfileFields \ {field} : q[f] = p[f]
ListOfItems(field, opt, l) == l.kind = Kind(field) /\ ~HasFile(l) /\ l.items = ToSet(opt.a)

ListsStay(ls, new) == \A i \in DOMAIN ls : i \in DOMAIN new /\ new[i] = ls[i]
Joined(p, q, field, id, ls) ==
    /\ ToSet(q[field]) = ToSet(p[field]) \cup {id}
    /\ \A f \in ListFields : ToSet(p[f]) \subseteq DOMAIN ls

LEMMA ItemsNewBuilt ==
    ASSUME NEW opts, NEW more, NEW opt, Longer(opts, more, opt), NEW field \in ListFields,
           opt.o = ItemOption[field], NEW ls, NEW new, NEW p, NEW q,
           Built(ls, opts, p, Len(opts)), ListsStay(ls, new),
           NEW id \in DOMAIN new, id \notin DOMAIN ls,
           ListOfItems(field, opt, new[id]), ItemsPut(field, id, p, q)
    PROVE  Built(new, more, q, Len(more)) /\ Joined(p, q, field, id, ls)
<1>0. /\ new[id].kind = Kind(field) /\ ~HasFile(new[id]) /\ new[id].items = ToSet(opt.a)
      /\ DOMAIN q = ProfileFields /\ q[field] = <<id>> \o p[field]
      /\ \A f \in ProfileFields \ {field} : q[f] = p[f]
  BY DEF ListOfItems, ItemsPut
<1>1. CollectionsBuilt(ls, opts, p, Len(opts))
  BY DEF Built
<1>2. /\ p.auto # 0 => p.auto \in DOMAIN new /\ new[p.auto] = ls[p.auto]
      /\ \A f \in ListFields : \A i \in ToSet(p[f]) : i \in DOMAIN new /\ new[i] = ls[i]
      /\ \A f \in ListFields : ToSet(p[f]) \subseteq DOMAIN ls
  BY <1>1, ListsOfBuilt DEF ListsLeft, ListsStay
<1>3. id \notin ToSet(p[field])
  BY <1>2
<1>4. ASSUME ListsBuilt(ls, opts, p[field], field, Len(opts)),
             FilesAsked(more, field, Len(more)) = FilesAsked(opts, field, Len(opts)),
             ItemsAsked(more, field, Len(more)) = ItemsAsked(opts, field, Len(opts)) \cup ToSet(opt.a)
      PROVE  ListsBuilt(new, more, q[field], field, Len(more))
  <2>1. ListsBuilt(new, more, <<id>> \o p[field], field, Len(more))
    <3>1. \A i \in ToSet(p[field]) : i \in DOMAIN new /\ new[i] = ls[i]
      BY <1>2
    <3>2. ItemsAsked(more, field, Len(more)) = ItemsAsked(opts, field, Len(opts)) \cup new[id].items
      BY <1>0, <1>4
    <3> QED
      BY <1>0, <1>3, <1>4, <3>1, <3>2, ListsWithItems
  <2> QED
    BY <1>0, <2>1
<1>5. Built(new, more, q, Len(more))
  <2>1. ItemsMade(opts, more, opt, ls, new, p, q, field)
    BY <1>4 DEF ItemsMade
  <2> QED
    BY <1>0, <1>2, <2>1, BuiltItems
<1>6. ToSet(q[field]) = ToSet(p[field]) \cup {id}
  <2> DEFINE S == {i \in DOMAIN ls : ls[i].kind = Kind(field)}
  <2>1. p[field] \in Seq(S)
    BY <1>1 DEF CollectionsBuilt, ListsBuilt
  <2>2. p[field] \in Seq(S \cup {id}) /\ id \in S \cup {id}
    <3> HIDE DEF S
    <3>1. p[field] \in Seq(ToSet(p[field])) /\ ToSet(p[field]) \subseteq S
      BY <2>1, ToSetIs
    <3> QED
      BY <3>1, SeqInto
  <2> HIDE DEF S
  <2> QED
    BY <1>0, <2>2, ToSetPrepended
<1> QED
  BY <1>2, <1>5, <1>6 DEF Joined

LEMMA ItemsMoreBuilt ==
    ASSUME NEW opts, NEW more, NEW opt, Longer(opts, more, opt), NEW field \in ListFields,
           opt.o = ItemOption[field], NEW ls, NEW new, NEW p,
           Built(ls, opts, p, Len(opts)), NEW id \in ToSet(p[field]),
           \A other \in ListFields \ {field} : id \notin ToSet(p[other]),
           DOMAIN new = DOMAIN ls, \A i \in DOMAIN ls : i # id => new[i] = ls[i],
           new[id].kind = ls[id].kind, ~HasFile(ls[id]), ~HasFile(new[id]),
           new[id].items = ls[id].items \cup ToSet(opt.a)
    PROVE  Built(new, more, p, Len(more))
<1>1. CollectionsBuilt(ls, opts, p, Len(opts)) /\ DOMAIN p = ProfileFields
  BY DEF Built
<1>2. /\ p.auto # 0 => p.auto \in DOMAIN ls /\ HasFile(ls[p.auto])
      /\ \A f \in ListFields : ToSet(p[f]) \subseteq DOMAIN ls
  BY <1>1, ListsOfBuilt
<1>3. p.auto # 0 => p.auto \in DOMAIN new /\ new[p.auto] = ls[p.auto]
  BY <1>2
<1>4. \A other \in ListFields \ {field} : \A i \in ToSet(p[other]) :
         i \in DOMAIN new /\ new[i] = ls[i]
  BY <1>2
<1>5. ASSUME ListsBuilt(ls, opts, p[field], field, Len(opts)),
             FilesAsked(more, field, Len(more)) = FilesAsked(opts, field, Len(opts)),
             ItemsAsked(more, field, Len(more)) = ItemsAsked(opts, field, Len(opts)) \cup ToSet(opt.a)
      PROVE  ListsBuilt(new, more, p[field], field, Len(more))
  BY <1>5, ListsWithMore
<1>6. ItemsMade(opts, more, opt, ls, new, p, p, field)
  BY <1>5 DEF ItemsMade
<1> QED
  BY <1>1, <1>3, <1>4, <1>6, BuiltItems

LEMMA ClosedAreBuilt ==
    ASSUME NEW opts, Len(opts) \in Nat, BuildInv(opts)
    PROVE  \A p \in ToSet(Front(profiles)) \cup Importable :
             /\ \E e \in 0..Len(opts) : Built(lists, opts, p, e)
             /\ p.auto # 0 => p.auto \in DOMAIN lists /\ HasFile(lists[p.auto])
             /\ \A f \in ListFields : ToSet(p[f]) \subseteq DOMAIN lists
<1>1. ASSUME NEW p \in ToSet(Front(profiles)) \cup Importable
      PROVE  \E e \in 0..Len(opts) : Built(lists, opts, p, e)
  <2>1. CASE p \in ToSet(Front(profiles))
    <3>1. PICK i \in 1..(Len(profiles) - 1) : p = profiles[i]
      BY <2>1, ProfilesAre DEF BuildInv
    <3>2. Cardinality(ClosedEnds(opts)) = Len(profiles) - 1 /\ ClosedEnds(opts) \in SUBSET (0..Len(opts))
      BY EndsAre DEF BuildInv, ProfilesBuilt
    <3>3. PICK e \in ClosedEnds(opts) : Rank(ClosedEnds(opts), e) = i
      BY <3>2, RankOnto
    <3>4. Built(lists, opts, profiles[i], e)
      BY <3>3 DEF BuildInv, ProfilesBuilt
    <3> QED
      BY <3>1, <3>2, <3>4
  <2>2. CASE p \in Importable
    <3>1. PICK e \in TemplateEnds(opts) : p.name = NameOf(opts, e)
      BY <2>2 DEF BuildInv, TemplatesBuilt, Importable
    <3>2. Built(lists, opts, p, e)
      BY <2>2, <3>1 DEF BuildInv, TemplatesBuilt
    <3>3. e \in 0..Len(opts)
      BY EndsAre
    <3> QED
      BY <3>2, <3>3
  <2> QED
    BY <2>1, <2>2
<1>2. ASSUME NEW p \in ToSet(Front(profiles)) \cup Importable
      PROVE  /\ p.auto # 0 => p.auto \in DOMAIN lists /\ HasFile(lists[p.auto])
             /\ \A f \in ListFields : ToSet(p[f]) \subseteq DOMAIN lists
  <2>1. PICK e \in 0..Len(opts) : Built(lists, opts, p, e)
    BY <1>1
  <2>2. CollectionsBuilt(lists, opts, p, e)
    BY <2>1 DEF Built
  <2> QED
    BY <2>2, ListsOfBuilt
<1> QED
  BY <1>1, <1>2

LEMMA ItemsNewIs ==
    ASSUME NEW opts, NEW more, NEW opt, Longer(opts, more, opt), NEW field \in ListFields,
           opt.o = ItemOption[field], Built(lists, opts, dp, Len(opts)),
           \A i \in DOMAIN lists : i \in DOMAIN lists' /\ lists'[i] = lists[i],
           NEW id \in DOMAIN lists', id \notin DOMAIN lists,
           ListOfItems(field, opt, lists'[id]), NEW q, ItemsPut(field, id, dp, q)
    PROVE  /\ Built(lists', more, q, Len(more))
           /\ ToSet(q[field]) = ToSet(dp[field]) \cup {id}
           /\ \A f \in ListFields : ToSet(dp[f]) \subseteq DOMAIN lists
<1>1. PICK ls : ls = lists
  OBVIOUS
<1>2. PICK new : new = lists'
  OBVIOUS
<1>3. PICK p : p = dp
  OBVIOUS
<1>4. /\ Built(ls, opts, p, Len(opts)) /\ ListsStay(ls, new)
      /\ id \in DOMAIN new /\ id \notin DOMAIN ls
      /\ ListOfItems(field, opt, new[id]) /\ ItemsPut(field, id, p, q)
  BY <1>1, <1>2, <1>3 DEF ListsStay
<1>5. Built(new, more, q, Len(more)) /\ Joined(p, q, field, id, ls)
  BY <1>4, ItemsNewBuilt
<1> QED
  BY <1>1, <1>2, <1>3, <1>5 DEF Joined

LEMMA ItemsNewOn ==
    ASSUME NEW opts, NEW more, NEW opt, Longer(opts, more, opt), BuildInv(opts), ~section.skip,
           NEW field \in ListFields, opt.o = ItemOption[field],
           NEW id \in DOMAIN lists', id \notin DOMAIN lists, ListsKept',
           \A i \in DOMAIN lists : i \in DOMAIN lists' /\ lists'[i] = lists[i],
           ListOfItems(field, opt, lists'[id]),
           NEW q, ItemsPut(field, id, dp, q), Write(q),
           section' = [section EXCEPT !.anon[field] = id],
           UNCHANGED <<templates, count, existing>>
    PROVE  BuildInv(more)'
<1>1. /\ SectionBuilt(opts) /\ ListsKept /\ ProfilesBuilt(opts) /\ SectionKept(opts)
      /\ existing' \subseteq Files
  BY DEF BuildInv
<1>2. opt.o \notin {"new", "skip", "template", "payload", "in-range", "out-range", "name"}
  <2>1. opt.o \in ListOptions
    BY FieldsOfLists
  <2> QED
    BY <2>1 DEF ListOptions
<1>3. ClosedLeft
  BY LeftWithin DEF Longer
<1>4. Rewritten /\ dp' = q
  BY <1>1, WriteIs DEF Longer
<1>5. /\ DOMAIN section' = DOMAIN section /\ section'.skip = section.skip
      /\ section'.template = section.template /\ section'.payload = section.payload
      /\ section'.in = section.in /\ section'.out = section.out
      /\ DOMAIN section'.anon = ListFields /\ section'.anon[field] = id
      /\ \A f \in ListFields \ {field} : section'.anon[f] = section.anon[f]
  BY <1>1, SectionIs DEF SectionKept
<1>6. SettingsBuilt(more)'
  <2>1. SettingsBuilt(opts) /\ section.template \in BOOLEAN
    BY <1>1 DEF SectionBuilt, SettingsBuilt
  <2>2. section'.template = (section.template \/ opt.o = "template")
    BY <1>2, <1>5, <2>1
  <2> QED
    BY <1>2, <1>5, <2>1, <2>2, SettingsOn
<1>7. /\ Built(lists', more, q, Len(more)) /\ ToSet(q[field]) = ToSet(dp[field]) \cup {id}
      /\ \A f \in ListFields : ToSet(dp[f]) \subseteq DOMAIN lists
      /\ \A f \in ListFields \ {field} : q[f] = dp[f]
      /\ q.name = dp.name /\ q.n = dp.n
  <2>1. Built(lists, opts, dp, Len(opts))
    BY <1>1, DpIs
  <2>2. field \in ProfileFields \ {"name", "n"} /\ ListFields \cup {"name", "n"} \subseteq ProfileFields
    BY ProfileFieldsAre, KindsAre
  <2>3. \A f \in ProfileFields \ {field} : q[f] = dp[f]
    BY DEF ItemsPut
  <2>4. /\ Built(lists', more, q, Len(more))
        /\ ToSet(q[field]) = ToSet(dp[field]) \cup {id}
        /\ \A f \in ListFields : ToSet(dp[f]) \subseteq DOMAIN lists
    BY <2>1, ItemsNewIs
  <2> QED
    BY <2>2, <2>3, <2>4
<1>8. AnonBuilt'
  <2>1. ToSet(Front(profiles')) = ToSet(Front(profiles)) /\ Importable' = Importable
    BY <1>1, <1>4, ClosedSame DEF Longer
  <2>2. \A p \in ToSet(Front(profiles)) \cup Importable : \A f \in ListFields :
           ToSet(p[f]) \subseteq DOMAIN lists
    BY ClosedAreBuilt DEF Longer
  <2>3. ASSUME NEW f \in ListFields, NEW a, a = section'.anon[f], a # 0
        PROVE  /\ a \in DOMAIN lists' /\ ~HasFile(lists'[a]) /\ a \in ToSet(dp'[f])
               /\ \A other \in ListFields \ {f} : a \notin ToSet(dp'[other])
               /\ \A p \in ToSet(Front(profiles)) \cup Importable : \A g \in ListFields :
                    a \notin ToSet(p[g])
    <3>1. CASE f = field
      <4>1. a = id
        BY <1>5, <2>3, <3>1
      <4>2. /\ id \in DOMAIN lists' /\ ~HasFile(lists'[id]) /\ id \in ToSet(dp'[f])
        BY <1>4, <1>7, <3>1 DEF ListOfItems
      <4>3. \A other \in ListFields \ {f} : id \notin ToSet(dp'[other])
        BY <1>4, <1>7, <3>1
      <4>4. \A p \in ToSet(Front(profiles)) \cup Importable : \A g \in ListFields :
               id \notin ToSet(p[g])
        BY <2>2
      <4> QED
        BY <4>1, <4>2, <4>3, <4>4
    <3>2. CASE f # field
      <4>1. a = section.anon[f]
        BY <1>5, <2>3, <3>2
      <4>2. /\ a \in DOMAIN lists /\ ~HasFile(lists[a]) /\ a \in ToSet(dp[f])
            /\ \A other \in ListFields \ {f} : a \notin ToSet(dp[other])
            /\ \A p \in ToSet(Front(profiles)) \cup Importable : \A g \in ListFields :
                 a \notin ToSet(p[g])
        BY <1>1, <2>3, <4>1, AnonSays DEF SectionBuilt
      <4>3. a # id
        BY <4>2
      <4> QED
        BY <1>4, <1>7, <3>2, <4>2, <4>3
    <3> QED
      BY <3>1, <3>2
  <2> QED
    BY <2>1, <2>3, AnonIs
<1>9. SectionBuilt(more)'
  <2>1. NameOf(more, Len(more)) = NameOf(opts, Len(opts))
    BY <1>2, NameGrows
  <2>2. dp'.name = NameOf(more, Len(more)) /\ dp'.n = Len(profiles')
    BY <1>1, <1>4, <1>7, <2>1 DEF SectionBuilt, Rewritten, OnlyLast
  <2> QED
    BY <1>4, <1>6, <1>7, <1>8, <2>2 DEF SectionBuilt, SettingsBuilt
<1>10. section'.skip \in BOOLEAN /\ (section'.skip <=> (section.skip \/ opt.o = "skip"))
  BY <1>1, <1>2, <1>5 DEF SectionKept
<1> QED
  BY <1>1, <1>2, <1>3, <1>4, <1>5, <1>9, <1>10, BuildOn

\* More items of the command line go to the list that there is.
ListGrown(id, items) ==
    /\ DOMAIN lists' = DOMAIN lists /\ \A i \in DOMAIN lists : i # id => lists'[i] = lists[i]
    /\ lists'[id].kind = lists[id].kind /\ ~HasFile(lists'[id])
    /\ lists'[id].items = lists[id].items \cup items

Widened(l, items) == [l EXCEPT !.items = @ \cup items]

LEMMA ListGrownIs ==
    ASSUME NEW l, Listed(l), ~HasFile(l), NEW items, NEW m, m = Widened(l, items)
    PROVE  /\ Listed(m) /\ ~HasFile(m) /\ m.kind = l.kind /\ m.file = l.file
           /\ m.items = l.items \cup items
<1>1. DOMAIN l = {"kind", "file", "items"}
  BY DEF Listed
<1>2. m.kind = l.kind /\ m.file = l.file /\ m.items = l.items \cup items
  BY <1>1 DEF Widened
<1>3. m = [kind |-> m.kind, file |-> m.file, items |-> m.items]
  BY <1>1 DEF Widened
<1> QED
  BY <1>2, <1>3 DEF Listed, HasFile

LEMMA ListsWidened ==
    ASSUME ListsKept, NEW id \in DOMAIN lists, ~HasFile(lists[id]), NEW items,
           lists' = [lists EXCEPT ![id].items = @ \cup items]
    PROVE  ListsKept' /\ ListGrown(id, items)
<1> DEFINE n == Len(lists)
<1>1. lists \in Seq(ToSet(lists)) /\ (\A m \in ToSet(lists) : Listed(m)) /\ OnlyOnce(lists)
  BY ListsKeptIs
<1>2. n \in Nat /\ DOMAIN lists = 1..n /\ Listed(lists[id])
  BY <1>1
<1>3. PICK l : l = Widened(lists[id], items)
  OBVIOUS
<1>4. /\ Listed(l) /\ ~HasFile(l) /\ l.kind = lists[id].kind /\ l.file = lists[id].file
      /\ l.items = lists[id].items \cup items
  BY <1>2, <1>3, ListGrownIs
<1>5. lists' = [lists EXCEPT ![id] = l]
  BY <1>3 DEF Widened
<1>6. /\ lists' = [i \in 1..n |-> lists'[i]] /\ DOMAIN lists' = 1..n /\ lists'[id] = l
      /\ \A i \in 1..n : i # id => lists'[i] = lists[i]
  BY <1>2, <1>5
<1>7. lists' \in Seq(ToSet(lists')) /\ \A m \in ToSet(lists') : Listed(m)
  <2>1. PICK T : T = ToSet(lists) \cup {l}
    OBVIOUS
  <2>2. \A i \in 1..n : lists[i] \in ToSet(lists)
    BY <1>1, <1>2
  <2>3. \A i \in 1..n : lists'[i] \in T
    BY <1>6, <2>1, <2>2
  <2>4. lists' \in Seq(T)
    <3>1. PICK m \in Nat : m = n
      BY <1>2
    <3>2. PICK new : new = lists'
      OBVIOUS
    <3>3. new = [i \in 1..m |-> new[i]] /\ \A i \in 1..m : new[i] \in T
      BY <1>6, <2>3, <3>1, <3>2
    <3>4. new \in Seq(T)
      BY <3>3, SeqBuilt
    <3> QED
      BY <3>2, <3>4
  <2>5. lists' \in Seq(ToSet(lists')) /\ ToSet(lists') \subseteq T
    <3>1. PICK new : new = lists'
      OBVIOUS
    <3>2. new \in Seq(T)
      BY <2>4, <3>1
    <3>3. new \in Seq(ToSet(new)) /\ ToSet(new) \subseteq T
      BY <3>2, ToSetIs
    <3> QED
      BY <3>1, <3>3
  <2>6. \A m \in T : Listed(m)
    BY <1>1, <1>4, <2>1
  <2> QED
    BY <2>5, <2>6
<1>8. OnlyOnce(lists')
  <2>1. ASSUME NEW i \in 1..n, HasFile(lists'[i])
        PROVE  lists'[i].items = {}
    BY <1>1, <1>2, <1>4, <1>6, <2>1 DEF OnlyOnce
  <2>2. ASSUME NEW i \in 1..n, NEW j \in 1..n, i # j,
               lists'[i].kind = lists'[j].kind, lists'[i].file = lists'[j].file
        PROVE  ~HasFile(lists'[i])
    <3>1. lists[i].kind = lists[j].kind /\ lists[i].file = lists[j].file
      BY <1>4, <1>6, <2>2
    <3>2. ~HasFile(lists[i])
      BY <1>1, <1>2, <2>2, <3>1 DEF OnlyOnce
    <3> QED
      BY <1>4, <1>6, <3>2
  <2> QED
    BY <1>6, <2>1, <2>2 DEF OnlyOnce
<1>9. ListsKept'
  <2>1. lists' \in Seq([kind : {"host", "ip"}, file : Files \cup {""},
                        items : {m.items : m \in ToSet(lists')}])
    BY <1>7, ListsAre
  <2>2. \A i \in DOMAIN lists' : lists'[i].file # "" => lists'[i].items = {}
    BY <1>8 DEF OnlyOnce, HasFile
  <2>3. \A i, j \in DOMAIN lists' :
          lists'[i].kind = lists'[j].kind /\ lists'[i].file = lists'[j].file /\ i # j
            => lists'[i].file = ""
    <3>1. ASSUME NEW i \in DOMAIN lists', NEW j \in DOMAIN lists', i # j,
                 lists'[i].kind = lists'[j].kind, lists'[i].file = lists'[j].file
          PROVE  lists'[i].file = ""
      BY <1>8, <3>1 DEF OnlyOnce, HasFile
    <3> QED
      BY <3>1, ZenonT(60)
  <2> QED
    BY <2>1, <2>2, <2>3 DEF ListsKept
<1>10. ListGrown(id, items)
  BY <1>2, <1>4, <1>6 DEF ListGrown
<1> QED
  BY <1>9, <1>10

LEMMA ItemsMoreIs ==
    ASSUME NEW opts, NEW more, NEW opt, Longer(opts, more, opt), NEW field \in ListFields,
           opt.o = ItemOption[field], Built(lists, opts, dp, Len(opts)),
           NEW id \in ToSet(dp[field]), \A other \in ListFields \ {field} : id \notin ToSet(dp[other]),
           ~HasFile(lists[id]), ListGrown(id, ToSet(opt.a))
    PROVE  Built(lists', more, dp, Len(more))
<1>1. PICK ls : ls = lists
  OBVIOUS
<1>2. PICK new : new = lists'
  OBVIOUS
<1>3. PICK p : p = dp
  OBVIOUS
<1>4. /\ Built(ls, opts, p, Len(opts)) /\ id \in ToSet(p[field])
      /\ \A other \in ListFields \ {field} : id \notin ToSet(p[other])
  BY <1>1, <1>3
<1>5. /\ DOMAIN new = DOMAIN ls /\ \A i \in DOMAIN ls : i # id => new[i] = ls[i]
      /\ new[id].kind = ls[id].kind /\ ~HasFile(ls[id]) /\ ~HasFile(new[id])
      /\ new[id].items = ls[id].items \cup ToSet(opt.a)
  BY <1>1, <1>2 DEF ListGrown
<1>6. Built(new, more, p, Len(more))
  BY <1>4, <1>5, ItemsMoreBuilt
<1> QED
  BY <1>1, <1>2, <1>3, <1>6

LEMMA ItemsMoreOn ==
    ASSUME NEW opts, NEW more, NEW opt, Longer(opts, more, opt), BuildInv(opts), ~section.skip,
           NEW field \in ListFields, opt.o = ItemOption[field],
           NEW id, id = section.anon[field], id # 0,
           lists' = [lists EXCEPT ![id].items = @ \cup ToSet(opt.a)],
           section' = [section EXCEPT !.anon[field] = id],
           UNCHANGED <<profiles, templates, count, existing>>
    PROVE  BuildInv(more)'
<1>1. /\ SectionBuilt(opts) /\ ListsKept /\ ProfilesBuilt(opts) /\ SectionKept(opts)
      /\ existing' \subseteq Files /\ AnonBuilt
  BY DEF BuildInv, SectionBuilt
<1>2. opt.o \notin {"new", "skip", "template", "payload", "in-range", "out-range", "name"}
  <2>1. opt.o \in ListOptions
    BY FieldsOfLists
  <2> QED
    BY <2>1 DEF ListOptions
<1>3. /\ id \in DOMAIN lists /\ ~HasFile(lists[id]) /\ id \in ToSet(dp[field])
      /\ \A other \in ListFields \ {field} : id \notin ToSet(dp[other])
      /\ \A p \in ToSet(Front(profiles)) \cup Importable : \A g \in ListFields :
           id \notin ToSet(p[g])
  BY <1>1, AnonSays
<1>4. ListsKept' /\ ListGrown(id, ToSet(opt.a))
  BY <1>1, <1>3, ListsWidened
<1>5. /\ DOMAIN lists' = DOMAIN lists /\ \A i \in DOMAIN lists : i # id => lists'[i] = lists[i]
      /\ \A i \in DOMAIN lists : ~HasFile(lists[i]) => ~HasFile(lists'[i])
  BY <1>3, <1>4 DEF ListGrown
<1>6. Rewritten /\ dp' = dp
  BY <1>1, UnwrittenIs DEF Longer
<1>7. ToSet(Front(profiles')) = ToSet(Front(profiles)) /\ Importable' = Importable
  BY <1>1, <1>6, ClosedSame DEF Longer
<1>8. ClosedLeft
  <2>1. ASSUME NEW p \in ToSet(Front(profiles)) \cup Importable
        PROVE  ListsLeft(lists, lists', p)
    <3>1. /\ p.auto # 0 => p.auto \in DOMAIN lists /\ HasFile(lists[p.auto])
          /\ \A f \in ListFields : ToSet(p[f]) \subseteq DOMAIN lists
      BY ClosedAreBuilt DEF Longer
    <3>2. p.auto # 0 => p.auto \in DOMAIN lists' /\ lists'[p.auto] = lists[p.auto]
      BY <1>3, <1>5, <3>1
    <3>3. \A f \in ListFields : \A i \in ToSet(p[f]) : i \in DOMAIN lists' /\ lists'[i] = lists[i]
      BY <1>3, <1>5, <3>1
    <3> QED
      BY <3>2, <3>3 DEF ListsLeft
  <2>2. \A i \in 1..(Len(profiles) - 1) : profiles[i] \in ToSet(Front(profiles))
    BY <1>1, ProfilesAre DEF Longer
  <2> QED
    BY <2>1, <2>2 DEF ClosedLeft
<1>9. /\ DOMAIN section' = DOMAIN section /\ section'.skip = section.skip
      /\ section'.template = section.template /\ section'.payload = section.payload
      /\ section'.in = section.in /\ section'.out = section.out
      /\ DOMAIN section'.anon = ListFields
      /\ \A f \in ListFields : section'.anon[f] = section.anon[f]
  BY <1>1, SectionIs DEF SectionKept
<1>10. SettingsBuilt(more)'
  <2>1. SettingsBuilt(opts) /\ section.template \in BOOLEAN
    BY <1>1 DEF SectionBuilt, SettingsBuilt
  <2>2. section'.template = (section.template \/ opt.o = "template")
    BY <1>2, <1>9, <2>1
  <2> QED
    BY <1>2, <1>9, <2>1, <2>2, SettingsOn
<1>11. Built(lists', more, dp, Len(more))
  <2>1. Built(lists, opts, dp, Len(opts))
    BY <1>1, DpIs
  <2> QED
    BY <1>3, <1>4, <2>1, ItemsMoreIs
<1>12. AnonBuilt'
  <2>1. ASSUME NEW f \in ListFields, NEW a, a = section'.anon[f], a # 0
        PROVE  /\ a \in DOMAIN lists' /\ ~HasFile(lists'[a]) /\ a \in ToSet(dp'[f])
               /\ \A other \in ListFields \ {f} : a \notin ToSet(dp'[other])
               /\ \A p \in ToSet(Front(profiles)) \cup Importable : \A g \in ListFields :
                    a \notin ToSet(p[g])
    <3>1. a = section.anon[f]
      BY <1>9, <2>1
    <3>2. /\ a \in DOMAIN lists /\ ~HasFile(lists[a]) /\ a \in ToSet(dp[f])
          /\ \A other \in ListFields \ {f} : a \notin ToSet(dp[other])
          /\ \A p \in ToSet(Front(profiles)) \cup Importable : \A g \in ListFields :
               a \notin ToSet(p[g])
      BY <1>1, <2>1, <3>1, AnonSays
    <3> QED
      BY <1>5, <1>6, <3>2
  <2> QED
    BY <1>7, <2>1, AnonIs
<1>13. SectionBuilt(more)'
  <2>1. NameOf(more, Len(more)) = NameOf(opts, Len(opts))
    BY <1>2, NameGrows
  <2>2. dp'.name = NameOf(more, Len(more)) /\ dp'.n = Len(profiles')
    BY <1>1, <1>6, <2>1 DEF SectionBuilt, Rewritten, OnlyLast
  <2> QED
    BY <1>6, <1>10, <1>11, <1>12, <2>2 DEF SectionBuilt, SettingsBuilt
<1>14. section'.skip \in BOOLEAN /\ (section'.skip <=> (section.skip \/ opt.o = "skip"))
  BY <1>1, <1>2, <1>9 DEF SectionKept
<1> QED
  BY <1>1, <1>2, <1>4, <1>6, <1>8, <1>9, <1>13, <1>14, BuildOn

LEMMA ItemsStep ==
    ASSUME NEW opts, NEW more, NEW opt, Longer(opts, more, opt), BuildInv(opts), status' = "options",
           status = "options", ListItems(opt)
    PROVE  BuildInv(more)'
<1>1. opt.o \in {"hostlist_domains", "hostlist_exclude_domains", "ipset_ip", "ipset_exclude_ip"}
  BY DEF ListItems
<1>2. PICK field : field = Fields[opt.o]
  OBVIOUS
<1>3. field \in ListFields /\ opt.o = ItemOption[field]
  BY <1>1, <1>2, FieldsAreListed
<1>4. CASE section.skip
  <2>1. opt.o \in ListOptions
    BY <1>1 DEF ListOptions
  <2>2. UNCHANGED profileVars
    BY <1>4 DEF ListItems
  <2> QED
    BY <1>4, <2>1, <2>2, SkippedStep DEF profileVars, optionVars
<1>5. CASE ~section.skip /\ section.anon[field] # 0
  <2>1. PICK id : id = section.anon[field]
    OBVIOUS
  <2>2. /\ lists' = [lists EXCEPT ![id].items = @ \cup ToSet(opt.a)]
        /\ section' = [section EXCEPT !.anon[field] = id]
        /\ UNCHANGED <<profiles, templates, count, existing>>
    BY <1>2, <1>5, <2>1 DEF ListItems
  <2> QED
    BY <1>3, <1>5, <2>1, <2>2, ItemsMoreOn
<1>6. CASE ~section.skip /\ section.anon[field] = 0
  <2>1. ListsKept /\ SectionBuilt(opts)
    BY <1>6 DEF BuildInv
  <2>2. PICK id : id = Len(lists) + 1
    OBVIOUS
  <2>3. PICK l : l = [kind |-> Kind(field), file |-> "", items |-> ToSet(opt.a)]
    OBVIOUS
  <2>4. PICK q : q = [dp EXCEPT ![field] = <<id>> \o @]
    OBVIOUS
  <2>5. /\ lists' = Append(lists, l) /\ Write(q)
        /\ section' = [section EXCEPT !.anon[field] = id]
        /\ UNCHANGED <<templates, count, existing>>
    BY <1>2, <1>6, <2>2, <2>3, <2>4 DEF ListItems
  <2>6. Listed(l) /\ ListOfItems(field, opt, l)
    <3>1. Kind(field) \in {"host", "ip"}
      BY DEF Kind
    <3> QED
      BY <2>3, <3>1 DEF Listed, HasFile, ListOfItems
  <2>7. ~HasFile(l)
    BY <2>6 DEF ListOfItems
  <2>8. ListsKept' /\ id \in DOMAIN lists' /\ lists'[id] = l /\ id \notin DOMAIN lists
        /\ \A i \in DOMAIN lists : i \in DOMAIN lists' /\ lists'[i] = lists[i]
    <3> HIDE <2>3, <2>4
    <3>1. /\ ListsKept' /\ Len(lists) + 1 \in DOMAIN lists'
          /\ lists'[Len(lists) + 1] = l /\ Len(lists) + 1 \notin DOMAIN lists
          /\ \A i \in DOMAIN lists : i \in DOMAIN lists' /\ lists'[i] = lists[i]
      BY <2>1, <2>5, <2>6, <2>7, ListsAppended
    <3> QED
      BY <2>2, <3>1
  <2>9. ItemsPut(field, id, dp, q)
    <3>1. DOMAIN dp = ProfileFields /\ field \in ProfileFields
      BY <1>3, <2>1, DpIs, FieldsOfLists
    <3> QED
      BY <2>4, <3>1 DEF ItemsPut
  <2>10. ListOfItems(field, opt, lists'[id])
    BY <2>6, <2>8
  <2> QED
    BY <1>3, <1>6, <2>5, <2>8, <2>9, <2>10, ItemsNewOn
<1> QED
  BY <1>4, <1>5, <1>6

\* The end of a section.
LEMMA BuiltNumbered ==
    ASSUME NEW ls, NEW opts, NEW k, NEW p, NEW q, Built(ls, opts, p, k), DOMAIN q = ProfileFields,
           \A f \in ProfileFields \ {"n"} : q[f] = p[f]
    PROVE  Built(ls, opts, q, k)
<1>1. \A names : SameArguments(opts, k, opts, k, names)
  BY DEF SameArguments
<1>2. SameMask(opts, k, opts, k)
  BY DEF SameMask
<1>3. /\ q.fns = p.fns /\ q.l7 = p.l7 /\ q.l3 = p.l3 /\ q.l3set = p.l3set /\ q.l7set = p.l7set
      /\ q.tcp = p.tcp /\ q.udp = p.udp /\ q.icmp = p.icmp /\ q.ipp = p.ipp /\ q.auto = p.auto
      /\ \A field \in ListFields : q[field] = p[field]
  <2>1. ListFields \cup {"fns", "l7", "l3", "l3set", "l7set", "tcp", "udp", "icmp", "ipp", "auto"}
          \subseteq ProfileFields \ {"n"}
    BY ProfileFieldsAre, KindsAre
  <2> QED
    BY <2>1
<1>4. RestBuilt(opts, q, k)
  BY <1>1, <1>2, <1>3, RestSame DEF Built
<1>5. FiltersBuilt(opts, q, k)
  BY <1>1, <1>2, <1>3, FiltersSame DEF Built
<1>6. CollectionsBuilt(ls, opts, q, k)
  <2>1. ListsLeft(ls, ls, p)
    BY ListsOfBuilt DEF Built
  <2> QED
    BY <1>1, <1>3, <2>1, CollectionsSame DEF Built
<1> QED
  BY <1>4, <1>5, <1>6 DEF Built

LEMMA NewSectionIs ==
    ASSUME NEW opts, NEW more, NEW opt, Longer(opts, more, opt), opt.o = "new",
           section' = NewSection, profiles' \in Seq(ToSet(profiles')), Len(profiles') \in Nat,
           dp' = NewProfile(Len(profiles'), opt.a)
    PROVE  SectionKept(more)' /\ SectionBuilt(more)'
<1>1. /\ section'.skip = FALSE /\ section'.template = FALSE /\ section'.anon = NoAnon
      /\ section'.payload = {} /\ section'.in = RangeNever /\ section'.out = RangeAlways
  BY DEF NewSection
<1>2. Own(more, Len(more), {"skip"}) = {} /\ Own(more, Len(more), {"template"}) = {}
  <2>1. "new" \notin {"skip"} /\ "new" \notin {"template"}
    OBVIOUS
  <2> QED
    BY <2>1, OwnGrows
<1>3. /\ Setting(more, Len(more), "payload", <<"all">>) = <<"all">>
      /\ Setting(more, Len(more), "in-range", InDefault) = InDefault
      /\ Setting(more, Len(more), "out-range", OutDefault) = OutDefault
  <2>1. \A name : name # "new" => \A default : Setting(more, Len(more), name, default) = default
    BY SettingGrows
  <2> QED
    BY <2>1
<1>4. /\ Mask(<<"all">>) = {} /\ PosRange(InDefault) = RangeNever
      /\ PosRange(OutDefault) = RangeAlways
  BY DEF Mask, PosRange, InDefault, OutDefault, RangeNever, RangeAlways, PosNever, PosAlways
<1>5. SectionKept(more)'
  BY <1>1, <1>2 DEF SectionKept, NewSection, ListFields
<1>6. dp'.name = NameOf(more, Len(more)) /\ dp'.n = Len(profiles')
  BY NameGrows DEF NewProfile
<1>7. Built(lists', more, dp', Len(more))
  BY BuiltNew
<1>8. AnonBuilt'
  <2>1. \A f \in ListFields : section'.anon[f] = 0
    BY <1>1 DEF NoAnon, ListFields
  <2> QED
    BY <2>1 DEF AnonBuilt
<1> QED
  BY <1>1, <1>2, <1>3, <1>4, <1>5, <1>6, <1>7, <1>8 DEF SectionBuilt

\* A section that becomes a template.
TemplateAdded(t) == templates' = Append(templates, t)

LEMMA TemplatesGrow ==
    ASSUME NEW opts, NEW more, NEW opt, Longer(opts, more, opt), TemplatesBuilt(opts),
           ClosedLeft, NEW t, TemplateAdded(t),
           TemplateEnds(more) = TemplateEnds(opts) \cup {Len(opts)},
           t.name = NameOf(opts, Len(opts)), Built(lists', more, t, Len(opts)),
           Template(t.name) = 0
    PROVE  TemplatesBuilt(more)'
<1>1. Len(opts) \in Nat /\ templates \in Seq(ToSet(templates))
  BY DEF Longer, TemplatesBuilt
<1>2. ToSet(templates') = ToSet(templates) \cup {t} /\ templates' \in Seq(ToSet(templates'))
  <2>1. PICK S : S = ToSet(templates) \cup {t}
    OBVIOUS
  <2>2. ToSet(templates') = S
    BY <1>1, <2>1, ToSetAppended DEF TemplateAdded
  <2>3. templates \in Seq(S) /\ t \in S
    BY <1>1, <2>1, SeqInto
  <2>4. templates' \in Seq(S)
    BY <2>3 DEF TemplateAdded
  <2> QED
    BY <2>1, <2>2, <2>4
<1>3. t.name = "" \/ \A u \in ToSet(templates) : u.name # t.name
  BY <1>1, TemplateIs
<1>4. Importable' = Importable \cup {u \in {t} : u.name # ""}
  BY <1>2 DEF Importable
<1>5. \A e \in TemplateEnds(opts) \cup {Len(opts)} : NameOf(more, e) = NameOf(opts, e)
  <2>1. \A e \in TemplateEnds(opts) \cup {Len(opts)} : e \in 0..Len(opts)
    BY <1>1, EndsAre
  <2> QED
    BY <2>1, OwnKept
<1>6. ASSUME NEW e \in TemplateEnds(opts)
      PROVE  /\ \E u \in ToSet(templates') : u.name = NameOf(more, e)
             /\ \A u \in Importable' : u.name = NameOf(more, e) => Built(lists', more, u, e)
  <2>1. e \in 0..Len(opts)
    BY <1>1, EndsAre
  <2>2. PICK v \in ToSet(templates) : v.name = NameOf(opts, e)
    BY DEF TemplatesBuilt
  <2>3. ASSUME NEW u \in Importable, u.name = NameOf(opts, e)
        PROVE  Built(lists', more, u, e)
    <3>1. Built(lists, opts, u, e) /\ ListsLeft(lists, lists', u)
      BY <2>3 DEF TemplatesBuilt, ClosedLeft
    <3> QED
      BY <2>1, <3>1, BuiltKept
  <2>4. t.name # "" => t.name # NameOf(opts, e)
    BY <1>3, <2>2
  <2> QED
    BY <1>2, <1>4, <1>5, <2>2, <2>3, <2>4
<1>7. /\ \E u \in ToSet(templates') : u.name = NameOf(more, Len(opts))
      /\ \A u \in Importable' : u.name = NameOf(more, Len(opts)) => Built(lists', more, u, Len(opts))
  <2>1. \A u \in Importable : u.name # t.name
    BY <1>3 DEF Importable
  <2> QED
    BY <1>2, <1>4, <1>5, <2>1
<1>8. \A u \in ToSet(templates') :
        \E e \in TemplateEnds(opts) \cup {Len(opts)} : u.name = NameOf(more, e)
  BY <1>2, <1>5 DEF TemplatesBuilt
<1> QED
  BY <1>2, <1>6, <1>7, <1>8 DEF TemplatesBuilt

\* A section that becomes a profile.
LEMMA ProfilesGrow ==
    ASSUME NEW opts, NEW more, NEW opt, Longer(opts, more, opt), ProfilesBuilt(opts),
           ClosedEnds(more) = ClosedEnds(opts) \cup {Len(opts)}, ClosedLeft,
           Built(lists', more, dp, Len(opts)), dp.n = Len(profiles),
           NEW q, profiles' = Append(profiles, q), count' = count + 1
    PROVE  ProfilesBuilt(more)' /\ dp' = q /\ Len(profiles') = count + 1
           /\ profiles' \in Seq(ToSet(profiles')) /\ Len(profiles') \in Nat
<1> DEFINE n == Len(profiles)
           S == ClosedEnds(opts)
<1>1. Len(opts) \in Nat
  BY DEF Longer
<1>2. /\ n \in Nat \ {0} /\ DOMAIN profiles = 1..n /\ profiles \in Seq(ToSet(profiles))
      /\ count = n
  BY <1>1, ProfilesAre
<1>3. /\ S \in SUBSET (0..Len(opts)) /\ Len(opts) \notin S /\ S \in SUBSET (0..(Len(opts) - 1))
      /\ Cardinality(S) \in Nat /\ n = Cardinality(S) + 1
      /\ \A e \in S : Rank(S, e) \in 1..Cardinality(S)
  <2>1. S \in SUBSET (0..(Len(opts) - 1)) /\ S \in SUBSET (0..Len(opts))
        /\ Cardinality(S) \in Nat /\ \A e \in S : Rank(S, e) \in 1..Cardinality(S)
    BY <1>1, EndsAre
  <2>2. Len(opts) \notin S
    <3> HIDE DEF S
    <3> QED
      BY <1>1, <2>1
  <2> QED
    BY <2>1, <2>2 DEF ProfilesBuilt
<1>4. /\ profiles' \in Seq(ToSet(profiles')) /\ Len(profiles') = n + 1 /\ profiles'[n + 1] = q
      /\ \A i \in 1..n : profiles'[i] = profiles[i]
  <2>1. PICK T : T = ToSet(profiles) \cup {q}
    OBVIOUS
  <2>2. profiles \in Seq(T) /\ q \in T
    BY <1>2, <2>1, SeqInto
  <2>3. PICK new : new = profiles'
    OBVIOUS
  <2>4. new \in Seq(T)
    BY <2>2, <2>3
  <2>5. new \in Seq(ToSet(new))
    BY <2>4, ToSetIs
  <2>6. /\ Len(profiles') = n + 1 /\ profiles'[n + 1] = q
        /\ \A i \in 1..n : profiles'[i] = profiles[i]
    BY <1>2
  <2> QED
    BY <2>3, <2>5, <2>6
<1>5. dp' = q
  BY <1>4 DEF dp
<1>6. /\ Cardinality(ClosedEnds(more)) = Cardinality(S) + 1
      /\ Rank(ClosedEnds(more), Len(opts)) = n
      /\ \A e \in S : Rank(ClosedEnds(more), e) = Rank(S, e)
  <2> HIDE DEF S, n
  <2>1. /\ Cardinality(S \cup {Len(opts)}) = Cardinality(S) + 1
        /\ Rank(S \cup {Len(opts)}, Len(opts)) = Cardinality(S) + 1
        /\ \A e \in S : Rank(S \cup {Len(opts)}, e) = Rank(S, e)
    BY <1>1, <1>3, RankGrows
  <2> QED
    BY <1>3, <2>1 DEF S
<1>7. ASSUME NEW e \in S
      PROVE  \A i \in {Rank(ClosedEnds(more), e)} :
               Built(lists', more, profiles'[i], e) /\ profiles'[i].n = i
  <2>1. PICK i : i = Rank(S, e)
    OBVIOUS
  <2>2. i \in 1..(n - 1) /\ i \in 1..n /\ e \in 0..Len(opts)
    BY <1>2, <1>3, <2>1
  <2>3. Built(lists, opts, profiles[i], e) /\ profiles[i].n = i /\ profiles'[i] = profiles[i]
    BY <1>4, <2>1, <2>2 DEF ProfilesBuilt
  <2>4. ListsLeft(lists, lists', profiles[i])
    BY <2>2 DEF ClosedLeft
  <2>5. Built(lists', more, profiles[i], e)
    BY <2>2, <2>3, <2>4, BuiltKept
  <2> QED
    BY <1>6, <2>1, <2>3, <2>5
<1>8. \A i \in {Rank(ClosedEnds(more), Len(opts))} :
        Built(lists', more, profiles'[i], Len(opts)) /\ profiles'[i].n = i
  <2>1. n \in 1..n
    BY <1>2
  <2>2. profiles'[n] = profiles[n]
    BY <1>4, <2>1
  <2>3. profiles[n] = dp
    BY DEF dp
  <2> QED
    BY <1>6, <2>2, <2>3
<1>9. ProfilesBuilt(more)'
  <2>1. \A e \in ClosedEnds(more) : \A i \in {Rank(ClosedEnds(more), e)} :
          Built(lists', more, profiles'[i], e) /\ profiles'[i].n = i
    BY <1>7, <1>8
  <2>2. count' = Len(profiles') /\ Len(profiles') = Cardinality(ClosedEnds(more)) + 1
    BY <1>2, <1>3, <1>4, <1>6
  <2> QED
    BY <1>4, <2>1, <2>2 DEF ProfilesBuilt
<1> QED
  BY <1>2, <1>4, <1>5, <1>9

LEMMA NewStep ==
    ASSUME NEW opts, NEW more, NEW opt, Longer(opts, more, opt), BuildInv(opts), status' = "options",
           status = "options", New(opt)
    PROVE  BuildInv(more)'
<1>1. /\ ListsKept /\ ProfilesBuilt(opts) /\ TemplatesBuilt(opts) /\ SectionKept(opts)
      /\ existing \subseteq Files /\ Len(opts) \in Nat
  BY DEF BuildInv, Longer
<1>2. /\ opt.o = "new" /\ section' = NewSection /\ UNCHANGED <<lists, existing>>
      /\ ~(~section.skip /\ section.template /\ Template(dp.name) # 0)
  BY DEF New, Refuse, LeaveWith
<1>3. ListsKept' /\ existing' \subseteq Files
  BY <1>1, <1>2 DEF ListsKept
<1>4. ClosedLeft
  BY <1>1, <1>2, LeftWithin
<1>5. SUFFICES ProfilesBuilt(more)' /\ TemplatesBuilt(more)' /\ SectionKept(more)' /\ SectionBuilt(more)'
  BY <1>3 DEF BuildInv
<1>6. count = Len(profiles) /\ Len(profiles) \in Nat \ {0}
  BY <1>1, ProfilesAre
<1>7. CASE section.skip
  <2>1. ~IsProfile(opts, Len(opts)) /\ ~IsTemplate(opts, Len(opts))
    BY <1>1, <1>7 DEF SectionKept, IsProfile, IsTemplate
  <2>2. ClosedEnds(more) = ClosedEnds(opts) /\ TemplateEnds(more) = TemplateEnds(opts)
    BY <2>1, EndsGrow
  <2>3. Write(NewProfile(count, opt.a)) /\ UNCHANGED <<templates, count>>
    BY <1>2, <1>7 DEF New
  <2>4. OnlyLast /\ dp' = NewProfile(count, opt.a)
    BY <1>1, <2>3, WriteLast
  <2>5. ProfilesBuilt(more)' /\ TemplatesBuilt(more)'
    BY <1>1, <1>4, <2>2, <2>3, <2>4, ProfilesStay, TemplatesStay
  <2>6. SectionKept(more)' /\ SectionBuilt(more)'
    BY <1>2, <1>6, <2>4, NewSectionIs DEF OnlyLast
  <2> QED
    BY <2>5, <2>6
<1>8. CASE ~section.skip /\ section.template
  <2>1. SectionBuilt(opts)
    BY <1>8 DEF BuildInv
  <2>2. ~IsProfile(opts, Len(opts)) /\ IsTemplate(opts, Len(opts))
    BY <1>1, <1>8, <2>1 DEF SectionKept, SectionBuilt, IsProfile, IsTemplate
  <2>3. ClosedEnds(more) = ClosedEnds(opts) /\ TemplateEnds(more) = TemplateEnds(opts) \cup {Len(opts)}
    BY <1>2, <2>2, EndsGrow
  <2>4. Write(NewProfile(count, opt.a)) /\ count' = count /\ Moved /\ Template(dp.name) = 0
    BY <1>2, <1>8 DEF New, Refuse, LeaveWith
  <2>5. OnlyLast /\ dp' = NewProfile(count, opt.a)
    BY <1>1, <2>4, WriteLast
  <2>6. PICK t : t = [dp EXCEPT !.n = tcount + 1]
    OBVIOUS
  <2>7. /\ TemplateAdded(t) /\ DOMAIN t = ProfileFields
        /\ \A f \in ProfileFields \ {"n"} : t[f] = dp[f]
    BY <2>1, <2>4, <2>6, DpIs DEF Moved, TemplateAdded
  <2>8. t.name = dp.name /\ dp.name = NameOf(opts, Len(opts))
    <3>1. "name" \in ProfileFields \ {"n"}
      BY ProfileFieldsAre
    <3> QED
      BY <2>1, <2>7, <3>1, DpIs
  <2>9. Built(lists, opts, t, Len(opts)) /\ ListsLeft(lists, lists, t)
    <3>1. Built(lists, opts, t, Len(opts))
      BY <2>1, <2>7, DpIs, BuiltNumbered
    <3> QED
      BY <3>1, ListsOfBuilt DEF Built
  <2>10. Built(lists', more, t, Len(opts))
    <3>1. Len(opts) \in 0..Len(opts)
      BY <1>1
    <3> QED
      BY <1>2, <2>9, <3>1, BuiltKept
  <2>11. TemplatesBuilt(more)'
    BY <1>1, <1>4, <2>3, <2>4, <2>7, <2>8, <2>10, TemplatesGrow
  <2>12. ProfilesBuilt(more)'
    BY <1>1, <1>4, <2>3, <2>4, <2>5, ProfilesStay
  <2>13. SectionKept(more)' /\ SectionBuilt(more)'
    BY <1>2, <1>6, <2>5, NewSectionIs DEF OnlyLast
  <2> QED
    BY <2>11, <2>12, <2>13
<1>9. CASE ~section.skip /\ ~section.template
  <2>1. SectionBuilt(opts)
    BY <1>9 DEF BuildInv
  <2>2. IsProfile(opts, Len(opts)) /\ ~IsTemplate(opts, Len(opts))
    BY <1>1, <1>9, <2>1 DEF SectionKept, SectionBuilt, IsProfile, IsTemplate
  <2>3. ClosedEnds(more) = ClosedEnds(opts) \cup {Len(opts)} /\ TemplateEnds(more) = TemplateEnds(opts)
    BY <1>2, <2>2, EndsGrow
  <2>4. PICK q : q = NewProfile(count + 1, opt.a)
    OBVIOUS
  <2>5. profiles' = Append(profiles, q) /\ count' = count + 1 /\ templates' = templates
    BY <1>2, <1>9, <2>4 DEF New
  <2>6. Built(lists', more, dp, Len(opts)) /\ dp.n = Len(profiles)
    <3>1. Len(opts) \in 0..Len(opts)
      BY <1>1
    <3> QED
      BY <1>2, <2>1, <3>1, DpIs, BuiltKept
  <2>7. /\ ProfilesBuilt(more)' /\ dp' = q /\ Len(profiles') = count + 1
        /\ profiles' \in Seq(ToSet(profiles')) /\ Len(profiles') \in Nat
    BY <1>1, <1>4, <2>3, <2>5, <2>6, ProfilesGrow
  <2>8. TemplatesBuilt(more)'
    BY <1>1, <1>4, <2>3, <2>5, TemplatesStay
  <2>9. SectionKept(more)' /\ SectionBuilt(more)'
    BY <1>2, <2>4, <2>7, NewSectionIs
  <2> QED
    BY <2>7, <2>8, <2>9
<1> QED
  BY <1>7, <1>8, <1>9

-----------------------------------------------------------------------------
\* Options: the profiles while the options are taken

LEMMA GivenLen ==
    ASSUME menu \in DOMAIN Menus, said \in Seq(DOMAIN All(menu))
    PROVE  Len(Given) = Len(said) /\ Len(Given) \in Nat
<1>1. PICK opts : opts = Given
  OBVIOUS
<1>2. PICK n \in Nat : n = Len(said)
  OBVIOUS
<1>3. DOMAIN opts = 1..n /\ opts = [k \in 1..n |-> opts[k]]
  BY <1>1, <1>2, GivenIs DEF Given
<1>4. PICK R : R = {opts[k] : k \in 1..n}
  OBVIOUS
<1>5. Len(opts) = n
  BY <1>3, <1>4, SeqBuilt
<1> QED
  BY <1>1, <1>2, <1>5

LEMMA GivenLonger ==
    ASSUME NEW i, Says1(i)
    PROVE  Longer(Given, Given', All(menu)[i])
<1>1. menu \in DOMAIN Menus /\ said \in Seq(DOMAIN All(menu)) /\ menu' = menu
  BY DEF Says1
<1>2. /\ said' \in Seq(DOMAIN All(menu)) /\ Len(said) \in Nat
      /\ DOMAIN Given = 1..Len(said) /\ DOMAIN Given' = 1..(Len(said) + 1)
      /\ \A k \in 1..Len(said) : Given'[k] = Given[k]
      /\ Given'[Len(said) + 1] = All(menu)[i]
  BY GivenGrows
<1>3. Len(Given) = Len(said)
  BY <1>1, GivenLen
<1>4. Len(Given') = Len(said) + 1
  <2>1. PICK more : more = Given'
    OBVIOUS
  <2>2. PICK n \in Nat : n = Len(said) + 1
    BY <1>2
  <2>3. DOMAIN more = 1..n /\ more = [k \in 1..n |-> more[k]]
    BY <1>2, <2>1, <2>2 DEF Given
  <2>4. PICK R : R = {more[k] : k \in 1..n}
    OBVIOUS
  <2>5. Len(more) = n
    BY <2>3, <2>4, SeqBuilt
  <2> QED
    BY <2>1, <2>2, <2>5
<1> QED
  BY <1>2, <1>3, <1>4 DEF Longer

\* The places that are offered are of the menu, and the arguments have their types.
LEMMA Chosen ==
    ASSUME menu \in DOMAIN Menus, said \in Seq(DOMAIN All(menu)), Take
    PROVE  \E i \in DOMAIN All(menu) :
             /\ Says1(i) /\ Typed(All(menu)[i]) /\ status = "options"
             /\ (ProfileOption(All(menu)[i]) /\ UNCHANGED wf) \/ WfOption(All(menu)[i])
<1>1. PICK i \in Offered :
        /\ said' = Append(said, i)
        /\ (ProfileOption(All(menu)[i]) /\ UNCHANGED wf) \/ WfOption(All(menu)[i])
  BY DEF Take
<1>2. /\ Menus[menu].first \in Seq(ToSet(Menus[menu].first))
      /\ Menus[menu].then \in Seq(ToSet(Menus[menu].then))
      /\ \A opt \in ToSet(All(menu)) : Typed(opt)
  BY MenuAssumption
<1>3. /\ Len(Menus[menu].first) \in Nat /\ Len(All(menu)) \in Nat
      /\ DOMAIN All(menu) = 1..Len(All(menu)) /\ Len(Menus[menu].first) <= Len(All(menu))
  <2>1. PICK first : first = Menus[menu].first
    OBVIOUS
  <2>2. PICK then : then = Menus[menu].then
    OBVIOUS
  <2>3. PICK S : S = ToSet(first) \cup ToSet(then)
    OBVIOUS
  <2>4. first \in Seq(S) /\ then \in Seq(S)
    BY <1>2, <2>1, <2>2, <2>3, SeqInto
  <2>5. /\ Len(first) \in Nat /\ Len(first \o then) \in Nat
        /\ DOMAIN (first \o then) = 1..Len(first \o then) /\ Len(first) <= Len(first \o then)
    BY <2>4
  <2> QED
    BY <2>1, <2>2, <2>5 DEF All
<1>4. i \in DOMAIN All(menu)
  BY <1>1, <1>3 DEF Offered
<1>5. All(menu)[i] \in ToSet(All(menu))
  BY <1>3, <1>4 DEF ToSet
<1>6. Says1(i) /\ status = "options"
  BY <1>1, <1>4 DEF Says1, Take
<1> QED
  BY <1>1, <1>2, <1>4, <1>5, <1>6

LEMMA OptionKeeps ==
    ASSUME NEW opts, NEW more, NEW opt, Longer(opts, more, opt), BuildInv(opts), Typed(opt),
           status = "options", status' = "options", ProfileOption(opt) \/ WfOption(opt)
    PROVE  BuildInv(more)'
<1>1. CASE New(opt)
  BY <1>1, NewStep
<1>2. CASE Name(opt)
  BY <1>2, NameStep
<1>3. CASE Import(opt)
  BY <1>3, ImportStep
<1>4. CASE FilterL3(opt)
  BY <1>4, L3Step
<1>5. CASE FilterTcp(opt) \/ FilterUdp(opt) \/ FilterIcmp(opt) \/ FilterIpp(opt)
  BY <1>5, KindStep
<1>6. CASE FilterL7(opt)
  BY <1>6, L7Step
<1>7. CASE Cookie(opt) \/ FailThreshold(opt)
  BY <1>7, NoteStep
<1>8. CASE Skip(opt) \/ Payload(opt) \/ OutRange(opt) \/ InRange(opt)
  BY <1>8, SettingStep
<1>9. CASE LuaDesync(opt)
  BY <1>9, InstanceStep
<1>10. CASE ListFile(opt)
  BY <1>10, FileStep
<1>11. CASE ListItems(opt)
  BY <1>11, ItemsStep
<1>12. CASE ListAuto(opt)
  BY <1>12, AutoStep
<1>13. CASE \/ Server(opt) \/ Intercept(opt) \/ DryRun(opt) \/ Blob(opt)
            \/ Unknown(opt) \/ Version(opt) \/ WfOption(opt)
  BY <1>13, GlobalStep
<1> QED
  BY <1>1, <1>2, <1>3, <1>4, <1>5, <1>6, <1>7, <1>8, <1>9, <1>10, <1>11, <1>12, <1>13
     DEF ProfileOption

\* An option lets the others follow, or ends the program.
LEMMA OptionGoesOn ==
    ASSUME NEW opt, status = "options", ProfileOption(opt) \/ WfOption(opt)
    PROVE  status' \in {"options", "exit0", "exit1"}
<1>1. CASE New(opt)
  BY <1>1 DEF New, Refuse, LeaveWith
<1>2. CASE Skip(opt) \/ Name(opt) \/ Import(opt)
  BY <1>2 DEF Skip, Name, Import, Refuse, LeaveWith
<1>3. CASE \/ FilterL3(opt) \/ FilterTcp(opt) \/ FilterUdp(opt) \/ FilterIcmp(opt)
           \/ FilterIpp(opt) \/ FilterL7(opt) \/ Cookie(opt) \/ FailThreshold(opt) \/ LuaDesync(opt)
  <2>1. \A good, p : WriteIf(good, p) => status' \in {"options", "exit0", "exit1"}
    BY DEF WriteIf, Refuse, LeaveWith
  <2> QED
    BY <1>3, <2>1 DEF FilterL3, FilterTcp, FilterUdp, FilterIcmp, FilterIpp, FilterL7, Cookie,
                      FailThreshold, LuaDesync
<1>4. CASE Payload(opt) \/ OutRange(opt) \/ InRange(opt)
  <2>1. \A good, s : SectionIf(good, s) => status' \in {"options", "exit0", "exit1"}
    BY DEF SectionIf, Refuse, LeaveWith
  <2> QED
    BY <1>4, <2>1 DEF Payload, OutRange, InRange
<1>5. CASE ListFile(opt) \/ ListItems(opt) \/ ListAuto(opt)
  BY <1>5 DEF ListFile, ListItems, ListAuto, Refuse, LeaveWith, profileVars
<1>6. CASE Server(opt) \/ Intercept(opt) \/ DryRun(opt) \/ Blob(opt) \/ Unknown(opt) \/ Version(opt)
  <2>1. \A good, g : GlobalIf(good, g) => status' \in {"options", "exit0", "exit1"}
    BY DEF GlobalIf, Refuse, LeaveWith
  <2> QED
    BY <1>6, <2>1 DEF Server, Intercept, DryRun, Blob, Unknown, Version, Refuse, LeaveWith
<1>7. CASE WfOption(opt)
  BY <1>7 DEF WfOption, Refuse, LeaveWith, profileVars
<1> QED
  BY <1>1, <1>2, <1>3, <1>4, <1>5, <1>6, <1>7 DEF ProfileOption

LEMMA TakeBuilds ==
    ASSUME menu \in DOMAIN Menus, said \in Seq(DOMAIN All(menu)), ProfilesInv, Take
    PROVE  ProfilesInv'
<1>1. PICK i \in DOMAIN All(menu) :
        /\ Says1(i) /\ Typed(All(menu)[i]) /\ status = "options"
        /\ (ProfileOption(All(menu)[i]) /\ UNCHANGED wf) \/ WfOption(All(menu)[i])
  BY Chosen
<1>2. PICK opt : opt = All(menu)[i]
  OBVIOUS
<1>3. PICK opts : opts = Given
  OBVIOUS
<1>4. PICK more : more = Given'
  OBVIOUS
<1>6. BuildInv(opts)
  BY <1>1, <1>3 DEF ProfilesInv
<1>7. /\ Longer(opts, more, opt) /\ Typed(opt) /\ (ProfileOption(opt) \/ WfOption(opt))
      /\ status = "options"
  BY <1>1, <1>2, <1>3, <1>4, GivenLonger
<1>8. status' = "options" => BuildInv(more)'
  BY <1>6, <1>7, OptionKeeps
<1>9. status' \in {"options", "exit0", "exit1"}
  BY <1>7, OptionGoesOn
<1> QED
  BY <1>4, <1>8, <1>9 DEF ProfilesInv

LEMMA NoneIs ==
    ASSUME NEW S
    PROVE  <<>> \in Seq(S) /\ Len(<<>>) = 0 /\ DOMAIN <<>> = {} /\ ToSet(<<>>) = {}
  BY DEF ToSet

LEMMA FirstLists ==
    ASSUME lists = <<>>
    PROVE  ListsKept
<1>1. PICK ls : ls = lists
  OBVIOUS
<1>2. ls \in Seq(ToSet(ls)) /\ ToSet(ls) = {} /\ DOMAIN ls = {}
  BY <1>1, NoneIs
<1>3. OnlyOnce(ls)
  BY <1>2 DEF OnlyOnce
<1> QED
  BY <1>1, <1>2, <1>3, ListsKeptIs

LEMMA OneIs ==
    ASSUME NEW p
    PROVE  <<p>> \in Seq({p}) /\ ToSet(<<p>>) = {p} /\ Len(<<p>>) = 1 /\ <<p>>[1] = p
<1>1. <<p>> \in Seq({p}) /\ DOMAIN <<p>> = {1} /\ <<p>>[1] = p
  OBVIOUS
<1>2. Len(<<p>>) = 1
  OBVIOUS
<1>3. ToSet(<<p>>) = {p}
  BY <1>1 DEF ToSet
<1> QED
  BY <1>1, <1>2, <1>3

LEMMA NoneClosed ==
    ASSUME NEW opts, ClosedEnds(opts) = {}, profiles \in Seq(ToSet(profiles)), Len(profiles) = 1,
           count = Len(profiles)
    PROVE  ProfilesBuilt(opts)
<1>1. Cardinality(ClosedEnds(opts)) = 0
  BY FS_EmptySet
<1> QED
  BY <1>1 DEF ProfilesBuilt

LEMMA FirstProfiles ==
    ASSUME profiles = <<NewProfile(1, "")>>, count = 1, NEW opts, ClosedEnds(opts) = {}
    PROVE  ProfilesBuilt(opts) /\ dp = NewProfile(1, "") /\ Len(profiles) = 1
<1>1. PICK p : p = NewProfile(1, "")
  OBVIOUS
<1>2. /\ profiles \in Seq({p}) /\ ToSet(profiles) = {p} /\ Len(profiles) = 1
      /\ profiles[1] = p
  BY <1>1, OneIs
<1>4. dp = p
  BY <1>2 DEF dp
<1>5. profiles \in Seq(ToSet(profiles))
  BY <1>2
<1>6. ProfilesBuilt(opts)
  BY <1>2, <1>5, NoneClosed
<1> QED
  BY <1>1, <1>2, <1>4, <1>6

LEMMA FirstTemplates ==
    ASSUME templates = <<>>, NEW opts, TemplateEnds(opts) = {}
    PROVE  TemplatesBuilt(opts)
<1>1. PICK ts : ts = templates
  OBVIOUS
<1>2. ts \in Seq(ToSet(ts)) /\ ToSet(ts) = {}
  BY <1>1, NoneIs
<1> QED
  BY <1>1, <1>2 DEF TemplatesBuilt

LEMMA FirstBuilt == OptionsInit => ProfilesInv
<1> SUFFICES ASSUME OptionsInit PROVE ProfilesInv
  OBVIOUS
<1>1. /\ profiles = <<NewProfile(1, "")>> /\ templates = <<>> /\ count = 1 /\ lists = <<>>
      /\ section = NewSection /\ existing = Files
      /\ status = "options" /\ menu \in DOMAIN Menus /\ said = <<>>
  <2>1. /\ profiles = <<NewProfile(1, "")>> /\ count = 1 /\ lists = <<>> /\ templates = <<>>
    BY DEF OptionsInit, ProfilesInit
  <2>2. section = NewSection
    BY DEF OptionsInit, ProfilesInit, NewSection
  <2>3. existing = Files
    BY DEF OptionsInit
  <2>4. status = "options"
    BY DEF OptionsInit, ProfilesInit
  <2>5. menu \in DOMAIN Menus /\ said = <<>>
    BY DEF OptionsInit
  <2> QED
    BY <2>1, <2>2, <2>3, <2>4, <2>5
<1>2. PICK opts : opts = Given
  OBVIOUS
<1>3. Len(opts) = 0
  <2>1. said \in Seq(DOMAIN All(menu)) /\ Len(said) = 0
    BY <1>1, NoneIs
  <2> QED
    BY <1>1, <1>2, <2>1, GivenLen
<1>4. SUFFICES BuildInv(opts)
  BY <1>1, <1>2 DEF ProfilesInv
<1>6. \A names : Own(opts, 0, names) = {}
  BY DEF Own
<1>7. ClosedEnds(opts) = {} /\ TemplateEnds(opts) = {}
  BY <1>3 DEF ClosedEnds, TemplateEnds
<1>8. ProfilesBuilt(opts) /\ dp = NewProfile(1, "") /\ Len(profiles) = 1
  BY <1>1, <1>7, FirstProfiles
<1>9. TemplatesBuilt(opts)
  BY <1>1, <1>7, FirstTemplates
<1>10. NewSection.skip = FALSE /\ NewSection.template = FALSE
  BY DEF NewSection
<1>11. SectionKept(opts)
  <2>1. DOMAIN NewSection.anon = ListFields
    BY DEF NewSection, ListFields
  <2> QED
    BY <1>1, <1>3, <1>6, <1>10, <2>1 DEF SectionKept
<1>12. /\ Setting(opts, 0, "payload", <<"all">>) = <<"all">>
       /\ Setting(opts, 0, "in-range", InDefault) = InDefault
       /\ Setting(opts, 0, "out-range", OutDefault) = OutDefault
       /\ NameOf(opts, 0) = ""
  BY <1>6 DEF Setting, NameOf, Naming
<1>13. /\ Mask(<<"all">>) = NewSection.payload /\ PosRange(InDefault) = NewSection.in
       /\ PosRange(OutDefault) = NewSection.out
  BY DEF Mask, PosRange, InDefault, OutDefault, RangeNever, RangeAlways, PosNever, PosAlways,
         NewSection
<1>14. Built(lists, opts, dp, 0) /\ dp.name = "" /\ dp.n = 1
  <2>1. Len(opts) \in Nat
    BY <1>3
  <2>2. Built(lists, opts, NewProfile(1, ""), 0)
    BY <2>1, BuiltFirst
  <2>3. NewProfile(1, "").name = "" /\ NewProfile(1, "").n = 1
    BY DEF NewProfile
  <2> QED
    BY <1>8, <2>2, <2>3
<1>15. AnonBuilt
  <2>1. NewSection.anon.hl = 0 /\ NewSection.anon.hlx = 0
        /\ NewSection.anon.ips = 0 /\ NewSection.anon.ipsx = 0
    BY DEF NewSection, NoAnon
  <2>2. \A f \in ListFields : NewSection.anon[f] = 0
    BY <2>1, KindsAre
  <2>3. \A f \in ListFields : section.anon[f] = 0
    BY <1>1, <2>2
  <2> QED
    BY <2>3 DEF AnonBuilt
<1>16. SectionBuilt(opts)
  BY <1>1, <1>3, <1>6, <1>8, <1>10, <1>12, <1>13, <1>14, <1>15 DEF SectionBuilt
<1>17. ListsKept
  BY <1>1, FirstLists
<1> QED
  BY <1>1, <1>8, <1>9, <1>11, <1>16, <1>17 DEF BuildInv

\* A file that others delete.
Same == profiles' = profiles /\ templates' = templates /\ count' = count /\ section' = section
        /\ lists' = lists

LEMMA BuildSteady ==
    ASSUME NEW opts, BuildInv(opts), Same, existing' \subseteq Files
    PROVE  BuildInv(opts)'
<1>1. ListsKept' /\ ProfilesBuilt(opts)'
  BY DEF BuildInv, Same, ListsKept, ProfilesBuilt
<1>2. Importable' = Importable
  BY DEF Same, Importable
<1>3. TemplatesBuilt(opts)'
  BY <1>2 DEF BuildInv, Same, TemplatesBuilt
<1>4. SectionKept(opts)'
  BY DEF BuildInv, Same, SectionKept, NewSection
<1>5. dp' = dp
  BY DEF Same, dp
<1>6. AnonBuilt' = AnonBuilt
  BY <1>2, <1>5 DEF Same, AnonBuilt
<1>7. SectionBuilt(opts)' = SectionBuilt(opts)
  BY <1>5, <1>6 DEF Same, SectionBuilt
<1>8. section'.skip = section.skip
  BY DEF Same
<1> QED
  BY <1>1, <1>3, <1>4, <1>7, <1>8 DEF BuildInv

LEMMA EndSteady ==
    ASSUME NEW opts, EndInv(opts), Same, existing' \subseteq Files
    PROVE  EndInv(opts)'
<1>1. ListsKept' = ListsKept
  BY DEF Same, ListsKept
<1>2. Numbered(opts)' = Numbered(opts)
  BY DEF Same, Numbered
<1> QED
  BY <1>1, <1>2 DEF Same, EndInv

\* What the options mean depends on the files only through those that there are.
LEMMA MeaningSteady ==
    ASSUME existing' = existing
    PROVE  \A opts, e : Meaning(opts, e)' = Meaning(opts, e)
<1>1. \A f : Held(f)' = Held(f)
  BY DEF Held
<1>2. \A opts, files : HostsIn(opts, files)' = HostsIn(opts, files)
  BY DEF HostsIn, Held
<1>3. \A files : AddressesIn(files)' = AddressesIn(files)
  BY DEF AddressesIn, Held
<1> QED
  BY <1>2, <1>3 DEF Meaning

LEMMA LoadSteady ==
    ASSUME NEW opts, LoadInv(opts), Same, existing' = existing
    PROVE  LoadInv(opts)'
<1>1. \A e : Meaning(opts, e)' = Meaning(opts, e)
  BY MeaningSteady
<1>2. Numbered(opts)' = Numbered(opts)
  BY DEF Same, Numbered
<1> QED
  BY <1>1, <1>2 DEF Same, LoadInv

\* Nothing of the profiles changes.
Onward ==
    \/ status' = status
    \/ status = "test" /\ status' = "load"
    \/ status \in {"filter", "start"} /\ status' \in {"start", "run"}
    \/ status' \in {"exit0", "exit1"}

LEMMA QuietIs ==
    ASSUME \/ Testing \/ LoseFile \/ MakeFilter \/ Save \/ Duplicate \/ Launch
           \/ UNCHANGED commandVars
    PROVE  /\ Same /\ Onward /\ existing' \subseteq existing /\ menu' = menu /\ said' = said
           /\ status \in {"filter", "start", "run"} => existing' = existing
<1>1. CASE Testing
  BY <1>1 DEF Testing, TestFiles, Refuse, LeaveWith, optionVars, Same, Onward
<1>2. CASE LoseFile
  BY <1>2 DEF LoseFile, Vanish, optionVars, Same, Onward
<1>3. CASE MakeFilter
  <2>1. Same /\ existing' = existing /\ menu' = menu /\ said' = said
    BY <1>3 DEF MakeFilter, Refuse, LeaveWith, optionVars, Same
  <2>2. status = "filter" /\ status' \in {"start", "exit1"}
    BY <1>3 DEF MakeFilter, Refuse, LeaveWith
  <2> QED
    BY <2>1, <2>2 DEF Onward
<1>4. CASE Save \/ Duplicate \/ Launch
  <2>1. \A exit : LeaveWith(exit) => Same /\ existing' = existing
    BY DEF LeaveWith, optionVars, Same
  <2>2. \A exit : LeaveWith(exit) => status' = exit
    BY DEF LeaveWith
  <2>3. status = "start" /\ menu' = menu /\ said' = said
    BY <1>4 DEF Save, Duplicate, Launch
  <2>4. \E exit \in {"exit0", "exit1", "run"} : LeaveWith(exit)
    BY <1>4 DEF Save, Duplicate, Launch, Refuse
  <2> QED
    BY <2>1, <2>2, <2>3, <2>4 DEF Onward
<1>5. CASE UNCHANGED commandVars
  BY <1>5 DEF commandVars, profileVars, optionVars, Same, Onward
<1> QED
  BY <1>1, <1>2, <1>3, <1>4, <1>5

LEMMA QuietKeeps ==
    ASSUME ProfilesInv, Same, Onward, existing' \subseteq existing, menu' = menu, said' = said,
           status \in {"filter", "start", "run"} => existing' = existing
    PROVE  ProfilesInv'
<1>1. PICK opts : opts = Given
  OBVIOUS
<1>2. Given' = opts
  BY <1>1 DEF Given
<1>3. /\ status = "options" => BuildInv(opts)
      /\ status \in {"test", "load"} => EndInv(opts)
      /\ status \in {"filter", "start", "run"} => LoadInv(opts)
  BY <1>1 DEF ProfilesInv
<1>4. status \in {"options", "test", "load"} => existing \subseteq Files
  BY <1>3 DEF BuildInv, EndInv
<1>5. status' = "options" => BuildInv(opts)'
  <2>1. status' = "options" => status = "options"
    BY DEF Onward
  <2> QED
    BY <1>3, <1>4, <2>1, BuildSteady
<1>6. status' \in {"test", "load"} => EndInv(opts)'
  <2>1. status' \in {"test", "load"} => status \in {"test", "load"}
    BY DEF Onward
  <2> QED
    BY <1>3, <1>4, <2>1, EndSteady
<1>7. status' \in {"filter", "start", "run"} => LoadInv(opts)'
  <2>1. status' \in {"filter", "start", "run"} => status \in {"filter", "start", "run"}
    BY DEF Onward
  <2> QED
    BY <1>3, <2>1, LoadSteady
<1> QED
  BY <1>2, <1>5, <1>6, <1>7 DEF ProfilesInv

-----------------------------------------------------------------------------
\* Options: the end of the options

\* filter_defaults, field by field.
LEMMA DefaultsAre ==
    ASSUME NEW p, DOMAIN p = ProfileFields, NEW q, q = Defaults(p)
    PROVE  /\ q.n = p.n /\ q.fns = p.fns /\ q.l7 = p.l7 /\ q.auto = p.auto
           /\ q.hl = p.hl /\ q.hlx = p.hlx /\ q.ips = p.ips /\ q.ipsx = p.ipsx
           /\ p.l3set = TRUE => q.l3 = p.l3
           /\ p.l3set = FALSE => q.l3 = {"ipv4", "ipv6"}
<1> DEFINE r == [p EXCEPT !.l3 = IF p.l3set THEN @ ELSE {"ipv4", "ipv6"}]
<1>1. /\ DOMAIN r = ProfileFields
      /\ r.n = p.n /\ r.fns = p.fns /\ r.l7 = p.l7 /\ r.auto = p.auto
      /\ r.hl = p.hl /\ r.hlx = p.hlx /\ r.ips = p.ips /\ r.ipsx = p.ipsx
      /\ r.tcp = p.tcp /\ r.udp = p.udp /\ r.icmp = p.icmp /\ r.ipp = p.ipp
      /\ r.l3 = IF p.l3set THEN p.l3 ELSE {"ipv4", "ipv6"}
  BY ProfileFieldsAre
<1> DEFINE s == [r EXCEPT !.tcp = OrDeny(@, DenyPort), !.udp = OrDeny(@, DenyPort),
                          !.icmp = OrDeny(@, DenyIcmp), !.ipp = OrDeny(@, DenyIpp)]
<1>2. q = r \/ q = s
  BY DEF Defaults
<1>3. s.n = r.n /\ s.fns = r.fns /\ s.l7 = r.l7 /\ s.auto = r.auto /\ s.l3 = r.l3
      /\ s.hl = r.hl /\ s.hlx = r.hlx /\ s.ips = r.ips /\ s.ipsx = r.ipsx
  <2> HIDE DEF r
  <2> QED
    BY <1>1, ProfileFieldsAre
<1> HIDE DEF r, s
<1> QED
  BY <1>1, <1>2, <1>3

NoFilters(p) == p.tcp = <<>> /\ p.udp = <<>> /\ p.icmp = <<>> /\ p.ipp = <<>>

LEMMA DenyAre ==
    ASSUME NEW p, DOMAIN p = ProfileFields, NEW q, q = Defaults(p)
    PROVE  /\ NoFilters(p) => q.tcp = p.tcp /\ q.udp = p.udp /\ q.icmp = p.icmp /\ q.ipp = p.ipp
           /\ ~NoFilters(p) => /\ q.tcp = OrDeny(p.tcp, DenyPort)
                               /\ q.udp = OrDeny(p.udp, DenyPort)
                               /\ q.icmp = OrDeny(p.icmp, DenyIcmp)
                               /\ q.ipp = OrDeny(p.ipp, DenyIpp)
<1> DEFINE r == [p EXCEPT !.l3 = IF p.l3set THEN @ ELSE {"ipv4", "ipv6"}]
<1>1. /\ DOMAIN r = ProfileFields
      /\ r.tcp = p.tcp /\ r.udp = p.udp /\ r.icmp = p.icmp /\ r.ipp = p.ipp
  BY ProfileFieldsAre
<1> DEFINE s == [r EXCEPT !.tcp = OrDeny(@, DenyPort), !.udp = OrDeny(@, DenyPort),
                          !.icmp = OrDeny(@, DenyIcmp), !.ipp = OrDeny(@, DenyIpp)]
<1>2. (NoFilters(p) => q = r) /\ (~NoFilters(p) => q = s)
  BY DEF Defaults, NoFilters
<1>3. /\ s.tcp = OrDeny(r.tcp, DenyPort) /\ s.udp = OrDeny(r.udp, DenyPort)
      /\ s.icmp = OrDeny(r.icmp, DenyIcmp) /\ s.ipp = OrDeny(r.ipp, DenyIpp)
  <2> HIDE DEF r
  <2> QED
    BY <1>1, ProfileFieldsAre
<1> HIDE DEF r, s
<1> QED
  BY <1>1, <1>2, <1>3

LEMMA DenyOf ==
    ASSUME NEW p, DOMAIN p = ProfileFields, NEW q, q = Defaults(p), NEW kind \in DOMAIN FilterNames
    PROVE  /\ NoFilters(p) => q[kind] = p[kind]
           /\ ~NoFilters(p) => q[kind] = OrDeny(p[kind], Denied(kind))
<1>1. /\ NoFilters(p) => q.tcp = p.tcp /\ q.udp = p.udp /\ q.icmp = p.icmp /\ q.ipp = p.ipp
      /\ ~NoFilters(p) => /\ q.tcp = OrDeny(p.tcp, Denied("tcp"))
                          /\ q.udp = OrDeny(p.udp, Denied("udp"))
                          /\ q.icmp = OrDeny(p.icmp, Denied("icmp"))
                          /\ q.ipp = OrDeny(p.ipp, Denied("ipp"))
  BY DenyAre DEF Denied
<1>2. kind \in {"tcp", "udp", "icmp", "ipp"}
  BY KindsAre
<1> QED
  BY <1>1, <1>2

LEMMA DenyIs ==
    ASSUME NEW S, NEW s \in Seq(S), ToSet(s) = S, NEW x, NEW t, t = OrDeny(s, x)
    PROVE  t \in Seq(ToSet(t)) /\ (S # {} => ToSet(t) = S) /\ (S = {} => ToSet(t) = {x})
<1>1. S # {} => t = s
  BY ToSetIs DEF OrDeny
<1>2. S = {} => t = <<x>>
  BY ToSetIs DEF OrDeny
<1>3. <<x>> \in Seq({x}) /\ ToSet(<<x>>) = {x}
  BY OneIs
<1> QED
  BY <1>1, <1>2, <1>3

LEMMA LimitedIs ==
    ASSUME NEW opts, NEW p, NEW k, NEW q, DOMAIN p = ProfileFields, FiltersBuilt(opts, p, k),
           q = Defaults(p)
    PROVE  Limited(opts, q, k)
<1>1. \A kind \in DOMAIN FilterNames :
         /\ p[kind] \in Seq(FilterRead(opts, kind, k)) /\ ToSet(p[kind]) = FilterRead(opts, kind, k)
         /\ FilterRead(opts, kind, k) = {} <=> Items(opts, kind, k) = {}
         /\ FilterRead(opts, kind, k) = {} <=> p[kind] = <<>>
  <2> TAKE kind \in DOMAIN FilterNames
  <2>1. p[kind] \in Seq(FilterRead(opts, kind, k)) /\ ToSet(p[kind]) = FilterRead(opts, kind, k)
    BY DEF FiltersBuilt
  <2>2. FilterRead(opts, kind, k) = {} <=> Items(opts, kind, k) = {}
    BY DEF FilterRead
  <2> QED
    BY <2>1, <2>2, ToSetIs
<1>2. NoFilters(p) <=> \A other \in DOMAIN FilterNames : Items(opts, other, k) = {}
  <2>1. NoFilters(p) <=> \A other \in DOMAIN FilterNames : p[other] = <<>>
    BY KindsAre DEF NoFilters
  <2> QED
    BY <1>1, <2>1
<1>3. ASSUME NEW kind \in DOMAIN FilterNames
      PROVE  /\ q[kind] \in Seq(ToSet(q[kind]))
             /\ ToSet(q[kind]) =
                  IF \/ FilterRead(opts, kind, k) # {}
                     \/ \A other \in DOMAIN FilterNames : Items(opts, other, k) = {}
                  THEN FilterRead(opts, kind, k) ELSE {Denied(kind)}
  <2>1. CASE NoFilters(p)
    <3>1. q[kind] = p[kind]
      BY <2>1, DenyOf
    <3> QED
      BY <1>1, <1>2, <2>1, <3>1
  <2>2. CASE ~NoFilters(p)
    <3>1. q[kind] = OrDeny(p[kind], Denied(kind))
      BY <2>2, DenyOf
    <3>2. PICK s : s = p[kind]
      OBVIOUS
    <3>3. PICK S : S = FilterRead(opts, kind, k)
      OBVIOUS
    <3>4. PICK x : x = Denied(kind)
      OBVIOUS
    <3>5. s \in Seq(S) /\ ToSet(s) = S /\ q[kind] = OrDeny(s, x)
      BY <1>1, <3>1, <3>2, <3>3, <3>4
    <3>6. q[kind] \in Seq(ToSet(q[kind])) /\ (S # {} => ToSet(q[kind]) = S)
          /\ (S = {} => ToSet(q[kind]) = {x})
      BY <3>5, DenyIs
    <3> QED
      BY <1>2, <2>2, <3>3, <3>4, <3>6
  <2> QED
    BY <2>1, <2>2
<1>4. q.l3 = IF Arguments(opts, "filter-l3", k) = {} THEN {"ipv4", "ipv6"}
             ELSE Members(Arguments(opts, "filter-l3", k))
  <2>1. p.l3 = Members(Arguments(opts, "filter-l3", k))
        /\ p.l3set = (Arguments(opts, "filter-l3", k) # {})
    BY DEF FiltersBuilt
  <2>2. (p.l3set = TRUE => q.l3 = p.l3) /\ (p.l3set = FALSE => q.l3 = {"ipv4", "ipv6"})
    BY DefaultsAre
  <2> QED
    BY <2>1, <2>2
<1> QED
  BY <1>3, <1>4 DEF Limited

\* A profile that is built, with the defaults.
LEMMA DefaultsBuilt ==
    ASSUME NEW ls, NEW opts, NEW p, NEW k, Built(ls, opts, p, k), ListsLeft(ls, ls, p),
           NEW q, q = Defaults(p)
    PROVE  /\ RestBuilt(opts, q, k) /\ CollectionsBuilt(ls, opts, q, k) /\ Limited(opts, q, k)
           /\ q.n = p.n
<1>1. DOMAIN p = ProfileFields /\ RestBuilt(opts, p, k) /\ FiltersBuilt(opts, p, k)
      /\ CollectionsBuilt(ls, opts, p, k)
  BY DEF Built
<1>2. /\ q.n = p.n /\ q.fns = p.fns /\ q.l7 = p.l7 /\ q.auto = p.auto
      /\ q.hl = p.hl /\ q.hlx = p.hlx /\ q.ips = p.ips /\ q.ipsx = p.ipsx
  BY <1>1, DefaultsAre
<1>3. /\ \A names : SameArguments(opts, k, opts, k, names)
      /\ SameMask(opts, k, opts, k)
  BY DEF SameArguments, SameMask
<1>4. RestBuilt(opts, q, k)
  BY <1>1, <1>2, <1>3, RestSame
<1>5. \A field \in ListFields : q[field] = p[field]
  BY <1>2, KindsAre
<1>6. CollectionsBuilt(ls, opts, q, k)
  BY <1>1, <1>2, <1>3, <1>5, CollectionsSame
<1>7. Limited(opts, q, k)
  BY <1>1, LimitedIs
<1> QED
  BY <1>2, <1>4, <1>6, <1>7

\* Is the last section a profile?
LEMMA LastIsProfile ==
    ASSUME NEW opts, BuildInv(opts)
    PROVE  IsProfile(opts, Len(opts)) <=> ~(section.skip \/ section.template)
<1>1. section.skip = (Own(opts, Len(opts), {"skip"}) # {})
  BY DEF BuildInv, SectionKept
<1>2. ~section.skip => section.template = (Own(opts, Len(opts), {"template"}) # {})
  BY DEF BuildInv, SectionBuilt
<1> QED
  BY <1>1, <1>2 DEF IsProfile

LEMMA FrontOf ==
    ASSUME NEW s, s \in Seq(ToSet(s)), Len(s) # 0, NEW t, t = Front(s)
    PROVE  /\ t \in Seq(ToSet(s)) /\ Len(t) = Len(s) - 1
           /\ \A i \in 1..(Len(s) - 1) : t[i] = s[i]
<1>1. PICK S : S = ToSet(s)
  OBVIOUS
<1>2. PICK n \in Nat \ {0} : n = Len(s) /\ DOMAIN s = 1..n
  OBVIOUS
<1>3. DOMAIN t = 1..(n - 1) /\ (\A i \in 1..(n - 1) : t[i] = s[i])
      /\ t = [i \in 1..(n - 1) |-> s[i]]
  BY <1>2 DEF Front
<1>4. \A i \in 1..(n - 1) : s[i] \in S
  BY <1>1, <1>2 DEF ToSet
<1>5. t \in [1..(n - 1) -> S] /\ n - 1 \in Nat
  BY <1>3, <1>4
<1>6. t \in Seq(S) /\ Len(t) = n - 1
  BY <1>5
<1> QED
  BY <1>1, <1>2, <1>3, <1>6

\* The profiles of the options are those that are closed, and the last one if it is any.
LEMMA UsersAre ==
    ASSUME NEW opts, Len(opts) \in Nat, BuildInv(opts)
    PROVE  /\ UserProfiles \in Seq(ToSet(profiles))
           /\ Len(UserProfiles) = Cardinality(ProfileEnds(opts))
           /\ ProfileEnds(opts) \in SUBSET (0..Len(opts))
           /\ \A e \in ProfileEnds(opts) : \A i \in {Number(opts, e)} :
                /\ i \in 1..Len(UserProfiles)
                /\ Built(lists, opts, UserProfiles[i], e) /\ UserProfiles[i].n = i
<1> DEFINE n == Len(opts)
           S == ClosedEnds(opts)
<1>1. ProfilesBuilt(opts)
  BY DEF BuildInv
<1>2. /\ Len(profiles) \in Nat \ {0} /\ DOMAIN profiles = 1..Len(profiles)
      /\ profiles \in Seq(ToSet(profiles)) /\ Len(profiles) = Cardinality(S) + 1
  BY <1>1, ProfilesAre DEF ProfilesBuilt
<1>3. /\ S \in SUBSET (0..n) /\ n \notin S /\ Cardinality(S) \in Nat
      /\ \A e \in S : Rank(S, e) \in 1..Cardinality(S)
  <2>1. S \in SUBSET (0..(n - 1)) /\ S \in SUBSET (0..n)
        /\ Cardinality(S) \in Nat /\ \A e \in S : Rank(S, e) \in 1..Cardinality(S)
    BY EndsAre
  <2>2. n \notin S
    <3> HIDE DEF S
    <3> QED
      BY <2>1
  <2> QED
    BY <2>1, <2>2
<1>4. \A e \in S : \A i \in {Rank(S, e)} :
         /\ i \in 1..Cardinality(S)
         /\ Built(lists, opts, profiles[i], e) /\ profiles[i].n = i
  BY <1>1, <1>3 DEF ProfilesBuilt
<1>5. CASE ~IsProfile(opts, n)
  <2>1. ProfileEnds(opts) = S
    BY <1>5 DEF ProfileEnds
  <2>2. UserProfiles = Front(profiles)
    BY <1>5, LastIsProfile DEF UserProfiles
  <2>3. /\ UserProfiles \in Seq(ToSet(profiles)) /\ Len(UserProfiles) = Cardinality(S)
        /\ \A i \in 1..Cardinality(S) : UserProfiles[i] = profiles[i]
    <3>1. PICK us : us = UserProfiles
      OBVIOUS
    <3>2. /\ us \in Seq(ToSet(profiles)) /\ Len(us) = Len(profiles) - 1
          /\ \A i \in 1..(Len(profiles) - 1) : us[i] = profiles[i]
      BY <1>2, <2>2, <3>1, FrontOf
    <3>3. Len(profiles) - 1 = Cardinality(S)
      BY <1>2, <1>3
    <3> QED
      BY <3>1, <3>2, <3>3
  <2>4. ASSUME NEW e \in S, NEW i, i = Rank(S, e)
        PROVE  /\ i \in 1..Len(UserProfiles)
               /\ Built(lists, opts, UserProfiles[i], e) /\ UserProfiles[i].n = i
    <3>1. i \in 1..Cardinality(S) /\ Built(lists, opts, profiles[i], e) /\ profiles[i].n = i
      BY <1>4, <2>4
    <3>2. UserProfiles[i] = profiles[i]
      BY <2>3, <3>1
    <3> QED
      BY <2>3, <3>1, <3>2
  <2> QED
    BY <1>3, <2>1, <2>3, <2>4 DEF Number
<1>6. CASE IsProfile(opts, n)
  <2>1. ProfileEnds(opts) = S \cup {n}
    BY <1>6 DEF ProfileEnds
  <2>2. /\ Cardinality(S \cup {n}) = Cardinality(S) + 1
        /\ Rank(S \cup {n}, n) = Cardinality(S) + 1
        /\ \A e \in S : Rank(S \cup {n}, e) = Rank(S, e)
    <3> HIDE DEF S
    <3> QED
      BY <1>3, RankGrows
  <2>3. UserProfiles = profiles
    BY <1>6, LastIsProfile DEF UserProfiles
  <2>4. S \cup {n} \in SUBSET (0..n)
    BY <1>3
  <2>5. ASSUME NEW e \in S, NEW i, i = Rank(S, e)
        PROVE  /\ i \in 1..Len(profiles)
               /\ Built(lists, opts, profiles[i], e) /\ profiles[i].n = i
    <3>1. i \in 1..Cardinality(S) /\ Built(lists, opts, profiles[i], e) /\ profiles[i].n = i
      BY <1>4, <2>5
    <3> QED
      BY <1>2, <1>3, <3>1
  <2>6. ASSUME NEW i, i = Len(profiles)
        PROVE  /\ i \in 1..Len(profiles)
               /\ Built(lists, opts, profiles[i], n) /\ profiles[i].n = i
    <3>1. SectionBuilt(opts)
      BY <1>6, LastIsProfile DEF BuildInv
    <3>2. Built(lists, opts, dp, n) /\ dp.n = Len(profiles) /\ dp = profiles[i]
      BY <2>6, <3>1 DEF SectionBuilt, dp
    <3> QED
      BY <1>2, <2>6, <3>2
  <2>7. ASSUME NEW e \in S \cup {n}, NEW i, i = Rank(S \cup {n}, e)
        PROVE  /\ i \in 1..Len(profiles)
               /\ Built(lists, opts, profiles[i], e) /\ profiles[i].n = i
    <3>1. CASE e \in S
      BY <2>2, <2>5, <2>7, <3>1
    <3>2. CASE e = n
      <4>1. i = Len(profiles)
        BY <1>2, <2>2, <2>7, <3>2
      <4> QED
        BY <2>6, <3>2, <4>1
    <3> QED
      BY <3>1, <3>2
  <2>8. Len(profiles) = Cardinality(S \cup {n})
    BY <1>2, <2>2
  <2> QED
    BY <1>2, <2>1, <2>3, <2>4, <2>7, <2>8 DEF Number
<1> QED
  BY <1>5, <1>6

WithDefaults(all) == Mapped(Defaults, all)
DefaultsOf(us, x, new) ==
    /\ new \in Seq(ToSet(new)) /\ Len(new) = Len(us) + 1
    /\ \A i \in 1..Len(us) : new[i] = Defaults(us[i])
    /\ new[Len(new)] = Defaults(x)

LEMMA MappedIs ==
    ASSUME NEW S, NEW us \in Seq(S), NEW x, NEW new, new = WithDefaults(Append(us, x))
    PROVE  DefaultsOf(us, x, new)
<1> DEFINE n == Len(us)
<1>1. n \in Nat
  OBVIOUS
<1>2. PICK all : all = Append(us, x)
  OBVIOUS
<1>3. /\ DOMAIN all = 1..(n + 1) /\ all[n + 1] = x
      /\ \A i \in 1..n : all[i] = us[i]
  BY <1>2
<1>4. new = [i \in 1..(n + 1) |-> Defaults(all[i])]
  BY <1>2, <1>3 DEF WithDefaults, Mapped
<1> HIDE DEF n
<1>5. /\ \A i \in 1..(n + 1) : new[i] = Defaults(all[i])
      /\ DOMAIN new = 1..(n + 1) /\ new = [i \in 1..(n + 1) |-> new[i]]
  BY <1>4
<1>6. \A i \in 1..(n + 1) : new[i] \in ToSet(new)
  BY <1>5 DEF ToSet
<1>7. new \in Seq(ToSet(new)) /\ Len(new) = n + 1
  <2>1. PICK m \in Nat : m = n + 1
    BY <1>1
  <2>2. PICK R : R = ToSet(new)
    OBVIOUS
  <2>3. PICK y : y = new
    OBVIOUS
  <2>4. y = [i \in 1..m |-> y[i]] /\ \A i \in 1..m : y[i] \in R
    BY <1>5, <1>6, <2>1, <2>2, <2>3
  <2>5. y \in Seq(R) /\ Len(y) = m
    BY <2>4, SeqBuilt
  <2> QED
    BY <2>1, <2>2, <2>3, <2>5
<1>8. \A i \in 1..n : new[i] = Defaults(us[i])
  <2>1. \A i \in 1..n : i \in 1..(n + 1)
    BY <1>1
  <2> QED
    BY <1>3, <1>5, <2>1
<1>9. new[n + 1] = Defaults(x)
  <2>1. n + 1 \in 1..(n + 1)
    BY <1>1
  <2> QED
    BY <1>3, <1>5, <2>1
<1> QED
  BY <1>7, <1>8, <1>9 DEF n, DefaultsOf

LEMMA ClosedIs ==
    ASSUME EndTaking, status' # "exit1"
    PROVE  /\ profiles' = WithDefaults(Append(UserProfiles, NewProfile(0, "no_action")))
           /\ lists' = lists /\ existing' = existing /\ status = "options" /\ status' = "test"
           /\ menu' = menu /\ said' = said
  BY DEF EndTaking, EndOfOptions, Refuse, LeaveWith, WithDefaults

\* The end of the options makes of them what EndInv says.
LEMMA EndBuilds ==
    ASSUME NEW opts, Len(opts) \in Nat, BuildInv(opts), EndTaking, status' # "exit1"
    PROVE  EndInv(opts)'
<1>1. PICK us : us = UserProfiles
  OBVIOUS
<1>2. PICK x : x = NewProfile(0, "no_action")
  OBVIOUS
<1>3. PICK new : new = profiles'
  OBVIOUS
<1>4. /\ us \in Seq(ToSet(profiles)) /\ Len(us) = Cardinality(ProfileEnds(opts))
      /\ \A e \in ProfileEnds(opts) : \A i \in {Number(opts, e)} :
           /\ i \in 1..Len(us)
           /\ Built(lists, opts, us[i], e) /\ us[i].n = i
  BY <1>1, UsersAre
<1>5. new = WithDefaults(Append(us, x)) /\ lists' = lists /\ existing' = existing
  BY <1>1, <1>2, <1>3, ClosedIs
<1>6. /\ new \in Seq(ToSet(new)) /\ Len(new) = Len(us) + 1
      /\ \A i \in 1..Len(us) : new[i] = Defaults(us[i])
      /\ new[Len(new)] = Defaults(x)
  <2>1. PICK S : S = ToSet(profiles)
    OBVIOUS
  <2>2. us \in Seq(S) /\ new = WithDefaults(Append(us, x))
    BY <1>4, <1>5, <2>1
  <2>3. DefaultsOf(us, x, new)
    BY <2>2, MappedIs
  <2> QED
    BY <2>3 DEF DefaultsOf
<1>7. ASSUME NEW e \in ProfileEnds(opts), NEW i, i = Number(opts, e)
      PROVE  /\ RestBuilt(opts, new[i], e) /\ CollectionsBuilt(lists, opts, new[i], e)
             /\ Limited(opts, new[i], e) /\ new[i].n = i
  <2>1. Built(lists, opts, us[i], e) /\ us[i].n = i /\ new[i] = Defaults(us[i])
    BY <1>4, <1>6, <1>7
  <2>2. ListsLeft(lists, lists, us[i])
    BY <2>1, ListsOfBuilt DEF Built
  <2>3. PICK p : p = us[i]
    OBVIOUS
  <2>4. PICK q : q = new[i]
    OBVIOUS
  <2>5. RestBuilt(opts, q, e) /\ CollectionsBuilt(lists, opts, q, e) /\ Limited(opts, q, e)
        /\ q.n = p.n
    BY <2>1, <2>2, <2>3, <2>4, DefaultsBuilt
  <2> QED
    BY <2>1, <2>3, <2>4, <2>5
<1>8. Numbered(opts)'
  <2>1. \A e \in ProfileEnds(opts) : new[Number(opts, e)].n = Number(opts, e)
    BY <1>7
  <2> QED
    BY <1>2, <1>3, <1>4, <1>6, <2>1 DEF Numbered
<1>9. ListsKept' /\ existing' \subseteq Files
  BY <1>5 DEF BuildInv, ListsKept
<1>10. \A e \in ProfileEnds(opts) : \A p \in {new[Number(opts, e)]} :
         RestBuilt(opts, p, e) /\ CollectionsBuilt(lists', opts, p, e) /\ Limited(opts, p, e)
  BY <1>5, <1>7
<1> QED
  BY <1>3, <1>8, <1>9, <1>10 DEF EndInv

-----------------------------------------------------------------------------
\* Options: the profiles by their numbers, and the lists that are read

LEMMA NumbersAre ==
    ASSUME NEW opts, Len(opts) \in Nat
    PROVE  /\ ProfileEnds(opts) \in SUBSET (0..Len(opts))
           /\ Cardinality(ProfileEnds(opts)) \in Nat
           /\ \A e \in ProfileEnds(opts) : Number(opts, e) \in 1..Cardinality(ProfileEnds(opts))
           /\ \A d, e \in ProfileEnds(opts) : d < e => Number(opts, d) < Number(opts, e)
           /\ \A i \in 1..Cardinality(ProfileEnds(opts)) :
                \E e \in ProfileEnds(opts) : Number(opts, e) = i
<1>1. ClosedEnds(opts) \in SUBSET (0..Len(opts))
  BY EndsAre
<1>2. ProfileEnds(opts) \in SUBSET (0..Len(opts))
  BY <1>1 DEF ProfileEnds
<1>3. PICK S : S = ProfileEnds(opts)
  OBVIOUS
<1>4. /\ Cardinality(S) \in Nat /\ \A e \in S : Rank(S, e) \in 1..Cardinality(S)
      /\ \A d, e \in S : d < e => Rank(S, d) < Rank(S, e)
  BY <1>2, <1>3, RankIs
<1>5. \A i \in 1..Cardinality(S) : \E e \in S : Rank(S, e) = i
  BY <1>2, <1>3, RankOnto
<1> QED
  BY <1>2, <1>3, <1>4, <1>5 DEF Number

LEMMA NumberedAre ==
    ASSUME NEW opts, Len(opts) \in Nat, Numbered(opts)
    PROVE  /\ Len(profiles) \in Nat \ {0} /\ DOMAIN profiles = 1..Len(profiles)
           /\ \A e \in ProfileEnds(opts) : Number(opts, e) \in 1..(Len(profiles) - 1)
           /\ \A i \in 1..(Len(profiles) - 1) :
                \E e \in ProfileEnds(opts) : Number(opts, e) = i
<1>1. Len(profiles) = Cardinality(ProfileEnds(opts)) + 1 /\ profiles \in Seq(ToSet(profiles))
  BY DEF Numbered
<1>2. Cardinality(ProfileEnds(opts)) \in Nat
  BY NumbersAre
<1>3. Len(profiles) \in Nat \ {0} /\ DOMAIN profiles = 1..Len(profiles)
      /\ Len(profiles) - 1 = Cardinality(ProfileEnds(opts))
  BY <1>1, <1>2
<1> QED
  BY <1>3, NumbersAre

LEMMA NoActionIs ==
    ASSUME NEW p, p = Defaults(NewProfile(0, "no_action"))
    PROVE  /\ p.n = 0 /\ p.auto = 0 /\ p.l3 = {"ipv4", "ipv6"} /\ p.l7 = {}
           /\ p.hl = <<>> /\ p.hlx = <<>> /\ p.ips = <<>> /\ p.ipsx = <<>>
           /\ p.tcp = <<>> /\ p.udp = <<>> /\ p.icmp = <<>> /\ p.ipp = <<>>
  BY DEF Defaults, NewProfile

\* The profiles are those of the options and the one that does nothing.
LEMMA EveryProfile ==
    ASSUME NEW opts, Len(opts) \in Nat, Numbered(opts), NEW p \in ToSet(profiles)
    PROVE  (\E e \in ProfileEnds(opts) : p = profiles[Number(opts, e)]) \/ p.auto = 0
<1>1. PICK i \in DOMAIN profiles : p = profiles[i]
  BY DEF ToSet
<1>2. CASE i = Len(profiles)
  <2>1. p = Defaults(NewProfile(0, "no_action"))
    BY <1>1, <1>2 DEF Numbered
  <2> QED
    BY <2>1, NoActionIs
<1>3. CASE i # Len(profiles)
  <2>1. i \in 1..(Len(profiles) - 1)
    BY <1>1, <1>3, NumberedAre
  <2> QED
    BY <1>1, <2>1, NumberedAre
<1> QED
  BY <1>2, <1>3

IsAuto(i) == \E p \in ToSet(profiles) : p.auto = i
HostFile(l) == l.kind = "host" /\ HasFile(l)

\* The lists that a profile adds hosts to are those of the automatic files.
LEMMA AutosAre ==
    ASSUME NEW opts, Len(opts) \in Nat, EndInv(opts), NEW i \in DOMAIN lists
    PROVE  IsAuto(i) <=> HostFile(lists[i]) /\ lists[i].file \in AutoFiles(opts)
<1>0. /\ Numbered(opts) /\ lists \in Seq(ToSet(lists)) /\ OnlyOnce(lists)
      /\ \A e \in ProfileEnds(opts) : \A p \in {profiles[Number(opts, e)]} :
           AutoBuilt(lists, opts, p, e)
  BY ListsKeptIs DEF EndInv, CollectionsBuilt
<1>1. i # 0
  <2>1. DOMAIN lists = 1..Len(lists)
    BY <1>0
  <2> QED
    BY <2>1
<1>2. ASSUME NEW e \in ProfileEnds(opts), NEW p, p = profiles[Number(opts, e)], p.auto # 0
      PROVE  /\ p.auto \in DOMAIN lists /\ HostFile(lists[p.auto])
             /\ Arguments(opts, "hostlist_auto", e) = {lists[p.auto].file}
  BY <1>0, <1>2 DEF AutoBuilt, HostFile, HasFile
<1>3. ASSUME IsAuto(i)
      PROVE  HostFile(lists[i]) /\ lists[i].file \in AutoFiles(opts)
  <2>1. PICK p \in ToSet(profiles) : p.auto = i
    BY <1>3 DEF IsAuto
  <2>2. PICK e \in ProfileEnds(opts) : p = profiles[Number(opts, e)]
    BY <1>0, <1>1, <2>1, EveryProfile
  <2>3. HostFile(lists[i]) /\ Arguments(opts, "hostlist_auto", e) = {lists[i].file}
    BY <1>1, <1>2, <2>1, <2>2
  <2> QED
    BY <2>3 DEF AutoFiles
<1>4. ASSUME HostFile(lists[i]), lists[i].file \in AutoFiles(opts)
      PROVE  IsAuto(i)
  <2>1. PICK e \in ProfileEnds(opts) : lists[i].file \in Arguments(opts, "hostlist_auto", e)
    BY <1>4 DEF AutoFiles
  <2>2. PICK p : p = profiles[Number(opts, e)]
    OBVIOUS
  <2>3. p.auto # 0
    BY <1>0, <2>1, <2>2 DEF AutoBuilt
  <2>4. /\ p.auto \in DOMAIN lists /\ HostFile(lists[p.auto])
        /\ lists[p.auto].file = lists[i].file
    BY <1>2, <2>1, <2>2, <2>3
  <2>5. lists[p.auto].kind = lists[i].kind /\ HasFile(lists[i])
    BY <1>4, <2>4 DEF HostFile
  <2>6. p.auto = i
    BY <1>0, <2>4, <2>5 DEF OnlyOnce
  <2>7. p \in ToSet(profiles)
    BY <1>0, <2>2, NumberedAre DEF ToSet
  <2> QED
    BY <2>6, <2>7 DEF IsAuto
<1> QED
  BY <1>3, <1>4

\* What is read from a file.
HeldOf(there, f) == IF f \in there THEN Content[f] ELSE {}
HostItems(there, opts, f) ==
    IF HeldOf(there, f) = {} /\ f \in AutoFiles(opts) THEN {"@&()"} ELSE HeldOf(there, f)
FileItems(there, opts, field, f) ==
    IF Kind(field) = "host" THEN HostItems(there, opts, f) ELSE HeldOf(there, f)

LEMMA ReadIs ==
    ASSUME NEW i \in DOMAIN lists, Listed(lists[i]), NEW l, l = Read(i)
    PROVE  /\ ~HasFile(lists[i]) /\ ~IsAuto(i) => l.items = lists[i].items
           /\ HasFile(lists[i]) /\ ~IsAuto(i) => l.items = Held(lists[i].file)
           /\ HasFile(lists[i]) /\ IsAuto(i) =>
                l.items = (IF Held(lists[i].file) = {} THEN {"@&()"} ELSE Held(lists[i].file))
<1>1. PICK m : m = lists[i]
  OBVIOUS
<1>2. m = [kind |-> m.kind, file |-> m.file, items |-> m.items]
  BY <1>1 DEF Listed
<1>3. PICK x : x = IF m.file = "" THEN m.items ELSE Held(m.file)
  OBVIOUS
<1>4. PICK y : y = IF x = {} /\ IsAuto(i) THEN {"@&()"} ELSE x
  OBVIOUS
<1>5. l = [m EXCEPT !.items = y]
  BY <1>1, <1>3, <1>4 DEF Read, IsAuto
<1>6. l.items = y
  BY <1>2, <1>5
<1> QED
  BY <1>1, <1>3, <1>4, <1>6 DEF HasFile

LEMMA ReadItems ==
    ASSUME NEW opts, Len(opts) \in Nat, EndInv(opts), NEW new, new = [i \in DOMAIN lists |-> Read(i)],
           NEW i \in DOMAIN lists
    PROVE  /\ ~HasFile(lists[i]) => new[i].items = lists[i].items
           /\ \A field : HasFile(lists[i]) /\ lists[i].kind = Kind(field) =>
                           new[i].items = FileItems(existing, opts, field, lists[i].file)
<1>1. Listed(lists[i]) /\ new[i] = Read(i)
  BY ListsKeptIs DEF EndInv, ToSet
<1>2. /\ ~HasFile(lists[i]) /\ ~IsAuto(i) => new[i].items = lists[i].items
      /\ HasFile(lists[i]) /\ ~IsAuto(i) => new[i].items = Held(lists[i].file)
      /\ HasFile(lists[i]) /\ IsAuto(i) =>
                new[i].items = (IF Held(lists[i].file) = {} THEN {"@&()"}
                                ELSE Held(lists[i].file))
  BY <1>1, ReadIs
<1>3. IsAuto(i) <=> HostFile(lists[i]) /\ lists[i].file \in AutoFiles(opts)
  BY AutosAre
<1>4. ~HasFile(lists[i]) => new[i].items = lists[i].items
  BY <1>2, <1>3 DEF HostFile
<1>5. ASSUME NEW field, HasFile(lists[i]), lists[i].kind = Kind(field)
      PROVE  new[i].items = FileItems(existing, opts, field, lists[i].file)
  <2>1. CASE Kind(field) = "host"
    <3>1. HostFile(lists[i])
      BY <1>5, <2>1 DEF HostFile
    <3>2. new[i].items = HostItems(existing, opts, lists[i].file)
      BY <1>2, <1>3, <1>5, <3>1 DEF HostItems, HeldOf, Held
    <3> QED
      BY <2>1, <3>2 DEF FileItems
  <2>2. CASE Kind(field) # "host"
    <3>1. ~HostFile(lists[i])
      BY <1>5, <2>2 DEF HostFile
    <3> QED
      BY <1>2, <1>3, <1>5, <2>2, <3>1 DEF FileItems, HeldOf, Held
  <2> QED
    BY <2>1, <2>2
<1> QED
  BY <1>4, <1>5

\* What the lists of a field are all together, in memory and in the files.
AllItemsOf(new, collection) == UNION {new[i].items : i \in ToSet(collection)}
AllAsked(there, opts, field, k) ==
    (UNION {FileItems(there, opts, field, f) : f \in FilesAsked(opts, field, k)})
      \cup ItemsAsked(opts, field, k)

LEMMA FieldRead ==
    ASSUME NEW there, NEW opts, NEW ls, NEW new, NEW collection, NEW field, NEW k,
           ListsBuilt(ls, opts, collection, field, k),
           \A i \in DOMAIN ls : ~HasFile(ls[i]) => new[i].items = ls[i].items,
           \A i \in DOMAIN ls : HasFile(ls[i]) /\ ls[i].kind = Kind(field) =>
                                  new[i].items = FileItems(there, opts, field, ls[i].file)
    PROVE  AllItemsOf(new, collection) = AllAsked(there, opts, field, k)
<1> DEFINE S == {i \in DOMAIN ls : ls[i].kind = Kind(field)}
<1>1. /\ collection \in Seq(S)
      /\ {ls[i].file : i \in FileLists(ls, collection)} = FilesAsked(opts, field, k)
      /\ UNION {ls[i].items : i \in ItemLists(ls, collection)} = ItemsAsked(opts, field, k)
  BY DEF ListsBuilt
<1>2. ToSet(collection) \subseteq S
  <2> HIDE DEF S
  <2> QED
    BY <1>1, ToSetIs
<1>3. /\ \A i \in FileLists(ls, collection) :
           i \in DOMAIN ls /\ HasFile(ls[i]) /\ ls[i].kind = Kind(field)
      /\ \A i \in ItemLists(ls, collection) : i \in DOMAIN ls /\ ~HasFile(ls[i])
      /\ FileLists(ls, collection) \cup ItemLists(ls, collection) = ToSet(collection)
  BY <1>2 DEF FileLists, ItemLists, HasFile
<1>4. UNION {new[i].items : i \in ItemLists(ls, collection)} = ItemsAsked(opts, field, k)
  <2>1. \A i \in ItemLists(ls, collection) : new[i].items = ls[i].items
    BY <1>3
  <2> QED
    BY <1>1, <2>1
<1>5. UNION {new[i].items : i \in FileLists(ls, collection)} =
        UNION {FileItems(there, opts, field, f) : f \in FilesAsked(opts, field, k)}
  <2>1. \A i \in FileLists(ls, collection) : new[i].items = FileItems(there, opts, field, ls[i].file)
    BY <1>3
  <2>2. \A f : f \in FilesAsked(opts, field, k)
                 <=> \E i \in FileLists(ls, collection) : f = ls[i].file
    BY <1>1
  <2> QED
    BY <2>1, <2>2
<1> QED
  BY <1>3, <1>4, <1>5 DEF AllItemsOf, AllAsked

\* The same, as the text says it.
LEMMA FieldMeans ==
    ASSUME NEW opts, NEW k, NEW field \in ListFields
    PROVE  ListMeaning(field, Meaning(opts, k)) = AllAsked(existing, opts, field, k)
<1>1. /\ FilesAsked(opts, "hl", k) =
           Arguments(opts, "hostlist", k) \cup Arguments(opts, "hostlist_auto", k)
      /\ FilesAsked(opts, "hlx", k) = Arguments(opts, "hostlist_exclude", k)
      /\ FilesAsked(opts, "ips", k) = Arguments(opts, "ipset", k)
      /\ FilesAsked(opts, "ipsx", k) = Arguments(opts, "ipset_exclude", k)
  BY DEF FilesAsked, FileOptions
<1>2. /\ ItemsAsked(opts, "hl", k) = Members(Arguments(opts, "hostlist_domains", k))
      /\ ItemsAsked(opts, "hlx", k) = Members(Arguments(opts, "hostlist_exclude_domains", k))
      /\ ItemsAsked(opts, "ips", k) = Members(Arguments(opts, "ipset_ip", k))
      /\ ItemsAsked(opts, "ipsx", k) = Members(Arguments(opts, "ipset_exclude_ip", k))
  BY DEF ItemsAsked, ItemOption
<1>3. /\ \A files : UNION {FileItems(existing, opts, "hl", f) : f \in files} = HostsIn(opts, files)
      /\ \A files : UNION {FileItems(existing, opts, "hlx", f) : f \in files} = HostsIn(opts, files)
      /\ \A files : UNION {FileItems(existing, opts, "ips", f) : f \in files} = AddressesIn(files)
      /\ \A files : UNION {FileItems(existing, opts, "ipsx", f) : f \in files} = AddressesIn(files)
  <2>1. Kind("hl") = "host" /\ Kind("hlx") = "host" /\ Kind("ips") = "ip" /\ Kind("ipsx") = "ip"
    BY DEF Kind
  <2>2. \A f : FileItems(existing, opts, "hl", f) = HostItems(existing, opts, f)
               /\ FileItems(existing, opts, "hlx", f) = HostItems(existing, opts, f)
               /\ FileItems(existing, opts, "ips", f) = Held(f) /\ FileItems(existing, opts, "ipsx", f) = Held(f)
    BY <2>1 DEF FileItems, HeldOf, Held
  <2> QED
    <3>1. \A files : UNION {HostItems(existing, opts, f) : f \in files} = HostsIn(opts, files)
      BY DEF HostsIn, HostItems, HeldOf, Held
    <3>2. \A files : UNION {Held(f) : f \in files} = AddressesIn(files)
      BY DEF AddressesIn
    <3> QED
      BY <2>2, <3>1, <3>2
<1>4. /\ ListMeaning("hl", Meaning(opts, k)) = Meaning(opts, k).listed
      /\ ListMeaning("hlx", Meaning(opts, k)) = Meaning(opts, k).barred
      /\ ListMeaning("ips", Meaning(opts, k)) = Meaning(opts, k).net
      /\ ListMeaning("ipsx", Meaning(opts, k)) = Meaning(opts, k).notNet
  BY DEF ListMeaning
<1>5. /\ Meaning(opts, k).listed = HostsIn(opts, FilesAsked(opts, "hl", k)) \cup ItemsAsked(opts, "hl", k)
      /\ Meaning(opts, k).barred = HostsIn(opts, FilesAsked(opts, "hlx", k)) \cup ItemsAsked(opts, "hlx", k)
      /\ Meaning(opts, k).net = AddressesIn(FilesAsked(opts, "ips", k)) \cup ItemsAsked(opts, "ips", k)
      /\ Meaning(opts, k).notNet = AddressesIn(FilesAsked(opts, "ipsx", k)) \cup ItemsAsked(opts, "ipsx", k)
  BY <1>1, <1>2 DEF Meaning
<1>6. field \in {"hl", "hlx", "ips", "ipsx"}
  BY KindsAre
<1> QED
  BY <1>3, <1>4, <1>5, <1>6 DEF AllAsked

LEMMA LoadedIs ==
    ASSUME Loading, status' # "exit1"
    PROVE  /\ lists' = [i \in DOMAIN lists |-> Read(i)] /\ profiles' = profiles
           /\ existing' = existing
           /\ status = "load" /\ status' = "filter" /\ menu' = menu /\ said' = said
  BY DEF Loading, ReadLists, Refuse, LeaveWith

LEMMA LoadBuilds ==
    ASSUME NEW opts, Len(opts) \in Nat, EndInv(opts), profiles' = profiles,
           existing' = existing, lists' = [i \in DOMAIN lists |-> Read(i)]
    PROVE  LoadInv(opts)'
<1>1. PICK ls : ls = lists
  OBVIOUS
<1>2. PICK new : new = lists'
  OBVIOUS
<1>7. PICK there : there = existing
  OBVIOUS
<1>3. /\ \A i \in DOMAIN ls : ~HasFile(ls[i]) => new[i].items = ls[i].items
      /\ \A i \in DOMAIN ls : \A field : HasFile(ls[i]) /\ ls[i].kind = Kind(field) =>
                                  new[i].items = FileItems(there, opts, field, ls[i].file)
  BY <1>1, <1>2, <1>7, ReadItems
<1>4. Numbered(opts)'
  BY DEF EndInv, Numbered
<1>5. ASSUME NEW e \in ProfileEnds(opts), NEW p, p = profiles[Number(opts, e)]
      PROVE  /\ RestBuilt(opts, p, e) /\ Limited(opts, p, e)
             /\ (p.auto # 0) = Meaning(opts, e).auto
             /\ \A field \in ListFields :
                  UNION {new[i].items : i \in ToSet(p[field])} = ListMeaning(field, Meaning(opts, e))
  <2>1. RestBuilt(opts, p, e) /\ Limited(opts, p, e) /\ CollectionsBuilt(ls, opts, p, e)
    BY <1>1, <1>5 DEF EndInv
  <2>2. (p.auto # 0) = (Arguments(opts, "hostlist_auto", e) # {})
    BY <2>1 DEF CollectionsBuilt, AutoBuilt
  <2>3. Meaning(opts, e).auto = (Arguments(opts, "hostlist_auto", e) # {})
    BY DEF Meaning
  <2>4. ASSUME NEW field \in ListFields
        PROVE  UNION {new[i].items : i \in ToSet(p[field])} = ListMeaning(field, Meaning(opts, e))
    <3>1. ListsBuilt(ls, opts, p[field], field, e)
      BY <2>1 DEF CollectionsBuilt
    <3>2. AllItemsOf(new, p[field]) = AllAsked(there, opts, field, e)
      BY <1>3, <3>1, FieldRead
    <3> QED
      BY <1>7, <3>2, FieldMeans DEF AllItemsOf
  <2> QED
    BY <2>1, <2>2, <2>3, <2>4
<1>6. \A e : Meaning(opts, e)' = Meaning(opts, e)
  BY MeaningSteady
<1> QED
  BY <1>2, <1>4, <1>5, <1>6 DEF LoadInv

LEMMA ProfilesGoOn ==
    ASSUME menu \in DOMAIN Menus, said \in Seq(DOMAIN All(menu)), ProfilesInv,
           [OptionsNext]_commandVars
    PROVE  ProfilesInv'
<1>1. PICK opts : opts = Given
  OBVIOUS
<1>2. Len(opts) \in Nat
  BY <1>1, GivenLen
<1>3. /\ status = "options" => BuildInv(opts)
      /\ status \in {"test", "load"} => EndInv(opts)
      /\ status \in {"filter", "start", "run"} => LoadInv(opts)
  BY <1>1 DEF ProfilesInv
<1>4. menu' = menu /\ said' = said => Given' = opts
  BY <1>1 DEF Given
<1>5. CASE Take
  BY <1>5, TakeBuilds
<1>6. CASE EndTaking
  <2>1. menu' = menu /\ said' = said
    BY <1>6 DEF EndTaking
  <2>2. CASE status' = "exit1"
    BY <1>4, <2>1, <2>2 DEF ProfilesInv
  <2>3. CASE status' # "exit1"
    <3>1. status = "options" /\ status' = "test"
      BY <1>6, <2>3, ClosedIs
    <3>2. EndInv(opts)'
      BY <1>2, <1>3, <1>6, <2>3, <3>1, EndBuilds
    <3> QED
      BY <1>4, <2>1, <3>1, <3>2 DEF ProfilesInv
  <2> QED
    BY <2>2, <2>3
<1>7. CASE Loading
  <2>1. menu' = menu /\ said' = said
    BY <1>7 DEF Loading
  <2>2. CASE status' = "exit1"
    BY <1>4, <2>1, <2>2 DEF ProfilesInv
  <2>3. CASE status' # "exit1"
    <3>1. status = "load" /\ status' = "filter" /\ profiles' = profiles
          /\ existing' = existing /\ lists' = [i \in DOMAIN lists |-> Read(i)]
      BY <1>7, <2>3, LoadedIs
    <3>2. LoadInv(opts)'
      BY <1>2, <1>3, <3>1, LoadBuilds
    <3> QED
      BY <1>4, <2>1, <3>1, <3>2 DEF ProfilesInv
  <2> QED
    BY <2>2, <2>3
<1>8. CASE \/ Testing \/ LoseFile \/ MakeFilter \/ Save \/ Duplicate \/ Launch
           \/ UNCHANGED commandVars
  BY <1>8, QuietIs, QuietKeeps
<1> QED
  BY <1>5, <1>6, <1>7, <1>8 DEF OptionsNext

\* While the options are taken, when they have ended and when the lists are read, the
\* profiles, the templates, the section that is being written and the lists are what
\* the text of the options says of each (main, dp_copy, filter_defaults,
\* RegisterHostlist, RegisterIpset, LoadAllHostLists).
THEOREM ProfilesKept == OptionsSpec => []ProfilesInv
<1>1. CaptureInv => menu \in DOMAIN Menus /\ said \in Seq(DOMAIN All(menu))
  BY DEF CaptureInv
<1>2. CaptureInv /\ ProfilesInv /\ [OptionsNext]_commandVars => ProfilesInv'
  BY <1>1, ProfilesGoOn
<1> QED
  BY <1>2, CaptureKept, FirstBuilt, PTL DEF OptionsSpec

-----------------------------------------------------------------------------
\* Options: what a profile accepts

\* They are places of options of this name.
LEMMA PlacesNamed ==
    ASSUME NEW opts, Len(opts) \in Nat, NEW name, NEW k \in 0..Len(opts),
           NEW R, R = {j \in 1..Len(opts) : opts[j].o = name}
    PROVE  PlacesOf(opts, name)[k] \in Seq(R)
<1> DEFINE places == PlacesOf(opts, name)
           other == {j \in 0..Len(opts) : places[j] \notin Seq(R)}
<1>1. SUFFICES ASSUME other # {}
               PROVE  FALSE
  BY <1>1
<1>2. PICK m \in other : \A j \in other : m <= j
  <2>1. other \in SUBSET Nat
    OBVIOUS
  <2> HIDE DEF other
  <2> QED
    BY <1>1, <2>1, LeastOf
<1>3. \A j \in 0..(m - 1) : places[j] \in Seq(R)
  BY <1>2
<1>4. places[m] = PlacesAt(opts, name, places, m)
  BY <1>2, PlacesOfIs
<1>5. m \in 0..Len(opts) /\ places[m] \notin Seq(R)
  BY <1>2
<1>6. <<>> \in Seq(R)
  BY NoneIs
<1>7. CASE m = 0
  BY <1>4, <1>5, <1>6, <1>7 DEF PlacesAt
<1>8. CASE m # 0
  <2> DEFINE before == IF opts[m].o = "new" THEN <<>> ELSE places[m - 1]
  <2>1. before \in Seq(R) /\ places[Source(opts, m)] \in Seq(R)
    <3>1. m - 1 \in 0..(m - 1) /\ Source(opts, m) \in 0..(m - 1)
      BY <1>5, <1>8, SourceIs
    <3> HIDE DEF places
    <3> QED
      BY <1>3, <1>6, <3>1
  <2>2. opts[m].o = name => m \in R
    BY <1>5, <1>8
  <2>3. before \o places[Source(opts, m)] \in Seq(R)
        /\ (opts[m].o = name => Append(before, m) \in Seq(R))
    <3> HIDE DEF before, places
    <3> QED
      BY <2>1, <2>2
  <2>4. places[m] = IF opts[m].o = "import" THEN before \o places[Source(opts, m)]
                    ELSE IF opts[m].o = name THEN Append(before, m) ELSE before
    BY <1>4, <1>8 DEF PlacesAt
  <2> HIDE DEF before, places
  <2> QED
    BY <1>5, <2>1, <2>3, <2>4
<1> QED
  BY <1>7, <1>8

\* The arguments of a name are those of options of the text.
LEMMA ArgumentsOf ==
    ASSUME NEW opts, Len(opts) \in Nat, NEW name, NEW k \in 0..Len(opts),
           NEW a \in Arguments(opts, name, k)
    PROVE  \E j \in 1..Len(opts) : opts[j].o = name /\ opts[j].a = a
<1>1. PICK R : R = {j \in 1..Len(opts) : opts[j].o = name}
  OBVIOUS
<1>2. PICK s : s = PlacesOf(opts, name)[k]
  OBVIOUS
<1>3. s \in Seq(R)
  BY <1>1, <1>2, PlacesNamed
<1>4. ToSet(s) \subseteq R
  BY <1>3, ToSetIs
<1>5. PICK j \in ToSet(s) : opts[j].a = a
  BY <1>2 DEF Arguments
<1> QED
  BY <1>1, <1>4, <1>5

\* An L3 filter names a version.
LEMMA VersionsSaid ==
    ASSUME menu \in DOMAIN Menus, said \in Seq(DOMAIN All(menu)), NEW opts, opts = Given,
           NEW k \in 0..Len(opts), Arguments(opts, "filter-l3", k) # {}
    PROVE  Members(Arguments(opts, "filter-l3", k)) # {}
<1>1. PICK a \in Arguments(opts, "filter-l3", k) : TRUE
  OBVIOUS
<1>2. Len(opts) \in Nat /\ Len(opts) = Len(said)
  BY GivenLen
<1>3. PICK j \in 1..Len(opts) : opts[j].o = "filter-l3" /\ opts[j].a = a
  BY <1>1, <1>2, ArgumentsOf
<1>4. opts[j] = All(menu)[said[j]] /\ said[j] \in DOMAIN All(menu)
  BY <1>2, <1>3 DEF Given
<1>5. opts[j] \in ToSet(All(menu))
  BY <1>4 DEF ToSet
<1>6. Typed(opts[j])
  BY <1>5, MenuAssumption
<1>7. ToSet(a) # {}
  BY <1>3, <1>6 DEF Typed
<1> QED
  BY <1>1, <1>7 DEF Members

\* An item that is read matches what its text takes.
LEMMA PortMatches ==
    ASSUME NEW t \in Texts, PfGood(t), NEW port \in 1..MaxPort
    PROVE  PfMatch(port, Pf(t)) <=> InText(t, port)
<1>1. t.form \in {"any", "skip", "one", "pair"} /\ t.neg \in BOOLEAN /\ t.a \in Nat /\ t.b \in Nat
  BY DEF Texts
<1>2. CASE t.form = "any"
  <2>1. Pf(t).from = 1 /\ Pf(t).to = MaxPort /\ Pf(t).neg = FALSE /\ InText(t, port)
    BY <1>2 DEF Pf, InText
  <2>2. port # 0
    OBVIOUS
  <2> QED
    BY <2>1, <2>2 DEF PfMatch
<1>3. CASE t.form \in {"one", "pair"} /\ t.a = 0 /\ t.b = 0
  <2>1. Pf(t).from = 0 /\ Pf(t).to = 0 /\ Pf(t).neg = TRUE
    BY <1>1, <1>3 DEF Pf
  <2>2. ~InText(t, port)
    BY <1>3 DEF InText
  <2> QED
    BY <2>1, <2>2 DEF PfMatch
<1>4. CASE t.form \in {"one", "pair"} /\ (t.a # 0 \/ t.b # 0)
  <2>1. Pf(t).from = t.a /\ Pf(t).to = t.b /\ Pf(t).neg = t.neg
    BY <1>1, <1>4 DEF Pf
  <2>2. InText(t, port) <=> ((port \in t.a..t.b) # t.neg)
    BY <1>4 DEF InText
  <2>3. port # 0
    OBVIOUS
  <2> QED
    BY <1>1, <1>4, <2>1, <2>2, <2>3 DEF PfMatch
<1> QED
  BY <1>1, <1>2, <1>3, <1>4 DEF PfGood

LEMMA IcmpMatches ==
    ASSUME NEW t \in Texts, IcfGood(t), NEW pkt
    PROVE  IcfMatch(pkt.type, pkt.code, Icf(t)) <=> ItemTakes("icmp", t, pkt)
<1>1. t.form \in {"any", "skip", "one", "pair"}
  BY DEF Texts
<1>2. CASE t.form = "any"
  BY <1>2 DEF IcfMatch, Icf, ModeOf, ItemTakes
<1>3. CASE t.form = "skip"
  BY <1>3 DEF IcfMatch, Icf, ModeOf, ItemTakes
<1>4. CASE t.form = "one"
  BY <1>4 DEF IcfMatch, Icf, ModeOf, ItemTakes
<1>5. CASE t.form = "pair"
  BY <1>5 DEF IcfMatch, Icf, ModeOf, ItemTakes
<1> QED
  BY <1>1, <1>2, <1>3, <1>4, <1>5

LEMMA IppMatches ==
    ASSUME NEW t \in Texts, IppGood(t), NEW pkt
    PROVE  IppMatch(pkt.proto, Ipp(t)) <=> ItemTakes("ipp", t, pkt)
<1>1. t.form \in {"any", "skip", "one"}
  BY DEF Texts, IppGood
<1>2. CASE t.form = "any"
  BY <1>2 DEF IppMatch, Ipp, ModeOf, ItemTakes
<1>3. CASE t.form = "skip"
  BY <1>3 DEF IppMatch, Ipp, ModeOf, ItemTakes
<1>4. CASE t.form = "one"
  BY <1>4 DEF IppMatch, Ipp, ModeOf, ItemTakes
<1> QED
  BY <1>1, <1>2, <1>3, <1>4

\* An item of the list of a kind against a packet.
ItemMatches(kind, x, pkt) ==
    IF kind = "icmp" THEN IcfMatch(pkt.type, pkt.code, x)
    ELSE IF kind = "ipp" THEN IppMatch(pkt.proto, x) ELSE PfMatch(pkt.port, x)

LEMMA ItemsMatch ==
    ASSUME NEW pkt, InFlow(pkt), NEW t \in Texts, GoodAs(pkt.kind, t)
    PROVE  ItemMatches(pkt.kind, ReadAs(pkt.kind, t), pkt) <=> ItemTakes(pkt.kind, t, pkt)
<1>1. pkt.kind \in {"tcp", "udp", "icmp", "ipp"}
  BY DEF InFlow
<1>2. CASE pkt.kind \in {"tcp", "udp"}
  <2>1. pkt.port \in 1..MaxPort /\ PfGood(t)
    BY <1>2 DEF InFlow, GoodAs
  <2>2. PfMatch(pkt.port, Pf(t)) <=> InText(t, pkt.port)
    BY <2>1, PortMatches
  <2>3. ReadAs(pkt.kind, t) = Pf(t)
    BY <1>2 DEF ReadAs
  <2>4. ItemTakes(pkt.kind, t, pkt) <=> InText(t, pkt.port)
    BY <1>2 DEF ItemTakes
  <2>5. \A x : ItemMatches(pkt.kind, x, pkt) <=> PfMatch(pkt.port, x)
    BY <1>2 DEF ItemMatches
  <2> QED
    BY <2>2, <2>3, <2>4, <2>5
<1>3. CASE pkt.kind = "icmp"
  BY <1>3, IcmpMatches DEF GoodAs, ReadAs, ItemMatches
<1>4. CASE pkt.kind = "ipp"
  BY <1>4, IppMatches DEF GoodAs, ReadAs, ItemMatches
<1> QED
  BY <1>1, <1>2, <1>3, <1>4

LEMMA DeniedMatches ==
    ASSUME NEW pkt, InFlow(pkt)
    PROVE  ~ItemMatches(pkt.kind, Denied(pkt.kind), pkt)
<1>1. pkt.kind \in {"tcp", "udp", "icmp", "ipp"}
  BY DEF InFlow
<1>2. ~PfMatch(pkt.port, DenyPort)
  BY DEF PfMatch, DenyPort, Pf, One, Text
<1>3. ~IcfMatch(pkt.type, pkt.code, DenyIcmp)
  BY DEF IcfMatch, DenyIcmp, Icf, SkipText, Text, ModeOf
<1>4. ~IppMatch(pkt.proto, DenyIpp)
  BY DEF IppMatch, DenyIpp, Ipp, SkipText, Text, ModeOf
<1> QED
  BY <1>1, <1>2, <1>3, <1>4 DEF ItemMatches, Denied

LEMMA L4Is ==
    ASSUME NEW pkt, InFlow(pkt), NEW p
    PROVE  L4Match(p, pkt) <=> \/ p[pkt.kind] = <<>>
                               \/ \E x \in ToSet(p[pkt.kind]) : ItemMatches(pkt.kind, x, pkt)
<1>1. pkt.kind \in {"tcp", "udp", "icmp", "ipp"}
  BY DEF InFlow
<1>2. CASE pkt.kind = "tcp"
  BY <1>2 DEF L4Match, PortsMatch, ItemMatches, ToSet
<1>3. CASE pkt.kind = "udp"
  BY <1>3 DEF L4Match, PortsMatch, ItemMatches, ToSet
<1>4. CASE pkt.kind = "icmp"
  BY <1>4 DEF L4Match, IcmpMatch, ItemMatches, ToSet
<1>5. CASE pkt.kind = "ipp"
  BY <1>5 DEF L4Match, IppsMatch, ItemMatches, ToSet
<1> QED
  BY <1>1, <1>2, <1>3, <1>4, <1>5

\* The filters of a profile against those of its text.
LEMMA L4Accepts ==
    ASSUME NEW opts, NEW p, NEW k, RestBuilt(opts, p, k), Limited(opts, p, k),
           NEW pkt, InFlow(pkt)
    PROVE  L4Match(p, pkt) <=> \/ \A kind \in DOMAIN FilterNames : Items(opts, kind, k) = {}
                               \/ \E t \in Items(opts, pkt.kind, k) : ItemTakes(pkt.kind, t, pkt)
<1> DEFINE K == pkt.kind
           None0 == \A kind \in DOMAIN FilterNames : Items(opts, kind, k) = {}
<1>1. K \in DOMAIN FilterNames
  BY KindsAre DEF InFlow
<1>2. PICK s : s = p[K]
  OBVIOUS
<1>3. /\ s \in Seq(ToSet(s))
      /\ ToSet(s) = IF FilterRead(opts, K, k) # {} \/ None0 THEN FilterRead(opts, K, k)
                    ELSE {Denied(K)}
  BY <1>1, <1>2 DEF Limited
<1>4. \A t \in Items(opts, K, k) : t \in Texts /\ GoodAs(K, t)
  BY <1>1 DEF RestBuilt
<1>5. FilterRead(opts, K, k) = {ReadAs(K, t) : t \in Items(opts, K, k)}
  BY DEF FilterRead
<1>6. L4Match(p, pkt) <=> s = <<>> \/ \E x \in ToSet(s) : ItemMatches(K, x, pkt)
  BY <1>2, L4Is
<1>7. CASE None0
  <2>1. ToSet(s) = {}
    BY <1>1, <1>3, <1>5, <1>7
  <2>2. s = <<>>
    BY <1>3, <2>1, ToSetIs
  <2> QED
    BY <1>6, <1>7, <2>2
<1>8. CASE Items(opts, K, k) # {}
  <2>1. ToSet(s) = FilterRead(opts, K, k) /\ ToSet(s) # {}
    BY <1>3, <1>5, <1>8
  <2>2. s # <<>>
    BY <2>1, NoneIs
  <2>3. (\E x \in ToSet(s) : ItemMatches(K, x, pkt))
          <=> \E t \in Items(opts, K, k) : ItemTakes(K, t, pkt)
    <3>1. \A t \in Items(opts, K, k) : ItemMatches(K, ReadAs(K, t), pkt) <=> ItemTakes(K, t, pkt)
      BY <1>4, ItemsMatch
    <3> QED
      BY <1>5, <2>1, <3>1
  <2>4. ~None0
    BY <1>1, <1>8
  <2> QED
    BY <1>6, <2>2, <2>3, <2>4
<1>9. CASE ~None0 /\ Items(opts, K, k) = {}
  <2>1. ToSet(s) = {Denied(K)}
    BY <1>3, <1>5, <1>9
  <2>2. s # <<>>
    BY <2>1, NoneIs
  <2>3. ~ItemMatches(K, Denied(K), pkt)
    BY DeniedMatches
  <2> QED
    BY <1>6, <1>9, <2>1, <2>2, <2>3
<1> QED
  BY <1>7, <1>8, <1>9

LEMMA L3Accepts ==
    ASSUME menu \in DOMAIN Menus, said \in Seq(DOMAIN All(menu)), NEW opts, opts = Given,
           NEW k \in 0..Len(opts), NEW p, Limited(opts, p, k), NEW pkt, InFlow(pkt)
    PROVE  pkt.v \in p.l3 <=> \/ Members(Arguments(opts, "filter-l3", k)) = {}
                              \/ pkt.v \in Members(Arguments(opts, "filter-l3", k))
<1>1. PICK A : A = Arguments(opts, "filter-l3", k)
  OBVIOUS
<1>2. p.l3 = IF A = {} THEN {"ipv4", "ipv6"} ELSE Members(A)
  BY <1>1 DEF Limited
<1>3. A # {} => Members(A) # {}
  BY <1>1, VersionsSaid
<1>4. A = {} => Members(A) = {}
  BY DEF Members
<1>5. pkt.v \in {"ipv4", "ipv6"}
  BY DEF InFlow
<1> QED
  BY <1>1, <1>2, <1>3, <1>4, <1>5

\* The lists of a profile against those of its text.
LEMMA ListsTogether ==
    ASSUME NEW collection, NEW S, S = UNION {lists[i].items : i \in ToSet(collection)}
    PROVE  /\ AllEmpty(collection) <=> S = {}
           /\ \A x : InLists(collection, x) <=> x \in S
<1>1. \A i \in DOMAIN collection : collection[i] \in ToSet(collection)
  BY DEF ToSet
<1>2. \A j \in ToSet(collection) : \E i \in DOMAIN collection : collection[i] = j
  BY DEF ToSet
<1>3. \A x : InLists(collection, x) <=> x \in S
  BY <1>1, <1>2 DEF InLists
<1>4. AllEmpty(collection) <=> S = {}
  BY <1>1, <1>2 DEF AllEmpty
<1> QED
  BY <1>3, <1>4

\* dp_match is what the text says.
LEMMA MatchIs ==
    ASSUME menu \in DOMAIN Menus, said \in Seq(DOMAIN All(menu)), NEW opts, opts = Given,
           NEW k \in 0..Len(opts), NEW p, RestBuilt(opts, p, k), Limited(opts, p, k),
           (p.auto # 0) = Meaning(opts, k).auto,
           \A field \in ListFields :
               UNION {lists[i].items : i \in ToSet(p[field])} = ListMeaning(field, Meaning(opts, k)),
           NEW pkt, InFlow(pkt)
    PROVE  DpMatch(p, pkt) <=> Accepts(Meaning(opts, k), pkt)
<1>1. PICK m : m = Meaning(opts, k)
  OBVIOUS
<1>2. PICK sides : sides = {pkt.ip, pkt.ipr} \ {""}
  OBVIOUS
<1>3. /\ m.l3 = Members(Arguments(opts, "filter-l3", k))
      /\ \A kind \in DOMAIN FilterNames : m.l4[kind] = Items(opts, kind, k)
      /\ m.l7 = p.l7
  BY <1>1 DEF Meaning, RestBuilt
<1>4. pkt.v \in p.l3 <=> m.l3 = {} \/ pkt.v \in m.l3
  BY <1>3, L3Accepts
<1>5. L4Match(p, pkt) <=> \/ \A kind \in DOMAIN FilterNames : m.l4[kind] = {}
                          \/ \E t \in m.l4[pkt.kind] : ItemTakes(pkt.kind, t, pkt)
  <2>1. pkt.kind \in DOMAIN FilterNames
    BY KindsAre DEF InFlow
  <2>2. L4Match(p, pkt) <=> \/ \A kind \in DOMAIN FilterNames : Items(opts, kind, k) = {}
                            \/ \E t \in Items(opts, pkt.kind, k) : ItemTakes(pkt.kind, t, pkt)
    BY L4Accepts
  <2> QED
    BY <1>3, <2>1, <2>2
<1>6. /\ m.listed = UNION {lists[i].items : i \in ToSet(p.hl)}
      /\ m.barred = UNION {lists[i].items : i \in ToSet(p.hlx)}
      /\ m.net = UNION {lists[i].items : i \in ToSet(p.ips)}
      /\ m.notNet = UNION {lists[i].items : i \in ToSet(p.ipsx)}
  <2>1. \A n : /\ ListMeaning("hl", n) = n.listed /\ ListMeaning("hlx", n) = n.barred
               /\ ListMeaning("ips", n) = n.net /\ ListMeaning("ipsx", n) = n.notNet
    BY DEF ListMeaning
  <2>2. {"hl", "hlx", "ips", "ipsx"} = ListFields
    BY KindsAre
  <2> QED
    BY <1>1, <2>1, <2>2
<1>7. /\ AllEmpty(p.hl) <=> m.listed = {}
      /\ AllEmpty(p.hlx) <=> m.barred = {}
      /\ AllEmpty(p.ips) <=> m.net = {}
      /\ \A x : InLists(p.hl, x) <=> x \in m.listed
      /\ \A x : InLists(p.hlx, x) <=> x \in m.barred
      /\ \A x : InLists(p.ips, x) <=> x \in m.net
      /\ \A x : InLists(p.ipsx, x) <=> x \in m.notNet
  BY <1>6, ListsTogether
<1>8. IpCheck(p, pkt) <=> sides \cap m.notNet = {} /\ (m.net = {} \/ sides \cap m.net # {})
  BY <1>2, <1>7 DEF IpCheck
<1>9. HostCheck(p, pkt.host) <=> pkt.host \notin m.barred /\ (m.listed = {} \/ pkt.host \in m.listed)
  BY <1>7 DEF HostCheck
<1>10. (p.auto # 0) = m.auto
  BY <1>1
<1>11. PICK noHosts : noHosts = (AllEmpty(p.hl) /\ AllEmpty(p.hlx))
  OBVIOUS
<1>12. noHosts <=> m.listed \cup m.barred = {}
  BY <1>7, <1>11
<1>13. DpMatch(p, pkt) <=>
         /\ pkt.v \in p.l3 /\ L4Match(p, pkt) /\ MaskMatch(pkt.l7, p.l7)
         /\ p.auto # 0 \/ pkt.host # "" \/ noHosts
         /\ IpCheck(p, pkt)
         /\ \/ p.auto # 0 /\ pkt.host # ""
            \/ noHosts
            \/ pkt.host # "" /\ HostCheck(p, pkt.host)
  BY <1>11 DEF DpMatch
<1>14. Accepts(m, pkt) <=>
         /\ m.l3 = {} \/ pkt.v \in m.l3
         /\ \/ \A kind \in DOMAIN FilterNames : m.l4[kind] = {}
            \/ \E t \in m.l4[pkt.kind] : ItemTakes(pkt.kind, t, pkt)
         /\ MaskMatch(pkt.l7, m.l7)
         /\ sides \cap m.notNet = {} /\ (m.net = {} \/ sides \cap m.net # {})
         /\ \/ m.listed \cup m.barred = {}
            \/ pkt.host # "" /\ m.auto
            \/ pkt.host # "" /\ pkt.host \notin m.barred /\ (m.listed = {} \/ pkt.host \in m.listed)
  BY <1>2 DEF Accepts
<1> QED
  BY <1>1, <1>3, <1>4, <1>5, <1>8, <1>9, <1>10, <1>12, <1>13, <1>14

\* The profile that does nothing takes every packet.
LEMMA NoActionMatches ==
    ASSUME NEW p, p = Defaults(NewProfile(0, "no_action")), NEW pkt, InFlow(pkt)
    PROVE  DpMatch(p, pkt)
<1>1. /\ p.l3 = {"ipv4", "ipv6"} /\ p.l7 = {}
      /\ p.hl = <<>> /\ p.hlx = <<>> /\ p.ips = <<>> /\ p.ipsx = <<>>
      /\ p.tcp = <<>> /\ p.udp = <<>> /\ p.icmp = <<>> /\ p.ipp = <<>>
  BY NoActionIs
<1>2. AllEmpty(<<>>) /\ \A x : ~InLists(<<>>, x)
  <2>1. DOMAIN <<>> = {}
    BY NoneIs
  <2> QED
    BY <2>1 DEF AllEmpty, InLists
<1>3. IpCheck(p, pkt)
  BY <1>1, <1>2 DEF IpCheck
<1>4. pkt.kind \in {"tcp", "udp", "icmp", "ipp"} /\ pkt.v \in p.l3
  BY <1>1 DEF InFlow
<1>5. L4Match(p, pkt)
  <2>1. p[pkt.kind] = <<>>
    BY <1>1, <1>4
  <2> QED
    BY <2>1, L4Is
<1>6. MaskMatch(pkt.l7, p.l7)
  BY <1>1 DEF MaskMatch
<1> QED
  BY <1>1, <1>2, <1>3, <1>4, <1>5, <1>6 DEF DpMatch

\* What is found is the first, by whatever number it is known.
LEMMA FirstFound ==
    ASSUME NEW pkt, NEW found, found = {i \in DOMAIN profiles : DpMatch(profiles[i], pkt)},
           NEW i \in found, \A j \in found : i <= j, DOMAIN profiles = 1..Len(profiles),
           Len(profiles) \in Nat
    PROVE  DpFind(pkt) = profiles[i]
<1>1. \A j \in found : j \in Nat
  OBVIOUS
<1>2. \A h \in found : (\A j \in found : h <= j) => h = i
  BY <1>1
<1>3. (CHOOSE h \in found : \A j \in found : h <= j) = i
  BY <1>2
<1>4. DpFind(pkt) = profiles[CHOOSE h \in found : \A j \in found : h <= j]
  BY DEF DpFind
<1> QED
  BY <1>3, <1>4

LEMMA SelectIs ==
    ASSUME NEW opts, Len(opts) \in Nat, Numbered(opts), NEW pkt, InFlow(pkt),
           NEW taking, taking = {e \in ProfileEnds(opts) : DpMatch(profiles[Number(opts, e)], pkt)}
    PROVE  /\ taking = {} => DpFind(pkt).n = 0
           /\ \A e \in taking : (\A d \in taking : e <= d) => DpFind(pkt).n = Number(opts, e)
<1> DEFINE n == Len(profiles)
<1>1. /\ n \in Nat \ {0} /\ DOMAIN profiles = 1..n
      /\ \A e \in ProfileEnds(opts) : Number(opts, e) \in 1..(n - 1)
      /\ \A i \in 1..(n - 1) : \E e \in ProfileEnds(opts) : Number(opts, e) = i
  BY NumberedAre
<1>2. ProfileEnds(opts) \in SUBSET (0..Len(opts))
      /\ \A d, e \in ProfileEnds(opts) : d < e => Number(opts, d) < Number(opts, e)
  BY NumbersAre
<1>3. PICK found : found = {i \in DOMAIN profiles : DpMatch(profiles[i], pkt)}
  OBVIOUS
<1>4. n \in found
  <2>1. DpMatch(profiles[n], pkt)
    BY NoActionMatches DEF Numbered
  <2> QED
    BY <1>1, <1>3, <2>1
<1>5. \A i \in found : i = n \/ \E e \in taking : Number(opts, e) = i
  <2> TAKE i \in found
  <2>1. CASE i \in 1..(n - 1)
    <3>1. PICK e \in ProfileEnds(opts) : Number(opts, e) = i
      BY <1>1, <2>1
    <3> QED
      BY <1>3, <3>1
  <2> HIDE DEF n
  <2> QED
    BY <1>1, <1>3, <2>1
<1>6. ASSUME taking = {}
      PROVE  DpFind(pkt).n = 0
  <2>1. found = {n}
    BY <1>4, <1>5, <1>6
  <2>2. DpFind(pkt) = profiles[n]
    <3> HIDE DEF n
    <3>1. \A j \in found : n <= j
      BY <1>1, <2>1
    <3> QED
      BY <1>1, <1>3, <1>4, <3>1, FirstFound DEF n
  <2>3. profiles[n] = Defaults(NewProfile(0, "no_action"))
    BY DEF Numbered
  <2> QED
    BY <2>2, <2>3, NoActionIs
<1>7. ASSUME NEW e \in taking, \A d \in taking : e <= d
      PROVE  DpFind(pkt).n = Number(opts, e)
  <2>1. PICK i : i = Number(opts, e)
    OBVIOUS
  <2>2. i \in 1..(n - 1) /\ i \in found
    <3> HIDE DEF n
    <3> QED
      BY <1>1, <1>3, <2>1
  <2>3. \A j \in found : i <= j
    <3> TAKE j \in found
    <3>1. CASE j = n
      <4> HIDE DEF n
      <4> QED
        BY <1>1, <2>2, <3>1
    <3>2. ASSUME NEW d \in taking, Number(opts, d) = j
          PROVE  i <= j
      <4>1. e <= d /\ e \in ProfileEnds(opts) /\ d \in ProfileEnds(opts)
        BY <1>7
      <4>2. e \in 0..Len(opts) /\ d \in 0..Len(opts)
        BY <1>2, <4>1
      <4>3. e = d \/ e < d
        BY <4>1, <4>2
      <4>4. e < d => i < j
        BY <1>2, <2>1, <3>2, <4>1
      <4>5. i \in Int /\ j \in Int
        <5> HIDE DEF n
        <5>1. Number(opts, d) \in 1..(n - 1)
          BY <1>1, <4>1
        <5> QED
          BY <2>2, <3>2, <5>1
      <4> QED
        BY <2>1, <3>2, <4>3, <4>4, <4>5
    <3> QED
      BY <1>5, <3>1, <3>2
  <2>4. DpFind(pkt) = profiles[i]
    BY <1>1, <1>3, <2>2, <2>3, FirstFound
  <2>5. profiles[i].n = i
    BY <2>1 DEF Numbered
  <2> QED
    BY <2>1, <2>4, <2>5
<1> QED
  BY <1>6, <1>7

EarliestOf(ends) == CHOOSE e \in ends : \A d \in ends : e <= d

LEMMA SelectsSo ==
    ASSUME menu \in DOMAIN Menus, said \in Seq(DOMAIN All(menu)), ProfilesInv, status = "run"
    PROVE  ProfilesAsDeclared
<1>1. PICK opts : opts = Given
  OBVIOUS
<1>2. LoadInv(opts) /\ Len(opts) \in Nat
  BY <1>1, GivenLen DEF ProfilesInv
<1>3. Numbered(opts) /\ ProfileEnds(opts) \in SUBSET (0..Len(opts))
  BY <1>2, NumbersAre DEF LoadInv
<1>4. InstancesAsDeclared
  <2>1. Len(profiles) = Cardinality(ProfileEnds(opts)) + 1
    BY <1>3 DEF Numbered
  <2>2. \A e \in ProfileEnds(opts) : profiles[Number(opts, e)].fns = InstancesOf(opts, e)
    BY <1>2 DEF LoadInv, RestBuilt
  <2> QED
    BY <1>1, <2>1, <2>2 DEF InstancesAsDeclared
<1>5. ASSUME NEW e \in ProfileEnds(opts), NEW pkt \in Flows
      PROVE  DpMatch(profiles[Number(opts, e)], pkt) <=> Accepts(Meaning(opts, e), pkt)
  <2>1. PICK p : p = profiles[Number(opts, e)]
    OBVIOUS
  <2>2. /\ RestBuilt(opts, p, e) /\ Limited(opts, p, e)
        /\ (p.auto # 0) = Meaning(opts, e).auto
        /\ \A field \in ListFields :
             UNION {lists[i].items : i \in ToSet(p[field])} = ListMeaning(field, Meaning(opts, e))
    BY <1>2, <2>1 DEF LoadInv
  <2>3. e \in 0..Len(opts) /\ InFlow(pkt)
    BY <1>3, MenuAssumption
  <2>4. DpMatch(p, pkt) <=> Accepts(Meaning(opts, e), pkt)
    BY <1>1, <2>2, <2>3, MatchIs
  <2> QED
    BY <2>1, <2>4
<1>6. ASSUME NEW pkt \in Flows,
             NEW taking, taking = {e \in ProfileEnds(opts) : Accepts(Meaning(opts, e), pkt)}
      PROVE  DpFind(pkt).n = IF taking = {} THEN 0 ELSE Number(opts, EarliestOf(taking))
  <2>1. taking = {e \in ProfileEnds(opts) : DpMatch(profiles[Number(opts, e)], pkt)}
    BY <1>5, <1>6
  <2>2. InFlow(pkt)
    BY MenuAssumption
  <2>3. /\ taking = {} => DpFind(pkt).n = 0
        /\ \A e \in taking : (\A d \in taking : e <= d) => DpFind(pkt).n = Number(opts, e)
    BY <1>2, <1>3, <2>1, <2>2, SelectIs
  <2>4. CASE taking = {}
    BY <2>3, <2>4
  <2>5. CASE taking # {}
    <3>1. taking \in SUBSET Nat
      BY <1>3, <2>1
    <3>2. \E e \in taking : \A d \in taking : e <= d
      BY <2>5, <3>1, LeastOf
    <3>3. PICK e : e = EarliestOf(taking)
      OBVIOUS
    <3>4. e \in taking /\ \A d \in taking : e <= d
      BY <3>2, <3>3 DEF EarliestOf
    <3> QED
      BY <2>3, <2>5, <3>3, <3>4
  <2> QED
    BY <2>4, <2>5
<1>7. SelectsAsDeclared
  <2>1. SUFFICES
          ASSUME NEW text \in {Given},
                 NEW means \in {[e \in ProfileEnds(text) |-> Meaning(text, e)]}, NEW pkt \in Flows,
                 NEW taking \in {{e \in ProfileEnds(text) : Accepts(means[e], pkt)}}
          PROVE  DpFind(pkt).n = IF taking = {} THEN 0
                                 ELSE Number(text, CHOOSE e \in taking : \A d \in taking : e <= d)
    BY DEF SelectsAsDeclared
  <2>2. text = opts
    BY <1>1
  <2>3. means = [e \in ProfileEnds(opts) |-> Meaning(opts, e)]
    BY <2>2
  <2>4. taking = {e \in ProfileEnds(opts) : Accepts(Meaning(opts, e), pkt)}
    BY <2>2, <2>3
  <2>5. DpFind(pkt).n = IF taking = {} THEN 0 ELSE Number(opts, EarliestOf(taking))
    BY <1>6, <2>4
  <2> QED
    BY <2>2, <2>5 DEF EarliestOf
<1> QED
  BY <1>4, <1>7 DEF ProfilesAsDeclared

\* The packets of a flow get the profile that the options say, and every profile has
\* the instances of its section (main, dp_copy, filter_defaults, dp_match, dp_find).
THEOREM ProfilesDeclared == OptionsSpec => []ProfilesAsDeclared
<1>1. CaptureInv /\ ProfilesInv => ProfilesAsDeclared
  <2>1. CaptureInv /\ ProfilesInv /\ status = "run" => ProfilesAsDeclared
    BY SelectsSo DEF CaptureInv
  <2>2. status # "run" => ProfilesAsDeclared
    BY DEF ProfilesAsDeclared, SelectsAsDeclared, InstancesAsDeclared
  <2> QED
    BY <2>1, <2>2
<1> QED
  BY <1>1, CaptureKept, ProfilesKept, PTL

=============================================================================
