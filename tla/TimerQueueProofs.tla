--------------------------- MODULE TimerQueueProofs ---------------------------
(***************************************************************************)
(* What is proved of TimerQueue for any delays and intervals and any       *)
(* number of timers: the two sets of timers agree, no timer is leaked or   *)
(* freed twice, the timerfd is armed for the earliest, and no callback is  *)
(* called too early or once too often.                                     *)
(***************************************************************************)
EXTENDS TimerQueue, FunctionTheorems, SequenceTheorems, FiniteSetTheorems,
        WellFoundedInduction, TLAPS

\* Every natural number of a set is preceded by its least one.
LEMMA LeastNumber ==
  ASSUME NEW B \in SUBSET Nat, B # {}
  PROVE  \E m \in B : \A n \in B : ~(n < m)
<1> DEFINE R == OpToRel(<, Nat)
<1>1. IsWellFoundedOn(R, Nat)
  BY NatLessThanWellFounded, Zenon
<1>2. \A n, m \in Nat : n < m => <<n, m>> \in R
  BY DEF OpToRel
<1> HIDE DEF R
<1>3. \E m \in B : \A n \in B : <<n, m>> \notin R
  BY <1>1, WFMin
<1> QED BY <1>2, <1>3

\* A finite set of numbers has a least one.
LEMMA MinExists ==
  ASSUME NEW S \in SUBSET Int, IsFiniteSet(S), S # {}
  PROVE  \E x \in S : \A y \in S : x <= y
<1> DEFINE HasMin(T) == \E x \in T : \A y \in T : x <= y
           B == {n \in Nat : \E T \in SUBSET S : Cardinality(T) = n /\ T # {} /\ ~HasMin(T)}
<1>1. ASSUME B # {} PROVE FALSE
  <2>1. PICK m \in B : \A n \in B : ~(n < m)
    BY <1>1, LeastNumber
  <2>2. PICK T \in SUBSET S : Cardinality(T) = m /\ T # {} /\ ~HasMin(T)
    BY <2>1
  <2>3. PICK a : a \in T
    BY <2>2
  <2> DEFINE U == T \ {a}
  <2>4. IsFiniteSet(T) /\ IsFiniteSet(U) /\ Cardinality(U) = m - 1 /\ m \in Nat
    BY <2>1, <2>2, <2>3, FS_Subset, FS_RemoveElement
  <2>5. m - 1 \in Nat
    BY <2>4, FS_CardinalityType
  <2>6. U = {} \/ HasMin(U)
    BY <2>1, <2>4, <2>5, SMTT(60)
  <2>7. CASE U = {}
    BY <2>2, <2>3, <2>7
  <2>8. CASE HasMin(U)
    <3>1. PICK b \in U : \A y \in U : b <= y
      BY <2>8
    <3>2. CASE a <= b
      BY <2>2, <2>3, <3>1, <3>2
    <3>3. CASE ~(a <= b)
      <4>1. \A y \in T : b <= y
        BY <2>2, <2>3, <3>1, <3>3
      <4> QED BY <2>2, <3>1, <4>1
    <3> QED BY <3>2, <3>3
  <2> QED BY <2>6, <2>7, <2>8
<1>2. Cardinality(S) \in Nat
  BY FS_CardinalityType
<1> QED BY <1>1, <1>2

\* The minimum of a set is the least of its elements.
LEMMA MinProperties ==
  ASSUME NEW S \in SUBSET Int, IsFiniteSet(S), S # {}
  PROVE  Min(S) \in S /\ \A y \in S : Min(S) <= y
BY MinExists DEF Min

\* The maximum of two numbers is the greater one.
LEMMA MaxOfTwo ==
  ASSUME NEW a \in Int, NEW b \in Int
  PROVE  /\ Max({a, b}) \in {a, b}
         /\ a <= Max({a, b}) /\ b <= Max({a, b})
<1>1. \E x \in {a, b} : \A y \in {a, b} : x >= y
  <2>1. CASE a >= b
    BY <2>1
  <2>2. CASE b >= a
    BY <2>2
  <2> QED BY <2>1, <2>2
<1>2. Max({a, b}) \in {a, b} /\ \A y \in {a, b} : Max({a, b}) >= y
  BY <1>1 DEF Max
<1> QED BY <1>2
-----------------------------------------------------------------------------
\* The timers in the queue, and those the functors of q are going to add.
Queued == {e[2] : e \in timers_}
AddsOf(q) == {i \in DOMAIN q : q[i].op = "add"}
TimersOf(q) == {q[i].timer : i \in AddsOf(q)}
Distinct(q) == \A i, j \in AddsOf(q) : q[i].timer = q[j].timer => i = j

InFunctor == TimersOf(pendingFunctors)
Waiting == InFunctor \cup Queued

\* Every timer is in one place only.
Owned ==
  /\ allocated = InFunctor \cup Queued \cup expired
  /\ InFunctor \cap Queued = {}
  /\ Waiting \cap expired = {}
  /\ Distinct(pendingFunctors)

\* No TimerId has the sequence of a timer (TimerId.h:10, TimerQueue.cc:84).
CancelsNothing(q, asked) ==
  \A i \in DOMAIN q :
    q[i].op = "cancel" => q[i].sequence = 0 /\ q[i].timer \in asked
Cancels ==
  /\ CancelsNothing(pendingFunctors, canceling)
  /\ \A k \in cancelingTimers_ : k[2] = 0

\* When the callback of each timer may be called next.
Times ==
  /\ readTime <= now
  /\ \A t \in toRun : due[t] = Expiration(t) /\ due[t] <= readTime
  /\ \A t \in expired \ toRun : due[t] = readTime + Interval(t)
  /\ \A t \in Waiting : due[t] = Expiration(t)
  /\ \A t \in Waiting \cup toRun : runs[t] = 0 \/ Repeat(t)

IInv ==
  /\ TypeOK /\ SameTimers /\ Owned /\ Cancels /\ Times /\ ArmedForEarliest
  /\ ~callingExpiredTimers_ => expired = {}

FunctorSet == [op : {"add", "cancel"}, timer : Created, sequence : Nat]
-----------------------------------------------------------------------------
\* The functors after queueInLoop.
LEMMA Appended ==
  ASSUME NEW S, NEW q \in Seq(S), NEW f \in S
  PROVE  /\ f.op = "add" => TimersOf(Append(q, f)) = TimersOf(q) \cup {f.timer}
         /\ f.op # "add" => TimersOf(Append(q, f)) = TimersOf(q)
         /\ Distinct(q) /\ (f.op = "add" => f.timer \notin TimersOf(q))
              => Distinct(Append(q, f))
         /\ \A C, D : /\ CancelsNothing(q, C) /\ C \subseteq D
                      /\ f.op = "cancel" => f.sequence = 0 /\ f.timer \in D
                      => CancelsNothing(Append(q, f), D)
<1> DEFINE r == Append(q, f)
           n == Len(q) + 1
<1>1. /\ DOMAIN q = 1 .. Len(q) /\ Len(q) \in Nat
      /\ DOMAIN r = 1 .. n
      /\ \A i \in 1 .. Len(q) : r[i] = q[i]
      /\ r[n] = f
  BY AppendProperties, LenProperties
<1>2. /\ DOMAIN r = DOMAIN q \cup {n} /\ n \notin DOMAIN q
      /\ \A i \in DOMAIN q : r[i] = q[i]
      /\ r[n] = f
  BY <1>1
<1> HIDE DEF r, n
<1>3. AddsOf(r) = IF f.op = "add" THEN AddsOf(q) \cup {n} ELSE AddsOf(q)
  BY <1>2 DEF AddsOf
<1>4. n \notin AddsOf(q) /\ \A i \in AddsOf(q) : r[i] = q[i]
  BY <1>2 DEF AddsOf
<1>5. f.op = "add" => TimersOf(r) = TimersOf(q) \cup {f.timer}
  BY <1>2, <1>3, <1>4 DEF TimersOf
<1>6. f.op # "add" => TimersOf(r) = TimersOf(q)
  BY <1>3, <1>4 DEF TimersOf
<1>7. Distinct(q) /\ (f.op = "add" => f.timer \notin TimersOf(q)) => Distinct(r)
  BY <1>2, <1>3, <1>4 DEF TimersOf, Distinct
<1>8. \A C, D : /\ CancelsNothing(q, C) /\ C \subseteq D
                /\ f.op = "cancel" => f.sequence = 0 /\ f.timer \in D
                => CancelsNothing(r, D)
  BY <1>2 DEF CancelsNothing
<1> QED BY <1>5, <1>6, <1>7, <1>8 DEF r

\* The functors once the first has been taken out.
LEMMA Dequeued ==
  ASSUME NEW S, NEW q \in Seq(S), q # <<>>, Distinct(q)
  PROVE  /\ Head(q) \in S /\ Tail(q) \in Seq(S)
         /\ Head(q).op = "add" => /\ TimersOf(Tail(q)) = TimersOf(q) \ {Head(q).timer}
                                  /\ Head(q).timer \in TimersOf(q)
         /\ Head(q).op # "add" => TimersOf(Tail(q)) = TimersOf(q)
         /\ Distinct(Tail(q))
         /\ \A C : CancelsNothing(q, C) =>
              /\ CancelsNothing(Tail(q), C)
              /\ Head(q).op = "cancel" => Head(q).sequence = 0 /\ Head(q).timer \in C
<1> DEFINE r == Tail(q)
           h == Head(q)
<1>1. /\ DOMAIN q = 1 .. Len(q) /\ Len(q) \in Nat \ {0}
      /\ DOMAIN r = 1 .. Len(q) - 1
      /\ \A i \in 1 .. Len(q) - 1 : r[i] = q[i + 1]
      /\ h = q[1] /\ h \in S /\ r \in Seq(S)
  BY HeadTailProperties, LenProperties
<1>2. /\ 1 \in DOMAIN q /\ h = q[1]
      /\ \A i \in DOMAIN r : i + 1 \in DOMAIN q /\ i + 1 # 1 /\ r[i] = q[i + 1]
      /\ \A j \in DOMAIN q : j # 1 => j - 1 \in DOMAIN r /\ r[j - 1] = q[j]
  BY <1>1
<1>3. \A i, j \in DOMAIN r : i + 1 = j + 1 => i = j
  BY <1>1
<1> HIDE DEF r, h
<1>4. TimersOf(q) = TimersOf(r) \cup (IF h.op = "add" THEN {h.timer} ELSE {})
  <2>1. ASSUME NEW t \in TimersOf(q)
        PROVE  t \in TimersOf(r) \cup (IF h.op = "add" THEN {h.timer} ELSE {})
    BY <1>2, <2>1 DEF TimersOf, AddsOf
  <2>2. TimersOf(r) \subseteq TimersOf(q)
    BY <1>2 DEF TimersOf, AddsOf
  <2>3. h.op = "add" => h.timer \in TimersOf(q)
    BY <1>2 DEF TimersOf, AddsOf
  <2> QED BY <2>1, <2>2, <2>3
<1>5. h.op = "add" => h.timer \notin TimersOf(r)
  BY <1>2 DEF TimersOf, AddsOf, Distinct
<1>6. Distinct(r)
  <2> SUFFICES ASSUME NEW i \in AddsOf(r), NEW j \in AddsOf(r), r[i].timer = r[j].timer
               PROVE  i = j
    BY DEF Distinct
  <2>1. i + 1 \in AddsOf(q) /\ j + 1 \in AddsOf(q) /\ q[i + 1].timer = q[j + 1].timer
    BY <1>2 DEF AddsOf
  <2> QED BY <1>3, <2>1 DEF Distinct, AddsOf
<1>7. \A C : CancelsNothing(q, C) =>
        /\ CancelsNothing(r, C)
        /\ h.op = "cancel" => h.sequence = 0 /\ h.timer \in C
  BY <1>2 DEF CancelsNothing
<1>8. h \in S /\ r \in Seq(S)
  BY <1>1
<1> QED BY <1>4, <1>5, <1>6, <1>7, <1>8 DEF r, h
-----------------------------------------------------------------------------
\* The queue holds created timers under their expirations, finitely many.
LEMMA QueueFacts ==
  ASSUME TypeOK, SameTimers
  PROVE  /\ timers_ = {Entry(t) : t \in Queued}
         /\ activeTimers_ = {ActiveTimer(t) : t \in Queued}
         /\ Queued \subseteq Created /\ IsFiniteSet(Created)
         /\ {e[1] : e \in timers_} \in SUBSET Int /\ IsFiniteSet({e[1] : e \in timers_})
         /\ Cardinality(Queued) = Cardinality(timers_)
         /\ timers_ = {} <=> Queued = {}
<1>1. /\ timers_ = {Entry(t) : t \in Queued}
      /\ activeTimers_ = {ActiveTimer(t) : t \in Queued}
  BY DEF SameTimers, Queued
<1>2. timers_ \subseteq Int \X Created
  BY DEF TypeOK
<1>3. Queued \subseteq Created /\ {e[1] : e \in timers_} \in SUBSET Int
  BY <1>2 DEF Queued
<1>4. IsFiniteSet(Created) /\ IsFiniteSet(Queued)
  <2>1. Len(timer) \in Nat
    BY DEF TypeOK
  <2>2. IsFiniteSet(Created)
    BY <2>1, FS_Interval DEF Created
  <2> QED BY <1>3, <2>2, FS_Subset
<1>5. Cardinality(Queued) = Cardinality(timers_)
  <2> DEFINE F == [t \in Queued |-> Entry(t)]
  <2>1. F \in [Queued -> timers_]
    BY <1>1
  <2>2. \A t, u \in Queued : t # u => F[t] # F[u]
    BY DEF Entry
  <2>3. \A e \in timers_ : \E t \in Queued : F[t] = e
    BY <1>1
  <2> HIDE DEF F
  <2>4. F \in Bijection(Queued, timers_)
    BY <2>1, <2>2, <2>3, Fun_IsBij
  <2> QED BY <1>4, <2>4, FS_Bijection DEF ExistsBijection
<1>6. IsFiniteSet({e[1] : e \in timers_})
  <2> DEFINE E == {e[1] : e \in timers_}
             F == [t \in Queued |-> Expiration(t)]
  <2>1. F \in [Queued -> E] /\ \A x \in E : \E t \in Queued : F[t] = x
    <3>1. \A t \in Queued : Entry(t) \in timers_ /\ Entry(t)[1] = Expiration(t)
      BY <1>1 DEF Entry
    <3>2. \A x \in E : \E t \in Queued : x = Expiration(t)
      BY <1>1 DEF Entry
    <3> QED BY <3>1, <3>2
  <2> HIDE DEF E, F
  <2>2. F \in Surjection(Queued, E)
    BY <2>1, Fun_IsSurj
  <2>3. IsFiniteSet(E)
    BY <1>4, <2>2, FS_Surjection
  <2> QED BY <2>3 DEF E
<1>7. timers_ = {} <=> Queued = {}
  BY DEF Queued
<1> QED BY <1>1, <1>3, <1>4, <1>5, <1>6, <1>7

\* The least number of a set that grows by one.
LEMMA MinAdd ==
  ASSUME NEW S \in SUBSET Int, IsFiniteSet(S), NEW w \in Int
  PROVE  /\ S = {} => Min(S \cup {w}) = w
         /\ S # {} => Min(S) \in Int
         /\ S # {} /\ w < Min(S) => Min(S \cup {w}) = w
         /\ S # {} /\ ~(w < Min(S)) => Min(S \cup {w}) = Min(S)
<1> DEFINE T == S \cup {w}
<1>1. T \in SUBSET Int /\ IsFiniteSet(T) /\ T # {} /\ w \in T /\ S \subseteq T
  BY FS_AddElement
<1>2. Min(T) \in T /\ \A y \in T : Min(T) <= y
  <2> HIDE DEF T
  <2> QED BY <1>1, MinProperties
<1>3. S # {} => Min(S) \in S /\ \A y \in S : Min(S) <= y
  BY MinProperties
<1>4. CASE S = {}
  BY <1>2, <1>4
<1>5. CASE S # {}
  <2>1. Min(S) \in Int /\ Min(T) \in Int /\ Min(T) <= w /\ Min(T) <= Min(S)
    BY <1>1, <1>2, <1>3, <1>5
  <2>a. \A y \in T : y \in S \/ y = w
    OBVIOUS
  <2> HIDE DEF T
  <2>2. Min(T) = w \/ (Min(T) \in S /\ Min(S) <= Min(T))
    BY <1>2, <1>3, <1>5, <2>a
  <2>3. w < Min(S) => Min(T) = w
    BY <2>1, <2>2
  <2>4. ~(w < Min(S)) => Min(T) = Min(S)
    BY <2>1, <2>2
  <2> QED BY <1>5, <2>1, <2>3, <2>4 DEF T
<1> QED BY <1>4, <1>5

\* The timerfd is armed for a moment after now.
LEMMA ArmedProperties ==
  ASSUME TypeOK, NEW w \in Int
  PROVE  Armed(w) \in Nat /\ Armed(w) # Never /\ Armed(w) = Max({w, now + 1})
<1>1. now \in Nat
  BY TimerAssumption DEF TypeOK
<1>2. Max({w, now + 1}) \in {w, now + 1} /\ now + 1 <= Max({w, now + 1})
  BY <1>1, MaxOfTwo
<1> QED BY <1>1, <1>2 DEF Armed, Never

\* addTimerInLoop leaves the timerfd armed for the earliest timer.
LEMMA AddArms ==
  ASSUME TypeOK, SameTimers, ArmedForEarliest, NEW t, NEW w \in Int, AddInLoop(t, w),
         now' = now, callingExpiredTimers_' = callingExpiredTimers_
  PROVE  ArmedForEarliest' /\ timerfd_' \in Nat \cup {Never}
<1> DEFINE S == {e[1] : e \in timers_}
<1>1. S \in SUBSET Int /\ IsFiniteSet(S) /\ (S = {} <=> timers_ = {})
  BY QueueFacts
<1>2. {e[1] : e \in timers_'} = S \cup {w}
  <2>1. timers_' = timers_ \cup {<<w, t>>} /\ <<w, t>>[1] = w
    BY DEF AddInLoop
  <2> QED BY <2>1
<1> HIDE DEF S
<1>3. Earliest(timers_) = Min(S) /\ Earliest(timers_)' = Min(S \cup {w})
  BY <1>2 DEF Earliest, S
<1>4. /\ S = {} => Min(S \cup {w}) = w
      /\ S # {} => Min(S) \in Int
      /\ S # {} /\ w < Min(S) => Min(S \cup {w}) = w
      /\ S # {} /\ ~(w < Min(S)) => Min(S \cup {w}) = Min(S)
  BY <1>1, MinAdd
<1>5. Armed(w) \in Nat /\ Armed(w) # Never /\ Armed(w) = Max({w, now + 1})
  BY ArmedProperties
<1>6. now \in Nat /\ timerfd_ \in Nat \cup {Never}
  BY TimerAssumption DEF TypeOK
<1>7. CASE timers_ = {} \/ w < Earliest(timers_)
  <2>1. timerfd_' = Armed(w) /\ Earliest(timers_)' = w
    BY <1>1, <1>3, <1>4, <1>7 DEF AddInLoop
  <2> QED BY <1>5, <2>1 DEF ArmedForEarliest
<1>8. CASE ~(timers_ = {} \/ w < Earliest(timers_))
  <2>1. timerfd_' = timerfd_ /\ Earliest(timers_)' = Earliest(timers_)
    BY <1>1, <1>3, <1>4, <1>8 DEF AddInLoop
  <2> QED BY <1>6, <1>8, <2>1 DEF ArmedForEarliest
<1> QED BY <1>7, <1>8

\* push_back, to a vector of n.
LEMMA AppendToFunction ==
  ASSUME NEW S, NEW f \in Seq(S), NEW e \in S, NEW n \in Nat, Len(f) = n
  PROVE  /\ Append(f, e) \in [1 .. n + 1 -> S]
         /\ \A i \in 1 .. n : Append(f, e)[i] = f[i]
         /\ Append(f, e)[n + 1] = e
<1>1. /\ Append(f, e) \in Seq(S) /\ Len(Append(f, e)) = n + 1
      /\ \A i \in 1 .. n : Append(f, e)[i] = f[i]
      /\ Append(f, e)[n + 1] = e
  BY AppendProperties
<1>2. Append(f, e) \in [1 .. n + 1 -> S]
  BY <1>1, LenProperties
<1> QED BY <1>1, <1>2

\* A new Timer changes nothing of the others.
LEMMA NewTimerFacts ==
  ASSUME TypeOK, NEW w \in Int, NEW i \in Nat, NewTimer(w, i)
  PROVE  LET n == Len(timer) + 1 IN
         /\ Created' = Created \cup {n} /\ n \notin Created /\ n \in Nat \ {0}
         /\ timer' \in Seq([expiration : Int, interval : Nat])
         /\ due' \in [Created' -> Int] /\ runs' \in [Created' -> Nat]
         /\ \A t \in Created : /\ Expiration(t)' = Expiration(t)
                               /\ Interval(t)' = Interval(t)
                               /\ Repeat(t)' = Repeat(t)
                               /\ due'[t] = due[t] /\ runs'[t] = runs[t]
         /\ timer'[n].expiration = w /\ due'[n] = w /\ runs'[n] = 0
<1> DEFINE n == Len(timer) + 1
           Timers == [expiration : Int, interval : Nat]
<1>1. /\ timer \in Seq(Timers) /\ Len(timer) \in Nat /\ Created = 1 .. Len(timer)
      /\ due \in [1 .. Len(timer) -> Int] /\ runs \in [1 .. Len(timer) -> Nat]
      /\ [expiration |-> w, interval |-> i] \in Timers
  BY DEF TypeOK, Created
<1>2. /\ timer' = Append(timer, [expiration |-> w, interval |-> i])
      /\ due' = Append(due, w) /\ runs' = Append(runs, 0)
  BY DEF NewTimer
<1>3. /\ timer' \in Seq(Timers) /\ Len(timer') = n
      /\ \A t \in 1 .. Len(timer) : timer'[t] = timer[t]
      /\ timer'[n] = [expiration |-> w, interval |-> i]
  BY <1>1, <1>2, AppendProperties
<1>w. w \in Int /\ 0 \in Nat
  OBVIOUS
<1>4. /\ due' \in [1 .. n -> Int] /\ \A t \in 1 .. Len(timer) : due'[t] = due[t]
      /\ due'[n] = w
  <2>1. /\ Append(due, w) \in [1 .. Len(timer) + 1 -> Int]
        /\ \A t \in 1 .. Len(timer) : Append(due, w)[t] = due[t]
        /\ Append(due, w)[Len(timer) + 1] = w
    <3>1. due \in [1 .. Len(timer) -> Int] /\ Len(timer) \in Nat /\ w \in Int
      BY <1>1, <1>w
    <3>2. due \in Seq(Int) /\ Len(due) = Len(timer)
      BY <3>1
    <3>3. Append(due, w) \in [1 .. Len(timer) + 1 -> Int]
      BY <3>1, <3>2, AppendToFunction
    <3>4. \A t \in 1 .. Len(timer) : Append(due, w)[t] = due[t]
      BY <3>1, <3>2, AppendToFunction
    <3>5. Append(due, w)[Len(timer) + 1] = w
      BY <3>1, <3>2, AppendToFunction
    <3> QED BY <3>3, <3>4, <3>5
  <2> QED BY <1>2, <2>1
<1>5. /\ runs' \in [1 .. n -> Nat] /\ \A t \in 1 .. Len(timer) : runs'[t] = runs[t]
      /\ runs'[n] = 0
  <2>1. /\ Append(runs, 0) \in [1 .. Len(timer) + 1 -> Nat]
        /\ \A t \in 1 .. Len(timer) : Append(runs, 0)[t] = runs[t]
        /\ Append(runs, 0)[Len(timer) + 1] = 0
    <3>1. runs \in [1 .. Len(timer) -> Nat] /\ Len(timer) \in Nat /\ 0 \in Nat
      BY <1>1, <1>w
    <3>2. runs \in Seq(Nat) /\ Len(runs) = Len(timer)
      BY <3>1
    <3>3. Append(runs, 0) \in [1 .. Len(timer) + 1 -> Nat]
      BY <3>1, <3>2, AppendToFunction
    <3>4. \A t \in 1 .. Len(timer) : Append(runs, 0)[t] = runs[t]
      BY <3>1, <3>2, AppendToFunction
    <3>5. Append(runs, 0)[Len(timer) + 1] = 0
      BY <3>1, <3>2, AppendToFunction
    <3> QED BY <3>3, <3>4, <3>5
  <2> QED BY <1>2, <2>1
<1>6. Created' = 1 .. n /\ Created' = Created \cup {n} /\ n \notin Created
  BY <1>1, <1>3 DEF Created
<1>7. \A t \in Created : /\ Expiration(t)' = Expiration(t)
                         /\ Interval(t)' = Interval(t) /\ Repeat(t)' = Repeat(t)
  BY <1>1, <1>3 DEF Expiration, Interval, Repeat
<1>8. timer'[n].expiration = w
  BY <1>3
<1> QED BY <1>1, <1>3, <1>4, <1>5, <1>6, <1>7, <1>8

\* Where the timers are.
LEMMA PlaceFacts ==
  ASSUME TypeOK, Owned
  PROVE  /\ pendingFunctors \in Seq(FunctorSet)
         /\ InFunctor \subseteq Created /\ Queued \subseteq Created
         /\ Waiting \subseteq Created /\ expired \subseteq Created
         /\ toRun \subseteq expired /\ allocated \subseteq Created
         /\ Created \subseteq Nat \ {0} /\ timer \in Seq([expiration : Int, interval : Nat])
         /\ \A t \in Created : Expiration(t) \in Int /\ Interval(t) \in Nat
<1>1. pendingFunctors \in Seq(FunctorSet) /\ expired \subseteq Created /\ toRun \subseteq expired
      /\ allocated \subseteq Created /\ timer \in Seq([expiration : Int, interval : Nat])
  BY DEF TypeOK, FunctorSet
<1>2. InFunctor \subseteq Created /\ Queued \subseteq Created /\ Waiting \subseteq Created
  BY <1>1 DEF Owned, Waiting
<1>3. Created \subseteq Nat \ {0}
  BY <1>1 DEF Created
<1>4. \A t \in Created : Expiration(t) \in Int /\ Interval(t) \in Nat
  <2>1. \A t \in 1 .. Len(timer) : timer[t] \in [expiration : Int, interval : Nat]
    BY <1>1, ElementOfSeq, Zenon
  <2>2. \A t \in Created : timer[t] \in [expiration : Int, interval : Nat]
    BY <2>1 DEF Created
  <2> QED BY <2>2 DEF Expiration, Interval
<1> QED BY <1>1, <1>2, <1>3, <1>4

\* The types after new Timer, whatever is done with it.
LEMMA GrowTypes ==
  ASSUME TypeOK, NEW w \in Int, NEW i \in Nat, NewTimer(w, i),
         timerfd_' \in Nat \cup {Never},
         timers_' \subseteq Int \X Created', activeTimers_' \subseteq Created' \X Created',
         pendingFunctors' \in Seq(FunctorSet')
  PROVE  TypeOK'
<1>1. /\ Created \subseteq Created' /\ Len(timer) + 1 \in Created'
      /\ timer' \in Seq([expiration : Int, interval : Nat])
      /\ due' \in [Created' -> Int] /\ runs' \in [Created' -> Nat]
  BY NewTimerFacts
<1>2. allocated' \subseteq Created'
  BY <1>1 DEF NewTimer, TypeOK
<1>3. /\ cancelingTimers_' \subseteq Created' \X Nat
      /\ expired' \subseteq Created' /\ toRun' \subseteq expired'
      /\ canceled' \subseteq canceling' /\ canceling' \subseteq Created'
  BY <1>1 DEF NewTimer, TypeOK, walk
<1>4. /\ now' \in 0 .. MaxTime /\ readTime' \in 0 .. MaxTime
      /\ callingExpiredTimers_' \in BOOLEAN /\ inCallback' \in BOOLEAN
  BY DEF NewTimer, TypeOK, walk
<1> QED BY <1>1, <1>2, <1>3, <1>4 DEF TypeOK, FunctorSet

\* A new timer is due when it expires, and has not run.
LEMMA GrowTimes ==
  ASSUME TypeOK, Owned, Times, NEW w \in Int, NEW i \in Nat, NewTimer(w, i),
         Waiting' = Waiting \cup {Len(timer) + 1}
  PROVE  Times'
<1> DEFINE n == Len(timer) + 1
<1>1. /\ Waiting \subseteq Created /\ expired \subseteq Created /\ toRun \subseteq expired
  BY PlaceFacts
<1>2. /\ \A t \in Created : /\ Expiration(t)' = Expiration(t)
                            /\ Interval(t)' = Interval(t)
                            /\ Repeat(t)' = Repeat(t)
                            /\ due'[t] = due[t] /\ runs'[t] = runs[t]
      /\ timer'[n].expiration = w /\ due'[n] = w /\ runs'[n] = 0
  BY NewTimerFacts
<1>3. PICK k : k = n
  OBVIOUS
<1>4. Expiration(k)' = w /\ due'[k] = w /\ runs'[k] = 0
  BY <1>2, <1>3 DEF Expiration
<1>5. /\ readTime' = readTime /\ now' = now /\ toRun' = toRun /\ expired' = expired
      /\ Waiting' = Waiting \cup {k}
  BY <1>3 DEF NewTimer, walk
<1> HIDE DEF n
<1>6. \A t \in toRun' : due'[t] = Expiration(t)' /\ due'[t] <= readTime'
  BY <1>1, <1>2, <1>5 DEF Times
<1>7. \A t \in expired' \ toRun' : due'[t] = readTime' + Interval(t)'
  BY <1>1, <1>2, <1>5 DEF Times
<1>8. \A t \in Waiting' : due'[t] = Expiration(t)'
  BY <1>1, <1>2, <1>4, <1>5 DEF Times
<1>9. \A t \in Waiting' \cup toRun' : runs'[t] = 0 \/ Repeat(t)'
  BY <1>1, <1>2, <1>4, <1>5 DEF Times
<1> QED BY <1>5, <1>6, <1>7, <1>8, <1>9 DEF Times

\* addTimerInLoop puts the timer in both sets.
LEMMA AddKeepsSame ==
  ASSUME TypeOK, SameTimers, NEW t, NEW w, AddInLoop(t, w),
         \A u \in Queued : Expiration(u)' = Expiration(u), timer'[t].expiration = w
  PROVE  SameTimers' /\ Queued' = Queued \cup {t}
<1>1. /\ timers_ = {Entry(u) : u \in Queued}
      /\ activeTimers_ = {ActiveTimer(u) : u \in Queued}
  BY QueueFacts
<1>2. /\ timers_' = timers_ \cup {<<w, t>>}
      /\ activeTimers_' = activeTimers_ \cup {ActiveTimer(t)}
  BY DEF AddInLoop
<1>3. Queued' = Queued \cup {t}
  <2>1. <<w, t>>[2] = t
    OBVIOUS
  <2>2. {e[2] : e \in timers_ \cup {<<w, t>>}} = {e[2] : e \in timers_} \cup {<<w, t>>[2]}
    OBVIOUS
  <2> QED BY <1>2, <2>1, <2>2 DEF Queued
<1>4. Entry(t)' = <<w, t>> /\ \A u \in Queued : Entry(u)' = Entry(u)
  BY DEF Entry, Expiration
<1>5. timers_' = {Entry(u)' : u \in Queued \cup {t}}
  BY <1>1, <1>2, <1>4
<1>6. activeTimers_' = {ActiveTimer(u) : u \in Queued \cup {t}}
  BY <1>1, <1>2
<1>7. SameTimers'
  BY <1>3, <1>5, <1>6 DEF SameTimers, Queued, ActiveTimer
<1> QED BY <1>3, <1>7
-----------------------------------------------------------------------------
\* What addTimer is called with.
LEMMA RequestTypes ==
  ASSUME TypeOK, NEW r \in Requests
  PROVE  r[1] \in Int /\ r[2] \in Nat
<1>1. now \in Nat /\ Delays \subseteq Int /\ Intervals \subseteq Nat
  BY TimerAssumption DEF TypeOK
<1>2. CASE r \in {<<now + d, 0>> : d \in Delays}
  <2>1. PICK d \in Delays : r = <<now + d, 0>>
    BY <1>2
  <2>2. now + d \in Int
    BY <1>1
  <2> QED BY <2>1, <2>2
<1>3. CASE r \in {<<now + j, j>> : j \in Intervals}
  <2>1. PICK j \in Intervals : r = <<now + j, j>>
    BY <1>3
  <2>2. now + j \in Int /\ j \in Nat
    BY <1>1
  <2> QED BY <2>1, <2>2
<1> QED BY <1>2, <1>3 DEF Requests

\* addTimer called by the loop thread.
LEMMA LoopAddsKeeps == ASSUME IInv, LoopAddsTimer PROVE IInv'
<1> USE DEF IInv
<1>1. PICK w \in Int, i \in Nat : NewTimer(w, i) /\ AddInLoop(Len(timer) + 1, w)
  <2>1. PICK r \in Requests : NewTimer(r[1], r[2]) /\ AddInLoop(Len(timer) + 1, r[1])
    BY DEF LoopAddsTimer
  <2>2. r[1] \in Int /\ r[2] \in Nat
    BY RequestTypes
  <2> QED BY <2>1, <2>2
<1>2. PICK n : n = Len(timer) + 1
  OBVIOUS
<1>3. /\ Created' = Created \cup {n} /\ n \notin Created
      /\ \A t \in Created : Expiration(t)' = Expiration(t)
      /\ timer'[n].expiration = w
  BY <1>1, <1>2, NewTimerFacts
<1>4. /\ Waiting \subseteq Created /\ expired \subseteq Created
      /\ InFunctor \subseteq Created /\ Queued \subseteq Created
      /\ pendingFunctors \in Seq(FunctorSet)
  BY PlaceFacts
<1>5. /\ pendingFunctors' = pendingFunctors /\ InFunctor' = InFunctor
      /\ UNCHANGED <<now, cancelingTimers_, canceling, callingExpiredTimers_, expired>>
      /\ allocated' = allocated \cup {n} /\ AddInLoop(n, w)
  BY <1>1, <1>2 DEF LoopAddsTimer, NewTimer, walk, InFunctor
<1>6. SameTimers' /\ Queued' = Queued \cup {n}
  BY <1>3, <1>4, <1>5, AddKeepsSame
<1>7. ArmedForEarliest' /\ timerfd_' \in Nat \cup {Never}
  BY <1>5, AddArms
<1>8. Waiting' = Waiting \cup {n}
  BY <1>5, <1>6 DEF Waiting
<1>9. Times'
  BY <1>1, <1>2, <1>8, GrowTimes
<1>10. Owned'
  BY <1>3, <1>4, <1>5, <1>6, <1>8 DEF Owned
<1>11. Cancels'
  BY <1>5 DEF Cancels
<1>12. TypeOK'
  <2>1. timers_' \subseteq Int \X Created'
    BY <1>3, <1>5 DEF AddInLoop, TypeOK
  <2>2. activeTimers_' \subseteq Created' \X Created'
    BY <1>3, <1>5 DEF AddInLoop, TypeOK, ActiveTimer
  <2>3. pendingFunctors' \in Seq(FunctorSet')
    <3>1. Created \subseteq Created'
      BY <1>3
    <3>2. FunctorSet \subseteq FunctorSet'
      BY <3>1 DEF FunctorSet
    <3> QED BY <1>4, <1>5, <3>2
  <2> QED BY <1>1, <1>7, <2>1, <2>2, <2>3, GrowTypes
<1> QED BY <1>5, <1>6, <1>7, <1>9, <1>10, <1>11, <1>12

\* addTimer called by another thread.
LEMMA ThreadAddsKeeps == ASSUME IInv, ThreadAddsTimer PROVE IInv'
<1> USE DEF IInv
<1>1. PICK w \in Int, i \in Nat : NewTimer(w, i)
  <2>1. PICK r \in Requests : NewTimer(r[1], r[2])
    BY DEF ThreadAddsTimer
  <2>2. r[1] \in Int /\ r[2] \in Nat
    BY RequestTypes
  <2> QED BY <2>1, <2>2
<1>2. PICK n : n = Len(timer) + 1
  OBVIOUS
<1>3. /\ Created' = Created \cup {n} /\ n \notin Created /\ n \in Nat
      /\ \A t \in Created : Expiration(t)' = Expiration(t)
  BY <1>1, <1>2, NewTimerFacts
<1>4. /\ Waiting \subseteq Created /\ expired \subseteq Created
      /\ InFunctor \subseteq Created /\ Queued \subseteq Created
      /\ pendingFunctors \in Seq(FunctorSet)
  BY PlaceFacts
<1> DEFINE f == [op |-> "add", timer |-> n, sequence |-> n]
<1>5. /\ pendingFunctors' = Append(pendingFunctors, f)
      /\ UNCHANGED <<now, timers_, activeTimers_, timerfd_, cancelingTimers_, canceling,
                     callingExpiredTimers_, expired>>
      /\ allocated' = allocated \cup {n}
  BY <1>1, <1>2 DEF ThreadAddsTimer, NewTimer, walk
<1>6. /\ f \in FunctorSet' /\ pendingFunctors \in Seq(FunctorSet')
      /\ f.op = "add" /\ f.timer = n
  <2>1. Created \subseteq Created' /\ n \in Created'
    BY <1>3
  <2>2. FunctorSet \subseteq FunctorSet' /\ f \in FunctorSet'
    BY <1>3, <2>1 DEF FunctorSet
  <2> QED BY <1>4, <2>2
<1> HIDE DEF f
<1>7. /\ TimersOf(pendingFunctors') = TimersOf(pendingFunctors) \cup {n}
      /\ n \notin TimersOf(pendingFunctors) => Distinct(pendingFunctors')
      /\ CancelsNothing(pendingFunctors', canceling)
      /\ pendingFunctors' \in Seq(FunctorSet')
  <2>1. Distinct(pendingFunctors) /\ CancelsNothing(pendingFunctors, canceling)
    BY DEF Owned, Cancels
  <2>2. TimersOf(pendingFunctors') = TimersOf(pendingFunctors) \cup {n}
    BY <1>5, <1>6, Appended
  <2>3. n \notin TimersOf(pendingFunctors) => Distinct(pendingFunctors')
    BY <1>5, <1>6, <2>1, Appended
  <2>4. CancelsNothing(pendingFunctors', canceling)
    BY <1>5, <1>6, <2>1, Appended
  <2>5. pendingFunctors' \in Seq(FunctorSet')
    BY <1>5, <1>6
  <2> QED BY <2>2, <2>3, <2>4, <2>5
<1>8. /\ InFunctor' = InFunctor \cup {n} /\ Queued' = Queued
      /\ Waiting' = Waiting \cup {n}
  BY <1>5, <1>7 DEF InFunctor, Queued, Waiting
<1>9. Times'
  BY <1>1, <1>2, <1>8, GrowTimes
<1>10. Owned'
  BY <1>3, <1>4, <1>5, <1>7, <1>8 DEF Owned, InFunctor
<1>11. Cancels'
  BY <1>5, <1>7 DEF Cancels
<1>12. SameTimers'
  <2>1. timers_' = timers_ /\ activeTimers_' = activeTimers_
    BY <1>5
  <2>2. \A u \in Queued : Entry(u)' = Entry(u)
    BY <1>3, <1>4 DEF Entry
  <2>3. /\ timers_ = {Entry(u) : u \in Queued}
        /\ activeTimers_ = {ActiveTimer(u) : u \in Queued}
    BY QueueFacts
  <2>4. timers_' = {Entry(u)' : u \in Queued'} /\ activeTimers_' = {ActiveTimer(u) : u \in Queued'}
    BY <1>8, <2>1, <2>2, <2>3
  <2> QED BY <2>4 DEF SameTimers, Queued, ActiveTimer
<1>13. ArmedForEarliest'
  BY <1>5 DEF ArmedForEarliest, Earliest
<1>14. TypeOK'
  <2>1. timers_' \subseteq Int \X Created' /\ activeTimers_' \subseteq Created' \X Created'
    BY <1>3, <1>5 DEF TypeOK
  <2>2. timerfd_' \in Nat \cup {Never}
    BY <1>5 DEF TypeOK
  <2> QED BY <1>1, <1>7, <2>1, <2>2, GrowTypes
<1> QED BY <1>5, <1>9, <1>10, <1>11, <1>12, <1>13, <1>14
-----------------------------------------------------------------------------
\* What a step that leaves the timers, their places and the clock alone keeps.
LEMMA TimersAlike ==
  ASSUME IInv, Distinct(pendingFunctors)', InFunctor' = InFunctor,
         UNCHANGED <<now, heap, timers_, activeTimers_, callingExpiredTimers_, timerfd_,
                     expired, toRun, readTime, due, runs>>
  PROVE  /\ SameTimers' /\ Owned' /\ Times' /\ ArmedForEarliest'
         /\ (~callingExpiredTimers_ => expired = {})'
<1> USE DEF IInv, heap
<1>1. Queued' = Queued /\ Waiting' = Waiting
  BY DEF Queued, Waiting
<1>2. /\ \A t : Expiration(t)' = Expiration(t) /\ Interval(t)' = Interval(t)
      /\ \A t : Repeat(t)' = Repeat(t)
  BY DEF Expiration, Interval, Repeat
<1>3. SameTimers'
  BY DEF SameTimers, Entry, Expiration, ActiveTimer
<1>4. Owned'
  BY <1>1 DEF Owned
<1>5. Times'
  BY <1>1, <1>2 DEF Times
<1>6. ArmedForEarliest'
  BY DEF ArmedForEarliest, Earliest
<1> QED BY <1>3, <1>4, <1>5, <1>6

\* cancelInLoop finds no timer under a sequence of 0, and deletes none.
LEMMA CancelFindsNothing ==
  ASSUME TypeOK, SameTimers, NEW f, f.sequence = 0, CancelInLoop(f)
  PROVE  /\ UNCHANGED <<now, heap, timers_, activeTimers_, walk, timerfd_, due, runs>>
         /\ cancelingTimers_' \subseteq cancelingTimers_ \cup {<<f.timer, 0>>}
         /\ canceled' = canceled \cup {f.timer}
<1> DEFINE key == <<f.timer, f.sequence>>
           found == activeTimers_ \cap {key}
<1>1. found = {}
  <2>1. \A k \in activeTimers_ : k[2] # 0
    <3>1. activeTimers_ = {ActiveTimer(t) : t \in Queued} /\ Queued \subseteq Created
      BY QueueFacts
    <3>2. \A t \in Created : ActiveTimer(t)[2] # 0
      BY DEF Created, ActiveTimer, TypeOK
    <3> QED BY <3>1, <3>2
  <2>2. key[2] = 0
    OBVIOUS
  <2> QED BY <2>1, <2>2
<1>2. /\ activeTimers_' = activeTimers_ \ found
      /\ timers_' = timers_ \ {Entry(k[1]) : k \in found}
      /\ allocated' = allocated \ {k[1] : k \in found}
      /\ cancelingTimers_' = IF found = {} /\ callingExpiredTimers_
                             THEN cancelingTimers_ \cup {key} ELSE cancelingTimers_
      /\ canceled' = canceled \cup {f.timer}
      /\ UNCHANGED <<now, timer, timerfd_, walk, due, runs>>
  BY DEF CancelInLoop
<1>3. activeTimers_' = activeTimers_ /\ timers_' = timers_ /\ allocated' = allocated
  <2> HIDE DEF found
  <2>1. {Entry(k[1]) : k \in found} = {} /\ {k[1] : k \in found} = {}
    BY <1>1
  <2> QED BY <1>1, <1>2, <2>1
<1>4. cancelingTimers_' \subseteq cancelingTimers_ \cup {<<f.timer, 0>>}
  BY <1>2
<1> QED BY <1>2, <1>3, <1>4 DEF heap

\* cancel called by the loop thread.
LEMMA LoopCancelsKeeps ==
  ASSUME IInv, NEW t \in Created, LoopCancels(t)
  PROVE  IInv'
<1> USE DEF IInv
<1>1. /\ UNCHANGED <<now, heap, timers_, activeTimers_, walk, timerfd_, due, runs>>
      /\ cancelingTimers_' \subseteq cancelingTimers_ \cup {<<t, 0>>}
      /\ canceled' = canceled \cup {t}
  <2>1. TimerId(t).sequence = 0 /\ TimerId(t).timer = t /\ CancelInLoop(TimerId(t))
    BY DEF TimerId, LoopCancels
  <2> HIDE DEF IInv
  <2> QED BY <2>1, CancelFindsNothing DEF IInv
<1>2. canceling' = canceling \cup {t} /\ pendingFunctors' = pendingFunctors
  BY DEF LoopCancels
<1>3. Distinct(pendingFunctors)' /\ InFunctor' = InFunctor
  BY <1>2 DEF Owned, InFunctor
<1>4. /\ SameTimers' /\ Owned' /\ Times' /\ ArmedForEarliest'
      /\ (~callingExpiredTimers_ => expired = {})'
  BY <1>1, <1>3, TimersAlike DEF walk
<1>5. Cancels'
  <2>1. \A k \in cancelingTimers_' : k[2] = 0
    BY <1>1 DEF Cancels
  <2>2. CancelsNothing(pendingFunctors', canceling')
    BY <1>2 DEF Cancels, CancelsNothing
  <2> QED BY <2>1, <2>2 DEF Cancels
<1>6. TypeOK'
  <2>1. Created' = Created
    BY <1>1 DEF Created, heap
  <2>2. /\ cancelingTimers_' \subseteq Created \X Nat
        /\ canceled' \subseteq canceling' /\ canceling' \subseteq Created
    BY <1>1, <1>2 DEF TypeOK
  <2> QED BY <1>1, <1>2, <2>1, <2>2 DEF TypeOK, walk, heap
<1> QED BY <1>4, <1>5, <1>6

\* cancel called by another thread.
LEMMA ThreadCancelsKeeps ==
  ASSUME IInv, NEW t \in Created, ThreadCancels(t)
  PROVE  IInv'
<1> USE DEF IInv
<1> DEFINE f == [op |-> "cancel", timer |-> t, sequence |-> 0]
<1>1. /\ UNCHANGED <<now, heap, timers_, activeTimers_, cancelingTimers_, walk,
                     timerfd_, due, runs, canceled>>
      /\ canceling' = canceling \cup {t}
      /\ pendingFunctors' = Append(pendingFunctors, f)
  BY DEF ThreadCancels, TimerId
<1>2. f \in FunctorSet /\ f.op = "cancel" /\ f.sequence = 0 /\ f.timer = t
      /\ pendingFunctors \in Seq(FunctorSet)
  BY DEF FunctorSet, TypeOK
<1> HIDE DEF f
<1>3. Distinct(pendingFunctors) /\ CancelsNothing(pendingFunctors, canceling)
  BY DEF Owned, Cancels
<1>4. InFunctor' = InFunctor
  BY <1>1, <1>2, Appended DEF InFunctor
<1>5. Distinct(pendingFunctors)'
  BY <1>1, <1>2, <1>3, Appended
<1>6. CancelsNothing(pendingFunctors', canceling')
  <2>1. canceling \subseteq canceling' /\ t \in canceling'
    BY <1>1
  <2> QED BY <1>1, <1>2, <1>3, <2>1, Appended
<1>7. /\ SameTimers' /\ Owned' /\ Times' /\ ArmedForEarliest'
      /\ (~callingExpiredTimers_ => expired = {})'
  BY <1>1, <1>4, <1>5, TimersAlike DEF walk
<1>8. Cancels'
  BY <1>1, <1>6 DEF Cancels
<1>9. TypeOK'
  <2>1. Created' = Created
    BY <1>1 DEF Created, heap
  <2>2. pendingFunctors' \in Seq(FunctorSet)
    BY <1>1, <1>2
  <2>3. canceled' \subseteq canceling' /\ canceling' \subseteq Created
    BY <1>1 DEF TypeOK
  <2> QED BY <1>1, <2>1, <2>2, <2>3 DEF TypeOK, walk, heap, FunctorSet
<1> QED BY <1>7, <1>8, <1>9

\* The loop runs a functor of another thread.
LEMMA RunPendingKeeps == ASSUME IInv, RunPending PROVE IInv'
<1> USE DEF IInv
<1>1. pendingFunctors # <<>> /\ pendingFunctors' = Tail(pendingFunctors)
  BY DEF RunPending
<1>2. PICK f : f = Head(pendingFunctors)
  OBVIOUS
<1>3. Distinct(pendingFunctors) /\ CancelsNothing(pendingFunctors, canceling)
      /\ pendingFunctors \in Seq(FunctorSet)
  BY DEF Owned, Cancels, TypeOK, FunctorSet
<1>4. /\ f \in FunctorSet /\ pendingFunctors' \in Seq(FunctorSet)
      /\ f.op = "add" => /\ InFunctor' = InFunctor \ {f.timer}
                         /\ f.timer \in InFunctor
      /\ f.op # "add" => InFunctor' = InFunctor
      /\ Distinct(pendingFunctors)'
      /\ CancelsNothing(pendingFunctors', canceling)
      /\ f.op = "cancel" => f.sequence = 0 /\ f.timer \in canceling
  BY <1>1, <1>2, <1>3, Dequeued DEF InFunctor
<1>5. CASE /\ f.op = "add" /\ AddInLoop(f.timer, Expiration(f.timer))
           /\ UNCHANGED <<now, heap, cancelingTimers_, walk, history>>
  <2>1. PICK t : t = f.timer
    OBVIOUS
  <2>2. PICK w : w = Expiration(t)
    OBVIOUS
  <2>3. t \in InFunctor /\ t \in Created /\ w \in Int /\ AddInLoop(t, w)
        /\ timer[t].expiration = w
    BY <1>4, <1>5, <2>1, <2>2, PlaceFacts DEF Expiration
  <2>4. /\ Created' = Created
        /\ \A u : Expiration(u)' = Expiration(u) /\ Interval(u)' = Interval(u)
        /\ \A u : Repeat(u)' = Repeat(u)
        /\ timer'[t].expiration = w
        /\ UNCHANGED <<now, allocated, cancelingTimers_, callingExpiredTimers_, expired,
                       toRun, readTime, due, runs, canceling>>
    BY <1>5, <2>3 DEF heap, walk, history, Created, Expiration, Interval, Repeat
  <2>5. SameTimers' /\ Queued' = Queued \cup {t}
    BY <2>3, <2>4, AddKeepsSame
  <2>6. ArmedForEarliest' /\ timerfd_' \in Nat \cup {Never}
    BY <2>3, <2>4, AddArms
  <2>7. InFunctor' = InFunctor \ {t} /\ Waiting' = Waiting
    BY <1>4, <1>5, <2>1, <2>3, <2>5 DEF Waiting
  <2>8. Owned'
    BY <1>4, <2>3, <2>4, <2>5, <2>7 DEF Owned
  <2>9. Cancels'
    BY <1>4, <2>4 DEF Cancels
  <2>10. Times'
    BY <2>4, <2>7 DEF Times
  <2>11. TypeOK'
    <3>1. timers_' \subseteq Int \X Created /\ activeTimers_' \subseteq Created \X Created
      BY <2>3 DEF AddInLoop, TypeOK, ActiveTimer
    <3> QED BY <1>4, <1>5, <2>4, <2>6, <3>1 DEF TypeOK, heap, walk, history, FunctorSet
  <2> QED BY <2>4, <2>5, <2>6, <2>8, <2>9, <2>10, <2>11
<1>6. CASE f.op = "cancel" /\ CancelInLoop(f) /\ UNCHANGED canceling
  <2>1. /\ UNCHANGED <<now, heap, timers_, activeTimers_, walk, timerfd_, due, runs>>
        /\ cancelingTimers_' \subseteq cancelingTimers_ \cup {<<f.timer, 0>>}
        /\ canceled' = canceled \cup {f.timer}
    <3> HIDE DEF IInv
    <3> QED BY <1>4, <1>6, CancelFindsNothing DEF IInv
  <2>2. /\ SameTimers' /\ Owned' /\ Times' /\ ArmedForEarliest'
        /\ (~callingExpiredTimers_ => expired = {})'
    BY <1>4, <1>6, <2>1, TimersAlike DEF walk
  <2>3. f.timer \in Created /\ f.timer \in canceling
    BY <1>4, <1>6 DEF FunctorSet
  <2>4. Cancels'
    <3>1. \A k \in cancelingTimers_' : k[2] = 0
      BY <2>1 DEF Cancels
    <3> QED BY <1>4, <1>6, <3>1 DEF Cancels
  <2>5. TypeOK'
    <3>1. Created' = Created
      BY <2>1 DEF Created, heap
    <3>2. /\ cancelingTimers_' \subseteq Created \X Nat
          /\ canceled' \subseteq canceling' /\ canceling' \subseteq Created
      BY <1>6, <2>1, <2>3 DEF TypeOK
    <3> QED BY <1>4, <2>1, <3>1, <3>2 DEF TypeOK, walk, heap, FunctorSet
  <2> QED BY <2>2, <2>4, <2>5
<1> QED BY <1>2, <1>5, <1>6 DEF RunPending

\* handleRead takes the timers that are due out of both sets.
LEMMA HandleReadKeeps == ASSUME IInv, HandleRead PROVE IInv'
<1> USE DEF IInv
<1> DEFINE entries == {e \in timers_ : e[1] <= now}
           batch == {e[2] : e \in entries}
<1>1. /\ ~callingExpiredTimers_ /\ callingExpiredTimers_' = TRUE
      /\ timerfd_' = Never /\ readTime' = now /\ cancelingTimers_' = {}
      /\ expired' = batch /\ toRun' = batch /\ timers_' = timers_ \ entries
      /\ activeTimers_' = activeTimers_ \ {ActiveTimer(t) : t \in batch}
      /\ UNCHANGED <<now, heap, inCallback, pendingFunctors, history>>
  BY DEF HandleRead
<1>2. /\ timers_ = {Entry(t) : t \in Queued}
      /\ activeTimers_ = {ActiveTimer(t) : t \in Queued}
      /\ Queued \subseteq Created
  BY QueueFacts
<1>3. /\ Created' = Created
      /\ \A u : Expiration(u)' = Expiration(u) /\ Interval(u)' = Interval(u)
      /\ \A u : Repeat(u)' = Repeat(u)
  BY <1>1 DEF heap, Created, Expiration, Interval, Repeat
<1>4. batch = {t \in Queued : Expiration(t) <= now}
  <2>1. \A t \in Queued : Entry(t)[1] = Expiration(t) /\ Entry(t)[2] = t
    BY DEF Entry
  <2> QED BY <1>2, <2>1
<1>5. entries = {Entry(t) : t \in batch}
  <2>1. \A t \in Queued : Entry(t)[1] = Expiration(t) /\ Entry(t)[2] = t
    BY DEF Entry
  <2> QED BY <1>2, <1>4, <2>1
<1> HIDE DEF entries, batch
<1>6. \A t, u : Entry(t) = Entry(u) => t = u
  BY DEF Entry
<1>7. timers_' = {Entry(t) : t \in Queued \ batch}
  BY <1>1, <1>2, <1>5, <1>6
<1>8. activeTimers_' = {ActiveTimer(t) : t \in Queued \ batch}
  <2>1. \A t, u : ActiveTimer(t) = ActiveTimer(u) => t = u
    BY DEF ActiveTimer
  <2> QED BY <1>1, <1>2, <2>1
<1>9. Queued' = Queued \ batch
  <2>1. \A t : Entry(t)[2] = t
    BY DEF Entry
  <2> QED BY <1>7, <2>1 DEF Queued
<1>10. SameTimers'
  <2>1. \A u : Entry(u)' = Entry(u)
    BY <1>3 DEF Entry
  <2>2. timers_' = {Entry(u)' : u \in Queued'} /\ activeTimers_' = {ActiveTimer(u) : u \in Queued'}
    BY <1>7, <1>8, <1>9, <2>1
  <2> QED BY <2>2 DEF SameTimers, Queued, ActiveTimer
<1>11. InFunctor' = InFunctor /\ allocated' = allocated /\ expired = {}
       /\ batch \subseteq Queued
  BY <1>1, <1>4 DEF InFunctor, heap
<1>12. Owned'
  BY <1>1, <1>9, <1>11 DEF Owned, Waiting
<1>13. Cancels'
  BY <1>1 DEF Cancels, history
<1>14. Times'
  <2>1. due' = due /\ runs' = runs /\ now \in Nat
    BY <1>1, TimerAssumption DEF history, TypeOK
  <2>2. \A t \in toRun' : due'[t] = Expiration(t)' /\ due'[t] <= readTime'
    BY <1>1, <1>3, <1>4, <2>1 DEF Times, Waiting
  <2>3. expired' \ toRun' = {}
    BY <1>1
  <2>4. Waiting' \cup toRun' \subseteq Waiting
    BY <1>1, <1>9, <1>11 DEF Waiting
  <2> QED BY <1>1, <1>3, <2>1, <2>2, <2>3, <2>4 DEF Times
<1>15. ArmedForEarliest'
  BY <1>1 DEF ArmedForEarliest
<1>16. TypeOK'
  <2>1. expired' \subseteq Created /\ toRun' \subseteq expired'
    BY <1>1, <1>2, <1>11
  <2>2. timers_' \subseteq Int \X Created /\ activeTimers_' \subseteq Created \X Created
    BY <1>1 DEF TypeOK
  <2> QED BY <1>1, <1>3, <2>1, <2>2 DEF TypeOK, heap, history
<1> QED BY <1>1, <1>10, <1>12, <1>13, <1>14, <1>15, <1>16

\* The callback of a timer that is due is called.
LEMMA CallTimerKeeps == ASSUME IInv, NEW t \in Created, CallTimer(t) PROVE IInv'
<1> USE DEF IInv
<1>1. /\ callingExpiredTimers_ /\ t \in toRun /\ toRun' = toRun \ {t}
      /\ inCallback' = TRUE
      /\ runs' = [runs EXCEPT ![t] = @ + 1]
      /\ due' = [due EXCEPT ![t] = readTime + Interval(t)]
      /\ UNCHANGED <<now, heap, timers_, activeTimers_, cancelingTimers_,
                     callingExpiredTimers_, timerfd_, expired, readTime,
                     pendingFunctors, canceled, canceling>>
  BY DEF CallTimer
<1>2. /\ Created' = Created /\ Queued' = Queued /\ InFunctor' = InFunctor
      /\ \A u : Expiration(u)' = Expiration(u) /\ Interval(u)' = Interval(u)
      /\ \A u : Repeat(u)' = Repeat(u)
      /\ \A u : Entry(u)' = Entry(u)
  BY <1>1 DEF heap, Created, Queued, InFunctor, Expiration, Interval, Repeat, Entry
<1>3. /\ t \in expired /\ t \notin Waiting
      /\ due \in [Created -> Int] /\ runs \in [Created -> Nat]
      /\ readTime + Interval(t) \in Int
  <2>1. timer[t] \in [expiration : Int, interval : Nat]
    BY ElementOfSeq DEF TypeOK, Created
  <2>2. t \in expired /\ t \notin Waiting
    BY <1>1 DEF Owned, TypeOK
  <2>3. readTime \in Int
    BY TimerAssumption DEF TypeOK
  <2> QED BY <2>1, <2>2, <2>3 DEF TypeOK, Interval
<1>4. /\ due'[t] = readTime + Interval(t)
      /\ \A u \in Created \ {t} : due'[u] = due[u] /\ runs'[u] = runs[u]
  BY <1>1, <1>3
<1>5. /\ Waiting \subseteq Created \ {t} /\ Waiting' = Waiting
      /\ toRun' \subseteq Created \ {t} /\ expired \subseteq Created
  <2>1. InFunctor \cup Queued \cup expired \subseteq Created
    BY DEF Owned, TypeOK
  <2> QED BY <1>1, <1>2, <1>3, <2>1 DEF Waiting, TypeOK
<1>6. Times'
  <2>1. \A u \in toRun' : due'[u] = Expiration(u)' /\ due'[u] <= readTime'
    BY <1>1, <1>2, <1>4, <1>5 DEF Times
  <2>2. \A u \in expired' \ toRun' : due'[u] = readTime' + Interval(u)'
    BY <1>1, <1>2, <1>4, <1>5 DEF Times
  <2>3. \A u \in Waiting' : due'[u] = Expiration(u)'
    BY <1>1, <1>2, <1>4, <1>5 DEF Times
  <2>4. \A u \in Waiting' \cup toRun' : runs'[u] = 0 \/ Repeat(u)'
    BY <1>1, <1>2, <1>4, <1>5 DEF Times
  <2>5. readTime' <= now'
    BY <1>1 DEF Times
  <2> QED BY <2>1, <2>2, <2>3, <2>4, <2>5 DEF Times
<1>7. SameTimers'
  BY <1>1, <1>2 DEF SameTimers, ActiveTimer
<1>8. Owned'
  BY <1>1, <1>2, <1>5 DEF Owned, heap
<1>9. Cancels' /\ ArmedForEarliest' /\ (~callingExpiredTimers_ => expired = {})'
  BY <1>1 DEF Cancels, ArmedForEarliest
<1>10. TypeOK'
  <2>1. due' \in [Created -> Int] /\ runs' \in [Created -> Nat]
    BY <1>1, <1>3
  <2> QED BY <1>1, <1>2, <2>1 DEF TypeOK, heap
<1> QED BY <1>6, <1>7, <1>8, <1>9, <1>10

\* A callback returns to the walk over the expired timers.
LEMMA CallbackReturnsKeeps == ASSUME IInv, CallbackReturns PROVE IInv'
<1> USE DEF IInv
<1>1. /\ inCallback' = FALSE
      /\ UNCHANGED <<now, heap, timers_, activeTimers_, cancelingTimers_,
                     callingExpiredTimers_, timerfd_, expired, toRun, readTime,
                     pendingFunctors, history>>
  BY DEF CallbackReturns
<1>2. Distinct(pendingFunctors)' /\ InFunctor' = InFunctor
  BY <1>1 DEF Owned, InFunctor
<1>3. /\ SameTimers' /\ Owned' /\ Times' /\ ArmedForEarliest'
      /\ (~callingExpiredTimers_ => expired = {})'
  BY <1>1, <1>2, TimersAlike DEF history
<1>4. Cancels'
  BY <1>1 DEF Cancels, history
<1>5. TypeOK'
  BY <1>1 DEF TypeOK, heap, history, Created
<1> QED BY <1>3, <1>4, <1>5

\* The clock ticks.
LEMMA TickKeeps == ASSUME IInv, Tick PROVE IInv'
<1> USE DEF IInv
<1>1. /\ now < MaxTime /\ now' = now + 1
      /\ UNCHANGED <<heap, timers_, activeTimers_, cancelingTimers_, walk,
                     timerfd_, pendingFunctors, history>>
  BY DEF Tick
<1>2. /\ Created' = Created /\ Waiting' = Waiting
      /\ Queued' = Queued /\ InFunctor' = InFunctor
      /\ \A u : Expiration(u)' = Expiration(u) /\ Interval(u)' = Interval(u)
      /\ \A u : Repeat(u)' = Repeat(u)
      /\ \A u : Entry(u)' = Entry(u)
  BY <1>1 DEF heap, Created, Waiting, Queued, InFunctor, Expiration, Interval, Repeat, Entry
<1>3. now \in Nat /\ readTime \in Nat /\ MaxTime \in Nat
  BY TimerAssumption DEF TypeOK
<1>4. SameTimers' /\ Cancels' /\ (~callingExpiredTimers_ => expired = {})'
  BY <1>1, <1>2 DEF SameTimers, Cancels, ActiveTimer, walk, history
<1>5. Owned'
  BY <1>1, <1>2 DEF Owned, heap, walk
<1>6. Times'
  <2>1. readTime' <= now'
    BY <1>1, <1>3 DEF Times, walk
  <2> QED BY <1>1, <1>2, <2>1 DEF Times, walk, history
<1>7. ArmedForEarliest'
  <2> SUFFICES ASSUME ~callingExpiredTimers_', timers_' # {}
               PROVE  timerfd_' # Never /\ timerfd_' <= Max({Earliest(timers_'), now' + 1})
    BY DEF ArmedForEarliest, Earliest
  <2>1. PICK e : e = Earliest(timers_)
    OBVIOUS
  <2>2. /\ Earliest(timers_') = e /\ timerfd_' = timerfd_ /\ timerfd_ # Never
        /\ timerfd_ <= Max({e, now + 1})
    BY <1>1, <2>1 DEF ArmedForEarliest, walk
  <2>3. e \in Int
    <3>1. /\ {x[1] : x \in timers_} \in SUBSET Int
          /\ IsFiniteSet({x[1] : x \in timers_}) /\ {x[1] : x \in timers_} # {}
      BY <1>1, QueueFacts
    <3> QED BY <2>1, <3>1, MinProperties DEF Earliest
  <2>4. /\ Max({e, now + 1}) \in {e, now + 1}
        /\ e <= Max({e, now' + 1}) /\ now' + 1 <= Max({e, now' + 1})
        /\ Max({e, now' + 1}) \in {e, now' + 1}
    <3>1. now + 1 \in Int /\ now' + 1 \in Int
      BY <1>1, <1>3
    <3>2. Max({e, now + 1}) \in {e, now + 1}
      BY <2>3, <3>1, MaxOfTwo
    <3>3. PICK m : m = now' + 1
      OBVIOUS
    <3>4. /\ Max({e, m}) \in {e, m} /\ e <= Max({e, m}) /\ m <= Max({e, m})
      BY <2>3, <3>1, <3>3, MaxOfTwo
    <3> QED BY <3>2, <3>3, <3>4
  <2>5. timerfd_ \in Int
    BY <2>2 DEF TypeOK
  <2> QED BY <1>1, <1>3, <2>2, <2>3, <2>4, <2>5
<1>8. TypeOK'
  BY <1>1, <1>2, <1>3, SMTT(60) DEF TypeOK, heap, walk, history
<1> QED BY <1>4, <1>5, <1>6, <1>7, <1>8

\* reset puts the repeating timers back and deletes the others.
LEMMA ResetKeeps == ASSUME IInv, Reset PROVE IInv'
<1> USE DEF IInv
<1> DEFINE again == {t \in expired : Repeat(t) /\ ActiveTimer(t) \notin cancelingTimers_}
           next(t) == readTime + Interval(t)
           Timers == [expiration : Int, interval : Nat]
<1>1. /\ callingExpiredTimers_ /\ toRun = {}
      /\ callingExpiredTimers_' = FALSE /\ expired' = {}
      /\ timer' = [t \in Created |->
              IF t \in again THEN [timer[t] EXCEPT !.expiration = next(t)]
              ELSE timer[t]]
      /\ timers_' = timers_ \cup {<<next(t), t>> : t \in again}
      /\ activeTimers_' = activeTimers_ \cup {ActiveTimer(t) : t \in again}
      /\ allocated' = allocated \ (expired \ again)
      /\ timerfd_' = IF timers_' = {} THEN timerfd_ ELSE Armed(Earliest(timers_'))
      /\ UNCHANGED <<now, cancelingTimers_, toRun, readTime, inCallback,
                     pendingFunctors, history>>
  BY DEF Reset
<1>2. /\ Queued \subseteq Created /\ again \subseteq expired /\ expired \subseteq Created
      /\ Waiting \subseteq Created /\ Waiting \cap again = {}
      /\ \A t \in again : Repeat(t)
      /\ InFunctor' = InFunctor
  BY <1>1, PlaceFacts DEF Owned, InFunctor
<1>3. \A t \in Created : timer[t] \in Timers /\ next(t) \in Int
  <2>1. readTime \in Int
    BY TimerAssumption DEF TypeOK
  <2>2. \A t \in 1 .. Len(timer) : timer[t] \in Timers
    BY ElementOfSeq, Zenon DEF TypeOK
  <2>3. \A t \in Created : timer[t] \in Timers /\ Interval(t) \in Nat
    BY <2>2 DEF Created, Interval
  <2> QED BY <2>1, <2>3
<1>4. /\ timers_ = {Entry(t) : t \in Queued}
      /\ activeTimers_ = {ActiveTimer(t) : t \in Queued}
  BY QueueFacts
<1> HIDE DEF again
<1>5. /\ \A t \in again : timer'[t] = [timer[t] EXCEPT !.expiration = next(t)]
      /\ \A t \in Created \ again : timer'[t] = timer[t]
      /\ DOMAIN timer' = Created
  BY <1>1, <1>2
<1>6. /\ \A t \in again : timer'[t] \in Timers /\ timer'[t].expiration = next(t)
                          /\ timer'[t].interval = timer[t].interval
      /\ \A t \in Created \ again : timer'[t] \in Timers
  <2>1. \A r \in Timers, x \in Int : LET s == [r EXCEPT !.expiration = x]
          IN s \in Timers /\ s.expiration = x /\ s.interval = r.interval
    OBVIOUS
  <2> HIDE DEF Timers, next
  <2>2. ASSUME NEW t \in again
        PROVE  /\ timer'[t] \in Timers /\ timer'[t].expiration = next(t)
               /\ timer'[t].interval = timer[t].interval
    <3>1. t \in Created /\ timer'[t] = [timer[t] EXCEPT !.expiration = next(t)]
      BY <1>2, <1>5
    <3>2. PICK r \in Timers, x \in Int : r = timer[t] /\ x = next(t)
      BY <1>3, <3>1
    <3>3. timer'[t] = [r EXCEPT !.expiration = x]
      BY <3>1, <3>2
    <3> QED BY <2>1, <3>2, <3>3
  <2>3. \A t \in Created \ again : timer'[t] \in Timers
    BY <1>3, <1>5
  <2> QED BY <2>2, <2>3
<1> HIDE DEF Timers
<1>7. timer' \in Seq(Timers) /\ Created' = Created
  <2>1. Len(timer) \in Nat /\ Created = 1 .. Len(timer)
    BY DEF TypeOK, Created
  <2>2. \A t \in Created : timer'[t] \in Timers
    BY <1>6
  <2>3. timer' \in [1 .. Len(timer) -> Timers]
    BY <1>1, <2>1, <2>2
  <2>4. timer' \in Seq(Timers) /\ Len(timer') = Len(timer)
    BY <2>1, <2>3
  <2> QED BY <2>1, <2>4 DEF Created
<1>8. /\ \A t \in again : Expiration(t)' = next(t)
      /\ \A t \in Created \ again : Expiration(t)' = Expiration(t)
      /\ \A t \in Created : Interval(t)' = Interval(t)
      /\ \A t \in Created : Repeat(t)' = Repeat(t)
  BY <1>5, <1>6 DEF Expiration, Interval, Repeat
<1>9. /\ \A t \in again : Entry(t)' = <<next(t), t>>
      /\ \A t \in Queued : Entry(t)' = Entry(t)
  BY <1>2, <1>8 DEF Entry, Waiting
<1> HIDE DEF next
<1>10. /\ Queued' = Queued \cup again
       /\ timers_' = {Entry(t)' : t \in Queued \cup again}
       /\ activeTimers_' = {ActiveTimer(t) : t \in Queued \cup again}
  <2>1. \A t : <<next(t), t>>[2] = t
    OBVIOUS
  <2>2. Queued' = Queued \cup again
    BY <1>1, <2>1, ZenonT(60) DEF Queued
  <2>3. timers_' = {Entry(t)' : t \in Queued \cup again}
    BY <1>1, <1>4, <1>9
  <2>4. activeTimers_' = {ActiveTimer(t) : t \in Queued \cup again}
    BY <1>1, <1>4
  <2> QED BY <2>2, <2>3, <2>4
<1>11. SameTimers'
  <2>1. timers_' = {Entry(u)' : u \in Queued'} /\ activeTimers_' = {ActiveTimer(u) : u \in Queued'}
    BY <1>10
  <2> QED BY <2>1 DEF SameTimers, Queued, ActiveTimer
<1>12. Owned'
  BY <1>1, <1>2, <1>10 DEF Owned, Waiting
<1>13. Cancels'
  BY <1>1 DEF Cancels, history
<1>14. Times'
  <2>1. Waiting' = Waiting \cup again /\ toRun' = {} /\ expired' = {} /\ toRun = {}
        /\ due' = due /\ runs' = runs /\ readTime' = readTime /\ now' = now
    BY <1>1, <1>2, <1>10 DEF Waiting, history
  <2>2. \A t \in Waiting' : due'[t] = Expiration(t)'
    <3>1. \A t \in again : due[t] = next(t)
      BY <1>2, <2>1 DEF Times, next
    <3>2. \A t \in Waiting : due[t] = Expiration(t) /\ t \in Created \ again
      BY <1>2 DEF Times
    <3> QED BY <1>8, <2>1, <3>1, <3>2
  <2>3. \A t \in Waiting' : runs'[t] = 0 \/ Repeat(t)'
    BY <1>2, <1>8, <2>1 DEF Times
  <2> QED BY <2>1, <2>2, <2>3 DEF Times
<1>15. ArmedForEarliest' /\ timerfd_' \in Nat \cup {Never}
  <2>1. CASE timers_' = {}
    BY <1>1, <2>1 DEF ArmedForEarliest, TypeOK
  <2>2. CASE timers_' # {}
    <3> DEFINE E == {e[1] : e \in timers_'}
               F == [t \in Queued' |-> Entry(t)'[1]]
    <3>1. E # {}
      BY <2>2
    <3>2. \A t \in Queued' : Entry(t)'[1] \in Int
      BY <1>2, <1>3, <1>8, <1>9, <1>10, PlaceFacts DEF Entry
    <3>3. E = {Entry(t)'[1] : t \in Queued'}
      BY <1>10
    <3>4. F \in [Queued' -> E] /\ \A x \in E : \E t \in Queued' : F[t] = x
      BY <3>3
    <3>5. IsFiniteSet(Queued')
      <4>1. IsFiniteSet(Created) /\ Queued' \subseteq Created
        BY <1>2, <1>10, QueueFacts
      <4> QED BY <4>1, FS_Subset
    <3>6. E \in SUBSET Int
      BY <3>2, <3>3
    <3>7. Earliest(timers_') = Min(E)
      BY DEF Earliest
    <3> HIDE DEF E, F
    <3>8. F \in Surjection(Queued', E)
      BY <3>4, Fun_IsSurj
    <3>9. Min(E) \in Int
      BY <3>1, <3>5, <3>6, <3>8, FS_Surjection, MinProperties
    <3>10. timerfd_' = Armed(Min(E)) /\ now' = now
      BY <1>1, <2>2, <3>7
    <3>11. Armed(Min(E)) \in Nat /\ Armed(Min(E)) # Never
           /\ Armed(Min(E)) = Max({Min(E), now + 1})
      BY <3>9, ArmedProperties
    <3>12. timerfd_' # Never /\ timerfd_' <= Max({Earliest(timers_'), now' + 1})
      BY <3>7, <3>10, <3>11
    <3> QED BY <3>10, <3>11, <3>12 DEF ArmedForEarliest, Earliest
  <2> QED BY <2>1, <2>2
<1>16. TypeOK'
  <2>1. timers_' \subseteq Int \X Created
    BY <1>1, <1>2, <1>3 DEF TypeOK, next
  <2>2. activeTimers_' \subseteq Created \X Created
    BY <1>2, <1>10 DEF ActiveTimer
  <2>3. allocated' \subseteq Created
    BY <1>1 DEF TypeOK
  <2> QED BY <1>1, <1>7, <1>15, <2>1, <2>2, <2>3 DEF TypeOK, history, Timers
<1> QED BY <1>1, <1>11, <1>12, <1>13, <1>14, <1>15, <1>16
-----------------------------------------------------------------------------
\* The queue starts empty.
LEMMA InitInvariant == Init => IInv
<1> SUFFICES ASSUME Init PROVE IInv
  OBVIOUS
<1> USE DEF Init
<1>1. Created = {} /\ Queued = {} /\ InFunctor = {} /\ Waiting = {}
  BY DEF Created, Queued, InFunctor, TimersOf, AddsOf, Waiting
<1>2. TypeOK
  <2>1. 0 \in 0 .. MaxTime
    BY TimerAssumption
  <2>2. due \in [Created -> Int] /\ runs \in [Created -> Nat]
    BY <1>1
  <2>3. timerfd_ \in Nat \cup {Never}
    OBVIOUS
  <2>4. /\ timer \in Seq([expiration : Int, interval : Nat])
        /\ pendingFunctors \in Seq([op : {"add", "cancel"}, timer : Created, sequence : Nat])
    OBVIOUS
  <2>5. /\ now \in 0 .. MaxTime /\ readTime \in 0 .. MaxTime
        /\ callingExpiredTimers_ \in BOOLEAN /\ inCallback \in BOOLEAN
    BY <2>1
  <2>6. /\ allocated \subseteq Created /\ expired \subseteq Created /\ toRun \subseteq expired
        /\ timers_ \subseteq Int \X Created /\ activeTimers_ \subseteq Created \X Created
        /\ cancelingTimers_ \subseteq Created \X Nat
        /\ canceled \subseteq canceling /\ canceling \subseteq Created
    OBVIOUS
  <2> HIDE DEF Init
  <2> QED BY <2>2, <2>3, <2>4, <2>5, <2>6 DEF TypeOK
<1>3. SameTimers
  BY DEF SameTimers
<1>4. Owned
  BY <1>1 DEF Owned, Distinct, AddsOf
<1>5. Cancels /\ ArmedForEarliest
  BY DEF Cancels, CancelsNothing, ArmedForEarliest
<1>6. Times
  BY <1>1 DEF Times
<1> QED BY <1>2, <1>3, <1>4, <1>5, <1>6 DEF IInv

\* Every step keeps the invariant.
LEMMA NextInvariant == IInv /\ [Next]_vars => IInv'
<1> SUFFICES ASSUME IInv, [Next]_vars PROVE IInv'
  OBVIOUS
<1>1. CASE LoopAddsTimer
  BY <1>1, LoopAddsKeeps
<1>2. CASE ThreadAddsTimer
  BY <1>2, ThreadAddsKeeps
<1>3. CASE \E t \in Created : LoopCancels(t) \/ ThreadCancels(t)
  BY <1>3, LoopCancelsKeeps, ThreadCancelsKeeps
<1>4. CASE RunPending
  BY <1>4, RunPendingKeeps
<1>5. CASE HandleRead
  BY <1>5, HandleReadKeeps
<1>6. CASE \E t \in Created : CallTimer(t)
  BY <1>6, CallTimerKeeps
<1>7. CASE CallbackReturns
  BY <1>7, CallbackReturnsKeeps
<1>8. CASE Reset
  BY <1>8, ResetKeeps
<1>9. CASE Tick
  BY <1>9, TickKeeps
<1>10. CASE UNCHANGED vars
  <2> USE <1>10 DEF IInv, vars
  <2>1. /\ SameTimers' /\ Owned' /\ Times' /\ ArmedForEarliest'
        /\ (~callingExpiredTimers_ => expired = {})'
    <3>1. Distinct(pendingFunctors)' /\ InFunctor' = InFunctor
      BY DEF Owned, InFunctor
    <3> QED BY <3>1, TimersAlike DEF heap
  <2>2. Cancels'
    BY DEF Cancels
  <2>3. TypeOK'
    BY DEF TypeOK, Created
  <2> QED BY <2>1, <2>2, <2>3
<1> QED
  BY <1>1, <1>2, <1>3, <1>4, <1>5, <1>6, <1>7, <1>8, <1>9, <1>10 DEF Next, QueueStep
-----------------------------------------------------------------------------
\* IInv is an invariant, for any number of timers.
THEOREM Invariant == Spec => []IInv
BY InitInvariant, NextInvariant, PTL DEF Spec

\* The variables keep to their types.
THEOREM TypeCorrect == Spec => []TypeOK
<1>1. IInv => TypeOK
  BY DEF IInv
<1> QED BY <1>1, Invariant, PTL

\* timers_ and activeTimers_ hold the same timers (TimerQueue.cc:103-178).
THEOREM SameTimersCorrect == Spec => []SameTimers
<1>1. IInv => SameTimers
  BY DEF IInv
<1> QED BY <1>1, Invariant, PTL

\* The timerfd is armed for the earliest timer (TimerQueue.cc:90-91, 124, 194-200).
THEOREM ArmedForEarliestCorrect == Spec => []ArmedForEarliest
<1>1. IInv => ArmedForEarliest
  BY DEF IInv
<1> QED BY <1>1, Invariant, PTL

\* Functors that add distinct timers are as many as these.
LEMMA FunctorCount ==
  ASSUME NEW S, NEW q \in Seq(S), Distinct(q)
  PROVE  IsFiniteSet(TimersOf(q)) /\ Cardinality(TimersOf(q)) = Cardinality(AddsOf(q))
<1> DEFINE F == [i \in AddsOf(q) |-> q[i].timer]
<1>1. IsFiniteSet(AddsOf(q))
  <2>1. Len(q) \in Nat /\ DOMAIN q = 1 .. Len(q)
    BY LenProperties
  <2>2. IsFiniteSet(1 .. Len(q))
    BY <2>1, FS_Interval
  <2> QED BY <2>1, <2>2, FS_Subset DEF AddsOf
<1>2. F \in [AddsOf(q) -> TimersOf(q)] /\ \A t \in TimersOf(q) : \E i \in AddsOf(q) : F[i] = t
  BY DEF TimersOf
<1>3. \A i, j \in AddsOf(q) : i # j => F[i] # F[j]
  BY DEF Distinct
<1> HIDE DEF F
<1>4. F \in Bijection(AddsOf(q), TimersOf(q))
  BY <1>2, <1>3, Fun_IsBij
<1> QED BY <1>1, <1>4, FS_Bijection DEF ExistsBijection

\* The size of the union of two finite sets that share nothing.
LEMMA DisjointUnion ==
  ASSUME NEW S, NEW T, IsFiniteSet(S), IsFiniteSet(T), S \cap T = {}
  PROVE  /\ IsFiniteSet(S \cup T)
         /\ Cardinality(S \cup T) = Cardinality(S) + Cardinality(T)
<1>1. Cardinality(S \cup T) = Cardinality(S) + Cardinality(T) - Cardinality({})
  BY FS_Union
<1>2. Cardinality(S) \in Nat /\ Cardinality(T) \in Nat
  BY FS_CardinalityType
<1>3. Cardinality({}) = 0 /\ IsFiniteSet(S \cup T)
  BY FS_EmptySet, FS_Union
<1> QED BY <1>1, <1>2, <1>3

\* Every timer allocated is in one place that will run or delete it
\* (TimerQueue.cc:82-83, 110, 189-191).
THEOREM OwnedOnceCorrect == Spec => []OwnedOnce
<1>1. IInv => OwnedOnce
  <2> SUFFICES ASSUME IInv PROVE OwnedOnce
    OBVIOUS
  <2> USE DEF IInv
  <2>1. /\ allocated = InFunctor \cup Queued \cup expired
        /\ InFunctor \cap Queued = {} /\ (InFunctor \cup Queued) \cap expired = {}
        /\ Distinct(pendingFunctors)
    BY DEF Owned, Waiting
  <2>2. IsFiniteSet(InFunctor) /\ Cardinality(InFunctor) = Cardinality(AddsOf(pendingFunctors))
    BY <2>1, PlaceFacts, FunctorCount DEF InFunctor
  <2>3. /\ IsFiniteSet(Queued) /\ IsFiniteSet(expired)
        /\ Cardinality(Queued) = Cardinality(timers_)
    BY QueueFacts, PlaceFacts, FS_Subset
  <2>4. /\ IsFiniteSet(InFunctor \cup Queued)
        /\ Cardinality(InFunctor \cup Queued) = Cardinality(InFunctor) + Cardinality(Queued)
    BY <2>1, <2>2, <2>3, DisjointUnion
  <2>5. Cardinality(allocated) = Cardinality(InFunctor \cup Queued) + Cardinality(expired)
    BY <2>1, <2>3, <2>4, DisjointUnion
  <2>6. Cardinality(allocated) =
          Cardinality(AddsOf(pendingFunctors)) + Cardinality(timers_) + Cardinality(expired)
    BY <2>2, <2>3, <2>4, <2>5
  <2> QED BY <2>1, <2>6 DEF OwnedOnce, InFunctor, TimersOf, AddsOf, Queued
<1> QED BY <1>1, Invariant, PTL

\* No callback is called before it is due, and none again whose timer does not
\* repeat (TimerQueue.cc:166, 186-191, Timer.cc:13-15).
THEOREM NeverEarlyNorAgainCorrect == Spec => NeverEarlyNorAgain
<1> DEFINE Obeys == \A t \in Created : runs'[t] # runs[t] =>
                      now >= due[t] /\ (runs[t] = 0 \/ Repeat(t))
<1>1. IInv /\ [Next]_vars => [Obeys]_vars
  <2> SUFFICES ASSUME IInv, Next, NEW t \in Created, runs'[t] # runs[t]
               PROVE  now >= due[t] /\ (runs[t] = 0 \/ Repeat(t))
    OBVIOUS
  <2>1. CASE LoopAddsTimer \/ ThreadAddsTimer
    <3>1. PICK r \in Requests : NewTimer(r[1], r[2])
      BY <2>1 DEF LoopAddsTimer, ThreadAddsTimer
    <3>2. r[1] \in Int /\ r[2] \in Nat
      BY RequestTypes DEF IInv
    <3>3. runs'[t] = runs[t]
      BY <3>1, <3>2, NewTimerFacts DEF IInv
    <3> QED BY <3>3
  <2>2. CASE \E u \in Created : CallTimer(u)
    <3>1. PICK u \in Created : CallTimer(u)
      BY <2>2
    <3>2. u \in toRun /\ runs' = [runs EXCEPT ![u] = @ + 1]
      BY <3>1 DEF CallTimer
    <3>3. t = u
      BY <3>2 DEF IInv, TypeOK
    <3>4. due[t] <= readTime /\ readTime <= now /\ (runs[t] = 0 \/ Repeat(t))
      BY <3>2, <3>3 DEF IInv, Times
    <3>5. due[t] \in Int /\ readTime \in Int /\ now \in Int
      BY TimerAssumption DEF IInv, TypeOK
    <3> QED BY <3>4, <3>5
  <2>3. CASE \/ \E u \in Created : LoopCancels(u) \/ ThreadCancels(u)
             \/ RunPending \/ HandleRead \/ CallbackReturns \/ Reset \/ Tick
    <3>1. runs' = runs
      BY <2>3 DEF LoopCancels, ThreadCancels, CancelInLoop, RunPending, HandleRead,
                  CallbackReturns, Reset, Tick, history
    <3> QED BY <3>1
  <2> QED BY <2>1, <2>2, <2>3 DEF Next, QueueStep
<1>2. []IInv /\ [][Next]_vars => [][Obeys]_vars
  BY <1>1, PTL
<1> QED BY <1>2, Invariant, PTL DEF Spec, NeverEarlyNorAgain
=============================================================================
