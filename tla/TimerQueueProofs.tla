--------------------------- MODULE TimerQueueProofs ---------------------------
(* Proofs about TimerQueue: for any timers, times, intervals and clock steps.  *)
EXTENDS TimerQueue, SequenceTheorems, WellFoundedInduction, TLAPS

-----------------------------------------------------------------------------
(* Minima, times and clocks. *)

LEMMA NatMin == ASSUME NEW S, S \subseteq Nat, S # {}
                PROVE  Min(S) \in S /\ \A x \in S : Min(S) <= x
<1>1. PICK m \in S : \A x \in S : ~ (<<x, m>> \in OpToRel(<, Nat))
  BY NatLessThanWellFounded, WFMin
<1>2. ASSUME NEW x \in S, x < m PROVE <<x, m>> \in OpToRel(<, Nat)
  <2>1. <<x, m>> \in Nat \X Nat /\ <<x, m>>[1] < <<x, m>>[2]
    BY <1>2
  <2> QED
    BY <2>1, Zenon DEF OpToRel
<1>3. \A x \in S : ~ (x < m)
  BY <1>1, <1>2, Zenon
<1>4. \A x \in S : m <= x
  BY <1>3
<1> QED
  BY <1>4 DEF Min

\* The first expiration is that of a timer, and none is before it.
LEMMA FirstIsLeast ==
    ASSUME NEW S, S # {}, NEW exp, \A t \in S : exp[t] \in Nat
    PROVE  /\ \E t \in S : FirstOf(S, exp) = exp[t] /\ \A u \in S : exp[t] <= exp[u]
           /\ FirstOf(S, exp) \in Nat
<1> DEFINE E == {exp[t] : t \in S}
<1>1. Min(E) \in E /\ \A x \in E : Min(E) <= x
  BY NatMin
<1> QED
  BY <1>1 DEF FirstOf

LEMMA MaxOfTwo == \A a, b \in Int : /\ Max({a, b}) \in {a, b} /\ Max({a, b}) \in Int
                                    /\ Max({a, b}) >= a /\ Max({a, b}) >= b
<1> SUFFICES ASSUME NEW a \in Int, NEW b \in Int
             PROVE  /\ Max({a, b}) \in {a, b} /\ Max({a, b}) \in Int
                    /\ Max({a, b}) >= a /\ Max({a, b}) >= b
  OBVIOUS
<1>1. \E x \in {a, b} : \A y \in {a, b} : x >= y
  <2>1. a >= b \/ b >= a
    OBVIOUS
  <2> QED
    BY <2>1
<1> QED
  BY <1>1 DEF Max

\* An interval adds a whole number of ticks, none if it is below one.
LEMMA TicksAreNat == \A i \in Intervals \cup {0} : TicksOf(i) \in Nat
BY TimesAssumption DEF TicksOf

\* What a late run adds to the expiration is what one more run counts.
LEMMA OneMore == ASSUME NEW n \in Nat, NEW k \in Nat
                 PROVE  /\ (n + 1) * k = n * k + k /\ (n - 1) * k + k = n * k
                        /\ n * k \in Nat /\ 0 * k = 0
OBVIOUS

LEMMA WallIsNat == ASSUME TypeOK, ClockBound PROVE offset \in Nat /\ Wall \in Nat /\ Wall > 0
<1>1. /\ MaxSteps \in Nat /\ Boot \in Nat /\ steps \in 0..MaxSteps /\ offset \in Int
      /\ mono \in Nat
  BY TimesAssumption DEF TypeOK
<1>2. CASE steps = 0
  BY <1>1, <1>2 DEF ClockBound, Wall
<1>3. CASE steps # 0
  <2>1. Boot * steps <= Boot * MaxSteps
    BY <1>1
  <2>2. MaxSteps * offset >= 0 /\ MaxSteps > 0
    BY <1>1, <1>3, <2>1 DEF ClockBound
  <2>3. offset >= 0
    BY <1>1, <2>2
  <2> QED
    BY <1>1, <2>3 DEF ClockBound, Wall
<1> QED
  BY <1>2, <1>3

\* resetTimerfd arms the timerfd in time for the time it is given.
LEMMA ArmedInTime ==
    ASSUME TypeOK, NEW e \in Nat
    PROVE  Armed(e) \in Nat /\ Armed(e) <= MinDelay + forward + Max({mono, e - offset})
<1>1. /\ mono \in Nat /\ offset \in Int /\ forward \in Nat
      /\ MinDelay \in Nat \ {0} /\ None \notin Int
  BY TimesAssumption DEF TypeOK
<1>2. /\ Max({mono, e - offset}) >= mono /\ Max({mono, e - offset}) >= e - offset
      /\ Max({mono, e - offset}) \in Int
  <2>1. e - offset \in Int /\ mono \in Int
    BY <1>1
  <2> QED
    BY <2>1, MaxOfTwo
<1>3. HowMuch(e) \in Nat /\ HowMuch(e) # 0 /\ HowMuch(e) \in {MinDelay, e - Wall}
  BY <1>1 DEF HowMuch, Wall
<1> QED
  BY <1>1, <1>2, <1>3 DEF Armed, Wall

LEMMA InitIInv == Init => IInv
<1> SUFFICES ASSUME Init PROVE IInv
  OBVIOUS
<1>1. Known = {} /\ Queued = {} /\ functors = << >>
  BY DEF Init, Known, Queued
<1>2. TypeOK
  BY <1>1, TimesAssumption, EmptySeq DEF Init, TypeOK
<1>3. ClockBound
  <2>1. MaxSteps * Boot + Boot * 0 >= Boot * MaxSteps
    BY TimesAssumption
  <2> QED
    BY <2>1, TimesAssumption DEF Init, ClockBound, Wall
<1>4. TimerStates /\ Places /\ Accounted /\ ExpiredDue /\ NeverEarly /\ Watched
  BY <1>1 DEF Init, TimerStates, Places, Accounted, ExpiredDue, NeverEarly, Watched
<1> QED
  BY <1>2, <1>3, <1>4 DEF IInv

-----------------------------------------------------------------------------
(* The clocks. *)

\* Of the clocks only "latest" is in the invariant on its own, and it goes forward.
LEMMA ClockKeeps ==
    ASSUME IInv, UNCHANGED <<functors, m_timerSet, timers, deleted, batch, pc>>,
           latest' \in Int, latest' >= latest
    PROVE  TimerStates' /\ Places' /\ Accounted' /\ ExpiredDue' /\ NeverEarly'
<1>1. /\ UNCHANGED <<m_expiration, m_interval, first, runs, expired, ran>>
      /\ Known' = Known /\ Queued' = Queued /\ latest \in Int
      /\ \A t \in Timers : (Waits(t)' <=> Waits(t)) /\ Counted(t)' = Counted(t)
  BY DEF timers, batch, Known, Queued, Waits, Counted, IInv, TypeOK
<1>2. TimerStates' /\ Places'
  BY <1>1 DEF IInv, TimerStates, Places, Repeats
<1>3. Accounted'
  BY <1>1 DEF IInv, Accounted, Known
<1>4. ExpiredDue'
  BY <1>1 DEF IInv, ExpiredDue, TimerStates, TypeOK
<1>5. NeverEarly'
  <2>1. ASSUME NEW t \in Timers, runs[t] > 0
        PROVE  /\ first[t] \in Int /\ (runs[t] - 1) * TicksOf(m_interval[t]) \in Int
               /\ first[t] + (runs[t] - 1) * TicksOf(m_interval[t]) <= latest
    <3>1. t \in Known
      BY <2>1 DEF IInv, TimerStates
    <3>2. first[t] \in Int /\ runs[t] - 1 \in Nat /\ TicksOf(m_interval[t]) \in Nat
      BY <2>1, <3>1, TicksAreNat DEF IInv, TypeOK, Known
    <3> QED
      BY <2>1, <3>2 DEF IInv, NeverEarly
  <2> QED
    BY <1>1, <2>1 DEF NeverEarly
<1> QED
  BY <1>2, <1>3, <1>4, <1>5

LEMMA TickKeepsIInv == ASSUME IInv, Tick PROVE IInv'
<1>1. /\ mono' = mono + 1 /\ latest' = (IF Wall + 1 > latest THEN Wall + 1 ELSE latest)
      /\ UNCHANGED <<offset, steps, forward, deadline, functors, m_timerSet, timers, deleted,
                     batch, pc>>
      /\ UNCHANGED <<m_expiration, m_interval, first, runs, expired, ran>>
      /\ mono \in Nat /\ offset \in Int /\ latest \in Int /\ forward \in Nat
      /\ steps \in Nat
  BY TimesAssumption DEF Tick, IInv, TypeOK, timers, batch
<1>2. latest' >= latest /\ latest' \in Int /\ Wall' <= latest' /\ mono' > 0
  BY <1>1 DEF Wall
<1>3. TimerStates' /\ Places' /\ Accounted' /\ ExpiredDue' /\ NeverEarly'
  BY <1>1, <1>2, ClockKeeps
<1>4. TypeOK' /\ ClockBound'
  BY <1>1, <1>2 DEF IInv, TypeOK, ClockBound, Known
<1>5. Watched'
  <2>1. \A e \in Nat : ArmedFor(e) => ArmedFor(e)'
    <3> SUFFICES ASSUME NEW e \in Nat, ArmedFor(e) PROVE ArmedFor(e)'
      OBVIOUS
    <3>1. /\ Max({mono, e - offset}) \in {mono, e - offset}
          /\ Max({mono + 1, e - offset}) >= mono + 1 /\ Max({mono + 1, e - offset}) >= e - offset
          /\ Max({mono + 1, e - offset}) \in Int /\ e - offset \in Int
      <4>1. mono \in Int /\ mono + 1 \in Int /\ e - offset \in Int
        BY <1>1
      <4> QED
        BY <4>1, MaxOfTwo
    <3>2. deadline # None /\ deadline \in Int /\ MinDelay \in Int
          /\ deadline <= MinDelay + forward + Max({mono, e - offset})
      BY TimesAssumption DEF ArmedFor, IInv, TypeOK
    <3>3. deadline <= MinDelay + forward + Max({mono + 1, e - offset})
      BY <1>1, <3>1, <3>2
    <3> QED
      BY <1>1, <3>2, <3>3 DEF ArmedFor
  <2>2. \A t \in m_timerSet : m_expiration[t] \in Nat
    BY DEF IInv, Places, TimerStates
  <2> QED
    BY <1>1, <2>1, <2>2 DEF IInv, Watched
<1> QED
  BY <1>3, <1>4, <1>5 DEF IInv

LEMMA SetClockKeepsIInv == ASSUME IInv, NEW d \in ClockSteps, SetClock(d) PROVE IInv'
<1>1. /\ steps < MaxSteps /\ steps' = steps + 1 /\ offset' = offset + d
      /\ forward' = forward + (IF d > 0 THEN d ELSE 0)
      /\ latest' = (IF Wall + d > latest THEN Wall + d ELSE latest)
      /\ UNCHANGED <<mono, deadline, functors, m_timerSet, timers, deleted, batch, pc>>
      /\ UNCHANGED <<m_expiration, m_interval, first, runs, expired, ran>>
      /\ mono \in Nat /\ offset \in Int /\ latest \in Int /\ forward \in Nat
      /\ steps \in Nat /\ d \in Int /\ MaxSteps \in Nat /\ Boot \in Nat
      /\ Boot + MaxSteps * d >= 0
  BY TimesAssumption DEF SetClock, IInv, TypeOK, timers, batch
<1>2. latest' >= latest /\ latest' \in Int /\ Wall' <= latest' /\ forward' \in Nat
  BY <1>1 DEF Wall
<1>3. TimerStates' /\ Places' /\ Accounted' /\ ExpiredDue' /\ NeverEarly'
  BY <1>1, <1>2, ClockKeeps
<1>4. TypeOK' /\ ClockBound'
  <2>1. MaxSteps * (offset + d) + Boot * (steps + 1) >= Boot * MaxSteps
    <3>1. MaxSteps * offset + Boot * steps >= Boot * MaxSteps
      BY DEF IInv, ClockBound
    <3>2. MaxSteps * (offset + d) = MaxSteps * offset + MaxSteps * d
      BY <1>1
    <3>3. Boot * (steps + 1) = Boot * steps + Boot
      BY <1>1
    <3>4. /\ MaxSteps * offset \in Int /\ MaxSteps * d \in Int /\ Boot * steps \in Int
          /\ Boot * MaxSteps \in Int
      BY <1>1
    <3> QED
      BY <1>1, <3>1, <3>2, <3>3, <3>4
  <2> QED
    BY <1>1, <1>2, <2>1 DEF IInv, TypeOK, ClockBound, Known
<1>5. Watched'
  <2>1. \A e \in Nat : ArmedFor(e) => ArmedFor(e)'
    <3> SUFFICES ASSUME NEW e \in Nat, ArmedFor(e) PROVE ArmedFor(e)'
      OBVIOUS
    <3> DEFINE a == e - offset
               b == e - (offset + d)
    <3>1. a \in Int /\ b \in Int /\ b = a - d
      BY <1>1
    <3>2. /\ Max({mono, a}) \in {mono, a}
          /\ Max({mono, b}) >= mono /\ Max({mono, b}) >= b
          /\ Max({mono, b}) \in Int /\ Max({mono, a}) \in Int
      <4> HIDE DEF a, b
      <4>1. mono \in Int
        BY <1>1
      <4> QED
        BY <3>1, <4>1, MaxOfTwo
    <3>3. deadline # None /\ deadline \in Int /\ MinDelay \in Int
          /\ deadline <= MinDelay + forward + Max({mono, a})
      BY TimesAssumption DEF ArmedFor, IInv, TypeOK
    <3>4. deadline <= MinDelay + forward' + Max({mono, b})
      <4> HIDE DEF a, b
      <4> QED
        BY <1>1, <3>1, <3>2, <3>3
    <3> QED
      BY <1>1, <3>3, <3>4 DEF ArmedFor
  <2>2. \A t \in m_timerSet : m_expiration[t] \in Nat
    BY DEF IInv, Places, TimerStates
  <2> QED
    BY <1>1, <2>1, <2>2 DEF IInv, Watched
<1> QED
  BY <1>3, <1>4, <1>5 DEF IInv

-----------------------------------------------------------------------------
(* Adding a timer. *)

\* The Timer object that runAt and runEvery make, due after the epoch if it repeats.
LEMMA NewTimerIs ==
    ASSUME IInv, NEW t \in Timers, runAt(t) \/ runEvery(t)
    PROVE  /\ pc # "gone" /\ t \notin Known /\ t \notin m_timerSet \cup Queued \cup expired
           /\ Known' = Known \cup {t} /\ runs[t] = 0 /\ deleted[t] = 0
           /\ UNCHANGED <<runs, deleted>>
           /\ m_expiration' \in [Timers -> Int \cup {None}]
           /\ first' \in [Timers -> Int \cup {None}]
           /\ m_interval' \in [Timers -> Intervals \cup {0}]
           /\ first'[t] = m_expiration'[t] /\ m_expiration'[t] \in Nat
           /\ Repeats(t)' => m_expiration'[t] > 0
           /\ \A u \in Timers : u # t => /\ m_expiration'[u] = m_expiration[u]
                                         /\ first'[u] = first[u]
                                         /\ m_interval'[u] = m_interval[u]
<1>1. PICK when \in Int, interval \in Intervals \cup {0} :
          /\ NewTimer(t, when, interval)
          /\ when \in Nat /\ (interval > 0 => when > 0)
  <2>1. CASE runAt(t)
    BY <2>1, TimesAssumption DEF runAt
  <2>2. CASE runEvery(t)
    <3>1. PICK i \in Intervals : NewTimer(t, Wall + TicksOf(i), i)
      BY <2>2 DEF runEvery
    <3>2. Wall \in Nat /\ Wall > 0 /\ TicksOf(i) \in Nat
      BY WallIsNat, TicksAreNat DEF IInv
    <3>3. Wall + TicksOf(i) \in Nat /\ Wall + TicksOf(i) > 0
      BY <3>2
    <3> QED
      BY <3>1, <3>3
  <2> QED
    BY <2>1, <2>2
<1>2. /\ pc # "gone" /\ t \notin Known /\ UNCHANGED <<runs, deleted>>
      /\ m_expiration' = [m_expiration EXCEPT ![t] = when]
      /\ first' = [first EXCEPT ![t] = when]
      /\ m_interval' = [m_interval EXCEPT ![t] = interval]
      /\ when \in Nat /\ (interval > 0 => when > 0) /\ None \notin Int
  BY <1>1, TimesAssumption DEF NewTimer
<1>3. Known' = Known \cup {t}
  BY <1>2 DEF Known, IInv, TypeOK
<1>4. runs[t] = 0 /\ deleted[t] = 0 /\ t \notin m_timerSet \cup Queued \cup expired
  BY <1>2 DEF IInv, TypeOK, TimerStates, Places
<1> QED
  BY <1>2, <1>3, <1>4 DEF IInv, TypeOK, Repeats

\* addTimerInLoop: the timer that is first is watched, it or another.
LEMMA AddedIsWatched ==
    ASSUME IInv, NEW t \in Timers \ m_timerSet, addTimerInLoop(t, m_expiration'),
           \A u \in m_timerSet : m_expiration'[u] = m_expiration[u],
           m_expiration'[t] \in Nat, UNCHANGED <<clock, pc>>
    PROVE  Watched' /\ deadline' \in Nat \cup {None} /\ m_timerSet' = m_timerSet \cup {t}
<1> DEFINE S == m_timerSet
           x == m_expiration'
           InTime(e) == /\ deadline' # None
                        /\ deadline' <= MinDelay + forward + Max({mono, e - offset})
<1>1. /\ m_timerSet' = S \cup {t}
      /\ deadline' = IF NewFirst(S, x, t) THEN Armed(x[t]) ELSE deadline
      /\ UNCHANGED <<mono, offset, forward, pc>>
      /\ deadline \in Nat \cup {None} /\ None \notin Int
  BY TimesAssumption DEF addTimerInLoop, clock, IInv, TypeOK
<1>2. \A u \in S : x[u] = m_expiration[u] /\ x[u] \in Nat
  BY DEF IInv, Places, TimerStates
<1>3. x[t] \in Nat
  OBVIOUS
<1>4. Watched' <=> \A u \in S \cup {t} : (\A v \in S \cup {t} : x[u] <= x[v])
                                           /\ (pc = "running" => x[u] = 0) => InTime(x[u])
  BY <1>1 DEF Watched, ArmedFor
<1> HIDE DEF S, x
<1>5. CASE NewFirst(S, x, t)
  <2>1. Armed(x[t]) \in Nat /\ InTime(x[t])
    BY <1>1, <1>3, <1>5, ArmedInTime DEF IInv, x
  <2>2. ASSUME NEW u \in S PROVE x[t] < x[u]
    <3>1. FirstOf(S, x) <= x[u] /\ FirstOf(S, x) \in Nat
      BY <1>2, FirstIsLeast
    <3>2. x[t] < FirstOf(S, x)
      BY <1>5 DEF NewFirst
    <3> QED
      BY <1>2, <1>3, <3>1, <3>2
  <2>3. Watched'
    <3> SUFFICES ASSUME NEW u \in S \cup {t},
                        \A v \in S \cup {t} : x[u] <= x[v]
                 PROVE  InTime(x[u])
      BY <1>4
    <3>1. u = t
      BY <1>2, <1>3, <2>2
    <3> QED
      BY <2>1, <3>1
  <2> QED
    BY <1>1, <1>5, <2>1, <2>3 DEF S
<1>6. CASE ~NewFirst(S, x, t)
  <2>1. deadline' = deadline /\ S # {} /\ ~ (x[t] < FirstOf(S, x))
    BY <1>1, <1>6 DEF NewFirst
  <2>2. PICK v \in S : FirstOf(S, x) = x[v] /\ \A u \in S : x[v] <= x[u]
    BY <1>2, <2>1, FirstIsLeast
  <2>3. x[v] <= x[t]
    BY <1>2, <1>3, <2>1, <2>2
  <2>4. Watched'
    <3> SUFFICES ASSUME NEW u \in S \cup {t},
                        \A w \in S \cup {t} : x[u] <= x[w],
                        pc = "running" => x[u] = 0
                 PROVE  InTime(x[u])
      BY <1>4
    <3>1. x[u] = x[v] /\ x[u] \in Nat
      BY <1>2, <1>3, <2>2, <2>3
    <3>2. ArmedFor(x[v])
      BY <1>2, <2>2, <3>1 DEF IInv, Watched, S
    <3> QED
      BY <1>1, <2>1, <3>1, <3>2 DEF ArmedFor
  <2> QED
    BY <1>1, <2>1, <2>4 DEF S
<1> QED
  BY <1>5, <1>6

\* A new timer changes what it is only, wherever it is put.
LEMMA NewTimerKeeps ==
    ASSUME IInv, NEW t \in Timers, runAt(t) \/ runEvery(t), UNCHANGED <<clock, batch, pc>>,
           \/ m_timerSet' = m_timerSet \cup {t} /\ Queued' = Queued
           \/ m_timerSet' = m_timerSet /\ Queued' = Queued \cup {t}
    PROVE  /\ ClockBound' /\ TimerStates' /\ Accounted' /\ ExpiredDue' /\ NeverEarly'
           /\ m_timerSet' \cup Queued' \subseteq Known'
<1>1. /\ pc # "gone" /\ t \notin Known /\ t \notin m_timerSet \cup Queued \cup expired
      /\ Known' = Known \cup {t} /\ runs[t] = 0 /\ deleted[t] = 0
      /\ UNCHANGED <<runs, deleted>>
      /\ first'[t] = m_expiration'[t] /\ m_expiration'[t] \in Nat
      /\ m_interval'[t] \in Intervals \cup {0}
      /\ Repeats(t)' => m_expiration'[t] > 0
      /\ \A u \in Timers : u # t => /\ m_expiration'[u] = m_expiration[u]
                                    /\ first'[u] = first[u]
                                    /\ m_interval'[u] = m_interval[u]
  BY NewTimerIs
<1>2. /\ UNCHANGED <<mono, offset, steps, forward, latest, expired, ran, pc>>
      /\ expired \subseteq Known /\ ran \subseteq expired /\ Known \subseteq Timers
  BY DEF clock, batch, IInv, TypeOK, Known
<1>3. ClockBound'
  BY <1>2 DEF IInv, ClockBound, Wall
<1>4. TimerStates'
  BY <1>1, <1>2 DEF IInv, TimerStates, Repeats, Places
<1>5. \A u \in Timers : u # t => /\ u \in Known' <=> u \in Known
                                 /\ Waits(u)' <=> Waits(u)
                                 /\ u \in Queued' <=> u \in Queued
                                 /\ u \in m_timerSet' <=> u \in m_timerSet
                                 /\ Counted(u)' = Counted(u)
  BY <1>1, <1>2 DEF Waits, Counted
<1>6. Accounted'
  <2> SUFFICES ASSUME NEW u \in Known'
               PROVE  /\ u \notin m_timerSet' \cap expired'
                      /\ u \in Queued' => ~Waits(u)' /\ runs'[u] = 0
                      /\ deleted'[u] = IF Waits(u)' \/ u \in Queued' THEN 0 ELSE 1
                      /\ Waits(u)' =>
                            /\ m_expiration'[u]
                                  = first'[u] + Counted(u)' * TicksOf(m_interval'[u])
                            /\ m_interval'[u] = 0 => Counted(u)' = 0
                      /\ deleted'[u] = 1 /\ pc' # "gone" => m_interval'[u] = 0 /\ runs'[u] = 1
    BY DEF Accounted, TicksOf
  <2>1. CASE u # t
    BY <1>1, <1>2, <1>5, <2>1 DEF IInv, Accounted
  <2>2. CASE u = t
    <3>1. Counted(t)' = 0
      BY <1>1, <1>2 DEF Counted
    <3>2. 0 * TicksOf(m_interval'[t]) = 0
      BY <1>1, TicksAreNat
    <3> QED
      BY <1>1, <1>2, <2>2, <3>1, <3>2 DEF Waits
  <2> QED
    BY <2>1, <2>2
<1>7. ExpiredDue'
  BY <1>1, <1>2 DEF IInv, ExpiredDue
<1>8. NeverEarly'
  <2>1. \A u \in Timers \ {t} : runs[u] > 0 =>
            first'[u] + (runs[u] - 1) * TicksOf(m_interval'[u]) <= latest
    BY <1>1 DEF IInv, NeverEarly
  <2> QED
    BY <1>1, <1>2, <2>1 DEF NeverEarly, TicksOf
<1>9. m_timerSet' \cup Queued' \subseteq Known'
  BY <1>1 DEF IInv, Places
<1> QED
  BY <1>3, <1>4, <1>6, <1>7, <1>8, <1>9

LEMMA AddOnLoopThreadKeepsIInv == ASSUME IInv, NEW t \in Timers, AddOnLoopThread(t) PROVE IInv'
<1>1. /\ runAt(t) \/ runEvery(t)
      /\ addTimerInLoop(t, m_expiration')
      /\ UNCHANGED <<clock, functors, batch, pc>>
      /\ UNCHANGED <<mono, offset, steps, forward, latest, expired, ran>>
      /\ Queued' = Queued
  BY DEF AddOnLoopThread, clock, batch, Queued
<1>2. /\ t \notin m_timerSet /\ Known' = Known \cup {t}
      /\ m_expiration'[t] \in Nat /\ UNCHANGED <<runs, deleted>>
      /\ m_expiration' \in [Timers -> Int \cup {None}]
      /\ first' \in [Timers -> Int \cup {None}]
      /\ m_interval' \in [Timers -> Intervals \cup {0}]
      /\ \A u \in m_timerSet : m_expiration'[u] = m_expiration[u]
  BY <1>1, NewTimerIs DEF IInv, TypeOK
<1>3. Watched' /\ deadline' \in Nat \cup {None} /\ m_timerSet' = m_timerSet \cup {t}
  BY <1>1, <1>2, AddedIsWatched
<1>4. /\ ClockBound' /\ TimerStates' /\ Accounted' /\ ExpiredDue' /\ NeverEarly'
      /\ m_timerSet' \cup Queued' \subseteq Known'
  BY <1>1, <1>3, NewTimerKeeps
<1>5. Places'
  BY <1>1, <1>4 DEF IInv, Places
<1>6. TypeOK'
  BY <1>1, <1>2, <1>3 DEF IInv, TypeOK
<1> QED
  BY <1>3, <1>4, <1>5, <1>6 DEF IInv

LEMMA AddFromOtherThreadKeepsIInv ==
    ASSUME IInv, NEW t \in Timers, AddFromOtherThread(t) PROVE IInv'
<1>1. /\ runAt(t) \/ runEvery(t)
      /\ functors' = Append(functors, t)
      /\ UNCHANGED <<clock, deadline, m_timerSet, batch, pc>>
      /\ UNCHANGED <<mono, offset, steps, forward, latest, expired, ran>>
  BY DEF AddFromOtherThread, clock, batch
<1>2. /\ t \notin m_timerSet \cup Queued /\ Known' = Known \cup {t}
      /\ UNCHANGED <<runs, deleted>>
      /\ m_expiration' \in [Timers -> Int \cup {None}]
      /\ first' \in [Timers -> Int \cup {None}]
      /\ m_interval' \in [Timers -> Intervals \cup {0}]
      /\ \A u \in Timers : u # t => m_expiration'[u] = m_expiration[u]
  BY <1>1, NewTimerIs
<1>3. /\ functors' \in Seq(Timers) /\ Len(functors) \in Nat
      /\ DOMAIN functors = 1..Len(functors) /\ DOMAIN functors' = 1..(Len(functors) + 1)
      /\ functors'[Len(functors) + 1] = t
      /\ \A j \in 1..Len(functors) : functors'[j] = functors[j]
  <2>1. functors \in Seq(Timers)
    BY DEF IInv, TypeOK
  <2> QED
    BY <1>1, <2>1, AppendProperties, LenProperties
<1>4. Queued' = Queued \cup {t}
  <2>1. 1..(Len(functors) + 1) = 1..Len(functors) \cup {Len(functors) + 1}
    BY <1>3
  <2> QED
    BY <1>3, <2>1 DEF Queued
<1>5. /\ ClockBound' /\ TimerStates' /\ Accounted' /\ ExpiredDue' /\ NeverEarly'
      /\ m_timerSet' \cup Queued' \subseteq Known'
  BY <1>1, <1>4, NewTimerKeeps
<1>6. Places'
  <2>1. \A j \in 1..Len(functors) : functors[j] # t
    BY <1>2, <1>3 DEF Queued
  <2>2. \A j, k \in 1..Len(functors) : functors[j] = functors[k] => j = k
    BY <1>3 DEF IInv, Places
  <2>3. \A j, k \in DOMAIN functors' : functors'[j] = functors'[k] => j = k
    BY <1>3, <2>1, <2>2
  <2> QED
    BY <1>1, <1>5, <2>3 DEF IInv, Places
<1>7. TypeOK'
  BY <1>1, <1>2, <1>3 DEF IInv, TypeOK
<1>8. Watched'
  <2>1. \A u \in m_timerSet : m_expiration'[u] = m_expiration[u]
    BY <1>2 DEF IInv, TypeOK
  <2>2. /\ \A e \in Nat : ArmedFor(e)' <=> ArmedFor(e)
        /\ \A u \in m_timerSet : m_expiration[u] \in Nat
    BY <1>1 DEF ArmedFor, IInv, Places, TimerStates
  <2> QED
    BY <1>1, <2>1, <2>2 DEF IInv, Watched, ArmedFor
<1> QED
  BY <1>5, <1>6, <1>7, <1>8 DEF IInv

\* A queued timer goes to the set, and to one place only.
LEMMA RunFunctorKeepsIInv == ASSUME IInv, RunFunctor PROVE IInv'
<1> DEFINE t == Head(functors)
<1>1. /\ pc = "idle" /\ functors # << >> /\ functors' = Tail(functors)
      /\ addTimerInLoop(t, m_expiration)
      /\ UNCHANGED <<clock, timers, deleted, batch, pc>>
      /\ UNCHANGED <<mono, offset, steps, forward, latest, m_expiration, m_interval, first, runs,
                     expired, ran>>
      /\ Known' = Known
  BY DEF RunFunctor, clock, timers, batch, Known
<1>2. /\ functors' \in Seq(Timers) /\ Len(functors) \in Nat /\ Len(functors) > 0
      /\ DOMAIN functors = 1..Len(functors) /\ DOMAIN functors' = 1..(Len(functors) - 1)
      /\ t = functors[1]
      /\ \A j \in 1..(Len(functors) - 1) : functors'[j] = functors[j + 1]
  <2>1. functors \in Seq(Timers)
    BY DEF IInv, TypeOK
  <2> QED
    BY <1>1, <2>1, HeadTailProperties, LenProperties, EmptySeq
<1> HIDE DEF t
<1>3. Queued' = Queued \ {t} /\ t \in Queued
  <2>1. \A j \in 1..(Len(functors) - 1) :
           j + 1 \in 1..Len(functors) /\ functors[j + 1] # functors[1]
    BY <1>2 DEF IInv, Places
  <2>2. ASSUME NEW j \in 1..Len(functors), functors[j] # functors[1]
        PROVE  j - 1 \in 1..(Len(functors) - 1) /\ functors'[j - 1] = functors[j]
    BY <1>2, <2>2
  <2>3. /\ 1 \in 1..Len(functors)
        /\ Queued = {functors[j] : j \in 1..Len(functors)}
        /\ Queued' = {functors'[j] : j \in 1..(Len(functors) - 1)}
    BY <1>2 DEF Queued
  <2>4. Queued' \subseteq Queued \ {t}
    BY <1>2, <2>1, <2>3
  <2>5. Queued \ {t} \subseteq Queued'
    BY <1>2, <2>2, <2>3
  <2> QED
    BY <1>2, <2>3, <2>4, <2>5
<1>4. /\ t \in Known /\ t \in Timers /\ t \notin m_timerSet \cup expired
      /\ m_expiration[t] \in Nat /\ m_expiration[t] = first[t] /\ runs[t] = 0 /\ deleted[t] = 0
      /\ ran = {} /\ expired = {}
  <2>1. t \in Known
    BY <1>3 DEF IInv, Places
  <2>2. ~Waits(t) /\ runs[t] = 0 /\ deleted[t] = 0
    BY <1>3, <2>1 DEF IInv, Accounted
  <2> QED
    BY <1>1, <1>3, <2>1, <2>2 DEF IInv, TimerStates, Places, TypeOK, Known, Waits
<1>5. Watched' /\ deadline' \in Nat \cup {None} /\ m_timerSet' = m_timerSet \cup {t}
  BY <1>1, <1>4, AddedIsWatched
<1>6. TypeOK' /\ ClockBound'
  BY <1>1, <1>2, <1>4, <1>5 DEF IInv, TypeOK, ClockBound, Wall
<1>7. TimerStates' /\ ExpiredDue' /\ NeverEarly'
  BY <1>1, <1>3 DEF IInv, TimerStates, Repeats, ExpiredDue, NeverEarly
<1>8. Places'
  <2>1. \A j, k \in DOMAIN functors' : functors'[j] = functors'[k] => j = k
    <3>1. \A j \in 1..(Len(functors) - 1) : j + 1 \in 1..Len(functors)
      BY <1>2
    <3>2. \A j, k \in 1..Len(functors) : functors[j] = functors[k] => j = k
      BY <1>2 DEF IInv, Places
    <3> QED
      BY <1>2, <3>1, <3>2
  <2> QED
    BY <1>1, <1>3, <1>4, <1>5, <2>1 DEF IInv, Places
<1>9. Accounted'
  <2> SUFFICES ASSUME NEW u \in Known
               PROVE  /\ u \notin m_timerSet' \cap expired
                      /\ u \in Queued' => ~Waits(u)' /\ runs[u] = 0
                      /\ deleted[u] = IF Waits(u)' \/ u \in Queued' THEN 0 ELSE 1
                      /\ Waits(u)' =>
                            /\ m_expiration[u] = first[u] + Counted(u) * TicksOf(m_interval[u])
                            /\ m_interval[u] = 0 => Counted(u) = 0
                      /\ deleted[u] = 1 /\ pc # "gone" => m_interval[u] = 0 /\ runs[u] = 1
    BY <1>1 DEF RunFunctor, Accounted, Counted
  <2>1. CASE u # t
    BY <1>1, <1>3, <1>5, <2>1 DEF IInv, Accounted, Waits
  <2>2. CASE u = t
    <3>1. /\ Counted(t) = 0 /\ 0 * TicksOf(m_interval[t]) = 0
          /\ first[t] + 0 = first[t]
      <4>1. TicksOf(m_interval[t]) \in Nat
        BY <1>4, TicksAreNat DEF IInv, TypeOK
      <4> QED
        BY <1>4, <4>1 DEF Counted
    <3> QED
      BY <1>3, <1>4, <1>5, <2>2, <3>1 DEF Waits
  <2> QED
    BY <2>1, <2>2
<1> QED
  BY <1>5, <1>6, <1>7, <1>8, <1>9 DEF IInv

-----------------------------------------------------------------------------
(* handleRead, and the end. *)

LEMMA PollKeepsIInv == ASSUME IInv, Poll PROVE IInv'
<1>1. /\ pc = "idle" /\ pc' = "polled"
      /\ UNCHANGED <<clock, deadline, functors, m_timerSet, timers, deleted, batch>>
      /\ UNCHANGED <<mono, offset, steps, forward, latest, m_expiration, m_interval, first, runs,
                     expired, ran>>
      /\ Known' = Known /\ Queued' = Queued
      /\ \A t \in Timers : (Waits(t)' <=> Waits(t)) /\ Counted(t)' = Counted(t)
  BY DEF Poll, clock, timers, batch, Known, Queued, Waits, Counted
<1>2. TypeOK' /\ ClockBound' /\ TimerStates' /\ Places' /\ ExpiredDue' /\ NeverEarly'
  BY <1>1 DEF IInv, TypeOK, ClockBound, Wall, TimerStates, Repeats, Places, ExpiredDue,
     NeverEarly
<1>3. Accounted'
  BY <1>1 DEF IInv, Accounted, Known
<1>4. Watched'
  BY <1>1 DEF IInv, Watched, ArmedFor
<1> QED
  BY <1>2, <1>3, <1>4 DEF IInv

\* What is left in the set is due after the epoch, so the timerfd will be armed.
LEMMA HandleReadKeepsIInv == ASSUME IInv, HandleRead PROVE IInv'
<1>1. /\ pc = "polled" /\ pc' = "running"
      /\ deadline' = IF Readable THEN None ELSE deadline
      /\ expired' = {t \in m_timerSet : Due(t)}
      /\ m_timerSet' = m_timerSet \ expired'
      /\ UNCHANGED <<clock, functors, timers, deleted, ran>>
      /\ UNCHANGED <<mono, offset, steps, forward, latest, m_expiration, m_interval, first, runs>>
      /\ Known' = Known /\ Queued' = Queued
  BY DEF HandleRead, clock, timers, Known, Queued
<1>2. expired = {} /\ ran = {} /\ m_timerSet \subseteq Known /\ Known \subseteq Timers
  BY <1>1 DEF IInv, Places, TypeOK, Known
<1>3. \A t \in Timers : (Waits(t)' <=> Waits(t)) /\ Counted(t)' = Counted(t)
  BY <1>1, <1>2 DEF Waits, Counted
<1>4. TypeOK' /\ ClockBound' /\ TimerStates' /\ Places' /\ NeverEarly'
  BY <1>1, <1>2 DEF IInv, TypeOK, ClockBound, Wall, TimerStates, Repeats, Places, NeverEarly
<1>5. Accounted'
  BY <1>1, <1>2, <1>3 DEF IInv, Accounted
<1>6. Wall \in Nat /\ Wall > 0 /\ Wall <= latest /\ latest \in Int
      /\ \A t \in m_timerSet : m_expiration[t] \in Nat
  BY WallIsNat DEF IInv, ClockBound, Places, TimerStates, TypeOK
<1>7. ExpiredDue'
  BY <1>1, <1>6 DEF ExpiredDue, Due
<1>8. Watched'
  <2>1. \A t \in m_timerSet' : m_expiration[t] # 0
    BY <1>1, <1>6 DEF Due
  <2> QED
    BY <1>1, <2>1 DEF Watched
<1> QED
  BY <1>4, <1>5, <1>7, <1>8 DEF IInv

\* The run is not counted before the timer is restarted.
LEMMA RunTimerKeepsIInv == ASSUME IInv, NEW t \in Timers, RunTimer(t) PROVE IInv'
<1>1. /\ pc = "running" /\ t \in expired \ ran
      /\ runs' = [runs EXCEPT ![t] = @ + 1] /\ ran' = ran \cup {t}
      /\ UNCHANGED <<clock, deadline, functors, m_timerSet, m_expiration, m_interval, first,
                     deleted, expired, pc>>
      /\ UNCHANGED <<mono, offset, steps, forward, latest>>
      /\ Known' = Known /\ Queued' = Queued
  BY DEF RunTimer, clock, Known, Queued
<1>2. /\ t \in Known /\ Waits(t) /\ t \notin Queued /\ runs[t] \in Nat /\ runs'[t] = runs[t] + 1
      /\ \A u \in Timers : u # t => runs'[u] = runs[u]
      /\ runs' \in [Timers -> Nat]
  BY <1>1 DEF IInv, TypeOK, Accounted, Waits
<1>3. /\ \A u \in Timers : (Waits(u)' <=> Waits(u)) /\ Counted(u)' = Counted(u)
      /\ Counted(t) = runs[t]
  BY <1>1, <1>2 DEF Waits, Counted
<1>4. TypeOK' /\ ClockBound' /\ TimerStates' /\ Places' /\ ExpiredDue' /\ Watched'
  <2>1. TypeOK'
    BY <1>1, <1>2 DEF IInv, TypeOK
  <2>2. ClockBound' /\ Places' /\ ExpiredDue' /\ Watched'
    BY <1>1 DEF IInv, ClockBound, Wall, Places, ExpiredDue, Watched, ArmedFor
  <2>3. TimerStates'
    BY <1>1, <1>2 DEF IInv, TimerStates, Repeats
  <2> QED
    BY <2>1, <2>2, <2>3
<1>5. deleted[t] = 0
  BY <1>2 DEF IInv, Accounted
<1>6. Accounted'
  BY <1>1, <1>2, <1>3, <1>5 DEF IInv, Accounted, Known
<1>7. NeverEarly'
  <2>1. first[t] + runs[t] * TicksOf(m_interval[t]) <= latest
    BY <1>1, <1>2, <1>3 DEF IInv, Accounted, ExpiredDue
  <2>2. runs'[t] - 1 = runs[t]
    BY <1>2
  <2> QED
    BY <1>1, <1>2, <2>1, <2>2 DEF IInv, NeverEarly
<1> QED
  BY <1>4, <1>6, <1>7 DEF IInv

\* The batch is restarted or deleted, and the timerfd armed again; the first
\* expiration is 0 only if it was so before.
LEMMA ResetKeepsIInv == ASSUME IInv, ResetTimerList PROVE IInv'
<1> DEFINE again == {t \in expired : Repeats(t)}
           S == m_timerSet \cup again
           x == m_expiration'
<1>1. /\ pc = "running" /\ pc' = "idle" /\ ran = expired
      /\ x = [t \in Timers |-> IF t \in again THEN Restarted(t) ELSE m_expiration[t]]
      /\ m_timerSet' = S
      /\ deleted' = [t \in Timers |-> IF t \in expired \ again THEN deleted[t] + 1
                                      ELSE deleted[t]]
      /\ deadline' = IF S # {} /\ FirstOf(S, x) > 0 THEN Armed(FirstOf(S, x)) ELSE deadline
      /\ expired' = {} /\ ran' = {}
      /\ UNCHANGED <<clock, functors, m_interval, first, runs>>
      /\ UNCHANGED <<mono, offset, steps, forward, latest>>
      /\ Known' = Known /\ Queued' = Queued
  BY DEF ResetTimerList, Deletes, clock, Known, Queued
<1>2. /\ expired \subseteq Known /\ m_timerSet \subseteq Known /\ Known \subseteq Timers
      /\ again \subseteq expired /\ \A t \in m_timerSet : t \notin expired
      /\ \A t \in Timers : m_interval[t] \in Intervals \cup {0} /\ TicksOf(m_interval[t]) \in Nat
      /\ \A t \in expired : t \in again <=> m_interval[t] # 0
  <2>1. \A i \in Intervals \cup {0} : i > 0 <=> i # 0
    BY TimesAssumption
  <2> QED
    BY <2>1, TicksAreNat DEF IInv, TypeOK, Places, Accounted, Repeats, Known
<1> HIDE DEF again, S, x
<1>3. /\ \A t \in again : x[t] = m_expiration[t] + TicksOf(m_interval[t])
      /\ \A t \in Timers \ again : x[t] = m_expiration[t]
      /\ \A t \in Known : m_expiration[t] \in Nat /\ (t \in again => m_expiration[t] > 0)
  BY <1>1, <1>2 DEF Restarted, IInv, TimerStates, again
<1>4. /\ \A t \in Known : x[t] \in Nat
      /\ \A t \in again : x[t] > 0
      /\ x \in [Timers -> Int \cup {None}]
  <2>1. \A t \in Known : x[t] \in Nat /\ (t \in again => x[t] > 0)
    BY <1>2, <1>3
  <2>2. \A t \in Timers : x[t] \in Int \cup {None}
    <3>1. \A t \in Timers : m_expiration[t] \in Int \cup {None}
      BY DEF IInv, TypeOK
    <3> QED
      BY <1>2, <1>3, <2>1, <3>1
  <2> QED
    BY <1>1, <1>2, <2>1, <2>2
<1>5. ClockBound' /\ TimerStates' /\ Places' /\ ExpiredDue' /\ NeverEarly'
  <2>1. ClockBound' /\ ExpiredDue' /\ NeverEarly'
    BY <1>1 DEF IInv, ClockBound, Wall, ExpiredDue, NeverEarly
  <2>2. Places'
    BY <1>1, <1>2 DEF IInv, Places, S
  <2>3. TimerStates'
    <3>1. \A t \in Timers \ Known : runs[t] = 0 /\ deleted'[t] = 0
      BY <1>1, <1>2 DEF IInv, TimerStates
    <3>2. \A t \in Queued : x[t] = first[t]
      <4>1. \A t \in Queued : t \in Timers \ again /\ m_expiration[t] = first[t]
        BY <1>2 DEF IInv, TimerStates, Accounted, Places, Waits
      <4> QED
        BY <1>3, <4>1
    <3>3. \A t \in Known : Repeats(t) => x[t] > 0
      BY <1>2, <1>3, <1>4 DEF IInv, TimerStates
    <3> QED
      BY <1>1, <1>4, <3>1, <3>2, <3>3 DEF TimerStates, Repeats, x
  <2> QED
    BY <2>1, <2>2, <2>3
<1>6. Accounted'
  <2> SUFFICES ASSUME NEW t \in Known
               PROVE  /\ t \in Queued => t \notin S /\ runs[t] = 0
                      /\ deleted'[t] = IF t \in S \/ t \in Queued THEN 0 ELSE 1
                      /\ t \in S => /\ x[t] = first[t] + runs[t] * TicksOf(m_interval[t])
                                    /\ m_interval[t] = 0 => runs[t] = 0
                      /\ deleted'[t] = 1 => m_interval[t] = 0 /\ runs[t] = 1
    BY <1>1 DEF Accounted, Waits, Counted, x
  <2>1. /\ t \notin m_timerSet \cap expired
        /\ t \in Queued => ~Waits(t) /\ runs[t] = 0
        /\ deleted[t] = IF Waits(t) \/ t \in Queued THEN 0 ELSE 1
        /\ Waits(t) => /\ m_expiration[t] = first[t] + Counted(t) * TicksOf(m_interval[t])
                       /\ m_interval[t] = 0 => Counted(t) = 0
        /\ deleted[t] = 1 => m_interval[t] = 0 /\ runs[t] = 1
    BY <1>1 DEF IInv, Accounted
  <2>2. /\ runs[t] \in Nat /\ first[t] \in Int /\ TicksOf(m_interval[t]) \in Nat /\ t \in Timers
        /\ (runs[t] - 1) * TicksOf(m_interval[t]) + TicksOf(m_interval[t])
              = runs[t] * TicksOf(m_interval[t])
        /\ (runs[t] - 1) * TicksOf(m_interval[t]) \in Int
    <3>1. runs[t] \in Nat /\ first[t] \in Int /\ TicksOf(m_interval[t]) \in Nat /\ t \in Timers
      BY <1>2 DEF IInv, TypeOK, Known
    <3> QED
      BY <3>1, OneMore
  <2>3. CASE t \in again
    <3>1. Counted(t) = runs[t] - 1 /\ Waits(t) /\ t \in S /\ m_interval[t] # 0
      BY <1>1, <1>2, <2>3 DEF Counted, Waits, S
    <3>2. x[t] = first[t] + runs[t] * TicksOf(m_interval[t])
      BY <1>3, <2>1, <2>2, <2>3, <3>1
    <3>3. deleted'[t] = deleted[t]
      BY <1>1, <2>2, <2>3
    <3> QED
      BY <2>1, <3>1, <3>2, <3>3
  <2>4. CASE t \in expired \ again
    <3>1. Counted(t) = runs[t] - 1 /\ Waits(t) /\ t \notin S /\ m_interval[t] = 0
      BY <1>1, <1>2, <2>1, <2>4 DEF Counted, Waits, S
    <3>2. deleted'[t] = deleted[t] + 1
      BY <1>1, <2>2, <2>4
    <3> QED
      BY <2>1, <2>2, <3>1, <3>2
  <2>5. CASE t \notin expired
    <3>1. /\ Counted(t) = runs[t] /\ (Waits(t) <=> t \in S) /\ t \notin again
          /\ deleted'[t] = deleted[t] /\ x[t] = m_expiration[t]
      BY <1>1, <1>2, <1>3, <2>2, <2>5 DEF Counted, Waits, S
    <3> QED
      BY <2>1, <3>1
  <2> QED
    BY <1>2, <2>3, <2>4, <2>5
<1>7. Watched' /\ deadline' \in Nat \cup {None}
  <2> DEFINE InTime(e) == /\ deadline' # None
                          /\ deadline' <= MinDelay + forward + Max({mono, e - offset})
  <2>1. /\ \A t \in S : x[t] \in Nat
        /\ deadline \in Nat \cup {None} /\ None \notin Int
    BY <1>2, <1>4, TimesAssumption DEF S, IInv, TypeOK
  <2>2. CASE S # {} /\ FirstOf(S, x) > 0
    <3>1. /\ FirstOf(S, x) \in Nat
          /\ \E t \in S : FirstOf(S, x) = x[t] /\ \A u \in S : x[t] <= x[u]
      BY <2>1, <2>2, FirstIsLeast
    <3>2. deadline' \in Nat /\ InTime(FirstOf(S, x))
      BY <1>1, <2>1, <2>2, <3>1, ArmedInTime DEF IInv
    <3>3. ASSUME NEW t \in S, \A u \in S : x[t] <= x[u] PROVE InTime(x[t])
      <4>1. x[t] = FirstOf(S, x)
        BY <2>1, <3>1, <3>3
      <4> QED
        BY <3>2, <4>1
    <3> QED
      BY <1>1, <3>2, <3>3 DEF Watched, ArmedFor, x
  <2>3. CASE ~(S # {} /\ FirstOf(S, x) > 0)
    <3>1. deadline' = deadline
      BY <1>1, <2>3
    <3>2. ASSUME NEW t \in S, \A u \in S : x[t] <= x[u] PROVE InTime(x[t])
      <4>1. /\ FirstOf(S, x) = 0 /\ x[t] = 0
        <5>1. /\ FirstOf(S, x) \in Nat
              /\ \E v \in S : FirstOf(S, x) = x[v] /\ \A u \in S : x[v] <= x[u]
          BY <2>1, <3>2, FirstIsLeast
        <5> QED
          BY <2>1, <2>3, <3>2, <5>1
      <4>2. t \in m_timerSet /\ m_expiration[t] = 0
        BY <1>2, <1>3, <1>4, <4>1 DEF S
      <4>3. \A u \in m_timerSet : m_expiration[t] <= m_expiration[u]
        BY <1>2, <1>3, <4>2
      <4>4. ArmedFor(m_expiration[t])
        BY <4>2, <4>3 DEF IInv, Watched
      <4> QED
        BY <3>1, <4>1, <4>2, <4>4 DEF ArmedFor
    <3> QED
      BY <1>1, <2>1, <3>1, <3>2 DEF Watched, ArmedFor, x
  <2> QED
    BY <2>2, <2>3
<1>8. TypeOK'
  <2>1. deleted' \in [Timers -> Nat]
    BY <1>1 DEF IInv, TypeOK
  <2> QED
    BY <1>1, <1>2, <1>4, <1>7, <2>1 DEF IInv, TypeOK, S, x
<1> QED
  BY <1>5, <1>6, <1>7, <1>8 DEF IInv

\* ~TimerQueue deletes the waiting timers, of which no one was deleted before.
LEMMA DestroyKeepsIInv == ASSUME IInv, Destroy PROVE IInv'
<1>1. /\ pc = "idle" /\ pc' = "gone" /\ deadline' = None /\ m_timerSet' = {}
      /\ deleted' = [t \in Timers |-> IF t \in m_timerSet THEN deleted[t] + 1 ELSE deleted[t]]
      /\ UNCHANGED <<clock, functors, timers, batch>>
      /\ UNCHANGED <<mono, offset, steps, forward, latest, m_expiration, m_interval, first, runs,
                     expired, ran>>
      /\ Known' = Known /\ Queued' = Queued
  BY DEF Destroy, Deletes, clock, timers, batch, Known, Queued
<1>2. /\ expired = {} /\ m_timerSet \cup Queued \subseteq Known /\ Known \subseteq Timers
  BY <1>1 DEF IInv, Places, Known
<1>3. TypeOK' /\ ClockBound' /\ Places' /\ ExpiredDue' /\ NeverEarly' /\ Watched'
  <2>1. deleted' \in [Timers -> Nat]
    BY <1>1 DEF IInv, TypeOK
  <2>2. TypeOK'
    BY <1>1, <2>1 DEF IInv, TypeOK
  <2> QED
    BY <1>1, <1>2, <2>2 DEF IInv, ClockBound, Wall, Places, ExpiredDue, NeverEarly, Watched
<1>4. TimerStates'
  BY <1>1, <1>2 DEF IInv, TimerStates, Repeats
<1>5. Accounted'
  BY <1>1, <1>2 DEF IInv, Accounted, Waits, Counted
<1> QED
  BY <1>3, <1>4, <1>5 DEF IInv

-----------------------------------------------------------------------------
(* The invariant, and what it says of the timers.                             *)

LEMMA NextIInv == ASSUME IInv, [Next]_vars PROVE IInv'
<1>1. CASE UNCHANGED vars
  <2>1. /\ UNCHANGED <<clock, deadline, functors, m_timerSet, timers, deleted, batch, pc>>
        /\ UNCHANGED <<mono, offset, steps, forward, latest>>
    BY <1>1 DEF vars, clock
  <2>2. TimerStates' /\ Places' /\ Accounted' /\ ExpiredDue' /\ NeverEarly'
    BY <2>1, ClockKeeps DEF IInv, TypeOK
  <2> QED
    BY <2>1, <2>2 DEF IInv, TypeOK, ClockBound, Wall, Watched, ArmedFor, timers, batch, Known
<1>2. CASE Next
  BY <1>2, AddOnLoopThreadKeepsIInv, AddFromOtherThreadKeepsIInv, RunFunctorKeepsIInv,
     PollKeepsIInv, HandleReadKeepsIInv, RunTimerKeepsIInv, ResetKeepsIInv, DestroyKeepsIInv,
     TickKeepsIInv, SetClockKeepsIInv DEF Next, LoopStep
<1> QED
  BY <1>1, <1>2

LEMMA Invariant == Spec => []IInv
BY InitIInv, NextIInv, PTL DEF Spec

\* The state of the timers is as declared: a batch has known timers only, and
\* those that were run are of the batch.
THEOREM TimersTypeCorrect == Spec => []TypeOK
<1>1. IInv => TypeOK
  BY DEF IInv
<1> QED
  BY <1>1, Invariant, PTL

\* A timer is in one place or deleted once, and no run of it is ever skipped.
THEOREM TimersAccounted == Spec => []Accounted
<1>1. IInv => Accounted
  BY DEF IInv
<1> QED
  BY <1>1, Invariant, PTL

\* No timer runs before the wall clock has shown its expiration, whatever the
\* clock is set to and whenever.
THEOREM TimersNeverEarly == Spec => []NeverEarly
<1>1. IInv => NeverEarly
  BY DEF IInv
<1> QED
  BY <1>1, Invariant, PTL

\* While timers wait and handleRead does not run, the timerfd is armed in time for
\* the first of them.
THEOREM TimerfdArmed == Spec => []NotLate
<1>1. IInv => NotLate
  <2> SUFFICES ASSUME IInv, pc # "running", m_timerSet # {}
               PROVE  ArmedFor(FirstOf(m_timerSet, m_expiration))
    BY DEF NotLate, ArmedFor
  <2>1. \A t \in m_timerSet : m_expiration[t] \in Nat
    BY DEF IInv, Places, TimerStates
  <2>2. PICK t \in m_timerSet : /\ FirstOf(m_timerSet, m_expiration) = m_expiration[t]
                                /\ \A u \in m_timerSet : m_expiration[t] <= m_expiration[u]
    BY <2>1, FirstIsLeast
  <2> QED
    BY <2>2 DEF IInv, Watched
<1> QED
  BY <1>1, Invariant, PTL

=============================================================================
