------------------------------ MODULE TimerQueue ------------------------------
(***************************************************************************)
(* The timers of one loop (TimerQueue.cpp, Timer.h, EventLoop::runAt and    *)
(* runEvery).  m_timerSet holds the waiting timers in the order of their    *)
(* expiration, which is wall clock time; one timerfd, which counts          *)
(* CLOCK_MONOTONIC, is armed for the first of them.  The wall clock may be *)
(* set while timers wait.  Any thread adds a timer: on the loop thread at   *)
(* once, from another through the functor queue, here the sequence          *)
(* "functors" (FunctorQueue is what EventLoop guarantees of it).           *)
(*                                                                         *)
(* Time is in ticks, MinDelay of which are the 100 microseconds of          *)
(* howMuchTimeFromNow.  An interval is a double of seconds, finer than the  *)
(* clock: Unit of its steps are a tick, and addTime cuts off the rest.  A   *)
(* Timer object is one of Timers; the memory of a deleted one is not used   *)
(* again.                                                                  *)
(***************************************************************************)
EXTENDS Integers, Sequences, FiniteSetsExt

CONSTANTS Timers,
          Whens,        \* the times that runAt is called with
          Intervals,    \* the intervals that runEvery is called with,
          Unit,         \* and how many of their steps are a tick
          MinDelay,
          Boot,         \* how far the wall clock is ahead when the clock starts
          ClockSteps,   \* by how much the wall clock may be set
          MaxSteps,     \* bound: how often it is set
          MaxTime,      \* bound: when the clock stops, but see Tick
          None

ASSUME TimesAssumption ==
    /\ Whens \subseteq Nat /\ Intervals \subseteq Nat \ {0} /\ Unit \in Nat \ {0}
    /\ MinDelay \in Nat \ {0} /\ ClockSteps \subseteq Int
    /\ MaxSteps \in Nat /\ MaxTime \in Nat
    /\ Boot \in Nat /\ \A d \in ClockSteps : Boot + MaxSteps * d >= 0
    /\ None \notin Int

VARIABLES
    mono,           \* CLOCK_MONOTONIC
    offset,         \* the wall clock is ahead of it by this much
    steps,          \* history: how often the wall clock was set,
    forward,        \* by how much it was set forward in all,
    latest,         \* and the latest time it has shown
    deadline,       \* when the timerfd expires, None if it is not armed
    functors,       \* addTimerInLoop calls in the functor queue of the loop
    m_timerSet,
    m_expiration, m_interval,
    first, runs,    \* history: the first expiration, and how often run() was called
    deleted,        \* history: how often the Timer was deleted
    expired, ran,   \* expierdTimers of handleRead, and those that were run
    pc              \* where the loop thread is; "gone" once the TimerQueue is destroyed

clock == <<mono, offset, steps, forward, latest>>
timers == <<m_expiration, m_interval, first, runs>>
batch == <<expired, ran>>
vars == <<clock, deadline, functors, m_timerSet, timers, deleted, batch, pc>>

Wall == mono + offset
Readable == deadline # None /\ deadline <= mono
Known == {t \in Timers : first[t] # None}
Queued == {functors[i] : i \in DOMAIN functors}

TypeOK == /\ mono \in Nat /\ offset \in Int /\ forward \in Nat /\ latest \in Int
          /\ steps \in 0..MaxSteps
          /\ deadline \in Nat \cup {None}
          /\ functors \in Seq(Timers)
          /\ m_timerSet \subseteq Timers
          /\ m_expiration \in [Timers -> Int \cup {None}]
          /\ first \in [Timers -> Int \cup {None}]
          /\ m_interval \in [Timers -> Intervals \cup {0}]
          /\ runs \in [Timers -> Nat] /\ deleted \in [Timers -> Nat]
          /\ expired \in SUBSET Known /\ ran \in SUBSET expired
          /\ pc \in {"idle", "polled", "running", "gone"}

Init == /\ mono = 1 /\ offset = Boot /\ steps = 0 /\ forward = 0 /\ latest = Boot + 1
        /\ deadline = None
        /\ functors = <<>>
        /\ m_timerSet = {}
        /\ m_expiration = [t \in Timers |-> None]
        /\ first = [t \in Timers |-> None]
        /\ m_interval = [t \in Timers |-> 0]
        /\ runs = [t \in Timers |-> 0] /\ deleted = [t \in Timers |-> 0]
        /\ expired = {} /\ ran = {}
        /\ pc = "idle"

-----------------------------------------------------------------------------
(* Arming the timerfd. *)

HowMuch_NoMinimum(when) == when - Wall

HowMuch(when) == IF when - Wall < MinDelay THEN MinDelay ELSE when - Wall

\* resetTimerfd: timerfd_settime with a delay of 0 disarms.
Armed(when) == IF HowMuch(when) = 0 THEN None ELSE mono + HowMuch(when)

FirstOf(S, exp) == Min({exp[t] : t \in S})

-----------------------------------------------------------------------------
(* Adding a timer. *)

NewFirst_ReplacesOnly(S, exp, t) == S # {} /\ exp[t] < FirstOf(S, exp)

\* What insert returns.
NewFirst(S, exp, t) == S = {} \/ exp[t] < FirstOf(S, exp)

addTimerInLoop(t, exp) ==
    /\ m_timerSet' = m_timerSet \cup {t}
    /\ deadline' = IF NewFirst(m_timerSet, exp, t) THEN Armed(exp[t]) ELSE deadline

NewTimer(t, when, interval) ==
    /\ pc # "gone" /\ t \notin Known
    /\ m_expiration' = [m_expiration EXCEPT ![t] = when]
    /\ first' = [first EXCEPT ![t] = when]
    /\ m_interval' = [m_interval EXCEPT ![t] = interval]
    /\ UNCHANGED <<runs, deleted>>

\* addTime: an interval below one tick adds nothing.
TicksOf(interval) == interval \div Unit

\* runAt (runAfter calls it with a time of its own) and runEvery
runAt(t) == \E when \in Whens : NewTimer(t, when, 0)
runEvery(t) == \E i \in Intervals : NewTimer(t, Wall + TicksOf(i), i)

\* On the loop thread runInLoop calls addTimerInLoop: in the callback of a timer,
\* or in that of another channel, maybe one that comes before the timer's.
AddOnLoopThread(t) ==
    /\ pc = "running" => ran # {}
    /\ runAt(t) \/ runEvery(t)
    /\ addTimerInLoop(t, m_expiration')
    /\ UNCHANGED <<clock, functors, batch, pc>>

AddFromOtherThread(t) ==
    /\ runAt(t) \/ runEvery(t)
    /\ functors' = Append(functors, t)
    /\ UNCHANGED <<clock, deadline, m_timerSet, batch, pc>>

RunFunctor ==
    /\ pc = "idle" /\ functors # <<>>
    /\ addTimerInLoop(Head(functors), m_expiration)
    /\ functors' = Tail(functors)
    /\ UNCHANGED <<clock, timers, deleted, batch, pc>>

-----------------------------------------------------------------------------
(* TimerQueue::handleRead. *)

\* epoll_wait reports the timerfd; it is handled after the channels before it.
Poll ==
    /\ pc = "idle" /\ Readable
    /\ pc' = "polled"
    /\ UNCHANGED <<clock, deadline, functors, m_timerSet, timers, deleted, batch>>

Due_TickTooSoon(t) == m_expiration[t] <= Wall + 1

\* lower_bound of <<now, UINTPTR_MAX>>
Due(t) == m_expiration[t] <= Wall

\* read() and getExpired.  The read fails if a handler armed the timerfd anew
\* after epoll_wait; handleRead goes on all the same.
HandleRead ==
    /\ pc = "polled"
    /\ deadline' = IF Readable THEN None ELSE deadline
    /\ expired' = {t \in m_timerSet : Due(t)}
    /\ m_timerSet' = m_timerSet \ expired'
    /\ pc' = "running"
    /\ UNCHANGED <<clock, functors, timers, deleted, ran>>

\* The callback of the next expired timer is called.
RunTimer(t) ==
    /\ pc = "running"
    /\ t \in expired \ ran
    /\ \A u \in expired \ ran : m_expiration[t] <= m_expiration[u]
    /\ runs' = [runs EXCEPT ![t] = @ + 1]
    /\ ran' = ran \cup {t}
    /\ UNCHANGED <<clock, deadline, functors, m_timerSet, m_expiration, m_interval, first,
                   deleted, expired, pc>>

Restarted_FromNow(t) == Wall + TicksOf(m_interval[t])
Restarted(t) == m_expiration[t] + TicksOf(m_interval[t])

Repeats(t) == m_interval[t] > 0

\* delete of these timers
Deletes(S) == [t \in Timers |-> IF t \in S THEN deleted[t] + 1 ELSE deleted[t]]

\* resetTimerList: a timer without an interval is deleted.
ResetTimerList ==
    LET again == {t \in expired : Repeats(t)} IN
    /\ pc = "running" /\ ran = expired
    /\ m_expiration' = [t \in Timers |-> IF t \in again THEN Restarted(t) ELSE m_expiration[t]]
    /\ m_timerSet' = m_timerSet \cup again
    /\ deleted' = Deletes(expired \ again)
    /\ deadline' = IF m_timerSet' # {} /\ FirstOf(m_timerSet', m_expiration') > 0
                     THEN Armed(FirstOf(m_timerSet', m_expiration'))
                     ELSE deadline
    /\ expired' = {} /\ ran' = {}
    /\ pc' = "idle"
    /\ UNCHANGED <<clock, functors, m_interval, first, runs>>

\* ~TimerQueue, in ~EventLoop, once loop() has returned: the waiting timers are
\* deleted, those of functors that will not run are not.
Destroy ==
    /\ pc = "idle"
    /\ pc' = "gone"
    /\ deadline' = None
    /\ m_timerSet' = {}
    /\ deleted' = Deletes(m_timerSet)
    /\ UNCHANGED <<clock, functors, timers, batch>>

-----------------------------------------------------------------------------
(* The clocks. *)

\* The clock of the model stops at MaxTime, but not before the timerfd is
\* readable if a timer waits that has not run yet.
Tick ==
    /\ \/ mono < MaxTime
       \/ deadline # None /\ ~Readable /\ \E t \in m_timerSet : runs[t] = 0
    /\ mono' = mono + 1
    /\ latest' = IF Wall + 1 > latest THEN Wall + 1 ELSE latest
    /\ UNCHANGED <<offset, steps, forward, deadline, functors, m_timerSet, timers, deleted, batch,
                   pc>>

SetClock(d) ==
    /\ steps < MaxSteps
    /\ steps' = steps + 1
    /\ offset' = offset + d
    /\ forward' = forward + (IF d > 0 THEN d ELSE 0)
    /\ latest' = IF Wall + d > latest THEN Wall + d ELSE latest
    /\ UNCHANGED <<mono, deadline, functors, m_timerSet, timers, deleted, batch, pc>>

-----------------------------------------------------------------------------
LoopStep == RunFunctor \/ Poll \/ HandleRead \/ ResetTimerList \/ \E t \in Timers : RunTimer(t)

Next == \/ LoopStep
        \/ \E t \in Timers : AddOnLoopThread(t) \/ AddFromOtherThread(t)
        \/ Destroy
        \/ Tick
        \/ \E d \in ClockSteps : SetClock(d)

Spec == Init /\ [][Next]_vars

\* Time goes on, and the loop goes on: epoll_wait returns when a descriptor is
\* readable, and callbacks return.
FairSpec == Spec /\ WF_vars(Tick) /\ WF_vars(LoopStep)

-----------------------------------------------------------------------------
(* Properties. *)

\* While handleRead does not run, the timerfd is armed for the first of the
\* waiting timers: late by no more than the minimal delay and the time the wall
\* clock was set forward, whoever added timers in between, in whatever order.
NotLate ==
    pc # "running" /\ m_timerSet # {} =>
        /\ deadline # None
        /\ deadline <= MinDelay + forward
                       + Max({mono, FirstOf(m_timerSet, m_expiration) - offset})

\* The n-th run of a timer is not before its n-th expiration was shown by the
\* wall clock, also if the clock was set back since.
NeverEarly ==
    \A t \in Timers : runs[t] > 0 => first[t] + (runs[t] - 1) * TicksOf(m_interval[t]) <= latest

\* The runs that m_expiration counts: that of a timer in the batch, once it is restarted.
Counted(t) == IF t \in ran THEN runs[t] - 1 ELSE runs[t]
Waits(t) == t \in m_timerSet \cup expired

\* A timer is in one place (functor queue, m_timerSet, batch) or it was deleted,
\* once: without an interval after one run, or with the TimerQueue.  Its expiration
\* counts every run it had, so that a loop that is late catches up and never skips one.
Accounted ==
    \A t \in Known :
        /\ t \notin m_timerSet \cap expired
        /\ t \in Queued => ~Waits(t) /\ runs[t] = 0
        /\ deleted[t] = IF Waits(t) \/ t \in Queued THEN 0 ELSE 1
        /\ Waits(t) => /\ m_expiration[t] = first[t] + Counted(t) * TicksOf(m_interval[t])
                       /\ m_interval[t] = 0 => Counted(t) = 0
        /\ deleted[t] = 1 /\ pc # "gone" => m_interval[t] = 0 /\ runs[t] = 1

\* Every timer that was added runs while the loop lives, whoever else adds timers while the loop is
\* between epoll_wait and handleRead, and however the wall clock is set.
EveryTimerRuns == \A t \in Timers : t \in Known ~> runs[t] > 0 \/ pc = "gone"

-----------------------------------------------------------------------------
(* What makes them inductive.                                                *)

\* The wall clock never shows a time before its epoch.
ClockBound == /\ MaxSteps * offset + Boot * steps >= Boot * MaxSteps
              /\ steps = 0 => offset = Boot
              /\ mono > 0
              /\ Wall <= latest

\* A Timer that was not made yet, one that is in the functor queue, and any.
TimerStates ==
    /\ \A t \in Timers \ Known : runs[t] = 0 /\ deleted[t] = 0
    /\ \A t \in Queued : m_expiration[t] = first[t]
    /\ \A t \in Known : m_expiration[t] \in Nat /\ (Repeats(t) => m_expiration[t] > 0)

\* A functor is there once; the batch is that of a handleRead that still runs.
Places == /\ m_timerSet \cup Queued \subseteq Known
          /\ \A i, j \in DOMAIN functors : functors[i] = functors[j] => i = j
          /\ pc # "running" => expired = {}

\* What is in a batch was due, whatever the wall clock shows now.
ExpiredDue == \A t \in expired : m_expiration[t] <= latest

\* The timerfd is in time for a timer that expires at time e.
ArmedFor(e) == /\ deadline # None
               /\ deadline <= MinDelay + forward + Max({mono, e - offset})

\* While handleRead runs, resetTimerList is still to come; but it leaves the
\* timerfd alone if the first expiration is 0, for which addTimerInLoop armed it.
Watched ==
    \A t \in m_timerSet :
        (\A u \in m_timerSet : m_expiration[t] <= m_expiration[u])
        /\ (pc = "running" => m_expiration[t] = 0) => ArmedFor(m_expiration[t])

IInv == TypeOK /\ ClockBound /\ TimerStates /\ Places /\ Accounted /\ ExpiredDue /\ NeverEarly
        /\ Watched

=============================================================================
