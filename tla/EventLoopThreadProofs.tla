------------------------- MODULE EventLoopThreadProofs -------------------------
(* Proofs about EventLoopThread, on those about the EventLoop inside it: for   *)
(* any set of callers, functors and channels.                                 *)
EXTENDS EventLoopThread, EventLoopProofs

\* The small operators of the actions are expanded in every proof.
USE DEF WaitPredicate, LoopReturned, Unpublished, QuitOnEntry, AfterPoll, Taken, Left, Rest

-----------------------------------------------------------------------------
(* The loop inside the thread. *)

\* A call on the loop object when it is gone: what it does to waking[t] is all
\* that the model keeps.
DeadCall == /\ loopPc = "done"
            /\ waking' \in [Threads -> BOOLEAN]
            /\ waking'[LoopThread] = waking[LoopThread]
            /\ UNCHANGED <<loopPc, quit, calling, eventfd, active, queueState>>

\* Every step of the composition is a step of EventLoop, leaves the loop alone,
\* or comes when its loop() has long returned.
LEMMA StepOfLoop == ASSUME TInv, TNext PROVE [Next]_vars \/ DeadCall
<1>1. /\ IInv /\ TypeOK /\ LoopThread \in Threads /\ Owner \in Threads /\ Owner # LoopThread
      /\ ~Alive => loopPc = "done"
      /\ \A t \in Callers : t \in Threads /\ t # LoopThread
  BY OwnerAssumption, LoopThreadAssumption DEF TInv, IInv, InStep, Threads, Alive
<1>2. CASE ThreadStep \/ LoopPolls \/ LoopTimesOut
  BY <1>2 DEF ThreadStep, Publish, LoopRuns, Unpublish, DestroyLoop, LoopPolls, LoopTimesOut,
     Next
<1>3. CASE StartLoop \/ WaitReturns \/ StartLoopReturns \/ Joined \/ Destructor
  BY <1>3 DEF StartLoop, WaitReturns, StartLoopReturns, Joined, Destructor
<1>4. CASE OwnCalls \/ OwnQuit \/ OwnWakes
  BY <1>4 DEF OwnCalls, OwnQuit, OwnWakes, Next, Calls, Threads
<1>5. ASSUME NEW t \in Callers, Uses(t) PROVE [Next]_vars
  BY <1>1, <1>5 DEF Uses, Next, Calls
<1>6. ASSUME NEW t \in Callers, UseWakes(t) PROVE Next \/ DeadCall
  <2>1. CASE Alive
    BY <1>1, <1>6, <2>1 DEF UseWakes, Next
  <2>2. CASE ~Alive
    <3>1. waking' = [waking EXCEPT ![t] = FALSE]
      BY <1>6, <2>2 DEF UseWakes
    <3>2. waking' \in [Threads -> BOOLEAN] /\ waking'[LoopThread] = waking[LoopThread]
      BY <1>1, <3>1 DEF TypeOK
    <3> QED
      BY <1>1, <1>6, <2>2, <3>2 DEF UseWakes, DeadCall
  <2> QED
    BY <2>1, <2>2
<1>7. CASE DestructorQuits
  <2>1. CASE Alive
    BY <1>1, <1>7, <2>1 DEF DestructorQuits, Next, Calls
  <2>2. CASE ~Alive
    <3>1. waking' = [waking EXCEPT ![Owner] = TRUE]
      BY <1>7, <2>2 DEF DestructorQuits
    <3>2. waking' \in [Threads -> BOOLEAN] /\ waking'[LoopThread] = waking[LoopThread]
      BY <1>1, <3>1 DEF TypeOK
    <3> QED
      BY <1>1, <1>7, <2>2, <3>2 DEF DestructorQuits, DeadCall
  <2> QED
    BY <2>1, <2>2
<1> QED
  BY <1>2, <1>3, <1>4, <1>5, <1>6, <1>7 DEF TNext, OwnerStep

LEMMA DeadCallKeepsIInv == ASSUME IInv, DeadCall PROVE IInv'
BY DEF DeadCall, IInv, TypeOK, WakeupDue, WakeupCovered, NoLostQuit, OwnWakeup, BatchInRun,
   HandedOver, queueState

LEMMA StepKeepsIInv == ASSUME TInv, [TNext]_allVars PROVE IInv'
<1>1. CASE TNext
  BY <1>1, StepOfLoop, DeadCallKeepsIInv, NextIInv DEF TInv
<1>2. CASE UNCHANGED allVars
  BY <1>2, NextIInv DEF TInv, allVars
<1> QED
  BY <1>1, <1>2

-----------------------------------------------------------------------------
(* The inductive invariant. *)

LEMMA InitTInv == TInit => TInv
<1> SUFFICES ASSUME TInit PROVE TInv
  OBVIOUS
<1>1. IInv
  BY InitIInv DEF TInit
<1>2. TTypeOK
  BY <1>1 DEF TInit, TTypeOK, IInv, Init
<1>3. Untouched
  BY RangeEmpty DEF TInit, Untouched, Init
<1> QED
  BY <1>1, <1>2, <1>3, OwnerAssumption
     DEF TInit, Init, TInv, InStep, QuitAuthor, LastCalls, RacesNeedUserQuit, Threads

\* startLoop() and threadFunc() do not touch the loop.
LEMMA StartKeepsTInv ==
    ASSUME TInv, IInv',
           StartLoop \/ Publish \/ WaitReturns \/ StartLoopReturns \/ Unpublish \/ DestroyLoop
    PROVE  TInv'
<1>1. /\ UNCHANGED <<vars, loopPc, quit, active, userQuit, stale>> /\ TypeOK'
      /\ Range(pending)' = Range(pending) /\ Range(functors)' = Range(functors)
      /\ \A t \in Threads : waking'[t] = waking[t]
  BY DEF StartLoop, Publish, WaitReturns, StartLoopReturns, Unpublish, DestroyLoop, IInv,
     vars, queueState
<1>2. \/ /\ ownerPc = "new" /\ ownerPc' = "waiting" /\ threadPc' = "construct"
         /\ UNCHANGED <<m_loop, returned>>
      \/ /\ threadPc = "construct" /\ threadPc' = "loop" /\ m_loop'
         /\ UNCHANGED <<ownerPc, returned>>
      \/ /\ ownerPc = "waiting" /\ m_loop /\ ownerPc' = "notified"
         /\ UNCHANGED <<threadPc, m_loop, returned>>
      \/ /\ ownerPc = "notified" /\ ownerPc' = "owning" /\ returned' = m_loop
         /\ UNCHANGED <<threadPc, m_loop>>
      \/ /\ threadPc = "loop" /\ loopPc = "done" /\ threadPc' = "destroy" /\ m_loop' = FALSE
         /\ UNCHANGED <<ownerPc, returned>>
      \/ /\ threadPc = "destroy" /\ threadPc' = "dead"
         /\ UNCHANGED <<ownerPc, m_loop, returned>>
  BY DEF StartLoop, Publish, WaitReturns, StartLoopReturns, Unpublish, DestroyLoop
<1>3. TTypeOK'
  <2>1. TTypeOK /\ InStep
    BY DEF TInv
  <2>2. /\ ownerPc' \in {"new", "waiting", "notified", "owning", "quitting", "waking",
                          "joining", "gone", "crashed"}
        /\ threadPc' \in {"none", "construct", "loop", "destroy", "dead"}
    BY <1>2, <2>1 DEF TTypeOK
  <2>3. m_loop' \in BOOLEAN /\ returned' \in BOOLEAN
    BY <1>2, <2>1 DEF TTypeOK
  <2>4. /\ m_loop' => threadPc' = "loop"
        /\ loopPc' # "start" => threadPc' \in {"loop", "destroy", "dead"}
    BY <1>1, <1>2, <2>1 DEF TTypeOK, InStep
  <2> QED
    BY <1>1, <2>1, <2>2, <2>3, <2>4 DEF TTypeOK
<1>4. InStep'
  BY <1>1, <1>2 DEF TInv, InStep, TTypeOK, QuitAuthor, Untouched
<1>5. Untouched'
  BY <1>1, <1>2 DEF TInv, Untouched
<1>6. QuitAuthor' /\ LastCalls'
  <2>1. QuitAuthor /\ LastCalls /\ Callers \subseteq Threads /\ Owner \in Threads
    BY OwnerAssumption DEF TInv, Threads
  <2>2. /\ ownerPc' \in {"waking", "joining", "gone"} <=> ownerPc \in {"waking", "joining", "gone"}
        /\ ownerPc' = "waking" <=> ownerPc = "waking"
        /\ ownerPc = "owning" => ownerPc' = "owning"
    BY <1>2
  <2>3. QuitAuthor'
    BY <1>1, <2>1, <2>2 DEF QuitAuthor
  <2>4. LastCalls'
    BY <1>1, <2>1, <2>2 DEF LastCalls
  <2> QED
    BY <2>3, <2>4
<1>7. RacesNeedUserQuit'
  BY <1>1, <1>2 DEF TInv, RacesNeedUserQuit
<1> QED
  BY <1>3, <1>4, <1>5, <1>6, <1>7 DEF TInv

\* The turns of loop() and epoll_wait.  Before the pointer is out there is nothing
\* to run, and only the wakeup channel to report.
LEMMA LoopKeepsTInv ==
    ASSUME TInv, IInv', LoopRuns \/ LoopPolls \/ LoopTimesOut
    PROVE  TInv'
<1>1. /\ UNCHANGED threadVars /\ threadPc = "loop" /\ waking' = waking /\ quit' = quit
      /\ TypeOK /\ TypeOK'
  BY DEF LoopRuns, LoopPolls, LoopTimesOut, LoopStep, EnterLoop, CheckQuit, HandleWakeUpRead,
     HandleUserEvent, SwapPending, FunctorReturns, EndPending, PollReady, PollTimeout, Poll,
     TInv, IInv
<1>2. loopPc' = "done" => quit
  BY DEF LoopRuns, LoopPolls, LoopTimesOut, LoopStep, EnterLoop, CheckQuit, HandleWakeUpRead,
     HandleUserEvent, SwapPending, FunctorReturns, EndPending, PollReady, PollTimeout, Poll,
     TInv, QuitAuthor
<1>3. Untouched'
  <2> SUFFICES ASSUME ownerPc \in {"new", "waiting", "notified"}
               PROVE  /\ Range(pending') = {} /\ Range(functors') = {}
                      /\ active' \subseteq {WakeupChannel}
    BY <1>1 DEF TInv, Untouched, threadVars
  <2>1. /\ ~returned /\ Range(pending) = {} /\ Range(functors) = {}
        /\ active \subseteq {WakeupChannel}
    BY DEF TInv, Untouched
  <2>2. ~FunctorReturns
    BY <1>1, <2>1, RangeTail DEF FunctorReturns, TypeOK
  <2> QED
    BY <2>1, <2>2, RangeEmpty
       DEF LoopRuns, LoopPolls, LoopTimesOut, LoopStep, EnterLoop, CheckQuit,
           HandleWakeUpRead, HandleUserEvent, SwapPending, EndPending, PollReady, PollTimeout,
           Poll, queueState
<1> QED
  BY <1>1, <1>2, <1>3 DEF TInv, TTypeOK, InStep, QuitAuthor, LastCalls, RacesNeedUserQuit,
     threadVars

\* User code on the loop thread runs only once the pointer was handed out.
LEMMA OwnKeepsTInv ==
    ASSUME TInv, IInv', OwnCalls \/ OwnQuit \/ OwnWakes
    PROVE  TInv'
<1>1. /\ UNCHANGED <<ownerPc, threadPc, m_loop, returned, stale>> /\ loopPc' = loopPc
      /\ TypeOK /\ TypeOK' /\ quit' = (quit \/ OwnQuit) /\ userQuit' = (userQuit \/ OwnQuit)
  BY DEF OwnCalls, OwnQuit, OwnWakes, QueueInLoop, RunInLoop, Quit, Wakeup, queueState,
     threadVars, TInv, IInv, TypeOK, TTypeOK
<1>2. \A t \in Callers : waking'[t] = waking[t]
  BY <1>1, LoopThreadAssumption DEF OwnCalls, OwnQuit, OwnWakes, QueueInLoop,
     RunInLoop, Quit, Wakeup, TypeOK, Threads
<1>3. ownerPc \notin {"new", "waiting", "notified"}
  <2> SUFFICES ASSUME ownerPc \in {"new", "waiting", "notified"} PROVE FALSE
    OBVIOUS
  <2>1. Range(functors) = {} /\ active \cap UserChannels = {} /\ ~waking[LoopThread]
    BY WakeupChannelAssumption DEF TInv, Untouched, Threads
  <2>2. functors = << >>
    BY <1>1, <2>1, RangeTail DEF TypeOK
  <2> QED
    BY <2>1, <2>2 DEF OwnCalls, OwnQuit, OwnWakes, QueueInLoop, RunInLoop, Quit, Wakeup,
       MayCall, InUserCode
<1>4. Untouched'
  BY <1>1, <1>3 DEF Untouched
<1> QED
  BY <1>1, <1>2, <1>4, OwnerAssumption DEF TInv, TTypeOK, InStep, QuitAuthor, LastCalls,
     RacesNeedUserQuit

\* The callers: a loop that is gone was quit by one of them or by user code, as
\* the destructor has not begun, and nobody but the owner is in a call after that.
LEMMA CallersKeepTInv ==
    ASSUME TInv, IInv', NEW t \in Callers, Uses(t) \/ UseWakes(t)
    PROVE  TInv'
<1>1. /\ UNCHANGED <<threadPc, m_loop, returned, loopPc, functors, active>>
      /\ userQuit => userQuit'
  BY DEF Uses, UseWakes, QueueInLoop, Quit, Wakeup, queueState, threadVars, vars
<1>2. TypeOK /\ TypeOK' /\ t \in Threads /\ Owner \in Threads /\ \A u \in Callers : u \in Threads
  BY OwnerAssumption DEF TInv, IInv, Threads
<1>3. CASE Uses(t)
  <2>1. ownerPc = "owning" /\ ownerPc' = "owning"
    BY <1>3 DEF Uses, threadVars
  <2>2. (quit' = quit) \/ userQuit'
    BY <1>3 DEF Uses, QueueInLoop, Quit, vars
  <2>3. quit' => userQuit'
    BY <1>1, <1>2, <2>1, <2>2 DEF TInv, QuitAuthor
  <2>4. quit => quit'
    BY <1>3 DEF Uses, QueueInLoop, Quit, vars
  <2>5. stale' # {} => userQuit'
    <3>1. ~Alive => userQuit
      BY <2>1 DEF TInv, InStep, QuitAuthor, Alive
    <3>2. stale # {} => userQuit
      BY <2>1 DEF TInv, RacesNeedUserQuit
    <3> QED
      BY <1>1, <1>3, <3>1, <3>2 DEF Uses, threadVars
  <2>6. stale' \subseteq Threads /\ userQuit' \in BOOLEAN
    BY <1>2, <1>3 DEF Uses, threadVars, TInv, TTypeOK
  <2>7. loopPc = "done" => quit'
    BY <2>4 DEF TInv, QuitAuthor
  <2> QED
    BY <1>1, <1>2, <2>1, <2>3, <2>5, <2>6, <2>7
       DEF TInv, TTypeOK, InStep, Untouched, QuitAuthor, LastCalls, RacesNeedUserQuit
<1>4. CASE UseWakes(t)
  <2>1. waking[t] /\ waking' = [waking EXCEPT ![t] = FALSE]
    BY <1>4 DEF UseWakes, Wakeup
  <2>2. ownerPc = "owning" \/ (t = Owner /\ ownerPc = "waking")
    BY <2>1 DEF TInv, LastCalls
  <2>3. /\ ownerPc = "owning" => ownerPc' = "owning"
        /\ ownerPc = "waking" => ownerPc' = "joining"
        /\ quit' = quit /\ userQuit' = userQuit
    BY <1>4, <2>2 DEF UseWakes, Wakeup, queueState
  <2>4. stale' \in {stale, stale \cup {t}} /\ (stale' # stale => ~Alive)
    BY <1>4 DEF UseWakes
  <2>5. ~userQuit => stale' = {} \/ (stale' = {Owner} /\ ownerPc' = "joining")
    BY <2>2, <2>3, <2>4 DEF TInv, InStep, QuitAuthor, RacesNeedUserQuit, Alive
  <2>6. LastCalls'
    BY <1>1, <1>2, <2>1, <2>2, <2>3 DEF TInv, LastCalls, TypeOK
  <2> QED
    BY <1>1, <1>2, <2>2, <2>3, <2>4, <2>5, <2>6
       DEF TInv, TTypeOK, InStep, Untouched, QuitAuthor, RacesNeedUserQuit
<1> QED
  BY <1>3, <1>4

\* The destructor: nobody else is in a call when it begins, so what it finds on
\* its way is its own doing unless user code quit the loop.
LEMMA DestructorKeepsTInv ==
    ASSUME TInv, IInv', Destructor \/ DestructorQuits \/ Joined
    PROVE  TInv'
<1>1. /\ UNCHANGED <<threadPc, m_loop, returned, loopPc, functors, active, userQuit, pending>>
      /\ TypeOK /\ TypeOK' /\ Owner \in Threads /\ \A u \in Callers : u \in Threads
  BY OwnerAssumption DEF Destructor, DestructorQuits, Joined, Quit, queueState, vars,
     TInv, IInv, Threads
<1>2. CASE Destructor
  <2>1. /\ UNCHANGED <<quit, waking, stale>> /\ \A t \in Callers : ~waking[t]
        /\ ownerPc = "owning" /\ ownerPc' = IF m_loop THEN "quitting" ELSE "crashed"
    BY <1>2 DEF Destructor, vars
  <2>2. ~userQuit => m_loop /\ stale = {}
    BY <2>1 DEF TInv, TTypeOK, InStep, QuitAuthor, RacesNeedUserQuit
  <2> QED
    BY <1>1, <2>1, <2>2
       DEF TInv, TTypeOK, InStep, Untouched, QuitAuthor, LastCalls, RacesNeedUserQuit
<1>3. CASE DestructorQuits
  <2>1. /\ ownerPc = "quitting" /\ ownerPc' = IF waking'[Owner] THEN "waking" ELSE "joining"
        /\ \A t \in Callers : ~waking[t]
    BY <1>3 DEF DestructorQuits, TInv, LastCalls
  <2>2. \A t \in Callers : t # Owner => ~waking'[t]
    BY <1>1, <1>3, <2>1 DEF DestructorQuits, Quit, TypeOK
  <2>3. ~userQuit => stale' = {}
    BY <1>3, <2>1 DEF DestructorQuits, TInv, InStep, QuitAuthor, RacesNeedUserQuit, Alive
  <2>4. /\ stale' \subseteq Threads /\ waking'[Owner] \in BOOLEAN
        /\ loopPc = "done" => quit'
    BY <1>1, <1>3 DEF DestructorQuits, Quit, TInv, TTypeOK, QuitAuthor, TypeOK
  <2> QED
    BY <1>1, <2>1, <2>2, <2>3, <2>4
       DEF TInv, TTypeOK, InStep, Untouched, QuitAuthor, LastCalls, RacesNeedUserQuit
<1>4. CASE Joined
  <2>1. UNCHANGED <<quit, waking, stale>> /\ ownerPc = "joining" /\ ownerPc' = "gone"
    BY <1>4 DEF Joined, vars
  <2> QED
    BY <1>1, <2>1
       DEF TInv, TTypeOK, InStep, Untouched, QuitAuthor, LastCalls, RacesNeedUserQuit
<1> QED
  BY <1>2, <1>3, <1>4

LEMMA NextTInv == TInv /\ [TNext]_allVars => TInv'
<1> SUFFICES ASSUME TInv, [TNext]_allVars PROVE TInv'
  OBVIOUS
<1>1. IInv'
  BY StepKeepsIInv
<1>2. CASE TNext
  BY <1>1, <1>2, StartKeepsTInv, LoopKeepsTInv, OwnKeepsTInv, CallersKeepTInv, DestructorKeepsTInv
     DEF TNext, ThreadStep, OwnerStep
<1>3. CASE UNCHANGED allVars
  BY <1>1, <1>3 DEF allVars, threadVars, vars, queueState, TInv, TTypeOK, TypeOK, InStep,
     Untouched, QuitAuthor, LastCalls, RacesNeedUserQuit, IInv
<1> QED
  BY <1>2, <1>3

LEMMA TInvariant == TSpec => []TInv
BY InitTInv, NextTInv, PTL DEF TSpec

-----------------------------------------------------------------------------
\* The pieces of an EventLoopThread have their types, and m_loop is not null only
\* while its loop runs or is about to.
THEOREM ThreadTypeCorrect == TSpec => []TTypeOK
BY TInvariant, PTL DEF TInv

\* startLoop() returns the loop, though it reads m_loop after it let the mutex go:
\* nobody could have quit the loop before.
THEOREM StartLoopIsSafe == TSpec => []StartLoopReturnsLoop
<1>1. TInv => StartLoopReturnsLoop
  BY DEF TInv, InStep, StartLoopReturnsLoop
<1> QED
  BY <1>1, TInvariant, PTL

\* Unless a user quits the loop, ~EventLoopThread finds m_loop, and only the wakeup
\* of its own quit() may come after the end of the loop object.
THEOREM DestructorRaces == TSpec => []RacesNeedUserQuit
BY TInvariant, PTL DEF TInv

\* The loop loses no wakeup and no quit inside its thread either, with the calls
\* that come after its end.
THEOREM ThreadLoopWakes == TSpec => [](NoLostWakeup /\ NoLostQuit)
<1>1. TInv => NoLostWakeup /\ NoLostQuit
  BY DEF TInv, IInv, WakeupCovered, NoLostWakeup
<1> QED
  BY <1>1, TInvariant, PTL

\* The thread around the loop keeps the promise of FunctorQueue: what is done to a
\* loop that is gone leaves the queue alone.
THEOREM ThreadLoopImplementsQueue == TSpec => QueueSpec
<1>1. TInit => Queue!Init
  BY ConcatEmptySeq, EmptySeq DEF TInit, Init, Queue!Init
<1>2. TInv /\ [TNext]_allVars => [Queue!Next]_Queue!queueVars
  <2> SUFFICES ASSUME TInv, [TNext]_allVars PROVE [Queue!Next]_Queue!queueVars
    OBVIOUS
  <2>1. CASE [Next]_vars
    BY <2>1, NextRefines DEF TInv
  <2>2. CASE DeadCall
    BY <2>2 DEF DeadCall, queueState, Queue!queueVars
  <2>3. CASE UNCHANGED allVars
    BY <2>3 DEF allVars, vars, queueState, Queue!queueVars
  <2> QED
    BY <2>1, <2>2, <2>3, StepOfLoop
<1> QED
  BY <1>1, <1>2, TInvariant, PTL DEF TSpec, QueueSpec, Queue!Spec

=============================================================================
