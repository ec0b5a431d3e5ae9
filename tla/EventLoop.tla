------------------------------ MODULE EventLoop ------------------------------
(***************************************************************************)
(* One EventLoop (EventLoop.cpp, EventLoop.h): the thread that runs loop()  *)
(* and the threads that hand it work through runInLoop, queueInLoop and    *)
(* quit.  The loop sleeps in epoll_wait, so work handed over by another    *)
(* thread is followed by a write to the eventfd behind m_wakeUpChannel.    *)
(* The functor vector and the eventfd are two pieces of shared state that  *)
(* are written in two steps: the push (or the store to m_quit) and the     *)
(* wakeup are separate actions here, and anything may happen in between.   *)
(*                                                                         *)
(* eventfd is a BOOLEAN: handleWakeUpRead reads the counter, which resets  *)
(* it to zero, and only logs the value.  A channel other than the wakeup   *)
(* channel stands for a timer, a listening socket or a connection; its     *)
(* callback is user code that may call back into the loop.                 *)
(*                                                                         *)
(* A definition X_Suffix is X with a bug of the named kind; no definition   *)
(* uses it.  PROJECT.json pairs it with the property that it breaks.       *)
(***************************************************************************)
EXTENDS Sequences, Functions

CONSTANTS LoopThread,       \* m_tid, the thread that constructed the loop
          Callers,          \* the other threads that hold a pointer to it
          Functors,         \* function objects, each handed over once
          UserChannels,     \* channels registered besides m_wakeUpChannel
          WakeupChannel     \* m_wakeUpChannel

ASSUME LoopThreadAssumption == LoopThread \notin Callers
ASSUME WakeupChannelAssumption == WakeupChannel \notin UserChannels

Threads  == Callers \cup {LoopThread}
Channels == UserChannels \cup {WakeupChannel}

VARIABLES
    loopPc,     \* where the loop thread is in loop()
    quit,       \* m_quit
    pending,    \* m_doPendingFuncVec, under m_pendFuncVecMutex
    functors,   \* the local vector of doPendingFunctor, the head is running
    calling,    \* m_callingPendingFunctors
    eventfd,    \* the counter behind m_wakeUpFd is not zero
    active,     \* m_activeChannels that handleEvent was not yet called for
    waking,     \* waking[t]: t owes the wakeup() at the end of its call
    submitted,  \* history: functors handed over so far
    executed,   \* history: functors in the order in which they returned
    early       \* history: queued by the loop thread before loop()

queueState == <<pending, functors, submitted, executed, early>>
vars == <<loopPc, quit, calling, eventfd, active, waking, queueState>>

\* m_callingPendingFunctors is up exactly while doPendingFunctor runs its batch.
TypeOK == /\ loopPc \in {"start", "check", "poll", "handle", "run", "done"}
          /\ quit \in BOOLEAN
          /\ pending \in Seq(Functors)
          /\ functors \in Seq(Functors)
          /\ calling = (loopPc = "run")
          /\ eventfd \in BOOLEAN
          /\ active \subseteq Channels
          /\ waking \in [Threads -> BOOLEAN]
          /\ submitted \subseteq Functors
          /\ executed \in Seq(Functors)
          /\ early \subseteq submitted

Init == /\ loopPc = "start"
        /\ quit = FALSE
        /\ pending = << >>
        /\ functors = << >>
        /\ calling = FALSE
        /\ eventfd = FALSE
        /\ active = {}
        /\ waking = [t \in Threads |-> FALSE]
        /\ submitted = {}
        /\ executed = << >>
        /\ early = {}

-----------------------------------------------------------------------------
(* Who may call into the loop, and who then has to wake it up. *)

\* User code runs on the loop thread before loop(), inside the callback of an
\* active channel and inside a pending functor; nowhere else.
InUserCode == \/ loopPc = "start"
              \/ loopPc = "handle" /\ active \cap UserChannels # {}
              \/ loopPc = "run" /\ functors # << >>

\* A thread that is between the push and the wakeup of one call makes no other.
MayCall(t) == /\ ~waking[t]
              /\ t = LoopThread => InUserCode

\* The loop thread's own control flow resumes when the call it made returned.
LoopResumes == ~waking[LoopThread]

NeedsWakeup_OtherThreadsOnly(t) == t # LoopThread
NeedsWakeup(t) == t # LoopThread \/ calling

QuitWakes_Never(t) == FALSE
QuitWakes(t) == t # LoopThread

\* loop() does not touch m_quit on entry: a quit() that came first stays in force.
QuitOnEntry_Reset == FALSE
QuitOnEntry == quit

\* A poll without channels still goes through the rest of the turn.
AfterPoll_Continues(ready) == IF ready = {} THEN "check" ELSE "handle"
AfterPoll(ready) == "handle"

\* The swap of doPendingFunctor: what the batch gets, what the vector keeps,
\* and what is left of the batch after one functor.
Taken_UnlessQuit == IF quit THEN << >> ELSE pending
Taken == pending
Left_All == pending
Left == << >>
Rest_DrainsVector == Tail(functors) \o pending
Rest == Tail(functors)

\* m_callingPendingFunctors once the batch is done.
FlagAfterBatch_Kept == calling
FlagAfterBatch == FALSE

-----------------------------------------------------------------------------
(* The entry points. *)

\* queueInLoop up to the wakeup: the push is atomic under the mutex.
QueueInLoop(t, f) ==
    /\ MayCall(t)
    /\ f \in Functors \ submitted
    /\ pending' = Append(pending, f)
    /\ submitted' = submitted \cup {f}
    /\ waking' = [waking EXCEPT ![t] = NeedsWakeup(t)]
    /\ early' = IF t = LoopThread /\ loopPc = "start" THEN early \cup {f} ELSE early
    /\ UNCHANGED <<loopPc, quit, functors, calling, eventfd, active, executed>>

\* runInLoop on the loop thread calls the functor; any other thread queues it,
\* which is QueueInLoop.
RunInLoop(f) ==
    /\ MayCall(LoopThread)
    /\ f \in Functors \ submitted
    /\ submitted' = submitted \cup {f}
    /\ executed' = Append(executed, f)
    /\ UNCHANGED <<loopPc, quit, pending, functors, calling, eventfd, active,
                   waking, early>>

\* quit up to the wakeup.
Quit(t) ==
    /\ MayCall(t)
    /\ quit' = TRUE
    /\ waking' = [waking EXCEPT ![t] = QuitWakes(t)]
    /\ UNCHANGED <<loopPc, calling, eventfd, active, queueState>>

\* wakeup: the write that ends queueInLoop and quit.
Wakeup(t) ==
    /\ waking[t]
    /\ waking' = [waking EXCEPT ![t] = FALSE]
    /\ eventfd' = TRUE
    /\ UNCHANGED <<loopPc, quit, calling, active, queueState>>

-----------------------------------------------------------------------------
(* loop(), on the loop thread. *)

\* The call of loop().
EnterLoop ==
    /\ loopPc = "start" /\ LoopResumes
    /\ loopPc' = "check"
    /\ quit' = QuitOnEntry
    /\ UNCHANGED <<calling, eventfd, active, waking, queueState>>

\* The test of the while statement, and m_activeChannels.clear().
CheckQuit ==
    /\ loopPc = "check"
    /\ loopPc' = IF quit THEN "done" ELSE "poll"
    /\ active' = {}
    /\ UNCHANGED <<quit, calling, eventfd, waking, queueState>>

\* epoll_wait returns with some of the channels that are ready.
Poll(ready) ==
    /\ loopPc = "poll"
    /\ WakeupChannel \in ready => eventfd
    /\ loopPc' = AfterPoll(ready)
    /\ active' = ready
    /\ UNCHANGED <<quit, calling, eventfd, waking, queueState>>

PollReady == \E ready \in SUBSET Channels \ {{}} : Poll(ready)

\* epoll_wait returns after 10 s, or with EINTR, and no channel.
PollTimeout == Poll({})

HandleWakeUpRead ==
    /\ loopPc = "handle" /\ LoopResumes
    /\ WakeupChannel \in active
    /\ active' = active \ {WakeupChannel}
    /\ eventfd' = FALSE
    /\ UNCHANGED <<loopPc, quit, calling, waking, queueState>>

\* The callbacks of a user channel return; what they called is above.
HandleUserEvent(c) ==
    /\ loopPc = "handle" /\ LoopResumes
    /\ c \in active
    /\ active' = active \ {c}
    /\ UNCHANGED <<loopPc, quit, calling, eventfd, waking, queueState>>

\* doPendingFunctor up to its for statement: the swap under the mutex.
SwapPending ==
    /\ loopPc = "handle" /\ LoopResumes
    /\ active = {}
    /\ loopPc' = "run"
    /\ functors' = Taken
    /\ pending' = Left
    /\ calling' = TRUE
    /\ UNCHANGED <<quit, eventfd, active, waking, submitted, executed, early>>

\* The functor at the head returns and the loop turns to the next one.
FunctorReturns ==
    /\ loopPc = "run" /\ LoopResumes
    /\ functors # << >>
    /\ executed' = Append(executed, Head(functors))
    /\ functors' = Rest
    /\ UNCHANGED <<loopPc, quit, calling, eventfd, active, waking, pending,
                   submitted, early>>

\* The rest of doPendingFunctor, back to the while statement.
EndPending ==
    /\ loopPc = "run"
    /\ functors = << >>
    /\ loopPc' = "check"
    /\ calling' = FlagAfterBatch
    /\ UNCHANGED <<quit, eventfd, active, waking, queueState>>

-----------------------------------------------------------------------------
Calls == \/ \E t \in Threads : \/ \E f \in Functors : QueueInLoop(t, f)
                               \/ Quit(t)
         \/ \E f \in Functors : RunInLoop(f)

LoopStep == \/ EnterLoop \/ CheckQuit
            \/ HandleWakeUpRead
            \/ \E c \in UserChannels : HandleUserEvent(c)
            \/ SwapPending \/ FunctorReturns \/ EndPending

Next == \/ Calls
        \/ \E t \in Threads : Wakeup(t)
        \/ LoopStep
        \/ PollReady
        \/ PollTimeout

Spec == Init /\ [][Next]_vars

\* The loop thread is scheduled, callbacks and functors return, a thread that
\* pushed or stored m_quit gets to its write, and epoll_wait returns when the
\* eventfd is readable.  User channels need never become ready, and nothing
\* is assumed of the 10 s timeout.
Fairness == /\ WF_vars(LoopStep)
            /\ WF_vars(eventfd /\ PollReady)
            /\ \A t \in Threads : WF_vars(Wakeup(t))

FairSpec == Spec /\ Fairness

\* Besides, an epoll_wait that reports nothing gives up after 10 s.
TimedSpec == FairSpec /\ WF_vars(PollTimeout)

-----------------------------------------------------------------------------
(* Properties. *)

\* The eventfd is readable, or a thread is about to make it so.
WakeupDue == eventfd \/ \E t \in Threads : waking[t]

\* No lost wakeup: the loop never sleeps in epoll_wait on a functor that was
\* queued once the loop runs, or by another thread, with no wakeup under way
\* (the push and the swap race; queueInLoop and doPendingFunctor).
NoLostWakeup == loopPc = "poll" /\ Range(pending) \ early # {} => WakeupDue

\* No lost quit: the loop never sleeps in epoll_wait after m_quit was stored
\* with no wakeup under way (the store races with the test in loop()).
NoLostQuit == loopPc = "poll" /\ quit => WakeupDue

\* What makes NoLostWakeup inductive: the duty to wake the loop arises at the
\* push and may only be discharged, by handleWakeUpRead, in a turn that still
\* has its swap ahead.  A functor that queues another may not rely on the swap
\* that was already made.
WakeupCovered == loopPc \in {"start", "check", "poll", "run"} /\ Range(pending) \ early # {}
                    => WakeupDue
OwnWakeup == waking[LoopThread] => functors # << >>
BatchInRun == functors # << >> => loopPc = "run"
HandedOver == Range(pending) \cup Range(functors) \cup Range(executed) \subseteq submitted

IInv == /\ TypeOK /\ WakeupCovered /\ NoLostQuit /\ OwnWakeup /\ BatchInRun
        /\ HandedOver

\* The loop implements the queue it promises: batches, races and nested calls
\* never drop, duplicate or reorder a functor.
Queue == INSTANCE FunctorQueue WITH queue <- functors \o pending, done <- executed
QueueSpec == Queue!Spec

\* doPendingFunctor runs the batch it took: a functor queued meanwhile waits
\* for the next turn, so a functor that queues another cannot keep the loop
\* from its channels.
BatchClosed == [][loopPc = "run" /\ loopPc' = "run" =>
                    Range(functors') \subseteq Range(functors)]_vars

Executed(f) == f \in Range(executed)
Waiting(f)  == f \in Range(pending) \ early

\* A functor queued by another thread or by a running loop is executed unless
\* quit() is called, even if no channel ever becomes ready and no timeout
\* rescues the loop.
QueuedFunctorRuns == \A f \in Functors : Waiting(f) ~> Executed(f) \/ quit

\* quit() racing with queueInLoop: what is in the vector when the loop is in
\* epoll_wait or in a callback is executed before loop() returns.
QuitKeepsCurrentTurn ==
    \A f \in Functors : Waiting(f) /\ loopPc \in {"poll", "handle"} ~> Executed(f)

\* loop() returns after quit(), also when quit() came before loop().
QuitReturns == quit ~> loopPc = "done"

\* With the 10 s timeout also the functors that the loop thread queued before
\* loop(), for which nobody writes the eventfd, are executed or quit() is called.
EarlyFunctorRuns == \A f \in Functors : f \in early ~> Executed(f) \/ quit

=============================================================================
