--------------------------- MODULE EventLoopThread ---------------------------
(***************************************************************************)
(* An EventLoopThread (EventLoopThread.cpp, .h) around the EventLoop that   *)
(* lives on the stack of its thread: startLoop() spawns the thread and      *)
(* waits for the pointer m_loop, which is handed out to the callers; the    *)
(* destructor quits the loop and joins the thread.  The loop object is      *)
(* gone when the thread returns from threadFunc, while the destructor may   *)
(* still be inside quit(): the lifetime of the object races with its use.   *)
(*                                                                         *)
(* Owner runs startLoop() and the destructor.  The other callers got the    *)
(* pointer from it; they make their last call before the destructor starts, *)
(* as users of any C++ object must.  The thread runs no user code before    *)
(* the pointer is known: m_threadInitCb is stored and never called.         *)
(***************************************************************************)
EXTENDS EventLoop

CONSTANT Owner
ASSUME OwnerAssumption == Owner \in Callers

VARIABLES
    ownerPc,    \* the owner, in startLoop() or in ~EventLoopThread()
    threadPc,   \* the thread, in threadFunc()
    m_loop,     \* m_loop is not null
    returned,   \* startLoop() returned a pointer that is not null
    userQuit,   \* history: quit() was called by other than the destructor
    stale       \* history: threads that used the loop object once destroyed

threadVars == <<ownerPc, threadPc, m_loop, returned, userQuit, stale>>
allVars == <<vars, threadVars>>

TTypeOK == /\ TypeOK
           /\ ownerPc \in {"new", "waiting", "notified", "owning", "quitting",
                           "waking", "joining", "gone", "crashed"}
           /\ threadPc \in {"none", "construct", "loop", "destroy", "dead"}
           /\ m_loop \in BOOLEAN
           /\ returned \in BOOLEAN
           /\ userQuit \in BOOLEAN
           /\ stale \subseteq Threads
           /\ m_loop => threadPc = "loop"
           /\ loopPc # "start" => threadPc \in {"loop", "destroy", "dead"}

TInit == /\ Init
         /\ ownerPc = "new"
         /\ threadPc = "none"
         /\ m_loop = FALSE
         /\ returned = FALSE
         /\ userQuit = FALSE
         /\ stale = {}

-----------------------------------------------------------------------------
(* startLoop() and threadFunc(). *)

\* The predicate of the wait in startLoop(); when the thread sets m_loop back
\* to null, and what it leaves there.
WaitPredicate_Unconditional == TRUE
WaitPredicate == m_loop
LoopReturned_BeforeQuit == loopPc = "check"
LoopReturned == loopPc = "done"
Unpublished_KeepsPointer == m_loop
Unpublished == FALSE

StartLoop == /\ ownerPc = "new"
             /\ ownerPc' = "waiting"
             /\ threadPc' = "construct"
             /\ UNCHANGED <<vars, m_loop, returned, userQuit, stale>>

\* EventLoop loop; m_loop = &loop and notify_one under m_mutex.
Publish == /\ threadPc = "construct"
           /\ threadPc' = "loop"
           /\ m_loop' = TRUE
           /\ UNCHANGED <<vars, ownerPc, returned, userQuit, stale>>

\* The wait in startLoop() ends when its predicate holds under m_mutex.
WaitReturns == /\ ownerPc = "waiting"
               /\ WaitPredicate
               /\ ownerPc' = "notified"
               /\ UNCHANGED <<vars, threadPc, m_loop, returned, userQuit, stale>>

\* return m_loop, outside the lock.
StartLoopReturns == /\ ownerPc = "notified"
                    /\ ownerPc' = "owning"
                    /\ returned' = m_loop
                    /\ UNCHANGED <<vars, threadPc, m_loop, userQuit, stale>>

\* m_loop = NULL under m_mutex, when loop() has returned.
Unpublish == /\ threadPc = "loop"
             /\ LoopReturned
             /\ threadPc' = "destroy"
             /\ m_loop' = Unpublished
             /\ UNCHANGED <<vars, ownerPc, returned, userQuit, stale>>

\* ~EventLoop at the end of threadFunc(): m_wakeUpChannel is removed and its fd
\* closed, which leaves nothing that the model could still use.
DestroyLoop == /\ threadPc = "destroy"
               /\ threadPc' = "dead"
               /\ UNCHANGED <<vars, ownerPc, m_loop, returned, userQuit, stale>>

-----------------------------------------------------------------------------
(* The loop, and the calls of those who hold the pointer. *)

LoopRuns == threadPc = "loop" /\ LoopStep /\ UNCHANGED threadVars

LoopTimesOut == threadPc = "loop" /\ PollTimeout /\ UNCHANGED threadVars

\* Users register their channels once the pointer was handed out.
LoopPolls == /\ threadPc = "loop"
             /\ PollReady
             /\ active' \subseteq {WakeupChannel} \/ returned
             /\ UNCHANGED threadVars

OwnCalls == /\ threadPc = "loop" /\ loopPc # "start"
            /\ \E f \in Functors : QueueInLoop(LoopThread, f) \/ RunInLoop(f)
            /\ UNCHANGED threadVars

OwnQuit == /\ threadPc = "loop" /\ loopPc # "start"
           /\ Quit(LoopThread)
           /\ userQuit' = TRUE
           /\ UNCHANGED <<ownerPc, threadPc, m_loop, returned, stale>>

OwnWakes == Wakeup(LoopThread) /\ UNCHANGED threadVars

Alive == threadPc # "dead"

\* A caller between startLoop() and the destructor; on an object that is gone
\* the call has no defined effect, only that it happened is kept.
Uses(t) == /\ t \in Callers /\ ownerPc = "owning"
           /\ \/ /\ Alive
                 /\ \E f \in Functors : QueueInLoop(t, f)
                 /\ UNCHANGED threadVars
              \/ /\ Alive
                 /\ Quit(t)
                 /\ userQuit' = TRUE
                 /\ UNCHANGED <<ownerPc, threadPc, m_loop, returned, stale>>
              \/ /\ ~Alive /\ ~waking[t]
                 /\ stale' = stale \cup {t}
                 /\ UNCHANGED <<vars, ownerPc, threadPc, m_loop, returned, userQuit>>

\* The write to m_wakeUpFd that ends a call.
UseWakes(t) == /\ t \in Callers
               /\ IF Alive THEN Wakeup(t) /\ UNCHANGED stale
                  ELSE /\ waking[t]
                       /\ waking' = [waking EXCEPT ![t] = FALSE]
                       /\ stale' = stale \cup {t}
                       /\ UNCHANGED <<loopPc, quit, calling, eventfd, active, queueState>>
               /\ ownerPc' = IF t = Owner /\ ownerPc = "waking" THEN "joining" ELSE ownerPc
               /\ UNCHANGED <<threadPc, m_loop, returned, userQuit>>

-----------------------------------------------------------------------------
(* ~EventLoopThread() *)

\* m_threadptr is set and joinable; m_loop is read without m_mutex, and a null
\* pointer ends the program in quit().
Destructor == /\ ownerPc = "owning"
              /\ \A t \in Callers : ~waking[t]
              /\ ownerPc' = IF m_loop THEN "quitting" ELSE "crashed"
              /\ UNCHANGED <<vars, threadPc, m_loop, returned, userQuit, stale>>

\* m_loop->quit() up to its wakeup.
DestructorQuits ==
    /\ ownerPc = "quitting"
    /\ IF Alive THEN Quit(Owner) /\ UNCHANGED stale
       ELSE /\ waking' = [waking EXCEPT ![Owner] = TRUE]
            /\ stale' = stale \cup {Owner}
            /\ UNCHANGED <<loopPc, quit, calling, eventfd, active, queueState>>
    /\ ownerPc' = IF waking'[Owner] THEN "waking" ELSE "joining"
    /\ UNCHANGED <<threadPc, m_loop, returned, userQuit>>

\* m_threadptr->join()
Joined == /\ ownerPc = "joining"
          /\ threadPc = "dead"
          /\ ownerPc' = "gone"
          /\ UNCHANGED <<vars, threadPc, m_loop, returned, userQuit, stale>>

-----------------------------------------------------------------------------
ThreadStep == Publish \/ LoopRuns \/ Unpublish \/ DestroyLoop
OwnerStep == StartLoop \/ WaitReturns \/ StartLoopReturns \/ DestructorQuits \/ Joined

TNext == \/ ThreadStep
         \/ LoopPolls \/ LoopTimesOut
         \/ OwnerStep
         \/ OwnCalls \/ OwnQuit \/ OwnWakes
         \/ \E t \in Callers : Uses(t) \/ UseWakes(t)
         \/ Destructor

TSpec == TInit /\ [][TNext]_allVars

\* Both threads are scheduled, epoll_wait reports a readable eventfd, callbacks
\* return and calls reach their write.  Destroying the object is the owner's choice.
TFairSpec == /\ TSpec
             /\ WF_allVars(OwnerStep)
             /\ WF_allVars(ThreadStep)
             /\ WF_allVars(eventfd /\ LoopPolls)
             /\ WF_allVars(OwnWakes)
             /\ \A t \in Callers : WF_allVars(UseWakes(t))

-----------------------------------------------------------------------------
(* Properties. *)

\* startLoop() returns the pointer to the loop that the new thread constructed,
\* though it reads m_loop after it released the mutex.
StartLoopReturnsLoop == ownerPc \in {"owning", "quitting"} => returned

\* The unlocked read of m_loop in the destructor and its quit() on an object that
\* is on its way out go wrong only if someone else quit the loop before.  Without
\* that m_loop is not null, and the one thing that touches a destroyed loop is the
\* wakeup which follows the destructor's own store to m_quit.
RacesNeedUserQuit ==
    ~userQuit => /\ ownerPc # "crashed"
                 /\ stale # {} => stale = {Owner} /\ ownerPc \in {"joining", "gone"}

\* What makes them inductive.  The owner and the thread are in step; until the
\* pointer is handed out no user code touched the loop, so that it cannot end before
\* the unlocked read in startLoop(); a quit has its author; and once the destructor
\* runs no other caller is left in a call.
InStep ==
    /\ ownerPc = "new" <=> threadPc = "none"
    /\ ownerPc = "waiting" \/ threadPc # "construct"
    /\ m_loop <=> threadPc = "loop"
    /\ threadPc \in {"destroy", "dead"} => loopPc = "done"
    /\ ownerPc \notin {"new", "waiting", "notified"} => returned
Untouched ==
    ownerPc \in {"new", "waiting", "notified"} =>
        /\ ~returned /\ ~quit
        /\ Range(pending) = {} /\ Range(functors) = {} /\ active \subseteq {WakeupChannel}
        /\ \A t \in Threads : ~waking[t]
QuitAuthor ==
    /\ loopPc = "done" => quit
    /\ quit => userQuit \/ ownerPc \in {"waking", "joining", "gone"}
LastCalls ==
    /\ \A t \in Callers : waking[t] => ownerPc = "owning" \/ (t = Owner /\ ownerPc = "waking")
    /\ ownerPc = "waking" => waking[Owner]

TInv == IInv /\ TTypeOK /\ InStep /\ Untouched /\ QuitAuthor /\ LastCalls /\ RacesNeedUserQuit

\* The destructor returns: quit() reaches the loop wherever it is, and the loop
\* thread gets to its end.
DestructorReturns == ownerPc = "quitting" ~> ownerPc = "gone"

\* A functor that a caller queued is executed while the thread object lives, if
\* nobody quits the loop.
HandedFunctorRuns ==
    \A f \in Functors : f \in Range(pending) ~> f \in Range(executed) \/ quit

=============================================================================
