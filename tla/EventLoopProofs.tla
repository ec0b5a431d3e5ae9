--------------------------- MODULE EventLoopProofs ---------------------------
(* Proofs about EventLoop: for any set of threads, functors and channels.     *)
EXTENDS EventLoop, SequenceTheorems, TLAPS

\* The small operators of the actions are expanded in every proof.
USE DEF QuitOnEntry, AfterPoll, Taken, Left, Rest, FlagAfterBatch

(***************************************************************************)
(* Facts about the two vectors.                                            *)
(***************************************************************************)

\* A functor that push_back adds is the only new element of the vector.
LEMMA RangeAppend ==
    ASSUME NEW S, NEW s \in Seq(S), NEW e \in S
    PROVE  Range(Append(s, e)) = Range(s) \cup {e}
<1>1. /\ DOMAIN s = 1..Len(s) /\ Len(s) \in Nat
      /\ DOMAIN Append(s, e) = 1..(Len(s) + 1)
      /\ \A i \in 1..Len(s) : Append(s, e)[i] = s[i]
      /\ Append(s, e)[Len(s) + 1] = e
  BY LenProperties, AppendProperties
<1>2. 1..(Len(s) + 1) = 1..Len(s) \cup {Len(s) + 1}
  BY <1>1
<1> QED
  BY <1>1, <1>2 DEF Range

\* Taking the head off a vector leaves its other elements.
LEMMA RangeTail ==
    ASSUME NEW S, NEW s \in Seq(S), s # << >>
    PROVE  Head(s) \in Range(s) /\ Range(Tail(s)) \subseteq Range(s)
<1>1. /\ DOMAIN s = 1..Len(s) /\ Len(s) \in Nat /\ Len(s) > 0
      /\ Head(s) = s[1]
      /\ Tail(s) \in Seq(S) /\ Len(Tail(s)) = Len(s) - 1
      /\ \A i \in 1..Len(Tail(s)) : Tail(s)[i] = s[i + 1]
  BY LenProperties, EmptySeq, HeadTailProperties
<1>2. DOMAIN Tail(s) = 1..(Len(s) - 1)
  BY <1>1, LenProperties
<1> QED
  BY <1>1, <1>2 DEF Range

\* An empty vector has no element.
LEMMA RangeEmpty == Range(<< >>) = {}
  BY DEF Range

-----------------------------------------------------------------------------
(***************************************************************************)
(* The inductive invariant.                                                *)
(***************************************************************************)

LEMMA InitIInv == Init => IInv
<1> SUFFICES ASSUME Init PROVE IInv
  OBVIOUS
<1>1. TypeOK
  BY EmptySeq DEF Init, TypeOK, Channels
<1> QED
  BY <1>1, RangeEmpty DEF Init, IInv, WakeupCovered, NoLostQuit, OwnWakeup,
     BatchInRun, HandedOver, Threads

\* Calls: a push by another thread, or by a functor, leaves its wakeup due.
LEMMA CallsKeepIInv == ASSUME IInv, Calls PROVE IInv'
<1> USE DEF IInv, WakeupDue, OwnWakeup, BatchInRun, Threads
<1>1. ASSUME NEW t \in Threads, NEW f \in Functors, QueueInLoop(t, f)
      PROVE  IInv'
  <2>1. Range(pending') = Range(pending) \cup {f}
    BY <1>1, RangeAppend DEF QueueInLoop, TypeOK
  <2>2. TypeOK'
    BY <1>1, AppendProperties DEF QueueInLoop, TypeOK, NeedsWakeup
  <2>3. HandedOver'
    BY <1>1, <2>1 DEF QueueInLoop, HandedOver
  <2>4. WakeupCovered'
    BY <1>1, <2>1 DEF QueueInLoop, TypeOK, NeedsWakeup, WakeupCovered, MayCall, InUserCode
  <2>5. NoLostQuit'
    BY <1>1 DEF QueueInLoop, TypeOK, NeedsWakeup, NoLostQuit, MayCall, InUserCode
  <2>6. OwnWakeup' /\ BatchInRun'
    BY <1>1, LoopThreadAssumption DEF QueueInLoop, TypeOK, NeedsWakeup, MayCall, InUserCode
  <2> QED
    BY <2>2, <2>3, <2>4, <2>5, <2>6
<1>2. ASSUME NEW f \in Functors, RunInLoop(f)
      PROVE  IInv'
  <2>1. Range(executed') = Range(executed) \cup {f}
    BY <1>2, RangeAppend DEF RunInLoop, TypeOK
  <2>2. TypeOK'
    BY <1>2, AppendProperties DEF RunInLoop, TypeOK
  <2> QED
    BY <1>2, <2>1, <2>2 DEF RunInLoop, HandedOver, WakeupCovered, NoLostQuit
<1>3. ASSUME NEW t \in Threads, Quit(t)
      PROVE  IInv'
  <2>1. TypeOK'
    BY <1>3 DEF Quit, TypeOK, QuitWakes, queueState
  <2>2. NoLostQuit'
    BY <1>3 DEF Quit, TypeOK, QuitWakes, NoLostQuit, MayCall, InUserCode, queueState
  <2>3. WakeupCovered'
    BY <1>3 DEF Quit, TypeOK, QuitWakes, WakeupCovered, MayCall, InUserCode, queueState
  <2> QED
    BY <1>3, <2>1, <2>2, <2>3 DEF Quit, TypeOK, QuitWakes, HandedOver, MayCall, queueState
<1> QED
  BY <1>1, <1>2, <1>3 DEF Calls

\* The write: what was due becomes readable.
LEMMA WakeupKeepsIInv == ASSUME IInv, NEW t \in Threads, Wakeup(t) PROVE IInv'
BY DEF IInv, TypeOK, WakeupDue, WakeupCovered, NoLostQuit, OwnWakeup,
   BatchInRun, HandedOver, Wakeup, queueState, Threads

\* loop(): the eventfd is cleared only between epoll_wait and the swap.
LEMMA LoopStepKeepsIInv == ASSUME IInv, LoopStep PROVE IInv'
<1> USE DEF IInv, WakeupDue, WakeupCovered, NoLostQuit, OwnWakeup,
            BatchInRun, LoopResumes
<1>1. CASE EnterLoop
  BY <1>1 DEF EnterLoop, TypeOK, HandedOver, queueState
<1>2. CASE CheckQuit
  BY <1>2 DEF CheckQuit, TypeOK, HandedOver, queueState
<1>3. CASE HandleWakeUpRead
  BY <1>3 DEF HandleWakeUpRead, TypeOK, HandedOver, queueState
<1>4. ASSUME NEW c \in UserChannels, HandleUserEvent(c)
      PROVE  IInv'
  BY <1>4 DEF HandleUserEvent, TypeOK, HandedOver, queueState
<1>5. CASE SwapPending
  <2>1. TypeOK'
    BY <1>5, EmptySeq DEF SwapPending, TypeOK
  <2> QED
    BY <1>5, <2>1, RangeEmpty DEF SwapPending, HandedOver
<1>6. CASE FunctorReturns
  <2>1. /\ Head(functors) \in Functors
        /\ Head(functors) \in Range(functors)
        /\ Range(functors') \subseteq Range(functors)
        /\ functors' \in Seq(Functors)
    BY <1>6, RangeTail, HeadTailProperties DEF FunctorReturns, TypeOK
  <2>2. Range(executed') = Range(executed) \cup {Head(functors)}
    BY <1>6, <2>1, RangeAppend DEF FunctorReturns, TypeOK
  <2>3. TypeOK'
    BY <1>6, <2>1, AppendProperties DEF FunctorReturns, TypeOK
  <2> QED
    BY <1>6, <2>1, <2>2, <2>3 DEF FunctorReturns, HandedOver
<1>7. CASE EndPending
  BY <1>7 DEF EndPending, TypeOK, HandedOver, queueState
<1> QED
  BY <1>1, <1>2, <1>3, <1>4, <1>5, <1>6, <1>7 DEF LoopStep

\* epoll_wait returns, with or without channels: nothing but loopPc and
\* m_activeChannels changes.
LEMMA PollKeepsIInv == ASSUME IInv, PollReady \/ PollTimeout PROVE IInv'
<1>1. PICK ready \in SUBSET Channels : Poll(ready)
  BY DEF PollReady, PollTimeout
<1> QED
  BY <1>1 DEF Poll, IInv, TypeOK, WakeupDue, WakeupCovered, NoLostQuit, OwnWakeup,
     BatchInRun, HandedOver, queueState

LEMMA NextIInv == IInv /\ [Next]_vars => IInv'
<1> SUFFICES ASSUME IInv, [Next]_vars PROVE IInv'
  OBVIOUS
<1>1. CASE UNCHANGED vars
  BY <1>1 DEF vars, queueState, IInv, TypeOK, WakeupDue, WakeupCovered, NoLostQuit,
     OwnWakeup, BatchInRun, HandedOver
<1> QED
  BY <1>1, CallsKeepIInv, WakeupKeepsIInv, LoopStepKeepsIInv, PollKeepsIInv DEF Next

LEMMA Invariant == Spec => []IInv
BY InitIInv, NextIInv, PTL DEF Spec

\* The state of the loop always has its type (the members of EventLoop and the
\* histories of the functors handed over and executed).
THEOREM TypeCorrect == Spec => []TypeOK
BY Invariant, PTL DEF IInv

\* No lost wakeup: however the push, the swap and the two system calls on the
\* eventfd interleave, the loop never sleeps on a functor that nobody will
\* wake it up for.
THEOREM WakeupNotLost == Spec => []NoLostWakeup
<1>1. IInv => NoLostWakeup
  BY DEF IInv, WakeupCovered, NoLostWakeup
<1> QED
  BY <1>1, Invariant, PTL

\* No lost quit: the same for m_quit, whose test in loop() races with quit().
THEOREM QuitNotLost == Spec => []NoLostQuit
BY Invariant, PTL DEF IInv

-----------------------------------------------------------------------------
(***************************************************************************)
(* The loop implements FunctorQueue.                                       *)
(***************************************************************************)

\* Whatever is handed over fresh is new to the abstract queue, too.
LEMMA KnownIsSubmitted ==
    ASSUME IInv PROVE Queue!Known \subseteq submitted
<1>1. Range(functors \o pending) = Range(functors) \cup Range(pending)
  BY RangeConcatenation DEF IInv, TypeOK
<1> QED
  BY <1>1 DEF IInv, HandedOver, Queue!Known, Queue!Range, Range

\* A push extends the abstract queue at its end; RunInLoop goes past it.
LEMMA CallsRefine ==
    ASSUME IInv, Calls PROVE [Queue!Next]_Queue!queueVars
<1>1. ASSUME NEW t \in Threads, NEW f \in Functors, QueueInLoop(t, f)
      PROVE  Queue!Submit(f)
  <2>1. f \notin Queue!Known
    BY <1>1, KnownIsSubmitted DEF QueueInLoop
  <2>2. functors \o Append(pending, f) = Append(functors \o pending, f)
    BY <1>1, AppendIsConcat, ConcatAssociative, ConcatProperties
       DEF IInv, TypeOK
  <2> QED
    BY <1>1, <2>1, <2>2 DEF QueueInLoop, Queue!Submit
<1>2. ASSUME NEW f \in Functors, RunInLoop(f)
      PROVE  Queue!RunNow(f)
  <2>1. f \notin Queue!Known
    BY <1>2, KnownIsSubmitted DEF RunInLoop
  <2> QED
    BY <1>2, <2>1 DEF RunInLoop, Queue!RunNow
<1>3. ASSUME NEW t \in Threads, Quit(t)
      PROVE  UNCHANGED Queue!queueVars
  BY <1>3 DEF Quit, queueState, Queue!queueVars
<1> QED
  BY <1>1, <1>2, <1>3 DEF Calls, Queue!Next

\* The swap hides behind the concatenation of the two vectors; the functor that
\* returns is the oldest of all.
LEMMA LoopStepRefines ==
    ASSUME IInv, LoopStep PROVE [Queue!Next]_Queue!queueVars
<1>1. CASE SwapPending
  <2>1. functors = << >>
    BY <1>1 DEF SwapPending, IInv, BatchInRun
  <2>2. functors' \o pending' = functors \o pending
    BY <1>1, <2>1, ConcatEmptySeq DEF SwapPending, IInv, TypeOK
  <2> QED
    BY <1>1, <2>2 DEF SwapPending, Queue!queueVars
<1>2. CASE FunctorReturns
  <2> DEFINE q == functors \o pending
  <2>1. /\ functors # << >> /\ functors' = Tail(functors) /\ pending' = pending
        /\ executed' = Append(executed, Head(functors))
        /\ functors \in Seq(Functors) /\ pending \in Seq(Functors)
    BY <1>2 DEF FunctorReturns, IInv, TypeOK
  <2>2. /\ Len(functors) \in Nat /\ Len(functors) > 0 /\ Len(pending) \in Nat
        /\ q \in Seq(Functors) /\ Len(q) = Len(functors) + Len(pending)
        /\ \A i \in 1..Len(q) : q[i] = IF i <= Len(functors) THEN functors[i]
                                       ELSE pending[i - Len(functors)]
    BY <2>1, EmptySeq, LenProperties, ConcatProperties
  <2>3. q # << >> /\ Head(q) = Head(functors)
    BY <2>1, <2>2, EmptySeq, HeadTailProperties
  <2>4. /\ Tail(q) \in Seq(Functors) /\ Len(Tail(q)) = Len(q) - 1
        /\ \A i \in 1..Len(Tail(q)) : Tail(q)[i] = q[i + 1]
    BY <2>2, <2>3, HeadTailProperties
  <2>5. /\ Tail(functors) \in Seq(Functors) /\ Len(Tail(functors)) = Len(functors) - 1
        /\ \A i \in 1..Len(Tail(functors)) : Tail(functors)[i] = functors[i + 1]
    BY <2>1, HeadTailProperties
  <2> DEFINE r == Tail(functors) \o pending
  <2>6. /\ r \in Seq(Functors) /\ Len(r) = Len(functors) - 1 + Len(pending)
        /\ \A i \in 1..Len(r) : r[i] = IF i <= Len(functors) - 1 THEN Tail(functors)[i]
                                       ELSE pending[i - (Len(functors) - 1)]
    BY <2>1, <2>5, ConcatProperties
  <2>7. \A i \in 1..Len(r) : r[i] = Tail(q)[i]
    BY <2>2, <2>4, <2>5, <2>6
  <2>8. Tail(q) = r
    <3>1. Len(r) = Len(Tail(q))
      BY <2>2, <2>4, <2>6
    <3> HIDE DEF q, r
    <3> QED
      BY <3>1, <2>4, <2>6, <2>7, SeqEqual
  <2> QED
    BY <2>1, <2>3, <2>8 DEF Queue!Execute, Queue!Next
<1>3. CASE ~SwapPending /\ ~FunctorReturns
  BY <1>3 DEF LoopStep, EnterLoop, CheckQuit, HandleWakeUpRead, HandleUserEvent,
     EndPending, queueState, Queue!queueVars
<1> QED
  BY <1>1, <1>2, <1>3

LEMMA NextRefines ==
    IInv /\ [Next]_vars => [Queue!Next]_Queue!queueVars
<1> SUFFICES ASSUME IInv, [Next]_vars PROVE [Queue!Next]_Queue!queueVars
  OBVIOUS
<1>1. CASE UNCHANGED vars
  BY <1>1 DEF vars, queueState, Queue!queueVars
<1>2. ASSUME NEW t \in Threads, Wakeup(t)
      PROVE  UNCHANGED Queue!queueVars
  BY <1>2 DEF Wakeup, queueState, Queue!queueVars
<1>3. CASE PollReady \/ PollTimeout
  BY <1>3 DEF PollReady, PollTimeout, Poll, queueState, Queue!queueVars
<1> QED
  BY <1>1, <1>2, <1>3, CallsRefine, LoopStepRefines DEF Next

\* EventLoop keeps the promise of FunctorQueue: no functor is dropped by a
\* swap, executed twice, or overtaken by one queued after it.
THEOREM LoopImplementsQueue == Spec => QueueSpec
<1>1. Init => Queue!Init
  BY ConcatEmptySeq, EmptySeq DEF Init, Queue!Init
<1> QED
  BY <1>1, NextRefines, Invariant, PTL DEF Spec, QueueSpec, Queue!Spec

\* A functor queued while functors run waits for the next turn.
THEOREM BatchIsClosed == Spec => BatchClosed
<1>1. IInv /\ [Next]_vars => [loopPc = "run" /\ loopPc' = "run" =>
                                 Range(functors') \subseteq Range(functors)]_vars
  <2> SUFFICES ASSUME IInv, Next, loopPc = "run", loopPc' = "run"
               PROVE  Range(functors') \subseteq Range(functors)
    OBVIOUS
  <2>1. CASE FunctorReturns
    BY <2>1, RangeTail DEF FunctorReturns, IInv, TypeOK
  <2>2. CASE ~FunctorReturns
    BY <2>2 DEF Next, Calls, QueueInLoop, RunInLoop, Quit, Wakeup, LoopStep, EnterLoop,
       CheckQuit, HandleWakeUpRead, HandleUserEvent, SwapPending, EndPending,
       PollReady, PollTimeout, Poll, queueState
  <2> QED
    BY <2>1, <2>2
<1> QED
  BY <1>1, Invariant, PTL DEF Spec, BatchClosed

=============================================================================
