---------------------------- MODULE FunctorQueue ----------------------------
(***************************************************************************)
(* What EventLoop promises the callers of runInLoop and queueInLoop: every *)
(* queued functor is executed at most once, in the order in which the      *)
(* functors were queued, and a functor is executed out of that order only  *)
(* when the loop thread hands it to runInLoop, which calls it on the spot. *)
(* Threads, wakeups, polling and batches are below this level.             *)
(***************************************************************************)
EXTENDS Sequences, Functions

CONSTANT Functors           \* the function objects that callers hand over

VARIABLES queue,            \* accepted, not yet executed, oldest first
          done              \* every execution so far, oldest first

queueVars == <<queue, done>>

Known == Range(queue) \cup Range(done)

Init == /\ queue = << >>
        /\ done  = << >>

\* queueInLoop: a function object that was never handed over joins the queue.
Submit(f) == /\ f \notin Known
             /\ queue' = Append(queue, f)
             /\ UNCHANGED done

\* The loop executes the oldest functor.
Execute == /\ queue # << >>
           /\ done'  = Append(done, Head(queue))
           /\ queue' = Tail(queue)

\* runInLoop on the loop thread: executed at once, past the queue.
RunNow(f) == /\ f \notin Known
             /\ done' = Append(done, f)
             /\ UNCHANGED queue

Next == \/ \E f \in Functors : Submit(f) \/ RunNow(f)
        \/ Execute

Spec == Init /\ [][Next]_queueVars

=============================================================================
