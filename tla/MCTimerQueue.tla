----------------------------- MODULE MCTimerQueue -----------------------------
(* TimerQueue on a small instance; two clocks that drift by a set wall clock. *)
EXTENDS TimerQueue
Steps == {-2, 2}
=============================================================================
