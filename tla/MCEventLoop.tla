----------------------------- MODULE MCEventLoop -----------------------------
(* EventLoop on a small instance: the threads, functors and channels of the  *)
(* cfg are model values.                                                      *)
EXTENDS EventLoop
=============================================================================
