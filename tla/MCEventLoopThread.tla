-------------------------- MODULE MCEventLoopThread --------------------------
(* EventLoopThread on a small instance; see the cfg. *)
EXTENDS EventLoopThread
=============================================================================
