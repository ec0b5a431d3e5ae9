------------------------ MODULE MCEventLoopThreadPoll ------------------------
(* EventLoopThreadPoll with the bounds of the cfg. *)
EXTENDS EventLoopThreadPoll
=============================================================================
