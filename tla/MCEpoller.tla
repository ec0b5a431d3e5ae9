------------------------------ MODULE MCEpoller ------------------------------
(* Epoller on a small instance; channels and fds of the cfg are model values. *)
EXTENDS Epoller
=============================================================================
