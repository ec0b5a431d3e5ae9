--------------------------- MODULE MCTcpConnection ---------------------------
(* TcpConnection on a small instance. *)
EXTENDS TcpConnection
=============================================================================
