----------------------------- MODULE MCTcpServer -----------------------------
(* TcpServer with the bounds of the cfg: loops and connections are numbers.  *)
EXTENDS TcpServer
=============================================================================
