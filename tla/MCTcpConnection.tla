-------------------------- MODULE MCTcpConnection --------------------------
(* TcpConnection on small instances.                                       *)
EXTENDS TcpConnection
============================================================================
