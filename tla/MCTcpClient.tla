---------------------------- MODULE MCTcpClient ----------------------------
(* TcpClient with a feed of a few lines and a scaled-down back-off.         *)
EXTENDS TcpClient
============================================================================
