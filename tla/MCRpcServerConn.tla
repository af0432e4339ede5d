-------------------------- MODULE MCRpcServerConn --------------------------
(* RpcServerConn for TLC: names for the requests of a small connection.    *)
EXTENDS RpcServerConn
CONSTANTS r1, r2
=============================================================================
