---------------------------- MODULE MCRpcClient ----------------------------
(* RpcClient for TLC: the calls.                                           *)
EXTENDS RpcClient

CONSTANTS c1, c2
=============================================================================
