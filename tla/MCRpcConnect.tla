---------------------------- MODULE MCRpcConnect ----------------------------
(* RpcConnect for TLC: names for the requests.                             *)
EXTENDS RpcConnect
CONSTANTS r1, r2, r3
=============================================================================
