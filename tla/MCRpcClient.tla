---------------------------- MODULE MCRpcClient ----------------------------
(* RpcClient for TLC: the two threads that call rpcCall. *)
EXTENDS RpcClient

CONSTANTS gui, monitor

MCThreads == {gui, monitor}
=============================================================================
