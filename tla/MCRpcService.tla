---------------------------- MODULE MCRpcService ----------------------------
(***************************************************************************)
(* Small instances of RpcService for TLC.                                  *)
(***************************************************************************)
EXTENDS RpcService, TLC
=============================================================================
