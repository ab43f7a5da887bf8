---------------------------- MODULE MCClientPool ----------------------------
(* Small instances of ClientPool.                                            *)
EXTENDS ClientPool
=============================================================================
