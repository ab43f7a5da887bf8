----------------------------- MODULE MCMemCacher ----------------------------
(* A small instance of MemCacher.                                           *)
EXTENDS MemCacher
=============================================================================
