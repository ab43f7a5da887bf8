------------------------------ MODULE MCPtRing ------------------------------
(* A small instance of PtRing.                                              *)
EXTENDS PtRing
=============================================================================
