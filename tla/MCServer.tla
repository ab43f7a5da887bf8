------------------------------ MODULE MCServer ------------------------------
(* A small instance of Server: two processors and one client.               *)
EXTENDS Server
=============================================================================
