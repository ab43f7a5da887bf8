--------------------------- MODULE MCServerAgent ---------------------------
(* Small instances of ServerAgent.                                           *)
EXTENDS ServerAgent
=============================================================================
