----------------------------- MODULE MCCollector ----------------------------
(* A small instance of Collector.                                           *)
EXTENDS Collector
=============================================================================
