---------------------------- MODULE MCCommunator ----------------------------
(* A small instance of Communator: h, h2 and one more task.                 *)
EXTENDS Communator
=============================================================================
