-------------------------------- MODULE Link --------------------------------
(***************************************************************************)
(* What CommunatorSender::send_data promises to the tasks that share one   *)
(* connection: a message is handed to the connection at most once, before  *)
(* send_data says Ok and never after it says Err, the peer receives what   *)
(* was handed over in that order, and send_data says Err only when the     *)
(* connection broke, the message may be too long, or a task was aborted    *)
(* while its own message was under way.                                    *)
(***************************************************************************)
EXTENDS Integers, Sequences, SequencesExt

CONSTANTS
  Msg,           \* the messages, one per call of send_data
  MaybeTooLong   \* those that may exceed the frame limit

VARIABLES
  outcome,   \* of each message: "none", "pending", "ok", "err" or "aborted"
  sent,      \* the messages handed to the connection
  got,       \* how many of them the peer has received
  conn       \* "up" or "broken"

vars == <<outcome, sent, got, conn>>

Init ==
  /\ outcome = [m \in Msg |-> "none"]
  /\ sent = << >>
  /\ got = 0
  /\ conn = "up"

\* m moves from one of the outcomes in from to to.
Move(m, from, to) ==
  /\ outcome[m] \in from
  /\ outcome' = [outcome EXCEPT ![m] = to]
  /\ UNCHANGED <<sent, got, conn>>

Call(m) == Move(m, {"none"}, "pending")

\* The message of an aborted task may still be sent.
Transmit(m) ==
  /\ outcome[m] \in {"pending", "aborted"}
  /\ m \notin Range(sent)
  /\ sent' = Append(sent, m)
  /\ UNCHANGED <<outcome, got, conn>>

ReturnOk(m) == m \in Range(sent) /\ Move(m, {"pending"}, "ok")

ReturnErr(m) ==
  /\ m \notin Range(sent)
  /\ \/ conn = "broken"
     \/ m \in MaybeTooLong
     \/ \E k \in Msg : outcome[k] = "aborted"
  /\ Move(m, {"pending"}, "err")

Abort(m) == Move(m, {"pending"}, "aborted")

Receive ==
  /\ conn = "up"
  /\ got < Len(sent)
  /\ got' = got + 1
  /\ UNCHANGED <<outcome, sent, conn>>

Break ==
  /\ conn = "up"
  /\ conn' = "broken"
  /\ UNCHANGED <<outcome, sent, got>>

Next ==
  \/ \E m \in Msg : Call(m) \/ Transmit(m) \/ ReturnOk(m) \/ ReturnErr(m) \/ Abort(m)
  \/ Receive \/ Break

Spec == Init /\ [][Next]_vars
=============================================================================
