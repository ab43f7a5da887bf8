----------------------------- MODULE Communator -----------------------------
(***************************************************************************)
(* One end of a connection: src/server_consumer/communator.rs.  The tasks  *)
(* that share a CommunatorSender call send_data, which puts the encoded    *)
(* message with an acknowledgement channel into a bounded queue and waits; *)
(* one sender task takes the messages out, writes them as frames and       *)
(* acknowledges.  Tasks may be aborted (ClientAgent::disconnect) while     *)
(* they wait, and the sender task unwraps the acknowledgement: it panics   *)
(* when nobody waits for it any more, and takes the queue down with it.    *)
(*                                                                         *)
(* Messages are numbered in the order of the calls.                        *)
(***************************************************************************)
EXTENDS Integers, Sequences, SequencesExt

CONSTANTS
  Caller,        \* the tasks that share the sender
  Cap,           \* capacity of the queue (10)
  WireCap,       \* frames the connection holds before a write has to wait
  MaxMsgs,       \* bound on the calls of send_data
  MaybeTooLong   \* the messages that may exceed the codec's frame limit (8 MiB)

Msg == 1 .. MaxMsgs

ASSUME CommunatorAssumption ==
  /\ Cap \in Nat \ {0} /\ WireCap \in Nat \ {0} /\ MaxMsgs \in Nat
  /\ MaybeTooLong \subseteq Msg

VARIABLES
  pc,        \* each caller: "idle", "enqueue", "await" or "gone"
  cur,       \* the message each caller is sending (0 when none)
  calls,     \* calls of send_data so far
  queue,     \* the channel to the sender task
  task,      \* the sender task: "recv", "write", "ack", "end" or "panic"
  item, r,   \* the message it has taken out, and the result of its write
  oneshot,   \* each message's acknowledgement: "open", "ok", "err" or "closed"
  outcome,   \* history: what became of each call
  sent,      \* the frames handed to the connection
  got,       \* how many of them the peer has received
  conn       \* "up" or "broken"

callers == <<pc, cur, calls, outcome>>
sender == <<task, item, r>>
net == <<sent, got, conn>>
vars == <<pc, cur, calls, queue, task, item, r, oneshot, outcome, sent, got, conn>>

Init ==
  /\ pc = [c \in Caller |-> "idle"]
  /\ cur = [c \in Caller |-> 0]
  /\ calls = 0
  /\ queue = << >>
  /\ task = "recv" /\ item = 0 /\ r = "ok"
  /\ oneshot = [m \in Msg |-> "open"]
  /\ outcome = [m \in Msg |-> "none"]
  /\ sent = << >> /\ got = 0 /\ conn = "up"

-----------------------------------------------------------------------------
(* send_data, in the callers' tasks.                                       *)

\* send_data is called and encodes the message, whatever its length.
Call(c) ==
  /\ pc[c] = "idle"
  /\ calls < MaxMsgs
  /\ calls' = calls + 1
  /\ cur' = [cur EXCEPT ![c] = calls + 1]
  /\ pc' = [pc EXCEPT ![c] = "enqueue"]
  /\ outcome' = [outcome EXCEPT ![calls + 1] = "pending"]
  /\ UNCHANGED <<queue, sender, oneshot, net>>

\* The call of c ends, and c itself too when it was aborted.
Leaves(c, to, how) ==
  /\ pc' = [pc EXCEPT ![c] = to]
  /\ cur' = [cur EXCEPT ![c] = 0]
  /\ outcome' = [outcome EXCEPT ![cur[c]] = how]
  /\ UNCHANGED calls

RoomForOneMore == Len(queue) <= Cap
Room == Len(queue) < Cap

\* tx.send: an error once the sender task has dropped the receiver, else it waits
\* for room.
Enqueue(c) ==
  /\ pc[c] = "enqueue"
  /\ \/ /\ task \in {"end", "panic"}
        /\ Leaves(c, "idle", "err")
        /\ UNCHANGED queue
     \/ /\ task \notin {"end", "panic"} /\ Room
        /\ queue' = Append(queue, cur[c])
        /\ pc' = [pc EXCEPT ![c] = "await"]
        /\ UNCHANGED <<cur, calls, outcome>>
  /\ UNCHANGED <<sender, oneshot, net>>

\* rx.await: the acknowledgement, or an error when its sender was dropped.
AwaitReturns(c) ==
  /\ pc[c] = "await"
  /\ oneshot[cur[c]] # "open"
  /\ Leaves(c, "idle", IF oneshot[cur[c]] = "ok" THEN "ok" ELSE "err")
  /\ UNCHANGED <<queue, sender, oneshot, net>>

\* The task is aborted inside send_data.
Abort(c) ==
  /\ pc[c] \in {"enqueue", "await"}
  /\ Leaves(c, "gone", "aborted")
  /\ UNCHANGED <<queue, sender, oneshot, net>>

\* The task ends, or is aborted, outside of it.
Leave(c) ==
  /\ pc[c] = "idle"
  /\ pc' = [pc EXCEPT ![c] = "gone"]
  /\ UNCHANGED <<cur, calls, outcome, queue, sender, oneshot, net>>

-----------------------------------------------------------------------------
(* The sender task.                                                        *)

SenderRecv ==
  /\ task = "recv"
  /\ queue # << >>
  /\ task' = "write"
  /\ item' = Head(queue)
  /\ queue' = Tail(queue)
  /\ UNCHANGED <<callers, r, oneshot, net>>

\* rx.recv returns None: every CommunatorSender is gone and the queue is empty.
SenderEnd ==
  /\ task = "recv"
  /\ queue = << >>
  /\ \A c \in Caller : pc[c] = "gone"
  /\ task' = "end"
  /\ UNCHANGED <<callers, queue, item, r, oneshot, net>>

\* framer.send: refused when too long for a frame; waits for the peer to make
\* room; on a broken connection it fails, or the frame is taken and lost.
SenderWrite ==
  /\ task = "write"
  /\ task' = "ack"
  /\ \/ /\ conn = "broken" \/ Len(sent) - got < WireCap
        /\ sent' = Append(sent, item)
        /\ r' = "ok"
     \/ /\ conn = "broken" \/ item \in MaybeTooLong
        /\ r' = "err"
        /\ UNCHANGED sent
  /\ UNCHANGED <<callers, queue, item, oneshot, got, conn>>

\* The acknowledgement once the result is sent to the caller.
AckedAlwaysOk == [oneshot EXCEPT ![item] = "ok"]
AckedIfOk == [oneshot EXCEPT ![item] = IF r = "ok" THEN r ELSE @]
Acked == [oneshot EXCEPT ![item] = r]

\* oh.send(r).unwrap(): panics when the caller is gone, and drops the queue with
\* the acknowledgements in it.
SenderAck ==
  LET waited == \E c \in Caller : pc[c] = "await" /\ cur[c] = item IN
  /\ task = "ack"
  /\ item' = 0
  /\ \/ /\ waited
        /\ task' = "recv"
        /\ oneshot' = Acked
        /\ UNCHANGED queue
     \/ /\ ~waited
        /\ task' = "panic"
        /\ oneshot' = [m \in Msg |-> IF m \in Range(queue) THEN "closed" ELSE oneshot[m]]
        /\ queue' = << >>
  /\ UNCHANGED <<callers, r, net>>

-----------------------------------------------------------------------------
(* The connection and its other end.                                       *)

\* recv_data of the peer returns the next frame.
RecvData ==
  /\ conn = "up"
  /\ got < Len(sent)
  /\ got' = got + 1
  /\ UNCHANGED <<callers, queue, sender, oneshot, sent, conn>>

Break ==
  /\ conn = "up"
  /\ conn' = "broken"
  /\ UNCHANGED <<callers, queue, sender, oneshot, sent, got>>

SendData(c) == Enqueue(c) \/ AwaitReturns(c)
Sender == SenderRecv \/ SenderEnd \/ SenderWrite \/ SenderAck

Next ==
  \/ \E c \in Caller : Call(c) \/ SendData(c) \/ Abort(c) \/ Leave(c)
  \/ Sender \/ RecvData \/ Break

\* The runtime polls every task that can go on, and the peer's receive loop
\* receives.
Spec ==
  /\ Init /\ [][Next]_vars
  /\ WF_vars(Sender) /\ WF_vars(RecvData)
  /\ \A c \in Caller : WF_vars(SendData(c))
-----------------------------------------------------------------------------
TypeOK ==
  /\ pc \in [Caller -> {"idle", "enqueue", "await", "gone"}]
  /\ cur \in [Caller -> Msg \cup {0}]
  /\ calls \in 0 .. MaxMsgs
  /\ queue \in Seq(Msg) /\ Len(queue) <= Cap
  /\ task \in {"recv", "write", "ack", "end", "panic"}
  /\ item \in Msg \cup {0} /\ r \in {"ok", "err"}
  /\ oneshot \in [Msg -> {"open", "ok", "err", "closed"}]
  /\ outcome \in [Msg -> {"none", "pending", "ok", "err", "aborted"}]
  /\ sent \in Seq(Msg) /\ got \in 0 .. Len(sent)
  /\ conn \in {"up", "broken"}

Abstract == INSTANCE Link

\* The queue, the sender task and its acknowledgements implement Link: whatever is
\* aborted or breaks, Ok means the frame was handed over once and Err that it never
\* will be, so that a caller may try again; and nobody gets an Err on a sound
\* connection for the abort of another task's message unless there was one.
ImplementsLink == Abstract!Spec

\* Every send_data returns, unless its task is aborted: neither a full queue, nor a
\* panic of the sender task on another caller's acknowledgement, nor the end of the
\* task leaves a caller waiting.
SendReturns == \A c \in Caller : pc[c] \in {"enqueue", "await"} ~> pc[c] \in {"idle", "gone"}
=============================================================================
