-------------------------- MODULE CommunatorProofs --------------------------
(***************************************************************************)
(* Proofs about Communator, for any number of callers, any queue and any   *)
(* connection: it implements Link.                                         *)
(***************************************************************************)
EXTENDS Communator, TLAPS

\* The calls under way: each has a message of its own, which is pending.
CallsInv ==
  /\ \A c \in Caller : /\ cur[c] <= calls
                       /\ cur[c] # 0 <=> pc[c] \in {"enqueue", "await"}
                       /\ cur[c] # 0 => outcome[cur[c]] = "pending"
  /\ \A c, d \in Caller : cur[c] # 0 /\ cur[c] = cur[d] => c = d
  /\ \A m \in Msg : m > calls => outcome[m] = "none"

\* Message m has not been given to the sender task yet.
Early(m) == m > calls \/ \E c \in Caller : pc[c] = "enqueue" /\ cur[c] = m

\* A message the sender task still has to write, with its call waiting for the
\* acknowledgement unless it was aborted.
OnItsWay(m) ==
  /\ ~Early(m)
  /\ oneshot[m] = "open"
  /\ outcome[m] \in {"pending", "aborted"}
  /\ outcome[m] = "pending" => \E c \in Caller : pc[c] = "await" /\ cur[c] = m

\* The queue holds messages not sent yet, each once.
QueueInv ==
  /\ \A k \in 1 .. Len(queue) : OnItsWay(queue[k]) /\ queue[k] # item
                                /\ queue[k] \notin Range(sent)
  /\ \A k, l \in 1 .. Len(queue) : queue[k] = queue[l] => k = l

AnyAborted == \E k \in Msg : outcome[k] = "aborted"

\* The message in the sender task's hands, and what its write came to.
TaskInv ==
  /\ item # 0 <=> task \in {"write", "ack"}
  /\ item # 0 => OnItsWay(item)
  /\ task = "write" => item \notin Range(sent)
  /\ task = "ack" => (r = "ok" <=> item \in Range(sent))
  /\ task = "ack" /\ r = "err" => conn = "broken" \/ item \in MaybeTooLong
  /\ task = "panic" => AnyAborted
  /\ task = "end" => \A c \in Caller : pc[c] = "gone"

\* What an acknowledgement says is true, and a message not given to the sender task
\* has neither one nor been sent.
AckInv ==
  \A m \in Msg :
    /\ oneshot[m] = "ok" => m \in Range(sent)
    /\ oneshot[m] \in {"err", "closed"} => m \notin Range(sent)
    /\ oneshot[m] = "err" => conn = "broken" \/ m \in MaybeTooLong
    /\ oneshot[m] = "closed" => AnyAborted
    /\ Early(m) => oneshot[m] = "open" /\ m \notin Range(sent)

LinkInv == TypeOK /\ CallsInv /\ QueueInv /\ TaskInv /\ AckInv

-----------------------------------------------------------------------------
\* One more frame handed to the connection.
LEMMA RangeAppend ==
  ASSUME NEW S, NEW s \in Seq(S), NEW e \in S
  PROVE  Range(Append(s, e)) = Range(s) \cup {e}
<1>1. /\ DOMAIN Append(s, e) = 1 .. Len(s) + 1
      /\ \A i \in 1 .. Len(s) : Append(s, e)[i] = s[i]
      /\ Append(s, e)[Len(s) + 1] = e
      /\ DOMAIN s = 1 .. Len(s) /\ Len(s) \in Nat
  OBVIOUS
<1> QED BY <1>1 DEF Range

\* Taking the first message out of the queue.
LEMMA TakeHead ==
  ASSUME NEW S, NEW s \in Seq(S), s # << >>
  PROVE  /\ Len(s) \in Nat \ {0}
         /\ Head(s) = s[1] /\ Head(s) \in S
         /\ Tail(s) \in Seq(S)
         /\ Len(Tail(s)) = Len(s) - 1
         /\ \A i \in 1 .. Len(s) - 1 : Tail(s)[i] = s[i + 1]
OBVIOUS

-----------------------------------------------------------------------------
LEMMA InitLink == Init => LinkInv
<1> SUFFICES ASSUME Init PROVE LinkInv
  OBVIOUS
<1> USE CommunatorAssumption
<1>1. Range(sent) = {}
  BY DEF Init, Range
<1>2. TypeOK
  BY DEF Init, TypeOK, Msg
<1>3. CallsInv /\ QueueInv /\ TaskInv
  BY DEF Init, CallsInv, QueueInv, TaskInv, Msg
<1>4. AckInv
  BY <1>1 DEF Init, AckInv, Msg
<1> QED BY <1>2, <1>3, <1>4 DEF LinkInv

LEMMA CallKeeps ==
  ASSUME LinkInv, NEW c \in Caller, Call(c)
  PROVE  LinkInv'
<1> USE CommunatorAssumption DEF LinkInv, callers, sender, net
<1>1. TypeOK'
  BY DEF TypeOK, Call, Msg
<1>2. CallsInv'
  BY DEF TypeOK, Call, Msg, CallsInv
<1>3. \A m \in Msg : Early(m)' => Early(m)
  BY DEF TypeOK, Call, Msg, CallsInv, Early
<1>4. \A m \in Msg : OnItsWay(m) => OnItsWay(m)'
  BY <1>3 DEF TypeOK, Call, Msg, CallsInv, OnItsWay, Early
<1>5. QueueInv'
  BY <1>4 DEF TypeOK, Call, Msg, QueueInv
<1>6. AnyAborted => AnyAborted'
  BY DEF TypeOK, Call, Msg, CallsInv, AnyAborted
<1>7. TaskInv'
  BY <1>4, <1>6 DEF TypeOK, Call, Msg, TaskInv
<1>8. AckInv'
  BY <1>3, <1>6 DEF TypeOK, Call, Msg, AckInv
<1> QED BY <1>1, <1>2, <1>5, <1>7, <1>8

LEMMA EnqueueKeeps ==
  ASSUME LinkInv, NEW c \in Caller, Enqueue(c)
  PROVE  LinkInv'
<1> USE CommunatorAssumption DEF LinkInv, callers, sender, net, Leaves
<1>1. CASE task \in {"end", "panic"} /\ Leaves(c, "idle", "err")
  <2>1. pc' = [pc EXCEPT ![c] = "idle"] /\ cur' = [cur EXCEPT ![c] = 0]
        /\ outcome' = [outcome EXCEPT ![cur[c]] = "err"] /\ pc[c] = "enqueue"
        /\ UNCHANGED <<calls, queue, sender, oneshot, net>>
        /\ cur[c] \in Msg /\ outcome[cur[c]] = "pending" /\ Early(cur[c])
    BY <1>1 DEF Enqueue, TypeOK, CallsInv, Early
  <2>2. TypeOK'
    BY <2>1 DEF TypeOK, Msg
  <2>3. CallsInv'
    BY <2>1 DEF TypeOK, Msg, CallsInv
  <2>4. \A m \in Msg : Early(m)' => Early(m)
    BY <2>1 DEF TypeOK, Msg, Early
  <2>5. \A m \in Msg : OnItsWay(m) => OnItsWay(m)'
    BY <2>1, <2>4 DEF TypeOK, Msg, OnItsWay
  <2>6. AnyAborted => AnyAborted'
    BY <2>1 DEF TypeOK, AnyAborted
  <2>7. QueueInv'
    BY <2>1, <2>5 DEF TypeOK, QueueInv
  <2>8. TaskInv'
    BY <2>1, <2>5, <2>6 DEF TypeOK, TaskInv
  <2>9. AckInv'
    BY <2>1, <2>4, <2>6 DEF TypeOK, AckInv
  <2> QED BY <2>2, <2>3, <2>7, <2>8, <2>9
<1>2. CASE /\ task \notin {"end", "panic"} /\ Room
           /\ queue' = Append(queue, cur[c])
           /\ pc' = [pc EXCEPT ![c] = "await"]
           /\ UNCHANGED <<cur, calls, outcome>>
  <2>1. /\ UNCHANGED <<cur, calls, outcome, sender, oneshot, net>> /\ pc[c] = "enqueue"
        /\ queue' = Append(queue, cur[c]) /\ pc' = [pc EXCEPT ![c] = "await"]
        /\ cur[c] \in Msg /\ outcome[cur[c]] = "pending" /\ Early(cur[c])
        /\ Len(queue) < Cap
    BY <1>2 DEF Enqueue, TypeOK, CallsInv, Early, Room
  <2>2. TypeOK'
    BY <2>1 DEF TypeOK, Msg
  <2>3. CallsInv'
    BY <2>1 DEF TypeOK, Msg, CallsInv
  <2>4. \A m \in Msg : Early(m)' => Early(m) /\ m # cur[c]
    BY <2>1 DEF TypeOK, Msg, Early, CallsInv
  <2>5. \A m \in Msg : OnItsWay(m) => OnItsWay(m)'
    BY <2>1, <2>4 DEF TypeOK, Msg, OnItsWay
  <2>6. \A m \in Msg : m = cur[c] => OnItsWay(m)' /\ m \notin Range(sent) /\ ~OnItsWay(m)
    BY <2>1, <2>4 DEF TypeOK, OnItsWay, AckInv
  <2>7. QueueInv'
    <3>1. /\ Len(queue') = Len(queue) + 1 /\ Len(queue) \in Nat
          /\ \A k \in 1 .. Len(queue) : queue'[k] = queue[k] /\ queue[k] \in Msg
          /\ queue'[Len(queue) + 1] = cur[c]
      BY <2>1 DEF TypeOK
    <3>2. cur[c] # item /\ \A k \in 1 .. Len(queue) : queue[k] # cur[c]
      BY <2>1, <2>6 DEF QueueInv, TaskInv, Msg
    <3>3. UNCHANGED <<item, sent>>
      BY <2>1
    <3>4. \A k \in 1 .. Len(queue') : \A m \in Msg :
            m = queue'[k] => OnItsWay(m)' /\ m # item /\ m \notin Range(sent)
      BY <2>1, <2>5, <2>6, <3>1, <3>2 DEF QueueInv
    <3>5. \A k, l \in 1 .. Len(queue') : queue'[k] = queue'[l] => k = l
      BY <3>1, <3>2 DEF QueueInv
    <3>6. \A k \in 1 .. Len(queue') : queue'[k] \in Msg
      BY <2>1, <3>1
    <3> QED BY <3>3, <3>4, <3>5, <3>6 DEF QueueInv
  <2>8. TaskInv'
    BY <1>2, <2>1, <2>5 DEF TypeOK, TaskInv, AnyAborted
  <2>9. AckInv'
    BY <2>1, <2>4 DEF TypeOK, AckInv, AnyAborted
  <2> QED BY <2>2, <2>3, <2>7, <2>8, <2>9
<1> QED BY <1>1, <1>2 DEF Enqueue

LEMMA AwaitReturnsKeeps ==
  ASSUME LinkInv, NEW c \in Caller, AwaitReturns(c)
  PROVE  LinkInv'
<1> USE CommunatorAssumption DEF LinkInv, callers, sender, net
<1>0. cur[c] \in Msg /\ outcome[cur[c]] = "pending"
  BY DEF AwaitReturns, TypeOK, CallsInv
<1>1. /\ pc' = [pc EXCEPT ![c] = "idle"] /\ cur' = [cur EXCEPT ![c] = 0]
      /\ outcome' \in {[outcome EXCEPT ![cur[c]] = "ok"], [outcome EXCEPT ![cur[c]] = "err"]}
      /\ UNCHANGED <<calls, queue, sender, oneshot, net>>
      /\ pc[c] = "await" /\ oneshot[cur[c]] # "open"
      /\ cur[c] \in Msg /\ outcome[cur[c]] = "pending"
  BY <1>0 DEF AwaitReturns, Leaves
<1>2. TypeOK'
  BY <1>1 DEF TypeOK, Msg
<1>3. CallsInv'
  BY <1>1 DEF TypeOK, Msg, CallsInv
<1>4. \A m \in Msg : Early(m)' => Early(m)
  BY <1>1 DEF TypeOK, Msg, Early
<1>5. \A m \in Msg : OnItsWay(m) => OnItsWay(m)'
  BY <1>1, <1>4 DEF TypeOK, Msg, OnItsWay
<1>6. AnyAborted => AnyAborted'
  BY <1>1 DEF TypeOK, AnyAborted
<1>7. QueueInv'
  BY <1>1, <1>5 DEF TypeOK, QueueInv
<1>8. TaskInv'
  BY <1>1, <1>5, <1>6 DEF TypeOK, TaskInv
<1>9. AckInv'
  BY <1>1, <1>4, <1>6 DEF TypeOK, AckInv
<1> QED BY <1>2, <1>3, <1>7, <1>8, <1>9

LEMMA AbortKeeps ==
  ASSUME LinkInv, NEW c \in Caller, Abort(c)
  PROVE  LinkInv'
<1> USE CommunatorAssumption DEF LinkInv, callers, sender, net
<1>1. /\ pc' = [pc EXCEPT ![c] = "gone"] /\ cur' = [cur EXCEPT ![c] = 0]
      /\ outcome' = [outcome EXCEPT ![cur[c]] = "aborted"]
      /\ UNCHANGED <<calls, queue, sender, oneshot, net>>
      /\ cur[c] \in Msg /\ outcome[cur[c]] = "pending"
  BY DEF Abort, Leaves, TypeOK, CallsInv
<1>2. TypeOK'
  BY <1>1 DEF TypeOK, Msg
<1>3. CallsInv'
  BY <1>1 DEF TypeOK, Msg, CallsInv
<1>4. \A m \in Msg : Early(m)' => Early(m)
  BY <1>1 DEF TypeOK, Msg, Early
<1>5. \A m \in Msg : OnItsWay(m) => OnItsWay(m)'
  BY <1>1, <1>4 DEF TypeOK, Msg, OnItsWay
<1>6. AnyAborted'
  BY <1>1 DEF TypeOK, AnyAborted
<1>7. QueueInv'
  BY <1>1, <1>5 DEF TypeOK, QueueInv
<1>8. TaskInv'
  BY <1>1, <1>5, <1>6 DEF TypeOK, TaskInv
<1>9. AckInv'
  BY <1>1, <1>4, <1>6 DEF TypeOK, AckInv
<1> QED BY <1>2, <1>3, <1>7, <1>8, <1>9

LEMMA LeaveKeeps ==
  ASSUME LinkInv, NEW c \in Caller, Leave(c)
  PROVE  LinkInv'
<1> USE CommunatorAssumption DEF LinkInv, sender, net, Leave
<1>1. TypeOK' /\ CallsInv'
  BY DEF TypeOK, CallsInv
<1>2. \A m \in Msg : (Early(m)' => Early(m)) /\ (OnItsWay(m) => OnItsWay(m)')
  BY DEF TypeOK, Msg, Early, OnItsWay
<1>3. QueueInv' /\ TaskInv' /\ AckInv'
  BY <1>2 DEF TypeOK, QueueInv, TaskInv, AckInv, AnyAborted
<1> QED BY <1>1, <1>3

LEMMA SenderRecvKeeps ==
  ASSUME LinkInv, SenderRecv
  PROVE  LinkInv'
<1> USE CommunatorAssumption DEF LinkInv, callers, net, SenderRecv
<1>1. /\ Len(queue) \in Nat \ {0} /\ item' = queue[1] /\ item' \in Msg
      /\ queue' \in Seq(Msg) /\ Len(queue') = Len(queue) - 1
      /\ \A i \in 1 .. Len(queue) - 1 : queue'[i] = queue[i + 1]
  BY TakeHead DEF TypeOK
<1>2. TypeOK' /\ CallsInv'
  BY <1>1 DEF TypeOK, CallsInv
<1>3. \A m \in Msg : (Early(m)' <=> Early(m)) /\ (OnItsWay(m) <=> OnItsWay(m)')
  BY DEF Early, OnItsWay
<1>4. QueueInv'
  BY <1>1, <1>3 DEF TypeOK, QueueInv
<1>5. TaskInv'
  BY <1>1, <1>3 DEF TypeOK, QueueInv, TaskInv, Msg
<1>6. AckInv'
  BY <1>3 DEF AckInv, AnyAborted
<1> QED BY <1>2, <1>4, <1>5, <1>6

LEMMA SenderEndKeeps ==
  ASSUME LinkInv, SenderEnd
  PROVE  LinkInv'
<1> USE CommunatorAssumption DEF LinkInv, callers, net, SenderEnd
<1>1. TypeOK' /\ CallsInv'
  BY DEF TypeOK, CallsInv
<1>2. \A m \in Msg : (Early(m)' <=> Early(m)) /\ (OnItsWay(m) <=> OnItsWay(m)')
  BY DEF Early, OnItsWay
<1>3. QueueInv' /\ TaskInv' /\ AckInv'
  BY <1>2 DEF TypeOK, QueueInv, TaskInv, AckInv, AnyAborted
<1> QED BY <1>1, <1>3

LEMMA SenderWriteKeeps ==
  ASSUME LinkInv, SenderWrite
  PROVE  LinkInv'
<1> USE CommunatorAssumption DEF LinkInv, callers, SenderWrite
<1>1. task = "write" /\ item \in Msg /\ OnItsWay(item) /\ item \notin Range(sent)
  BY DEF TypeOK, TaskInv
<1>0. sent \in Seq(Msg) /\ Range(Append(sent, item)) = Range(sent) \cup {item}
  BY <1>1, RangeAppend DEF TypeOK
<1>2. \/ sent' = Append(sent, item) /\ r' = "ok" /\ Range(sent') = Range(sent) \cup {item}
      \/ UNCHANGED sent /\ r' = "err" /\ (conn = "broken" \/ item \in MaybeTooLong)
  BY <1>0
<1>3. TypeOK' /\ CallsInv'
  <2>1. /\ sent' \in Seq(Msg) /\ Len(sent) \in Nat /\ Len(sent') \in Nat
        /\ Len(sent) <= Len(sent') /\ r' \in {"ok", "err"}
    BY <1>0, <1>1, <1>2
  <2> QED BY <1>1, <2>1 DEF TypeOK, CallsInv
<1>4. \A m \in Msg : (Early(m)' <=> Early(m)) /\ (OnItsWay(m) <=> OnItsWay(m)')
  BY DEF Early, OnItsWay
<1>5. QueueInv'
  BY <1>1, <1>2, <1>4 DEF TypeOK, QueueInv
<1>6. TaskInv'
  BY <1>1, <1>2, <1>4 DEF TypeOK, TaskInv
<1>7. AckInv'
  BY <1>1, <1>2, <1>4 DEF AckInv, OnItsWay, AnyAborted
<1> QED BY <1>3, <1>5, <1>6, <1>7

LEMMA SenderAckKeeps ==
  ASSUME LinkInv, SenderAck
  PROVE  LinkInv'
<1> USE CommunatorAssumption DEF LinkInv, callers, net
<1> DEFINE waited == \E c \in Caller : pc[c] = "await" /\ cur[c] = item
<1>1. /\ task = "ack" /\ item' = 0 /\ UNCHANGED <<callers, r, net>>
      /\ item \in Msg /\ OnItsWay(item)
  BY DEF TypeOK, TaskInv, SenderAck
<1>2. \A m \in Msg : Early(m)' <=> Early(m)
  BY <1>1 DEF Early
<1>3. CASE waited /\ task' = "recv" /\ oneshot' = Acked /\ UNCHANGED queue
  <2>1. oneshot' = [oneshot EXCEPT ![item] = r]
    BY <1>3 DEF Acked
  <2>2. TypeOK' /\ CallsInv'
    BY <1>1, <1>3, <2>1 DEF TypeOK, CallsInv
  <2>3. \A m \in Msg : m # item /\ OnItsWay(m) => OnItsWay(m)'
    BY <1>1, <1>2, <2>1 DEF TypeOK, OnItsWay
  <2>4. QueueInv'
    BY <1>1, <1>3, <2>3 DEF TypeOK, QueueInv, Msg
  <2>5. TaskInv'
    BY <1>1, <1>3 DEF TaskInv
  <2>6. AckInv'
    BY <1>1, <1>2, <2>1 DEF TypeOK, AckInv, TaskInv, OnItsWay, AnyAborted
  <2> QED BY <2>2, <2>4, <2>5, <2>6
<1>4. CASE /\ ~waited /\ task' = "panic" /\ queue' = << >>
           /\ oneshot' = [m \in Msg |-> IF m \in Range(queue) THEN "closed" ELSE oneshot[m]]
  <2>1. AnyAborted /\ AnyAborted'
    BY <1>1, <1>4 DEF OnItsWay, AnyAborted
  <2>2. TypeOK' /\ CallsInv'
    BY <1>1, <1>4 DEF TypeOK, CallsInv
  <2>3. QueueInv' /\ TaskInv'
    BY <1>1, <1>4, <2>1 DEF QueueInv, TaskInv
  <2>4. \A m \in Msg : m \in Range(queue) => ~Early(m) /\ m \notin Range(sent)
    <3>1. Range(queue) = {queue[k] : k \in 1 .. Len(queue)}
      BY DEF Range, TypeOK
    <3> QED BY <3>1 DEF QueueInv, OnItsWay
  <2>5. AckInv'
    BY <1>1, <1>2, <1>4, <2>1, <2>4 DEF TypeOK, AckInv
  <2> QED BY <2>2, <2>3, <2>5
<1> QED BY <1>3, <1>4 DEF SenderAck

\* The connection's own steps touch nothing but what the peer has and whether it
\* still stands.
LEMMA NetKeeps ==
  ASSUME LinkInv, RecvData \/ Break
  PROVE  LinkInv'
<1> USE CommunatorAssumption DEF LinkInv, callers, sender
<1>1. /\ UNCHANGED <<callers, queue, sender, oneshot, sent>>
      /\ got' \in 0 .. Len(sent) /\ conn' \in {"up", "broken"}
      /\ conn = "broken" => conn' = "broken"
  BY DEF RecvData, Break, TypeOK
<1>2. TypeOK' /\ CallsInv'
  BY <1>1 DEF TypeOK, CallsInv
<1>3. \A m \in Msg : (Early(m)' <=> Early(m)) /\ (OnItsWay(m) <=> OnItsWay(m)')
  BY <1>1 DEF Early, OnItsWay
<1>4. QueueInv' /\ TaskInv' /\ AckInv'
  BY <1>1, <1>3 DEF TypeOK, QueueInv, TaskInv, AckInv, AnyAborted
<1> QED BY <1>2, <1>4

LEMMA StutterKeeps ==
  ASSUME LinkInv, UNCHANGED vars
  PROVE  LinkInv'
BY DEF LinkInv, vars, TypeOK, CallsInv, QueueInv, TaskInv, AckInv, AnyAborted, OnItsWay, Early

\* No task that sends, is aborted or acknowledges ever breaks the bookkeeping of
\* messages on their way: LinkInv is an invariant.
THEOREM LinkInvariant == Spec => []LinkInv
<1>1. LinkInv /\ [Next]_vars => LinkInv'
  BY CallKeeps, EnqueueKeeps, AwaitReturnsKeeps, AbortKeeps, LeaveKeeps, SenderRecvKeeps,
     SenderEndKeeps, SenderWriteKeeps, SenderAckKeeps, NetKeeps, StutterKeeps
     DEF Next, SendData, Sender
<1> QED BY <1>1, InitLink, PTL DEF Spec

\* The queue to the sender task holds at most Cap messages, and the peer never has
\* more than was sent.
THEOREM CommunatorTypeCorrect == Spec => []TypeOK
<1>1. LinkInv => TypeOK
  BY DEF LinkInv
<1> QED BY <1>1, LinkInvariant, PTL

-----------------------------------------------------------------------------
(* Refinement: every step is a step of Link or leaves its variables alone. *)

LEMMA InitImplements == Init => Abstract!Init
BY DEF Init, Abstract!Init

LEMMA CallImplements ==
  ASSUME LinkInv, NEW c \in Caller, Call(c)
  PROVE  Abstract!Next
<1>1. calls + 1 \in Msg /\ outcome[calls + 1] = "none"
  BY CommunatorAssumption DEF LinkInv, TypeOK, CallsInv, Call, Msg
<1>2. Abstract!Call(calls + 1)
  BY <1>1 DEF Call, Abstract!Call, Abstract!Move, net
<1> QED BY <1>1, <1>2 DEF Abstract!Next

\* tx.send fails only in a task whose sender panicked, and that took an abort.
LEMMA EnqueueImplements ==
  ASSUME LinkInv, NEW c \in Caller, Enqueue(c)
  PROVE  Abstract!Next \/ UNCHANGED Abstract!vars
<1>1. CASE task \in {"end", "panic"} /\ Leaves(c, "idle", "err")
  <2>1. cur[c] \in Msg /\ outcome[cur[c]] = "pending" /\ Early(cur[c]) /\ pc[c] = "enqueue"
    BY <1>1 DEF Enqueue, LinkInv, TypeOK, CallsInv, Early
  <2>2. cur[c] \notin Range(sent) /\ AnyAborted
    BY <1>1, <2>1 DEF LinkInv, AckInv, TaskInv
  <2>3. Abstract!ReturnErr(cur[c])
    BY <1>1, <2>1, <2>2 DEF Enqueue, Leaves, net, AnyAborted, Abstract!ReturnErr,
       Abstract!Move, Range, Abstract!Range
  <2> QED BY <2>1, <2>3 DEF Abstract!Next
<1>2. CASE UNCHANGED outcome
  BY <1>2 DEF Enqueue, net, Abstract!vars
<1> QED BY <1>1, <1>2 DEF Enqueue

LEMMA AwaitImplements ==
  ASSUME LinkInv, NEW c \in Caller, AwaitReturns(c)
  PROVE  Abstract!Next
<1>1. cur[c] \in Msg /\ outcome[cur[c]] = "pending" /\ oneshot[cur[c]] \in {"ok", "err", "closed"}
  BY DEF AwaitReturns, LinkInv, TypeOK, CallsInv
<1>2. CASE oneshot[cur[c]] = "ok"
  <2>1. cur[c] \in Range(sent)
    BY <1>1, <1>2 DEF LinkInv, AckInv
  <2>2. Abstract!ReturnOk(cur[c])
    BY <1>1, <1>2, <2>1 DEF AwaitReturns, Leaves, net, Abstract!ReturnOk, Abstract!Move, Range,
       Abstract!Range
  <2> QED BY <1>1, <2>2 DEF Abstract!Next
<1>3. CASE oneshot[cur[c]] \in {"err", "closed"}
  <2>1. cur[c] \notin Range(sent) /\ (conn = "broken" \/ cur[c] \in MaybeTooLong \/ AnyAborted)
    BY <1>1, <1>3 DEF LinkInv, AckInv
  <2>2. Abstract!ReturnErr(cur[c])
    BY <1>1, <1>3, <2>1 DEF AwaitReturns, Leaves, net, AnyAborted, Abstract!ReturnErr,
       Abstract!Move, Range, Abstract!Range
  <2> QED BY <1>1, <2>2 DEF Abstract!Next
<1> QED BY <1>1, <1>2, <1>3

LEMMA AbortImplements ==
  ASSUME LinkInv, NEW c \in Caller, Abort(c)
  PROVE  Abstract!Next
<1>1. cur[c] \in Msg /\ outcome[cur[c]] = "pending"
  BY DEF Abort, LinkInv, TypeOK, CallsInv
<1>2. Abstract!Abort(cur[c])
  BY <1>1 DEF Abort, Leaves, net, Abstract!Abort, Abstract!Move
<1> QED BY <1>1, <1>2 DEF Abstract!Next

LEMMA WriteImplements ==
  ASSUME LinkInv, SenderWrite
  PROVE  Abstract!Next \/ UNCHANGED Abstract!vars
<1>1. item \in Msg /\ outcome[item] \in {"pending", "aborted"} /\ item \notin Range(sent)
  BY DEF SenderWrite, LinkInv, TypeOK, TaskInv, OnItsWay
<1>2. CASE sent' = Append(sent, item)
  <2>1. Abstract!Transmit(item)
    BY <1>1, <1>2 DEF SenderWrite, callers, Abstract!Transmit, Range, Abstract!Range
  <2> QED BY <1>1, <2>1 DEF Abstract!Next
<1>3. CASE UNCHANGED sent
  BY <1>3 DEF SenderWrite, callers, Abstract!vars
<1> QED BY <1>2, <1>3 DEF SenderWrite

\* send_data keeps the promises of Link, whatever is aborted or breaks and however
\* many tasks share the connection: Ok means that the frame was handed over, once;
\* Err that it never will be; and without a broken connection, a frame too long or an
\* aborted call nobody gets an Err.
THEOREM CommunatorRefinesLink == Spec => ImplementsLink
<1>1. LinkInv /\ [Next]_vars => [Abstract!Next]_(Abstract!vars)
  <2> SUFFICES ASSUME LinkInv, [Next]_vars
               PROVE  Abstract!Next \/ UNCHANGED Abstract!vars
    OBVIOUS
  <2>1. CASE \E c \in Caller : Call(c) \/ Enqueue(c) \/ AwaitReturns(c) \/ Abort(c)
    BY <2>1, CallImplements, EnqueueImplements, AwaitImplements, AbortImplements
  <2>2. CASE \E c \in Caller : Leave(c)
    BY <2>2 DEF Leave, net, Abstract!vars
  <2>3. CASE SenderRecv \/ SenderEnd \/ SenderAck
    BY <2>3 DEF SenderRecv, SenderEnd, SenderAck, callers, net, Abstract!vars
  <2>4. CASE SenderWrite
    BY <2>4, WriteImplements
  <2>5. CASE RecvData
    BY <2>5 DEF RecvData, callers, Abstract!Next, Abstract!Receive
  <2>6. CASE Break
    BY <2>6 DEF Break, callers, Abstract!Next, Abstract!Break
  <2>7. CASE UNCHANGED vars
    BY <2>7 DEF vars, Abstract!vars
  <2> QED BY <2>1, <2>2, <2>3, <2>4, <2>5, <2>6, <2>7 DEF Next, SendData, Sender
<1> QED BY <1>1, InitImplements, LinkInvariant, PTL DEF Spec, ImplementsLink, Abstract!Spec
=============================================================================
