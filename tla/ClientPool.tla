----------------------------- MODULE ClientPool -----------------------------
(***************************************************************************)
(* The server's pool of decoding clients: src/server_consumer/             *)
(* client_pool.rs and client_agent.rs.  A listener task accepts clients;   *)
(* each gets a ClientAgent with a bounded queue of pieces of trace, a task *)
(* h that handles what the client sends, and a task h2 that sends the      *)
(* queue to it.  The task that owns the pool hands out pieces (decode),    *)
(* collects counts (get_result) and shuts the pool down (stop).            *)
(*                                                                         *)
(* A client's counts for a piece are represented by the piece's number.    *)
(* As in ServerAgent, h2 and the owner block a thread of the runtime while *)
(* they wait on a crossbeam channel.                                       *)
(***************************************************************************)
EXTENDS Integers, Sequences, FiniteSets, SequencesExt

CONSTANTS
  ClientLimit,   \* the listener stops once there are more clients (32)
  Cap,           \* capacity of tx_proc_data (1024)
  Threads,       \* worker threads of the tokio runtime
  MaxTasks,      \* bound on the pieces handed to decode
  MaybeTooLong   \* the pieces that may exceed the frame limit of the codec (8 MiB)

Client == 1 .. ClientLimit + 1
Task == 1 .. MaxTasks

ASSUME PoolAssumption ==
  /\ ClientLimit \in Nat /\ Cap \in Nat \ {0} /\ Threads \in Nat \ {0}
  /\ MaxTasks \in Nat /\ MaybeTooLong \subseteq Task

VARIABLES
  listener,    \* "listen" or "stopped"
  len,         \* clients.len()
  taken,       \* the clients whose entry has become None
  state,       \* ClientState of each agent
  h, h2,       \* the two tasks of each agent
  sending,     \* the piece h2 is sending (0 when none)
  tx_proc_data,\* the queue of each agent
  rst_data,    \* the counts merged by each agent
  owner,       \* where the pool's owner is
  idx,         \* decode and get_result: the entry looked at
  chosen,      \* decode: whether it was found usable
  cur,         \* decode: the piece
  started,     \* pieces handed to decode so far
  dropped,     \* history: pieces decode threw away
  refused,     \* history: pieces the codec refused to send
  fetched,     \* history: the counts get_result returned
  peer,        \* each client's connection: "absent", "open" or "closed"
  inbox,       \* messages from each client
  held         \* pieces each client is decoding

agents == <<state, h, h2, sending, tx_proc_data, rst_data, refused>>
pool == <<owner, idx, chosen, cur, started, dropped, fetched>>
net == <<peer, inbox, held>>
vars == <<listener, len, taken, state, h, h2, sending, tx_proc_data, rst_data, owner,
          idx, chosen, cur, started, dropped, refused, fetched, peer, inbox, held>>

RegReq == [t |-> "RegReq"]
MemReq == [t |-> "MemReq"]
DataRsp(k) == [t |-> "DataRsp", task |-> k]

\* No client yet, and no piece.
Empty ==
  /\ len = 0 /\ taken = {}
  /\ state = [c \in Client |-> "Connected"]
  /\ h = [c \in Client |-> "unborn"]
  /\ h2 = [c \in Client |-> "unborn"]
  /\ sending = [c \in Client |-> 0]
  /\ tx_proc_data = [c \in Client |-> << >>]
  /\ rst_data = [c \in Client |-> {}]
  /\ idx = 1 /\ chosen = FALSE /\ cur = 0 /\ started = 0
  /\ dropped = {} /\ refused = {} /\ fetched = {}
  /\ peer = [c \in Client |-> "absent"]
  /\ inbox = [c \in Client |-> << >>]
  /\ held = [c \in Client |-> {}]

\* start_server has returned: the listener is bound.
Init == Empty /\ listener = "listen" /\ owner = "recv"

-----------------------------------------------------------------------------
(* The runtime: a task that awaits makes a step when a thread is free.     *)

Blocked == {c \in Client : h2[c] = "recv"}
             \cup {t \in {0} : owner \in {"recv", "publish"}}
Free == Cardinality(Blocked) < Threads

-----------------------------------------------------------------------------
(* The clients (ServerAgent on other machines): each connects, registers,  *)
(* asks for memory while it decodes, answers the pieces it holds in any    *)
(* order, and may go away.  Nothing forces a client to answer.             *)

PeerConnect(c) ==
  /\ listener = "listen"
  /\ peer[c] = "absent"
  /\ \A d \in 1 .. c - 1 : peer[d] # "absent"
  /\ peer' = [peer EXCEPT ![c] = "open"]
  /\ inbox' = [inbox EXCEPT ![c] = << RegReq >>]
  /\ UNCHANGED <<listener, len, taken, agents, pool, held>>

PeerAnswer(c) ==
  /\ peer[c] = "open"
  /\ \E k \in held[c] :
       /\ held' = [held EXCEPT ![c] = @ \ {k}]
       /\ inbox' = [inbox EXCEPT ![c] = Append(@, DataRsp(k))]
  /\ UNCHANGED <<listener, len, taken, agents, pool, peer>>

\* A worker of the client needs a page.  The request is on its way by itself, which
\* bounds the requests; h does with it the same wherever it stands.
PeerAsk(c) ==
  /\ peer[c] = "open"
  /\ held[c] # {}
  /\ inbox[c] = << >>
  /\ inbox' = [inbox EXCEPT ![c] = << MemReq >>]
  /\ UNCHANGED <<listener, len, taken, agents, pool, peer, held>>

PeerClose(c) ==
  /\ peer[c] = "open"
  /\ peer' = [peer EXCEPT ![c] = "closed"]
  /\ held' = [held EXCEPT ![c] = {}]
  /\ \E n \in 0 .. Len(inbox[c]) : inbox' = [inbox EXCEPT ![c] = SubSeq(@, 1, n)]
  /\ UNCHANGED <<listener, len, taken, agents, pool>>

-----------------------------------------------------------------------------
(* The listener.  It needs the write lock on the client list, which decode *)
(* and get_result keep away, decode also while it is blocked on a full     *)
(* queue.                                                                  *)

Locked == owner \in {"scan", "publish", "result", "fetch", "reap"}

Accept ==
  /\ listener = "listen"
  /\ Free
  /\ len < ClientLimit + 1
  /\ peer[len + 1] # "absent"
  /\ ~Locked
  /\ len' = len + 1
  /\ h' = [h EXCEPT ![len + 1] = "run"]
  /\ h2' = [h2 EXCEPT ![len + 1] = "ready"]
  /\ listener' = IF len + 1 > ClientLimit THEN "stopped" ELSE "listen"
  /\ UNCHANGED <<taken, state, sending, tx_proc_data, rst_data, refused, pool, net>>

-----------------------------------------------------------------------------
(* ClientAgent: task h.                                                    *)

\* The state once RegReq is handled, set under the write lock (not through the
\* future of set_state, which nothing awaits).
NotActivated(c) == state
Activated(c) == [state EXCEPT ![c] = "Activate"]

\* RegReq activates the agent; MemReq is answered from the memory of the traced
\* process; DataRsp is merged into rst_data.
HRecv(c) ==
  LET m == Head(inbox[c]) IN
  /\ h[c] = "run"
  /\ Free
  /\ inbox[c] # << >>
  /\ inbox' = [inbox EXCEPT ![c] = Tail(@)]
  /\ \/ /\ m.t = "RegReq"
        /\ state' = Activated(c)
        /\ UNCHANGED rst_data
     \/ /\ m.t = "MemReq"
        /\ UNCHANGED <<state, rst_data>>
     \/ /\ m.t = "DataRsp"
        /\ rst_data' = [rst_data EXCEPT ![c] = @ \cup {m.task}]
        /\ UNCHANGED state
  /\ UNCHANGED <<listener, len, taken, h, h2, sending, tx_proc_data, refused, pool, peer,
                 held>>

\* recv_data fails.  set_state(.., DisConnect) only makes a future, which is
\* dropped: the state stays what it was.
StateAtEnd(c) == state
HEnd(c) ==
  /\ h[c] = "run"
  /\ Free
  /\ peer[c] = "closed"
  /\ inbox[c] = << >>
  /\ h' = [h EXCEPT ![c] = "end"]
  /\ state' = StateAtEnd(c)
  /\ UNCHANGED <<listener, len, taken, h2, sending, tx_proc_data, rst_data, refused, pool,
                 net>>

-----------------------------------------------------------------------------
(* ClientAgent: task h2.                                                   *)

H2Start(c) ==
  /\ h2[c] = "ready"
  /\ Free
  /\ h2' = [h2 EXCEPT ![c] = "recv"]
  /\ UNCHANGED <<listener, len, taken, state, h, sending, tx_proc_data, rst_data, refused,
                 pool, net>>

Peeked(c) == tx_proc_data
Popped(c) == [tx_proc_data EXCEPT ![c] = Tail(@)]

H2Recv(c) ==
  /\ h2[c] = "recv"
  /\ tx_proc_data[c] # << >>
  /\ sending' = [sending EXCEPT ![c] = Head(tx_proc_data[c])]
  /\ tx_proc_data' = Popped(c)
  /\ h2' = [h2 EXCEPT ![c] = "send"]
  /\ UNCHANGED <<listener, len, taken, state, h, rst_data, refused, pool, net>>

\* send_data(DataReq): on a broken connection the piece is lost, and the call may
\* fail; it fails on a sound one when the piece is too long for a frame.  A
\* failure ends the task and drops the queue.
H2Send(c) ==
  /\ h2[c] = "send"
  /\ owner # "stopped"
  /\ Free
  /\ sending' = [sending EXCEPT ![c] = 0]
  /\ \/ /\ held' = [held EXCEPT ![c] = IF peer[c] = "open" THEN @ \cup {sending[c]} ELSE @]
        /\ h2' = [h2 EXCEPT ![c] = "recv"]
        /\ UNCHANGED <<tx_proc_data, state, refused>>
     \/ /\ peer[c] = "closed" \/ sending[c] \in MaybeTooLong
        /\ h2' = [h2 EXCEPT ![c] = "end"]
        /\ tx_proc_data' = [tx_proc_data EXCEPT ![c] = << >>]
        /\ state' = StateAtEnd(c)
        /\ refused' = refused \cup (MaybeTooLong \cap {sending[c]})
        /\ UNCHANGED held
  /\ UNCHANGED <<listener, len, taken, h, rst_data, pool, peer, inbox>>

-----------------------------------------------------------------------------
(* The owner: decode.                                                      *)

\* A piece arrives; decode takes the read lock.
Decode ==
  /\ owner = "recv"
  /\ started < MaxTasks
  /\ started' = started + 1
  /\ cur' = started + 1
  /\ owner' = "scan" /\ idx' = 1 /\ chosen' = FALSE
  /\ UNCHANGED <<listener, len, taken, agents, dropped, fetched, net>>

\* ClientAgent::is_full.
IsFullUnregistered(c) == Len(tx_proc_data[c]) >= Cap
IsFull(c) == state[c] # "Activate" \/ Len(tx_proc_data[c]) >= Cap

\* Look at one more entry; after the last one fall back on the first, and drop the
\* piece when there is none.
Scan ==
  /\ owner = "scan"
  /\ Free
  /\ \/ /\ idx <= len /\ idx \notin taken /\ ~IsFull(idx)
        /\ owner' = "publish" /\ chosen' = TRUE
        /\ UNCHANGED <<idx, cur, dropped>>
     \/ /\ idx < len /\ (idx \in taken \/ IsFull(idx))
        /\ idx' = idx + 1
        /\ UNCHANGED <<owner, chosen, cur, dropped>>
     \/ /\ idx = len /\ (idx \in taken \/ IsFull(idx)) /\ 1 \notin taken
        /\ owner' = "publish" /\ idx' = 1
        /\ UNCHANGED <<chosen, cur, dropped>>
     \/ /\ len = 0 \/ (idx = len /\ (idx \in taken \/ IsFull(idx)) /\ 1 \in taken)
        /\ owner' = "recv" /\ dropped' = dropped \cup {cur} /\ cur' = 0
        /\ UNCHANGED <<idx, chosen>>
  /\ UNCHANGED <<listener, len, taken, agents, started, fetched, net>>

\* send on the bounded channel: an error once h2 has dropped the receiver,
\* otherwise it waits for room.
SendFailsWhenFull(c) == h2[c] = "end" \/ Len(tx_proc_data[c]) >= Cap
SendFails(c) == h2[c] = "end"

HasRoomForOneMore(c) == Len(tx_proc_data[c]) <= Cap
HasRoom(c) == Len(tx_proc_data[c]) < Cap

\* publish_task: send(..).unwrap().
Publish ==
  /\ owner = "publish"
  /\ \/ /\ SendFails(idx)
        /\ owner' = "panic"
        /\ UNCHANGED tx_proc_data
     \/ /\ ~SendFails(idx) /\ HasRoom(idx)
        /\ tx_proc_data' = [tx_proc_data EXCEPT ![idx] = Append(@, cur)]
        /\ owner' = "recv"
  /\ cur' = 0 /\ idx' = 1 /\ chosen' = FALSE
  /\ UNCHANGED <<listener, len, taken, state, h, h2, sending, rst_data, refused, started,
                 dropped, fetched, net>>

-----------------------------------------------------------------------------
(* The owner: get_result and stop.                                         *)

\* ClientAgent::has_result.
HasResult(c) == rst_data[c] = {}

\* get_result takes the write lock and begins with the first entry.
CallGetResult ==
  /\ owner = "recv"
  /\ owner' = "result" /\ idx' = 1
  /\ UNCHANGED <<listener, len, taken, agents, chosen, cur, started, dropped, fetched, net>>

\* On to the next entry; after the last one get_result returns.
NextEntry ==
  IF idx < len THEN owner' = "result" /\ idx' = idx + 1
               ELSE owner' = "recv" /\ idx' = 1

\* has_result is asked, unless the entry is None.
AskHasResult ==
  /\ owner = "result"
  /\ Free
  /\ \/ /\ len = 0 \/ idx \in taken
        /\ NextEntry
     \/ /\ len > 0 /\ idx \notin taken
        /\ owner' = IF HasResult(idx) THEN "fetch" ELSE "reap"
        /\ UNCHANGED idx
  /\ UNCHANGED <<listener, len, taken, agents, chosen, cur, started, dropped, fetched, net>>

\* fetch_result takes what rst_data holds by now.
FetchResult ==
  /\ owner = "fetch"
  /\ Free
  /\ fetched' = fetched \cup rst_data[idx]
  /\ rst_data' = [rst_data EXCEPT ![idx] = {}]
  /\ owner' = "reap"
  /\ UNCHANGED <<listener, len, taken, state, h, h2, sending, tx_proc_data, refused, idx,
                 chosen, cur, started, dropped, net>>

\* A disconnected agent loses its entry (under the same lock, after the loop).
Reap ==
  /\ owner = "reap"
  /\ Free
  /\ taken' = IF state[idx] = "DisConnect" THEN taken \cup {idx} ELSE taken
  /\ NextEntry
  /\ UNCHANGED <<listener, len, agents, chosen, cur, started, dropped, fetched, net>>

GetResult == AskHasResult \/ FetchResult \/ Reap

\* stop disconnects every agent: its tasks are aborted and its queue is dropped.  An h2
\* that is blocked in recv is out of abort's reach and keeps the queue until it
\* comes to its next await.  What a client still sends reaches nobody.
Stop ==
  /\ owner = "recv"
  /\ owner' = "stopped"
  /\ listener' = "stopped"
  /\ taken' = 1 .. len
  /\ h' = [c \in Client |-> IF h[c] = "unborn" THEN h[c] ELSE "end"]
  /\ h2' = [c \in Client |-> IF h2[c] \in {"unborn", "recv"} THEN h2[c] ELSE "end"]
  /\ sending' = [c \in Client |-> 0]
  /\ tx_proc_data' = [c \in Client |-> IF h2[c] = "recv" THEN tx_proc_data[c] ELSE << >>]
  /\ rst_data' = [c \in Client |-> {}]
  /\ peer' = [c \in Client |-> IF peer[c] = "open" THEN "closed" ELSE peer[c]]
  /\ inbox' = [c \in Client |-> << >>]
  /\ held' = [c \in Client |-> {}]
  /\ UNCHANGED <<len, state, refused, idx, chosen, cur, started, dropped, fetched>>

\* The end of such an h2: recv fails on the empty queue, as the sender is gone, or
\* the task is cancelled at the await in send_data.
H2Cancel(c) ==
  /\ owner = "stopped"
  /\ h2[c] = "send" \/ (h2[c] = "recv" /\ tx_proc_data[c] = << >>)
  /\ h2' = [h2 EXCEPT ![c] = "end"]
  /\ sending' = [sending EXCEPT ![c] = 0]
  /\ tx_proc_data' = [tx_proc_data EXCEPT ![c] = << >>]
  /\ UNCHANGED <<listener, len, taken, state, h, rst_data, refused, pool, net>>

-----------------------------------------------------------------------------
H(c) == HRecv(c) \/ HEnd(c)
H2(c) == H2Start(c) \/ H2Recv(c) \/ H2Send(c) \/ H2Cancel(c)
Peer(c) == PeerConnect(c) \/ PeerAnswer(c) \/ PeerAsk(c) \/ PeerClose(c)
Owner == Scan \/ Publish \/ GetResult

Next ==
  \/ \E c \in Client : Peer(c) \/ H(c) \/ H2(c)
  \/ Accept \/ Decode \/ CallGetResult \/ Stop \/ Owner

\* The runtime polls every ready task while it has a free thread.  Nothing forces a
\* client to do anything, or a call of decode, get_result or stop.
Spec ==
  /\ Init /\ [][Next]_vars
  /\ WF_vars(Accept) /\ WF_vars(Owner)
  /\ \A c \in Client : WF_vars(H(c)) /\ WF_vars(H2(c))
-----------------------------------------------------------------------------
TypeOK ==
  /\ listener \in {"listen", "stopped"}
  /\ len \in 0 .. ClientLimit + 1
  /\ taken \subseteq 1 .. len
  /\ state \in [Client -> {"Connected", "Activate", "DisConnect"}]
  /\ h \in [Client -> {"unborn", "run", "end"}]
  /\ h2 \in [Client -> {"unborn", "ready", "recv", "send", "end"}]
  /\ sending \in [Client -> Task \cup {0}]
  /\ \A c \in Client : tx_proc_data[c] \in Seq(Task) /\ Len(tx_proc_data[c]) <= Cap
  /\ rst_data \in [Client -> SUBSET Task]
  /\ owner \in {"recv", "scan", "publish", "result", "fetch", "reap", "panic", "stopped"}
  /\ idx \in Client /\ chosen \in BOOLEAN /\ cur \in Task \cup {0}
  /\ started \in 0 .. MaxTasks
  /\ dropped \subseteq Task /\ refused \subseteq Task /\ fetched \subseteq Task
  /\ peer \in [Client -> {"absent", "open", "closed"}]
  /\ inbox \in [Client -> Seq({RegReq, MemReq} \cup {DataRsp(k) : k \in Task})]
  /\ held \in [Client -> SUBSET Task]

\* The places where client c's side of the pool holds piece k.
PlacesAt(c, k) ==
  Cardinality({n \in 1 .. Len(tx_proc_data[c]) : tx_proc_data[c][n] = k})
    + Cardinality({n \in 1 .. Len(inbox[c]) : inbox[c][n] = DataRsp(k)})
    + Cardinality({r \in {"sending"} : sending[c] = k})
    + Cardinality({r \in {"held"} : k \in held[c]})
    + Cardinality({r \in {"rst_data"} : k \in rst_data[c]})

\* Every piece handed to decode has one fate: no client ever decodes or reports a
\* piece of another one, and as long as no connection was lost, no frame
\* refused and the pool runs, none disappears between the queue and rst_data.
OneFate ==
  \A k \in 1 .. started :
    LET at == {c \in Client : PlacesAt(c, k) > 0}
        elsewhere == Cardinality({r \in {"cur"} : cur = k})
                       + Cardinality({k} \cap dropped) + Cardinality({k} \cap fetched)
    IN  /\ Cardinality(at) + elsewhere <= 1
        /\ \A c \in at : PlacesAt(c, k) = 1
        /\ (\A c \in Client : peer[c] # "closed") /\ refused = {} => Cardinality(at) + elsewhere = 1

\* What is_full saw still holds when the piece is published: a chosen client has
\* room, so that decode never waits for it with the client list locked, and has
\* registered.  Only the fall back on the first client may find neither.
ChosenUsable ==
  owner = "publish" /\ chosen =>
    /\ h2[idx] # "end" => Len(tx_proc_data[idx]) < Cap
    /\ RegReq \notin Range(inbox[idx])

\* The unwrap in publish_task fails only after the h2 task of some client has ended,
\* and that takes a lost connection or a piece too long for a frame.
PanicOnlyAfterLoss ==
  owner = "panic" =>
    \E c \in 1 .. len : h2[c] = "end" /\ (peer[c] = "closed" \/ refused # {})


\* A client that was accepted gets registered, unless it leaves, or the pool is stopped.
Registered ==
  \A c \in Client :
    h[c] = "run" ~> (state[c] = "Activate" \/ peer[c] = "closed" \/ owner = "stopped")

\* It does unless the blocking receives of h2 and of the owner take the runtime's last
\* thread again and again: as many clients as threads may keep it for good, and then a
\* registration is never handled.  (test_agent_reg, with one client, asserts the answer.)
RegisteredUnlessStarved == <>[]Free => Registered

\* What the comment in get_result says: it does away with the disconnected clients.
DisconnectedReaped == [][Reap => (h[idx] = "end" /\ h2[idx] = "end" => idx \in taken')]_vars
=============================================================================
