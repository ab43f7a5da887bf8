---------------------------- MODULE ServerAgent ----------------------------
(***************************************************************************)
(* The decoding client, src/server_consumer/client_proc.rs, talking to one *)
(* server.  Task h1 receives the server's messages; two proc_data workers  *)
(* decode the pieces of trace it queues; a worker that needs a page of the *)
(* traced process sends a request to task h2, which records the worker's   *)
(* reply channel under the page's address in mem_req_lst and asks the      *)
(* server; h1 finds the channel there when the answer comes.               *)
(*                                                                         *)
(* The workers and h2 block the runtime thread they run on while they wait *)
(* on a crossbeam channel, and h1 does while it sends to a full one; a     *)
(* task that awaits gives its thread back.  Pages have no contents here.   *)
(***************************************************************************)
EXTENDS Integers, Sequences, FiniteSets, SequencesExt

CONSTANTS
  Worker,     \* the proc_data tasks (two in the source)
  Page,       \* addresses of pages
  None,       \* not a worker: nobody ever asked for the page
  Stale,      \* not a worker: a channel whose receiver is gone
  Threads,    \* worker threads of the tokio runtime
  MaxTasks,   \* bound on the pieces the server sends
  MaxInit,    \* bound on the Init messages the server sends
  MaybeTooLong   \* the pieces whose counts may exceed the frame limit (8 MiB)

ASSUME AgentAssumption ==
  /\ IsFiniteSet(Worker)
  /\ None \notin Worker /\ Stale \notin Worker /\ None # Stale
  /\ Threads \in Nat \ {0}
  /\ MaxTasks \in Nat
  /\ MaxInit \in Nat
  /\ MaybeTooLong \subseteq 1 .. MaxTasks

VARIABLES
  conn,         \* the TCP connection: "open" or "closed"
  to_client, to_server,   \* messages on it, oldest first
  issued,       \* pieces sent by the server so far, numbered from 1
  inits,        \* Init messages sent so far
  answered,     \* pieces whose DataRsp reached the server, in that order
  unsent,       \* history: pieces whose DataRsp was too long for a frame
  h1, h1_addr,  \* the receive loop: where it is, the page it answers
  h2, h2_req,   \* the request task: where it is, its request
  mem_req_tx,   \* the channel from the workers to h2
  mem_req_lst,  \* for each page, the worker that will get the answer
  proc_tx,      \* the channel from h1 to the workers
  wrk,          \* where each worker is
  cur,          \* the piece each worker decodes (0 when none)
  want,         \* the page each worker asked for last
  reply,        \* answers in each worker's reply channel: bounded(1)
  cache,        \* the pages in each worker's MemCacher
  overlap       \* history: two workers were waiting for the same page

net == <<conn, to_client, to_server>>
server == <<issued, inits, answered, unsent>>
tasks == <<wrk, cur, want, reply, cache>>
vars == <<conn, to_client, to_server, issued, inits, answered, unsent, h1, h1_addr, h2,
          h2_req, mem_req_tx, mem_req_lst, proc_tx, wrk, cur, want, reply, cache,
          overlap>>

Msg == [t : {"RegReq", "RegRsp", "Init"}]
         \cup [t : {"DataReq", "DataRsp"}, task : 1 .. MaxTasks]
         \cup [t : {"MemReq", "MemRsp"}, addr : Page]

DataReq(k) == [t |-> "DataReq", task |-> k]
DataRsp(k) == [t |-> "DataRsp", task |-> k]
MemReq(p) == [t |-> "MemReq", addr |-> p]
MemRsp(p) == [t |-> "MemRsp", addr |-> p]

Init ==
  /\ conn = "open"
  /\ to_client = << >> /\ to_server = << >>
  /\ issued = 0 /\ inits = 0 /\ answered = << >> /\ unsent = {}
  /\ h1 = "reg" /\ h1_addr = None
  /\ h2 = "unborn" /\ h2_req = << >>
  /\ mem_req_tx = << >>
  /\ mem_req_lst = [p \in Page |-> None]
  /\ proc_tx = << >>
  /\ wrk = [w \in Worker |-> "unborn"]
  /\ cur = [w \in Worker |-> 0]
  /\ want = [w \in Worker |-> None]
  /\ reply = [w \in Worker |-> 0]
  /\ cache = [w \in Worker |-> {}]
  /\ overlap = FALSE

-----------------------------------------------------------------------------
(* The runtime.  A task that awaits makes a step when a thread is free.    *)

Blocked ==
  {w \in Worker : wrk[w] \in {"recv", "decode", "wait", "got"}}
    \cup {t \in {"h2"} : h2 = "recv"}
    \cup {t \in {"h1"} : h1 = "send"}

Free == Cardinality(Blocked) < Threads

-----------------------------------------------------------------------------
(* The server's side of the connection (ClientAgent): it answers requests  *)
(* in order, a request for memory even when the memory cannot be read, and *)
(* sends pieces whether or not the client has registered.                  *)

AnswerUnlessUnreadable(m) ==
  CASE m.t = "RegReq" -> << [t |-> "RegRsp"] >>
    [] m.t = "MemReq" /\ m.addr # (CHOOSE p \in Page : TRUE) -> << MemRsp(m.addr) >>
    [] OTHER -> << >>
Answer(m) ==
  CASE m.t = "RegReq" -> << [t |-> "RegRsp"] >>
    [] m.t = "MemReq" -> << MemRsp(m.addr) >>
    [] OTHER -> << >>

ServerRecv ==
  LET m == Head(to_server) IN
  /\ conn = "open"
  /\ to_server # << >>
  /\ to_server' = Tail(to_server)
  /\ to_client' = to_client \o Answer(m)
  /\ answered' = IF m.t = "DataRsp" THEN Append(answered, m.task) ELSE answered
  /\ UNCHANGED <<conn, issued, inits, unsent, h1, h1_addr, h2, h2_req, mem_req_tx, mem_req_lst,
                 proc_tx, tasks, overlap>>

ServerPublish ==
  /\ conn = "open"
  /\ issued < MaxTasks
  /\ issued' = issued + 1
  /\ to_client' = Append(to_client, DataReq(issued + 1))
  /\ UNCHANGED <<conn, to_server, inits, answered, unsent, h1, h1_addr, h2, h2_req, mem_req_tx,
                 mem_req_lst, proc_tx, tasks, overlap>>

ServerInit ==
  /\ conn = "open"
  /\ inits < MaxInit
  /\ inits' = inits + 1
  /\ to_client' = Append(to_client, [t |-> "Init"])
  /\ UNCHANGED <<conn, to_server, issued, answered, unsent, h1, h1_addr, h2, h2_req, mem_req_tx,
                 mem_req_lst, proc_tx, tasks, overlap>>

\* The connection breaks: what the client sent is lost, and what was on its way
\* to the client is lost from some point on.
Break ==
  /\ conn = "open"
  /\ conn' = "closed"
  /\ to_server' = << >>
  /\ \E n \in 0 .. Len(to_client) : to_client' = SubSeq(to_client, 1, n)
  /\ UNCHANGED <<server, h1, h1_addr, h2, h2_req, mem_req_tx, mem_req_lst, proc_tx, tasks,
                 overlap>>

\* send_data: a message written to a connection that broke is lost, and the error
\* may show only at a later call.
SendOk(m) == to_server' = IF conn = "open" THEN Append(to_server, m) ELSE to_server
SendFails == conn = "closed" /\ UNCHANGED to_server

-----------------------------------------------------------------------------
(* h1: register, start the other tasks, receive.                           *)

Register ==
  /\ h1 = "reg"
  /\ Free
  /\ \/ /\ SendOk([t |-> "RegReq"])
        /\ h1' = "recv"
        /\ h2' = "ready"
        /\ wrk' = [w \in Worker |-> "ready"]
     \/ /\ SendFails
        /\ h1' = "end"
        /\ UNCHANGED <<h2, wrk>>
  /\ UNCHANGED <<conn, to_client, server, h1_addr, h2_req, mem_req_tx, mem_req_lst, proc_tx,
                 cur, want, reply, cache, overlap>>

H1Ready == h1 = "recv" /\ Free /\ to_client # << >>

\* RegRsp, Init and DataReq.
RecvCtrl ==
  LET m == Head(to_client) IN
  /\ H1Ready
  /\ m.t # "MemRsp"
  /\ to_client' = Tail(to_client)
  /\ proc_tx' = IF m.t \in {"Init", "DataReq"} THEN Append(proc_tx, m) ELSE proc_tx
  /\ UNCHANGED <<conn, to_server, server, h1, h1_addr, h2, h2_req, mem_req_tx, mem_req_lst,
                 tasks, overlap>>

\* A worker's reply channel: bounded(1).
NeverFull(w) == FALSE
ReplyFull(w) == reply[w] >= 1
Replied(x) == [w \in Worker |-> IF w = x THEN reply[w] + 1 ELSE reply[w]]

\* MemRsp: send the page to the channel recorded for it.  Nobody recorded: the
\* answer is dropped.  Receiver gone: the loop ends.  Channel full: h1 blocks,
\* with mem_req_lst locked.
RecvMemRsp ==
  LET p == Head(to_client).addr
      x == mem_req_lst[p]
  IN
  /\ H1Ready
  /\ Head(to_client).t = "MemRsp"
  /\ to_client' = Tail(to_client)
  /\ \/ /\ x = Stale
        /\ h1' = "end" /\ UNCHANGED <<h1_addr, reply>>
     \/ /\ x \in Worker => ~ReplyFull(x)
        /\ x # Stale
        /\ reply' = Replied(x)
        /\ UNCHANGED <<h1, h1_addr>>
     \/ /\ x \in Worker /\ ReplyFull(x)
        /\ h1' = "send" /\ h1_addr' = p /\ UNCHANGED reply
  /\ UNCHANGED <<conn, to_server, server, h2, h2_req, mem_req_tx, mem_req_lst, proc_tx, wrk,
                 cur, want, cache, overlap>>

\* The blocked send completes, or finds the receiver gone.
UnblockSend ==
  LET x == mem_req_lst[h1_addr] IN
  /\ h1 = "send"
  /\ \/ /\ x \in Worker /\ ~ReplyFull(x)
        /\ reply' = Replied(x)
        /\ h1' = "recv"
     \/ /\ x = Stale
        /\ h1' = "end" /\ UNCHANGED reply
  /\ h1_addr' = None
  /\ UNCHANGED <<net, server, h2, h2_req, mem_req_tx, mem_req_lst, proc_tx, wrk, cur, want,
                 cache, overlap>>

\* recv_data fails.
RecvClosed ==
  /\ h1 = "recv"
  /\ Free
  /\ conn = "closed"
  /\ to_client = << >>
  /\ h1' = "end"
  /\ UNCHANGED <<net, server, h1_addr, h2, h2_req, mem_req_tx, mem_req_lst, proc_tx, tasks,
                 overlap>>

-----------------------------------------------------------------------------
(* h2: turn the workers' requests into MemReq messages.                    *)

H2Start ==
  /\ h2 = "ready"
  /\ Free
  /\ h2' = "recv"
  /\ UNCHANGED <<net, server, h1, h1_addr, h2_req, mem_req_tx, mem_req_lst, proc_tx, tasks,
                 overlap>>

H2Recv ==
  /\ h2 = "recv"
  /\ mem_req_tx # << >>
  /\ h2' = "lock"
  /\ h2_req' = Head(mem_req_tx)
  /\ mem_req_tx' = Tail(mem_req_tx)
  /\ UNCHANGED <<net, server, h1, h1_addr, mem_req_lst, proc_tx, tasks, overlap>>

\* lock.insert(addr, rsp_ch): a sender already there is dropped.
InsertedIfAbsent(p, w) ==
  IF mem_req_lst[p] = None THEN [mem_req_lst EXCEPT ![p] = w] ELSE mem_req_lst
Inserted(p, w) == [mem_req_lst EXCEPT ![p] = w]

H2Insert ==
  /\ h2 = "lock"
  /\ Free
  /\ h1 # "send"
  /\ mem_req_lst' = Inserted(h2_req[1], h2_req[2])
  /\ h2' = "net"
  /\ UNCHANGED <<net, server, h1, h1_addr, h2_req, mem_req_tx, proc_tx, tasks, overlap>>

H2Send ==
  /\ h2 = "net"
  /\ Free
  /\ \/ /\ SendOk(MemReq(h2_req[1]))
        /\ h2' = "recv"
        /\ UNCHANGED mem_req_tx
     \/ /\ SendFails
        /\ h2' = "end"
        /\ mem_req_tx' = << >>
  /\ h2_req' = << >>
  /\ UNCHANGED <<conn, to_client, server, h1, h1_addr, mem_req_lst, proc_tx, tasks, overlap>>

\* recv fails: every holder of share_data is gone.
H2End ==
  /\ h2 = "recv"
  /\ mem_req_tx = << >>
  /\ h1 = "end"
  /\ \A w \in Worker : wrk[w] \in {"end", "panic"}
  /\ h2' = "end"
  /\ UNCHANGED <<net, server, h1, h1_addr, h2_req, mem_req_tx, mem_req_lst, proc_tx, tasks,
                 overlap>>

-----------------------------------------------------------------------------
(* The workers.                                                            *)

WorkerStart(w) ==
  /\ wrk[w] = "ready"
  /\ Free
  /\ wrk' = [wrk EXCEPT ![w] = "recv"]
  /\ UNCHANGED <<net, server, h1, h1_addr, h2, h2_req, mem_req_tx, mem_req_lst, proc_tx, cur,
                 want, reply, cache, overlap>>

\* ProcCtrl::Init clears this worker's cache; ProcCtrl::Proc starts a decoding.
WorkerRecv(w) ==
  LET m == Head(proc_tx) IN
  /\ wrk[w] = "recv"
  /\ proc_tx # << >>
  /\ proc_tx' = Tail(proc_tx)
  /\ \/ /\ m.t = "Init"
        /\ cache' = [cache EXCEPT ![w] = {}]
        /\ UNCHANGED <<wrk, cur>>
     \/ /\ m.t = "DataReq"
        /\ wrk' = [wrk EXCEPT ![w] = "decode"]
        /\ cur' = [cur EXCEPT ![w] = m.task]
        /\ UNCHANGED cache
  /\ UNCHANGED <<net, server, h1, h1_addr, h2, h2_req, mem_req_tx, mem_req_lst, want, reply,
                 overlap>>

\* The decoder needs a page that is not cached: read_mem sends the request, and
\* panics when h2 is gone.
ReadMem(w, p) ==
  /\ wrk[w] = "decode"
  /\ p \notin cache[w]
  /\ \/ /\ h2 # "end"
        /\ wrk' = [wrk EXCEPT ![w] = "wait"]
        /\ want' = [want EXCEPT ![w] = p]
        /\ mem_req_tx' = Append(mem_req_tx, <<p, w>>)
        /\ overlap' = (overlap \/ \E v \in Worker \ {w} : wrk[v] = "wait" /\ want[v] = p)
        /\ UNCHANGED cur
     \/ /\ h2 = "end"
        /\ wrk' = [wrk EXCEPT ![w] = "panic"]
        /\ cur' = [cur EXCEPT ![w] = 0]
        /\ UNCHANGED <<want, mem_req_tx, overlap>>
  /\ UNCHANGED <<net, server, h1, h1_addr, h2, h2_req, mem_req_lst, proc_tx, reply, cache>>

\* mem_req_lst is shared by h1 and h2, and goes with the second of them.
HasSender(w) ==
  \/ \E n \in 1 .. Len(mem_req_tx) : mem_req_tx[n][2] = w
  \/ h2_req # << >> /\ h2_req[2] = w
  \/ ~(h1 = "end" /\ h2 \in {"unborn", "end"}) /\ \E p \in Page : mem_req_lst[p] = w

\* rx.recv() returns: an answer, or the error that no sender is left.
RecvReturnsAnswer(w) == reply[w] = 1
RecvReturns(w) == reply[w] = 1 \/ ~HasSender(w)

WorkerGot(w) ==
  /\ wrk[w] = "wait"
  /\ RecvReturns(w)
  /\ wrk' = [wrk EXCEPT ![w] = "got"]
  /\ reply' = [reply EXCEPT ![w] = 0]
  /\ UNCHANGED <<net, server, h1, h1_addr, h2, h2_req, mem_req_tx, mem_req_lst, proc_tx, cur,
                 want, cache, overlap>>

\* read_mem returns and drops rx; the page is cached, answer or not.
WorkerCache(w) ==
  /\ wrk[w] = "got"
  /\ wrk' = [wrk EXCEPT ![w] = "decode"]
  /\ cache' = [cache EXCEPT ![w] = @ \cup {want[w]}]
  /\ want' = [want EXCEPT ![w] = None]
  /\ reply' = [reply EXCEPT ![w] = 0]
  /\ mem_req_lst' = [p \in Page |-> IF mem_req_lst[p] = w THEN Stale ELSE mem_req_lst[p]]
  /\ UNCHANGED <<net, server, h1, h1_addr, h2, h2_req, mem_req_tx, proc_tx, cur, overlap>>

\* async_decode returns.
WorkerDecoded(w) ==
  /\ wrk[w] = "decode"
  /\ wrk' = [wrk EXCEPT ![w] = "rsp"]
  /\ UNCHANGED <<net, server, h1, h1_addr, h2, h2_req, mem_req_tx, mem_req_lst, proc_tx, cur,
                 want, reply, cache, overlap>>

\* send_data(DataRsp): its error, a broken connection or counts too long for a
\* frame, is ignored.
KeptCur(w) == cur
ClearedCur(w) == [cur EXCEPT ![w] = 0]

WorkerRespond(w) ==
  /\ wrk[w] = "rsp"
  /\ Free
  /\ \/ SendOk(DataRsp(cur[w])) /\ UNCHANGED unsent
     \/ SendFails /\ UNCHANGED unsent
     \/ /\ cur[w] \in MaybeTooLong
        /\ unsent' = unsent \cup {cur[w]}
        /\ UNCHANGED to_server
  /\ wrk' = [wrk EXCEPT ![w] = "recv"]
  /\ cur' = ClearedCur(w)
  /\ UNCHANGED <<conn, to_client, issued, inits, answered, h1, h1_addr, h2, h2_req,
                 mem_req_tx, mem_req_lst, proc_tx, want, reply, cache, overlap>>

WorkerEnd(w) ==
  /\ wrk[w] = "recv"
  /\ proc_tx = << >>
  /\ h1 = "end"
  /\ wrk' = [wrk EXCEPT ![w] = "end"]
  /\ UNCHANGED <<net, server, h1, h1_addr, h2, h2_req, mem_req_tx, mem_req_lst, proc_tx, cur,
                 want, reply, cache, overlap>>

-----------------------------------------------------------------------------
H1 == Register \/ RecvCtrl \/ RecvMemRsp \/ UnblockSend \/ RecvClosed
H2 == H2Start \/ H2Recv \/ H2Insert \/ H2Send \/ H2End
Work(w) ==
  \/ WorkerStart(w) \/ WorkerRecv(w)
  \/ \E p \in Page : ReadMem(w, p)
  \/ WorkerGot(w) \/ WorkerCache(w) \/ WorkerDecoded(w) \/ WorkerRespond(w) \/ WorkerEnd(w)

Next ==
  \/ ServerRecv \/ ServerPublish \/ ServerInit \/ Break
  \/ H1 \/ H2 \/ \E w \in Worker : Work(w)

\* The runtime polls every task that is ready while it has a free thread, and the
\* server reads its socket.  Nothing forces the server to publish.
Spec ==
  /\ Init /\ [][Next]_vars
  /\ WF_vars(ServerRecv) /\ WF_vars(H1) /\ WF_vars(H2)
  /\ \A w \in Worker : WF_vars(Work(w))
-----------------------------------------------------------------------------
TypeOK ==
  /\ conn \in {"open", "closed"}
  /\ to_client \in Seq(Msg) /\ to_server \in Seq(Msg)
  /\ issued \in 0 .. MaxTasks /\ inits \in 0 .. MaxInit
  /\ answered \in Seq(1 .. MaxTasks) /\ unsent \subseteq MaybeTooLong
  /\ h1 \in {"reg", "recv", "send", "end"}
  /\ h1_addr \in Page \cup {None}
  /\ h2 \in {"unborn", "ready", "recv", "lock", "net", "end"}
  /\ h2_req \in {<< >>} \cup (Page \X Worker)
  /\ mem_req_tx \in Seq(Page \X Worker)
  /\ mem_req_lst \in [Page -> Worker \cup {None, Stale}]
  /\ proc_tx \in Seq(Msg)
  /\ wrk \in [Worker -> {"unborn", "ready", "recv", "decode", "wait", "got", "rsp", "end",
                         "panic"}]
  /\ cur \in [Worker -> 0 .. MaxTasks]
  /\ want \in [Worker -> Page \cup {None}]
  /\ reply \in [Worker -> 0 .. 1]
  /\ cache \in [Worker -> SUBSET Page]
  /\ overlap \in BOOLEAN

\* The places a piece of trace may be in.
Holding(s, k) == {n \in 1 .. Len(s) : s[n] \in {DataReq(k), DataRsp(k)}}
Places(k) ==
  Cardinality(Holding(to_client, k)) + Cardinality(Holding(proc_tx, k))
    + Cardinality({w \in Worker : cur[w] = k}) + Cardinality(Holding(to_server, k))
    + Cardinality({n \in 1 .. Len(answered) : answered[n] = k}) + Cardinality({k} \cap unsent)

\* No piece is ever decoded or answered twice, and none disappears while the
\* connection is up, except one whose counts do not fit into a frame.
PieceInOnePlace ==
  \A k \in 1 .. issued :
    /\ Places(k) <= 1
    /\ conn = "open" => Places(k) = 1

\* A worker waiting for a page is owed something, as long as the connection and the
\* receive loop live: an answer is in its channel or its request or the answer is on
\* its way and will find the worker's channel in mem_req_lst, or its sender was
\* dropped and recv returns an error.
NoOrphanWait ==
  conn = "open" /\ h1 # "end" =>
    \A w \in Worker : wrk[w] = "wait" =>
      LET p == want[w] IN
      \/ reply[w] = 1
      \/ ~HasSender(w)
      \/ Contains(mem_req_tx, <<p, w>>)
      \/ h2 = "lock" /\ h2_req = <<p, w>>
      \/ /\ mem_req_lst[p] = w
         /\ \/ h2 = "net" /\ h2_req[1] = p
            \/ Contains(to_server, MemReq(p))
            \/ Contains(to_client, MemRsp(p))
            \/ h1 = "send" /\ h1_addr = p

\* The receive loop gives up a working connection only after two workers were
\* waiting for the same page: without that, every MemRsp finds a live channel.
OnlyOverlapDisconnects == h1 = "end" /\ conn = "open" => overlap

\* A piece the client has received is answered, unless its counts are too long, the
\* connection breaks or the receive loop has given up.
PieceAnswered ==
  \A k \in 1 .. MaxTasks :
    Holding(proc_tx, k) # {} ~>
      \/ k \in unsent \/ (\E n \in 1 .. Len(answered) : answered[n] = k)
      \/ conn = "closed" \/ h1 = "end"

\* What the comment over the receive loop demands: handling a message never blocks.
RecvNeverBlocks == h1 # "send"

\* ... so that the server's messages keep being received: every message is taken out
\* of the connection, unless it breaks or the receive loop has ended.
MessagesReceived ==
  to_client # << >> ~> (to_client = << >> \/ h1 = "end" \/ conn = "closed")
=============================================================================
