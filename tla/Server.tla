------------------------------- MODULE Server -------------------------------
(***************************************************************************)
(* The capturing server, src/bin/server.rs, composed with the pool of      *)
(* decoding clients: the main thread sets everything up (create_env),      *)
(* polls the trace rings and hands chunks to one spliter thread per        *)
(* processor; the spliters put complete pieces into one queue, and a task  *)
(* of the runtime takes them out and calls ClientPool::decode.  Ctrl-C     *)
(* ends the capture; main then joins the spliters and ends the process,    *)
(* whatever the pool is doing.                                             *)
(*                                                                         *)
(* The threads create_worker_thread makes have an empty body and hold no   *)
(* receiver.  Pieces are numbered when decode gets them; before, only how  *)
(* many there are matters.  OnlineProc models how they are cut.            *)
(***************************************************************************)
EXTENDS ClientPool

CONSTANTS
  CpuNums,   \* cpu_nums
  MaxChan    \* bound on the chunks waiting for a spliter

Cpu == 0 .. CpuNums - 1

ASSUME ServerAssumption == CpuNums \in Nat \ {0} /\ MaxChan \in Nat \ {0}

VARIABLES
  main,         \* the main thread
  cpu, flags,   \* setup_pt_no_pmi: the ring polled, the rings that saw G_STOP
  G_STOP,       \* set by the Ctrl-C handler
  PID, DEV_HANDLE,     \* the statics have been assigned
  unset,        \* the pool got the initial value of one of them
  captured,     \* history: complete pieces captured
  chan,         \* the channel to each spliter: pieces each chunk completes
  tx,           \* the sender to each spliter is still there
  spl,          \* the spliters: "run", "done" or "panic"
  queue         \* pieces in the channel to the pool's task

statics == <<PID, DEV_HANDLE>>
poll == <<cpu, flags, captured>>
threads == <<chan, tx, spl>>
pooled == <<listener, len, taken, agents, pool, net>>
serverVars == <<pooled, main, cpu, flags, G_STOP, PID, DEV_HANDLE, unset,
                captured, chan, tx, spl, queue>>

Running == main \notin {"exit", "crashed", "lost"}
InEnv == main \in {"env", "assign"}

\* The pool's task has ended, and its receiver with it.
NoReceiver == owner \in {"ended", "panic"}

ServerInit ==
  /\ Empty /\ listener = "unborn" /\ owner = "unborn"
  /\ main = "env" /\ cpu = 0 /\ flags = {} /\ G_STOP = FALSE
  /\ PID = FALSE /\ DEV_HANDLE = FALSE
  /\ unset = FALSE
  /\ captured = 0
  /\ chan = [c \in Cpu |-> << >>]
  /\ tx = [c \in Cpu |-> TRUE]
  /\ spl = [c \in Cpu |-> "run"]
  /\ queue = 0

-----------------------------------------------------------------------------
(* The main thread: create_env.                                            *)

\* create_client_pool_thread spawns the pool's task.
SpawnPool ==
  /\ main = "env"
  /\ main' = "assign"
  /\ owner' = "spawned"
  /\ UNCHANGED <<listener, len, taken, agents, idx, chosen, cur, started, dropped, fetched,
                 net, poll, G_STOP, statics, unset, threads, queue>>

\* The two statics are assigned after that, without synchronisation: the pool's
\* task may see either of them first.  Then create_env returns.
AssignPid ==
  /\ main = "assign" /\ ~PID
  /\ PID' = TRUE
  /\ main' = IF DEV_HANDLE THEN "capture" ELSE main
  /\ UNCHANGED <<pooled, poll, G_STOP, DEV_HANDLE, unset, threads, queue>>

AssignDev ==
  /\ main = "assign" /\ ~DEV_HANDLE
  /\ DEV_HANDLE' = TRUE
  /\ main' = IF PID THEN "capture" ELSE main
  /\ UNCHANGED <<pooled, poll, G_STOP, PID, unset, threads, queue>>

-----------------------------------------------------------------------------
(* The main thread: setup_pt_no_pmi.                                       *)

CtrlC ==
  /\ ~G_STOP
  /\ G_STOP' = TRUE
  /\ UNCHANGED <<pooled, main, poll, statics, unset, threads, queue>>

\* The rings are polled round after round.
NextCpuUnwrapped == cpu + 1
NextCpu == (cpu + 1) % CpuNums

\* On to the next ring, or out of the loop when every ring of this round saw
\* G_STOP.
NextRing ==
  LET f == IF G_STOP THEN flags \cup {cpu} ELSE flags IN
  \/ /\ f = Cpu
     /\ main' = "drop" /\ cpu' = 0 /\ flags' = {}
  \/ /\ f # Cpu
     /\ cpu' = NextCpu
     /\ flags' = IF cpu = CpuNums - 1 THEN {} ELSE f
     /\ UNCHANGED main

\* fetch_data finds nothing.
PollNothing ==
  /\ main = "capture"
  /\ NextRing
  /\ UNCHANGED <<pooled, captured, G_STOP, statics, unset, threads, queue>>

\* It finds a chunk that completes n pieces; the send panics when the spliter is
\* gone.
PollChunk(n) ==
  /\ main = "capture"
  /\ captured + n <= MaxTasks
  /\ Len(chan[cpu]) < MaxChan
  /\ captured' = captured + n
  /\ \/ /\ spl[cpu] # "run"
        /\ main' = "crashed"
        /\ UNCHANGED <<cpu, flags, chan>>
     \/ /\ spl[cpu] = "run"
        /\ chan' = [chan EXCEPT ![cpu] = Append(@, n)]
        /\ NextRing
  /\ UNCHANGED <<pooled, G_STOP, statics, unset, tx, spl, queue>>

-----------------------------------------------------------------------------
(* The spliter threads.                                                    *)

\* A complete piece goes into the queue; the send panics once the pool is gone.
SpliterTurn(c) ==
  LET n == Head(chan[c]) IN
  /\ spl[c] = "run"
  /\ chan[c] # << >>
  /\ chan' = [chan EXCEPT ![c] = Tail(@)]
  /\ \/ /\ n > 0 /\ NoReceiver
        /\ spl' = [spl EXCEPT ![c] = "panic"]
        /\ UNCHANGED queue
     \/ /\ n = 0 \/ ~NoReceiver
        /\ queue' = queue + n
        /\ UNCHANGED spl
  /\ UNCHANGED <<pooled, main, poll, G_STOP, statics, unset, tx>>

\* recv fails once the sender is dropped and nothing is left.
RecvFailsUndrained(c) == ~tx[c]
RecvFails(c) == ~tx[c] /\ chan[c] = << >>

SpliterEnd(c) ==
  /\ spl[c] = "run"
  /\ RecvFails(c)
  /\ spl' = [spl EXCEPT ![c] = "done"]
  /\ UNCHANGED <<pooled, main, poll, G_STOP, statics, unset, chan, tx, queue>>

-----------------------------------------------------------------------------
(* The main thread: wait_for_complete and collect_all_data.                *)

KeptTx == tx
DroppedTx == [tx EXCEPT ![cpu] = FALSE]

DropTx ==
  /\ main = "drop"
  /\ tx' = DroppedTx
  /\ main' = "join"
  /\ UNCHANGED <<pooled, poll, G_STOP, statics, unset, chan, spl, queue>>

\* h.join().unwrap(); the workers, joined after the last spliter, have nothing to
\* do.
JoinSpliter ==
  /\ main = "join"
  /\ \/ /\ spl[cpu] = "panic"
        /\ main' = "crashed"
        /\ UNCHANGED cpu
     \/ /\ spl[cpu] = "done"
        /\ IF cpu = CpuNums - 1 THEN main' = "report" /\ cpu' = 0
                                ELSE main' = "drop" /\ cpu' = cpu + 1
  /\ UNCHANGED <<pooled, flags, captured, G_STOP, statics, unset, threads, queue>>

\* No worker decodes, so the tables and the report are empty; listing the modules
\* or writing the file may fail.  Then main returns, and the process ends.
Report ==
  /\ main = "report"
  /\ main' \in {"exit", "lost"}
  /\ UNCHANGED <<pooled, poll, G_STOP, statics, unset, threads, queue>>

-----------------------------------------------------------------------------
(* The pool's task.                                                        *)

\* The arguments of start_server are read, after an address was found for it.
ReadPid ==
  /\ owner = "spawned"
  /\ Free
  /\ owner' \in {"pid", "ended"}
  /\ unset' = ~PID
  /\ UNCHANGED <<listener, len, taken, agents, idx, chosen, cur, started, dropped, fetched,
                 net, main, poll, G_STOP, statics, threads>>

ReadDev ==
  /\ owner = "pid"
  /\ owner' = "dev"
  /\ unset' = (unset \/ ~DEV_HANDLE)
  /\ UNCHANGED <<listener, len, taken, agents, idx, chosen, cur, started, dropped, fetched,
                 net, main, poll, G_STOP, statics, threads>>

\* start_server binds the listener, or panics.
StartServer ==
  /\ owner = "dev"
  /\ Free
  /\ \/ owner' = "recv" /\ listener' = "listen"
     \/ owner' = "panic" /\ UNCHANGED listener
  /\ UNCHANGED <<len, taken, agents, idx, chosen, cur, started, dropped, fetched, net, main,
                 poll, G_STOP, statics, unset, threads>>

\* Every sender to the queue is gone: create_env's own and those of the spliters.
QueueClosedWhenIdle == TRUE
QueueClosed == ~InEnv /\ \A c \in Cpu : spl[c] # "run"

\* rx.recv fails: the queue is closed and empty.
PoolEnds ==
  /\ owner = "recv"
  /\ queue = 0
  /\ QueueClosed
  /\ owner' = "ended"
  /\ UNCHANGED <<listener, len, taken, agents, idx, chosen, cur, started, dropped, fetched,
                 net, main, poll, G_STOP, statics, unset, threads>>

\* rx.recv returns a piece, and decode begins.
TakePiece ==
  /\ queue > 0
  /\ Decode
  /\ queue' = queue - 1
  /\ UNCHANGED <<main, poll, G_STOP, statics, unset, threads>>

\* A step of the pool itself.
Within(A) ==
  /\ A
  /\ UNCHANGED <<main, poll, G_STOP, statics, unset, threads>>

\* What is queued is discarded when the pool's task ends and its receiver with it.
QueueKept == queue' = IF owner' \in {"ended", "panic"} THEN 0 ELSE queue

PoolTask == (ReadPid \/ ReadDev \/ StartServer \/ PoolEnds \/ Within(Owner)) /\ QueueKept
PoolOther(A) == Within(A) /\ UNCHANGED queue

-----------------------------------------------------------------------------
MainThread ==
  \/ SpawnPool \/ AssignPid \/ AssignDev
  \/ PollNothing \/ \E n \in {0, 1} : PollChunk(n)
  \/ DropTx \/ JoinSpliter \/ Report

Spliter(c) == SpliterTurn(c) \/ SpliterEnd(c)

ServerNext ==
  \/ /\ Running
     /\ \/ MainThread \/ CtrlC
        \/ \E c \in Cpu : Spliter(c)
        \/ PoolTask \/ TakePiece
        \/ PoolOther(Accept)
        \/ \E c \in Client : PoolOther(Peer(c) \/ H(c) \/ H2(c))
  \/ ~Running /\ UNCHANGED serverVars

\* The operating system schedules the threads, the runtime its tasks.  No client has to
\* do anything, and nobody has to press Ctrl-C.
ServerSpec ==
  /\ ServerInit /\ [][ServerNext]_serverVars
  /\ WF_serverVars(Running /\ MainThread)
  /\ \A c \in Cpu : WF_serverVars(Running /\ Spliter(c))
  /\ WF_serverVars(Running /\ (PoolTask \/ TakePiece))
  /\ \A c \in Client : WF_serverVars(Running /\ PoolOther(H2(c)))
-----------------------------------------------------------------------------
ServerTypeOK ==
  /\ main \in {"env", "assign", "capture", "drop", "join", "report", "exit", "crashed", "lost"}
  /\ cpu \in Cpu /\ flags \subseteq Cpu
  /\ {G_STOP, PID, DEV_HANDLE, unset} \subseteq BOOLEAN
  /\ captured \in 0 .. MaxTasks /\ queue \in 0 .. MaxTasks
  /\ chan \in [Cpu -> Seq({0, 1})] /\ tx \in [Cpu -> BOOLEAN]
  /\ spl \in [Cpu -> {"run", "done", "panic"}]
  /\ owner \in {"unborn", "spawned", "pid", "dev", "recv", "scan", "publish", "panic", "ended"}
  /\ listener \in {"unborn", "listen", "stopped"}

\* The pool could not be started, or lost a client, or was refused a frame.
PoolLost ==
  \/ listener = "unborn"
  \/ \E c \in 1 .. len : h2[c] = "end" /\ (peer[c] = "closed" \/ refused # {})

\* The capture is killed only by the pool: a panic in a spliter or in main means
\* that the pool could not be started, or that one of its clients was lost or was
\* sent a piece too long for a frame.  Ctrl-C, whenever it comes, and the order in
\* which the threads end never do it.
CrashOnlyAfterPoolLoss ==
  main = "crashed" \/ (\E c \in Cpu : spl[c] = "panic") =>
    NoReceiver /\ PoolLost

\* Pieces in the channels to the spliters.
WaitingAt == {w \in Cpu \X (1 .. MaxChan) : w[2] <= Len(chan[w[1]]) /\ chan[w[1]][w[2]] = 1}
Waiting == Cardinality(WaitingAt)

\* While the pool's task lives every complete piece captured is in a spliter's
\* channel, in the queue or with decode, and once the spliters are joined none is
\* left behind in a channel: what the end of the process cuts off is only what the
\* pool has not taken yet.
PieceAccounted ==
  /\ ~NoReceiver => captured = Waiting + queue + started
  /\ main \in {"report", "exit", "lost"} => Waiting = 0

\* A pool that accepts clients was started with the pid of the traced process and the
\* driver's handle, without which it cannot answer a client that asks for memory.
PoolServesTarget == listener # "unborn" => ~unset

\* Once Ctrl-C is pressed the server ends, whatever the pool and its clients do: the
\* unbounded queue never holds up a spliter, and main does not wait for the pool.
ServerStops == G_STOP ~> ~Running

=============================================================================
