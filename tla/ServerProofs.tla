---------------------------- MODULE ServerProofs ----------------------------
(***************************************************************************)
(* Proofs about Server, for any number of processors, clients, pieces and  *)
(* runtime threads: the lemmas of ClientPoolProofs carry the pool, and     *)
(* what is added here is how its task, the spliters and main depend on     *)
(* each other.                                                             *)
(***************************************************************************)
EXTENDS Server, ClientPoolProofs

\* ServerTypeOK without the flags, and with the bound on the channels.
ServerTypes ==
  /\ main \in {"env", "assign", "capture", "drop", "join", "report", "exit", "crashed", "lost"}
  /\ cpu \in Cpu /\ flags \subseteq Cpu
  /\ captured \in 0 .. MaxTasks /\ queue \in Nat
  /\ chan \in [Cpu -> Seq({0, 1})] /\ \A c \in Cpu : Len(chan[c]) <= MaxChan
  /\ spl \in [Cpu -> {"run", "done", "panic"}] /\ tx \in [Cpu -> BOOLEAN]
  /\ owner \in {"unborn", "spawned", "pid", "dev", "recv", "scan", "publish", "panic", "ended"}
  /\ listener \in {"unborn", "listen", "stopped"}

\* The pool's task goes through the phases of its start, and the listener is there
\* once it is through.
StartInv ==
  /\ main = "env" => owner = "unborn"
  /\ owner \in {"unborn", "spawned", "pid", "dev"} => listener = "unborn"

\* A spliter is done only after main dropped its sender, and drained.
DoneInv ==
  /\ main \in {"env", "assign", "capture"} => \A c \in Cpu : tx[c]
  /\ \A c \in Cpu : spl[c] = "done" => ~tx[c] /\ chan[c] = << >>
  /\ main \in {"drop", "join"} => \A c \in Cpu : c < cpu => spl[c] = "done"
  /\ main \in {"report", "exit", "lost"} => \A c \in Cpu : spl[c] = "done"

\* A pool that was started ends only after every spliter; a spliter panics, and with
\* it main, only over a pool that is gone.
EndInv ==
  /\ owner = "ended" /\ listener # "unborn" => \A c \in Cpu : spl[c] = "done"
  /\ main = "crashed" \/ (\E c \in Cpu : spl[c] = "panic") =>
       NoReceiver /\ (owner = "ended" => listener = "unborn")

\* No piece is lost or counted twice on the way to decode.
CountInv == IF NoReceiver THEN queue = 0 ELSE captured = Waiting + queue + started

ServerInv == PoolInv /\ ServerTypes /\ StartInv /\ DoneInv /\ EndInv /\ CountInv

-----------------------------------------------------------------------------
(* The pieces in the channels.                                             *)

\* WaitingAt, of a function s from processors to channels.
PiecesIn(s) == {w \in Cpu \X (1 .. MaxChan) : w[2] <= Len(s[w[1]]) /\ s[w[1]][w[2]] = 1}

LEMMA PiecesFinite ==
  ASSUME NEW s
  PROVE  IsFiniteSet(PiecesIn(s)) /\ Cardinality(PiecesIn(s)) \in Nat
<1>1. IsFiniteSet(Cpu) /\ IsFiniteSet(1 .. MaxChan)
  BY ServerAssumption, FS_Interval DEF Cpu
<1>2. IsFiniteSet(Cpu \X (1 .. MaxChan))
  BY <1>1, FS_Product
<1>3. IsFiniteSet(PiecesIn(s))
  BY <1>2, FS_Subset DEF PiecesIn
<1> QED BY <1>3, FS_CardinalityType

\* A chunk that completes n pieces adds n.
LEMMA PiecesAppend ==
  ASSUME NEW s \in [Cpu -> Seq({0, 1})], NEW c \in Cpu, NEW n \in {0, 1}, Len(s[c]) < MaxChan
  PROVE  Cardinality(PiecesIn([s EXCEPT ![c] = Append(@, n)])) = Cardinality(PiecesIn(s)) + n
<1> DEFINE t == [s EXCEPT ![c] = Append(@, n)]
           x == <<c, Len(s[c]) + 1>>
<1>1. /\ Len(s[c]) \in Nat /\ t[c] = Append(s[c], n) /\ Len(t[c]) = Len(s[c]) + 1
      /\ \A i \in 1 .. Len(s[c]) : t[c][i] = s[c][i]
      /\ t[c][Len(s[c]) + 1] = n
      /\ \A d \in Cpu : d # c => t[d] = s[d]
  BY PutLast
<1>2. x \in Cpu \X (1 .. MaxChan) /\ x[1] = c /\ x[2] = Len(s[c]) + 1
  BY <1>1, ServerAssumption
<1>3. x \notin PiecesIn(s)
  BY <1>1, <1>2 DEF PiecesIn
<1> HIDE DEF t
<1>4. ASSUME NEW w \in Cpu \X (1 .. MaxChan)
      PROVE  w \in PiecesIn(t) <=> w \in PiecesIn(s) \/ (n = 1 /\ w = x)
  <2>1. w = <<w[1], w[2]>> /\ w[1] \in Cpu /\ w[2] \in 1 .. MaxChan
    BY ServerAssumption
  <2>2. CASE w[1] # c
    BY <1>1, <1>2, <2>1, <2>2 DEF PiecesIn
  <2>3. CASE w[1] = c /\ w[2] <= Len(s[c])
    BY <1>1, <1>2, <2>1, <2>3 DEF PiecesIn
  <2>4. CASE w[1] = c /\ w[2] > Len(s[c])
    BY <1>1, <1>2, <2>1, <2>4 DEF PiecesIn
  <2> QED BY <1>1, <2>1, <2>2, <2>3, <2>4
<1>5. PiecesIn(t) = IF n = 1 THEN PiecesIn(s) \cup {x} ELSE PiecesIn(s)
  BY <1>2, <1>4 DEF PiecesIn
<1> HIDE DEF x
<1>6. CASE n = 1
  BY <1>3, <1>5, <1>6, PiecesFinite, FS_AddElement DEF t
<1>7. CASE n = 0
  BY <1>5, <1>7, PiecesFinite DEF t
<1> QED BY <1>6, <1>7

\* The first chunk of a channel takes its pieces with it.
LEMMA PiecesTail ==
  ASSUME NEW s \in [Cpu -> Seq({0, 1})], \A d \in Cpu : Len(s[d]) <= MaxChan,
         NEW c \in Cpu, s[c] # << >>
  PROVE  /\ Head(s[c]) \in {0, 1}
         /\ Cardinality(PiecesIn(s)) = Cardinality(PiecesIn([s EXCEPT ![c] = Tail(@)])) + Head(s[c])
<1> DEFINE t == [s EXCEPT ![c] = Tail(@)]
           x == <<c, 1>>
<1>1. /\ Len(s[c]) \in Nat \ {0} /\ Len(s[c]) <= MaxChan
      /\ Head(s[c]) = s[c][1] /\ Head(s[c]) \in {0, 1}
      /\ t[c] = Tail(s[c]) /\ Len(t[c]) = Len(s[c]) - 1
      /\ \A i \in 1 .. Len(s[c]) - 1 : t[c][i] = s[c][i + 1]
      /\ \A d \in Cpu : d # c => t[d] = s[d]
  BY TakeFirst
<1>2. x \in Cpu \X (1 .. MaxChan) /\ x[1] = c /\ x[2] = 1
  BY <1>1, ServerAssumption
<1> HIDE DEF t
<1> DEFINE f == [w \in PiecesIn(t) |-> IF w[1] = c THEN <<c, w[2] + 1>> ELSE w]
           R == PiecesIn(s) \ {x}
<1>3. \A w \in Cpu \X (1 .. MaxChan) : w = <<w[1], w[2]>> /\ w[1] \in Cpu /\ w[2] \in 1 .. MaxChan
  BY ServerAssumption
<1>4. ASSUME NEW w \in PiecesIn(t)
      PROVE  f[w] \in R
  <2>1. w \in Cpu \X (1 .. MaxChan) /\ w[2] <= Len(t[w[1]]) /\ t[w[1]][w[2]] = 1
    BY <1>4 DEF PiecesIn
  <2>2. w[1] \in Cpu /\ w[2] \in 1 .. MaxChan /\ w = <<w[1], w[2]>>
    BY <1>3, <2>1
  <2>3. CASE w[1] = c
    <3>1. w[2] + 1 \in 1 .. MaxChan /\ w[2] + 1 <= Len(s[c]) /\ s[c][w[2] + 1] = 1
      BY <1>1, <2>1, <2>2, <2>3, ServerAssumption, SMTT(40)
    <3>2. <<c, w[2] + 1>> \in R
      BY <2>2, <3>1 DEF PiecesIn
    <3> QED BY <2>3, <3>2
  <2>4. CASE w[1] # c
    BY <1>1, <1>2, <2>1, <2>2, <2>4 DEF PiecesIn
  <2> QED BY <2>3, <2>4
<1>5. ASSUME NEW v \in PiecesIn(t), NEW w \in PiecesIn(t), f[v] = f[w]
      PROVE  v = w
  <2>1. /\ v[2] \in Nat /\ v = <<v[1], v[2]>>
        /\ w[2] \in Nat /\ w = <<w[1], w[2]>>
    BY <1>3, ServerAssumption DEF PiecesIn
  <2>2. CASE v[1] = c /\ w[1] = c
    BY <1>5, <2>1, <2>2
  <2>3. CASE v[1] # c \/ w[1] # c
    BY <1>5, <2>1, <2>3
  <2> QED BY <2>2, <2>3
<1>6. ASSUME NEW v \in R
      PROVE  \E w \in PiecesIn(t) : f[w] = v
  <2>1. v \in Cpu \X (1 .. MaxChan) /\ v[2] <= Len(s[v[1]]) /\ s[v[1]][v[2]] = 1 /\ v # x
    BY <1>6 DEF PiecesIn
  <2>2. v[1] \in Cpu /\ v[2] \in 1 .. MaxChan /\ v = <<v[1], v[2]>>
    BY <1>3, <2>1
  <2>3. CASE v[1] = c
    <3> DEFINE w == <<c, v[2] - 1>>
    <3>1. v[2] - 1 \in 1 .. MaxChan /\ v[2] - 1 <= Len(t[c]) /\ t[c][v[2] - 1] = 1
      <4>1. v[2] # 1
        BY <2>1, <2>2, <2>3
      <4> QED BY <1>1, <2>1, <2>2, <2>3, <4>1, ServerAssumption
    <3>2. w \in PiecesIn(t)
      BY <2>2, <3>1 DEF PiecesIn
    <3>3. f[w] = v
      BY <2>2, <2>3, <3>2, ServerAssumption
    <3> QED BY <3>2, <3>3
  <2>4. CASE v[1] # c
    <3>1. v \in PiecesIn(t)
      BY <1>1, <2>1, <2>2, <2>4 DEF PiecesIn
    <3>2. f[v] = v
      BY <2>4, <3>1
    <3> QED BY <3>1, <3>2
  <2> QED BY <2>3, <2>4
<1>7. ExistsBijection(PiecesIn(t), R)
  <2>1. f \in [PiecesIn(t) -> R]
    BY <1>4
  <2> HIDE DEF f, R
  <2>2. f \in Bijection(PiecesIn(t), R)
    BY <1>5, <1>6, <2>1 DEF Bijection, Injection, IsInjective, Surjection
  <2> QED BY <2>2 DEF ExistsBijection
<1>8. Cardinality(R) = Cardinality(PiecesIn(t))
  BY <1>7, PiecesFinite, FS_Bijection
<1>9. x \in PiecesIn(s) <=> Head(s[c]) = 1
  BY <1>1, <1>2 DEF PiecesIn
<1>10. Cardinality(R) = IF x \in PiecesIn(s) THEN Cardinality(PiecesIn(s)) - 1
                                             ELSE Cardinality(PiecesIn(s))
  BY PiecesFinite, FS_RemoveElement
<1>11. Cardinality(PiecesIn(s)) \in Nat
  BY PiecesFinite
<1>12. Cardinality(PiecesIn(s)) = Cardinality(PiecesIn(t)) + Head(s[c])
  <2> HIDE DEF R, x
  <2> QED BY <1>1, <1>8, <1>9, <1>10, <1>11
<1> QED BY <1>1, <1>12 DEF t

LEMMA WaitingCounts ==
  /\ Waiting = Cardinality(PiecesIn(chan)) /\ Waiting \in Nat
  /\ Waiting' = Cardinality(PiecesIn(chan')) /\ Waiting' \in Nat
BY PiecesFinite DEF Waiting, WaitingAt, PiecesIn

-----------------------------------------------------------------------------
(* The steps.                                                              *)

\* The listener, the clients and their agents.
ClientsStep ==
  \/ PoolOther(Accept)
  \/ \E c \in Client : PoolOther(Peer(c) \/ H(c) \/ H2(c))

LEMMA ServerSteps ==
  ASSUME [ServerNext]_serverVars
  PROVE  \/ UNCHANGED serverVars
         \/ SpawnPool \/ AssignPid \/ AssignDev
         \/ PollNothing \/ \E n \in {0, 1} : PollChunk(n)
         \/ DropTx \/ JoinSpliter \/ Report \/ CtrlC
         \/ \E c \in Cpu : SpliterTurn(c) \/ SpliterEnd(c)
         \/ (ReadPid \/ ReadDev \/ StartServer \/ PoolEnds \/ Within(Owner)) /\ QueueKept
         \/ TakePiece \/ ClientsStep
BY Zenon DEF ServerNext, MainThread, Spliter, PoolTask, ClientsStep

LEMMA ClientsShape ==
  ASSUME ClientsStep
  PROVE  /\ UNCHANGED <<main, poll, G_STOP, statics, unset, threads, queue, owner, started>>
         /\ \/ UNCHANGED listener
            \/ listener = "listen" /\ listener' \in {"listen", "stopped"}
<1>1. UNCHANGED <<main, poll, G_STOP, statics, unset, threads, queue>>
  BY DEF ClientsStep, PoolOther, Within
<1>2. Accept \/ \E c \in Client : Peer(c) \/ H(c) \/ H2(c)
  BY DEF ClientsStep, PoolOther, Within
<1>3. CASE Accept
  BY <1>1, <1>3 DEF Accept, pool
<1>4. CASE \E c \in Client : Peer(c) \/ H(c) \/ H2(c)
  BY <1>1, <1>4 DEF Peer, PeerConnect, PeerAnswer, PeerAsk, PeerClose, H, HRecv, HEnd, H2,
     H2Start, H2Recv, H2Send, H2Cancel, pool
<1> QED BY <1>1, <1>2, <1>3, <1>4

LEMMA ClientsKeepPool ==
  ASSUME PoolInv, ClientsStep
  PROVE  PoolInv'
<1>1. Accept \/ \E c \in Client : Peer(c) \/ H(c) \/ H2(c)
  BY DEF ClientsStep, PoolOther, Within
<1> QED BY <1>1, AcceptKeeps, PeerConnectKeeps, PeerAnswerKeeps, PeerAskKeeps, PeerCloseKeeps,
           HRecvKeeps, HEndKeeps, H2StartKeeps, H2RecvKeeps, H2SendKeeps, H2CancelKeeps
        DEF Peer, H, H2

LEMMA OwnerShape ==
  ASSUME ServerTypes, Within(Owner), QueueKept
  PROVE  /\ UNCHANGED <<main, poll, G_STOP, statics, unset, threads, listener, started>>
         /\ owner \in {"scan", "publish"} /\ owner' \in {"scan", "publish", "recv", "panic"}
         /\ queue' = IF owner' = "panic" THEN 0 ELSE queue
         /\ Scan \/ Publish
<1>1. Owner /\ UNCHANGED <<main, poll, G_STOP, statics, unset, threads>>
  BY DEF Within
<1>2. CASE GetResult
  BY <1>2 DEF GetResult, AskHasResult, FetchResult, Reap, ServerTypes
<1>3. CASE Scan \/ Publish
  BY <1>1, <1>3 DEF Scan, Publish, QueueKept
<1> QED BY <1>1, <1>2, <1>3 DEF Owner

LEMMA InitServer == ServerInit => ServerInv
<1> SUFFICES ASSUME ServerInit PROVE ServerInv
  OBVIOUS
<1> USE PoolAssumption, ServerAssumption DEF ServerInit
<1>1. PoolInv
  BY EmptyPool
<1>2. ServerTypes /\ StartInv /\ DoneInv /\ EndInv
  BY DEF Empty, ServerTypes, StartInv, DoneInv, EndInv, Cpu
<1>3. PiecesIn(chan) = {}
  BY DEF PiecesIn
<1>4. CountInv
  BY <1>3, FS_EmptySet, WaitingCounts DEF CountInv, Empty, NoReceiver
<1> QED BY <1>1, <1>2, <1>4 DEF ServerInv

\* The steps of main that touch neither the pool nor a piece, Ctrl-C, and a spliter's
\* end.
LEMMA QuietKeeps ==
  ASSUME ServerInv,
         \/ UNCHANGED serverVars
         \/ AssignPid \/ AssignDev \/ PollNothing \/ DropTx \/ JoinSpliter
         \/ Report \/ CtrlC \/ \E c \in Cpu : SpliterEnd(c)
  PROVE  ServerInv'
<1> USE ServerAssumption DEF ServerInv
<1> DEFINE Quiet == UNCHANGED <<pooled, captured, chan, queue>>
<1>1. Quiet
  BY DEF serverVars, AssignPid, AssignDev, PollNothing, DropTx, JoinSpliter, Report, CtrlC,
     SpliterEnd, poll, threads
<1>2. UNCHANGED <<owner, listener, started, captured, queue, chan>>
  BY <1>1 DEF pooled, pool
<1>3. PoolInv'
  BY <1>1, IdleKeeps DEF pooled, pool
<1>4. CountInv'
  BY <1>2, WaitingCounts DEF CountInv, NoReceiver
<1> HIDE DEF Quiet
<1>5. CASE UNCHANGED <<main, cpu, flags, tx, spl>>
  BY <1>2, <1>3, <1>4, <1>5 DEF ServerTypes, StartInv, DoneInv, EndInv, NoReceiver
<1>6. CASE /\ main = "assign" /\ main' \in {"assign", "capture"}
           /\ UNCHANGED <<cpu, flags, tx, spl>>
  BY <1>2, <1>3, <1>4, <1>6 DEF ServerTypes, StartInv, DoneInv, EndInv, NoReceiver
<1>7. CASE PollNothing
  <2>1. /\ main = "capture" /\ UNCHANGED <<tx, spl>> /\ cpu' \in Cpu /\ flags' \subseteq Cpu
        /\ main' = "capture" \/ (main' = "drop" /\ cpu' = 0)
    <3>1. cpu \in Cpu /\ 0 \in Cpu /\ (cpu + 1) % CpuNums \in Cpu
      BY DEF ServerTypes, Cpu
    <3>2. flags \cup {cpu} \subseteq Cpu /\ flags \subseteq Cpu
      BY <3>1 DEF ServerTypes
    <3>3. main = "capture" /\ UNCHANGED <<tx, spl>> /\ NextRing
      BY <1>7 DEF PollNothing, threads
    <3> QED BY <3>1, <3>2, <3>3 DEF NextRing, NextCpu
  <2>2. ServerTypes'
    BY <1>2, <2>1 DEF ServerTypes
  <2>3. StartInv' /\ EndInv'
    BY <1>2, <2>1 DEF StartInv, EndInv, NoReceiver
  <2>4. DoneInv'
    BY <1>2, <2>1 DEF DoneInv, Cpu
  <2> QED BY <1>3, <1>4, <2>2, <2>3, <2>4
<1>8. CASE DropTx
  <2>1. /\ main = "drop" /\ main' = "join" /\ tx' = [tx EXCEPT ![cpu] = FALSE]
        /\ UNCHANGED <<cpu, flags, spl>>
    BY <1>8 DEF DropTx, DroppedTx, poll
  <2> QED BY <1>2, <1>3, <1>4, <2>1 DEF ServerTypes, StartInv, DoneInv, EndInv, NoReceiver
<1>9. CASE JoinSpliter
  <2>1. /\ main = "join" /\ UNCHANGED <<flags, tx, spl>>
        /\ \/ spl[cpu] = "panic" /\ main' = "crashed" /\ UNCHANGED cpu
           \/ spl[cpu] = "done" /\ cpu = CpuNums - 1 /\ main' = "report" /\ cpu' = 0
           \/ spl[cpu] = "done" /\ cpu # CpuNums - 1 /\ main' = "drop" /\ cpu' = cpu + 1
    BY <1>9 DEF JoinSpliter, threads
  <2>2. cpu' \in Cpu
    BY <2>1 DEF ServerTypes, Cpu
  <2>3. ServerTypes' /\ StartInv'
    BY <1>2, <2>1, <2>2 DEF ServerTypes, StartInv
  <2>4. DoneInv'
    <3>1. \A c \in Cpu : spl[cpu] = "done" /\ c < cpu + 1 => spl[c] = "done"
      <4>1. \A c \in Cpu : c < cpu => spl[c] = "done"
        BY <2>1 DEF DoneInv
      <4>2. \A c \in Cpu : c < cpu + 1 => c < cpu \/ c = cpu
        BY DEF ServerTypes, Cpu
      <4> QED BY <4>1, <4>2
    <3>2. cpu = CpuNums - 1 => \A c \in Cpu : c < cpu + 1
      BY DEF Cpu
    <3> QED BY <1>2, <2>1, <3>1, <3>2 DEF DoneInv
  <2>5. EndInv'
    BY <1>2, <2>1 DEF ServerTypes, EndInv, NoReceiver
  <2> QED BY <1>3, <1>4, <2>3, <2>4, <2>5
<1>10. CASE Report
  BY <1>2, <1>3, <1>4, <1>10 DEF ServerTypes, StartInv, DoneInv, EndInv, NoReceiver, Report,
     poll, threads
<1>11. ASSUME NEW c \in Cpu, SpliterEnd(c)
       PROVE  ServerInv'
  <2>1. /\ spl[c] = "run" /\ ~tx[c] /\ chan[c] = << >> /\ spl' = [spl EXCEPT ![c] = "done"]
        /\ UNCHANGED <<main, cpu, flags, tx>>
    BY <1>11 DEF SpliterEnd, RecvFails, poll
  <2> QED BY <1>2, <1>3, <1>4, <2>1 DEF ServerTypes, StartInv, DoneInv, EndInv, NoReceiver
<1>12. \/ UNCHANGED <<main, cpu, flags, tx, spl>>
       \/ /\ main = "assign" /\ main' \in {"assign", "capture"}
          /\ UNCHANGED <<cpu, flags, tx, spl>>
       \/ PollNothing \/ DropTx \/ JoinSpliter \/ Report
       \/ \E c \in Cpu : SpliterEnd(c)
  BY DEF serverVars, AssignPid, AssignDev, CtrlC, poll, threads
<1> QED BY <1>5, <1>6, <1>7, <1>8, <1>9, <1>10, <1>11, <1>12

LEMMA PollChunkKeeps ==
  ASSUME ServerInv, NEW n \in {0, 1}, PollChunk(n)
  PROVE  ServerInv'
<1> USE ServerAssumption, PoolAssumption DEF ServerInv
<1>1. /\ main = "capture" /\ captured + n <= MaxTasks /\ Len(chan[cpu]) < MaxChan
      /\ captured' = captured + n /\ UNCHANGED <<pooled, tx, spl, queue>> /\ cpu \in Cpu
  BY DEF PollChunk, ServerTypes
<1>2. UNCHANGED <<owner, listener, started>>
  BY <1>1 DEF pooled, pool
<1>3. PoolInv'
  BY <1>1, IdleKeeps DEF pooled, pool
<1>4. captured' \in 0 .. MaxTasks
  BY <1>1 DEF ServerTypes
<1>5. CASE spl[cpu] # "run" /\ main' = "crashed" /\ UNCHANGED <<cpu, flags, chan>>
  <2>1. spl[cpu] = "panic"
    BY <1>1, <1>5 DEF ServerTypes, DoneInv
  <2>2. NoReceiver /\ (owner = "ended" => listener = "unborn")
    BY <1>1, <2>1 DEF EndInv
  <2>3. ServerTypes' /\ StartInv' /\ DoneInv'
    BY <1>1, <1>2, <1>4, <1>5 DEF ServerTypes, StartInv, DoneInv
  <2>4. EndInv' /\ CountInv'
    BY <1>1, <1>2, <1>5, <2>2 DEF EndInv, CountInv, NoReceiver
  <2> QED BY <1>3, <2>3, <2>4
<1>6. CASE spl[cpu] = "run" /\ chan' = [chan EXCEPT ![cpu] = Append(@, n)] /\ NextRing
  <2>1. /\ cpu' \in Cpu /\ flags' \subseteq Cpu
        /\ main' = "capture" \/ (main' = "drop" /\ cpu' = 0)
    <3>1. 0 \in Cpu /\ (cpu + 1) % CpuNums \in Cpu
      BY DEF ServerTypes, Cpu
    <3>2. flags \cup {cpu} \subseteq Cpu /\ flags \subseteq Cpu
      BY <1>1 DEF ServerTypes
    <3> QED BY <1>1, <1>6, <3>1, <3>2 DEF NextRing, NextCpu
  <2>2. /\ Append(chan[cpu], n) \in Seq({0, 1})
        /\ Len(Append(chan[cpu], n)) = Len(chan[cpu]) + 1 /\ Len(chan[cpu]) \in Nat
    BY <1>1, PutLast DEF ServerTypes
  <2>3. chan' \in [Cpu -> Seq({0, 1})] /\ \A c \in Cpu : Len(chan'[c]) <= MaxChan
    BY <1>1, <1>6, <2>2 DEF ServerTypes
  <2>4. ServerTypes'
    BY <1>1, <1>2, <1>4, <2>1, <2>3 DEF ServerTypes
  <2>5. StartInv' /\ EndInv'
    BY <1>1, <1>2, <2>1 DEF StartInv, EndInv, NoReceiver
  <2>6. DoneInv'
    BY <1>1, <1>6, <2>1, SMTT(40) DEF ServerTypes, DoneInv, Cpu
  <2>7. Waiting' = Waiting + n
    BY <1>1, <1>6, WaitingCounts, PiecesAppend DEF ServerTypes
  <2>8. CountInv'
    <3>1. /\ started \in Nat /\ captured \in Nat /\ queue \in Nat /\ Waiting \in Nat
          /\ UNCHANGED queue
      BY <1>1, WaitingCounts DEF ServerTypes, PoolInv, PoolTypes
    <3> QED BY <1>1, <1>2, <2>7, <3>1 DEF CountInv, NoReceiver
  <2> QED BY <1>3, <2>4, <2>5, <2>6, <2>8
<1> QED BY <1>5, <1>6 DEF PollChunk

LEMMA SpliterTurnKeeps ==
  ASSUME ServerInv, NEW c \in Cpu, SpliterTurn(c)
  PROVE  ServerInv'
<1> USE ServerAssumption DEF ServerInv
<1>1. /\ spl[c] = "run" /\ chan[c] # << >> /\ chan' = [chan EXCEPT ![c] = Tail(@)]
      /\ UNCHANGED <<pooled, main, cpu, flags, captured, tx>>
  BY DEF SpliterTurn, poll
<1>2. UNCHANGED <<owner, listener, started>>
  BY <1>1 DEF pooled, pool
<1>3. PoolInv'
  BY <1>1, IdleKeeps DEF pooled, pool
<1>4. PICK n \in {0, 1} : n = Head(chan[c])
  BY <1>1, TakeFirst DEF ServerTypes
<1>5. \/ n > 0 /\ NoReceiver /\ spl' = [spl EXCEPT ![c] = "panic"] /\ UNCHANGED queue
      \/ (n = 0 \/ ~NoReceiver) /\ queue' = queue + n /\ UNCHANGED spl
  BY <1>4 DEF SpliterTurn
<1>6. Waiting = Waiting' + n
  BY <1>1, <1>4, WaitingCounts, PiecesTail DEF ServerTypes
<1>7. chan' \in [Cpu -> Seq({0, 1})] /\ \A d \in Cpu : Len(chan'[d]) <= MaxChan
  <2>1. Tail(chan[c]) \in Seq({0, 1}) /\ Len(Tail(chan[c])) = Len(chan[c]) - 1 /\ Len(chan[c]) \in Nat
    BY <1>1, TakeFirst DEF ServerTypes
  <2> QED BY <1>1, <2>1 DEF ServerTypes
<1>8. ServerTypes'
  <2>1. queue' \in Nat
    BY <1>5 DEF ServerTypes
  <2>2. spl' \in [Cpu -> {"run", "done", "panic"}]
    BY <1>5 DEF ServerTypes
  <2> QED BY <1>1, <1>2, <1>7, <2>1, <2>2 DEF ServerTypes
<1>9. StartInv'
  BY <1>1, <1>2 DEF StartInv
<1>10. DoneInv'
  BY <1>1, <1>5 DEF ServerTypes, DoneInv
<1>11. EndInv'
  BY <1>1, <1>2, <1>5 DEF ServerTypes, EndInv, NoReceiver
<1>12. CountInv'
  BY <1>1, <1>2, <1>5, <1>6, WaitingCounts, SMTT(40) DEF CountInv, NoReceiver, ServerTypes, PoolInv, PoolTypes
<1> QED BY <1>3, <1>8, <1>9, <1>10, <1>11, <1>12

\* The start and the end of the pool's task.
LEMMA PoolTaskKeeps ==
  ASSUME ServerInv,
         \/ SpawnPool
         \/ (ReadPid \/ ReadDev \/ StartServer \/ PoolEnds) /\ QueueKept
  PROVE  ServerInv'
<1> USE DEF ServerInv
<1>1. /\ UNCHANGED <<cpu, flags, captured, chan, tx, spl, started>>
      /\ UNCHANGED <<len, taken, agents, idx, chosen, cur, started, dropped, fetched, net>>
  BY DEF SpawnPool, ReadPid, ReadDev, StartServer, PoolEnds, poll, threads
<1>2. \/ /\ owner = "unborn" /\ owner' = "spawned" /\ UNCHANGED <<listener, queue>>
         /\ main = "env" /\ main' = "assign"
      \/ /\ owner = "spawned" /\ owner' = "pid" /\ UNCHANGED <<listener, queue, main>>
      \/ /\ owner = "spawned" /\ owner' = "ended" /\ queue' = 0 /\ UNCHANGED <<listener, main>>
      \/ /\ owner = "pid" /\ owner' = "dev" /\ UNCHANGED <<listener, queue, main>>
      \/ /\ owner = "dev" /\ owner' = "recv" /\ listener' = "listen" /\ UNCHANGED <<queue, main>>
      \/ /\ owner = "dev" /\ owner' = "panic" /\ queue' = 0 /\ UNCHANGED <<listener, main>>
      \/ /\ owner = "recv" /\ owner' = "ended" /\ queue = 0 /\ queue' = 0 /\ ~InEnv
         /\ \A c \in Cpu : spl[c] # "run"
         /\ UNCHANGED <<listener, main>>
  <2>1. CASE SpawnPool
    BY <2>1 DEF SpawnPool, StartInv
  <2>2. CASE ReadPid /\ QueueKept
    BY <2>2 DEF ReadPid, QueueKept
  <2>3. CASE ReadDev /\ QueueKept
    BY <2>3 DEF ReadDev, QueueKept
  <2>4. CASE StartServer /\ QueueKept
    BY <2>4 DEF StartServer, QueueKept
  <2>5. CASE PoolEnds /\ QueueKept
    BY <2>5 DEF PoolEnds, QueueKept, QueueClosed
  <2> QED BY <2>1, <2>2, <2>3, <2>4, <2>5
<1>3. PoolInv'
  <2>1. /\ ~Locked /\ ~Locked' /\ owner' # "stopped"
        /\ owner' = "panic" => listener' = "unborn"
    BY <1>2 DEF StartInv, Locked
  <2> QED BY <1>1, <2>1, IdleKeeps
<1>4. ServerTypes'
  BY <1>1, <1>2 DEF ServerTypes
<1>5. StartInv'
  BY <1>2 DEF StartInv
<1>6. DoneInv'
  BY <1>1, <1>2 DEF DoneInv
<1>7. EndInv'
  BY <1>1, <1>2 DEF ServerTypes, StartInv, EndInv, NoReceiver
<1>8. CountInv'
  BY <1>1, <1>2, WaitingCounts DEF CountInv, NoReceiver
<1> QED BY <1>3, <1>4, <1>5, <1>6, <1>7, <1>8

LEMMA OwnerKeeps ==
  ASSUME ServerInv, Within(Owner), QueueKept
  PROVE  ServerInv'
<1> USE DEF ServerInv
<1>1. /\ UNCHANGED <<main, cpu, flags, captured, chan, tx, spl, listener, started>>
      /\ owner \in {"scan", "publish"} /\ owner' \in {"scan", "publish", "recv", "panic"}
      /\ queue' = IF owner' = "panic" THEN 0 ELSE queue
      /\ Scan \/ Publish
  BY OwnerShape DEF poll, threads
<1>2. PoolInv'
  BY <1>1, ScanKeeps, PublishKeeps
<1>3. ServerTypes' /\ StartInv' /\ DoneInv'
  BY <1>1 DEF ServerTypes, StartInv, DoneInv
<1>4. EndInv'
  BY <1>1 DEF EndInv, NoReceiver
<1>5. CountInv'
  BY <1>1, WaitingCounts DEF CountInv, NoReceiver
<1> QED BY <1>2, <1>3, <1>4, <1>5

LEMMA TakePieceKeeps ==
  ASSUME ServerInv, TakePiece
  PROVE  ServerInv'
<1> USE DEF ServerInv
<1>1. /\ queue > 0 /\ queue' = queue - 1 /\ Decode
      /\ owner = "recv" /\ owner' = "scan" /\ started' = started + 1
      /\ UNCHANGED <<main, cpu, flags, captured, chan, tx, spl, listener>>
  BY DEF TakePiece, Decode, poll, threads
<1>2. PoolInv'
  BY <1>1, DecodeKeeps
<1>3. ServerTypes' /\ StartInv' /\ DoneInv'
  BY <1>1 DEF ServerTypes, StartInv, DoneInv
<1>4. EndInv'
  BY <1>1 DEF EndInv, NoReceiver
<1>5. CountInv'
  BY <1>1, WaitingCounts DEF CountInv, NoReceiver, ServerTypes, PoolInv, PoolTypes
<1> QED BY <1>2, <1>3, <1>4, <1>5

LEMMA ClientsKeep ==
  ASSUME ServerInv, ClientsStep
  PROVE  ServerInv'
<1> USE DEF ServerInv
<1>1. /\ UNCHANGED <<main, cpu, flags, captured, chan, tx, spl, queue, owner, started>>
      /\ \/ UNCHANGED listener
         \/ listener = "listen" /\ listener' \in {"listen", "stopped"}
  BY ClientsShape DEF poll, threads
<1>2. PoolInv'
  BY ClientsKeepPool
<1>3. ServerTypes' /\ StartInv' /\ DoneInv'
  BY <1>1 DEF ServerTypes, StartInv, DoneInv
<1>4. EndInv'
  BY <1>1 DEF EndInv, NoReceiver
<1>5. CountInv'
  BY <1>1, WaitingCounts DEF CountInv, NoReceiver
<1> QED BY <1>2, <1>3, <1>4, <1>5

\* The invariant that ties main, the spliters and the pool's task together.
THEOREM ServerInvariant == ServerSpec => []ServerInv
<1>1. ServerInit => ServerInv
  BY InitServer
<1>2. ServerInv /\ [ServerNext]_serverVars => ServerInv'
  BY ServerSteps, QuietKeeps, PollChunkKeeps, SpliterTurnKeeps, PoolTaskKeeps, OwnerKeeps,
     TakePieceKeeps, ClientsKeep
<1> QED BY <1>1, <1>2, PTL DEF ServerSpec

\* The capture is killed only by a pool that could not be started, or that lost a
\* client or was refused a frame; never by Ctrl-C or by the order in which the
\* threads end, for any number of processors and clients.
THEOREM ServerCrashesOnlyAfterPoolLoss == ServerSpec => []CrashOnlyAfterPoolLoss
<1>1. ServerInv => CrashOnlyAfterPoolLoss
  BY DEF ServerInv, PoolInv, PanicInv, PanicOnlyAfterLoss, EndInv, NoReceiver,
     PoolLost, CrashOnlyAfterPoolLoss
<1> QED BY <1>1, ServerInvariant, PTL

\* No complete piece is lost or handed over twice between the rings and decode while
\* the pool's task lives, and none stays in a channel once the spliters are joined.
THEOREM ServerAccountsForPieces == ServerSpec => []PieceAccounted
<1>1. ServerInv => PieceAccounted
  <2> SUFFICES ASSUME ServerInv PROVE PieceAccounted
    OBVIOUS
  <2>1. ~NoReceiver => captured = Waiting + queue + started
    BY DEF ServerInv, CountInv
  <2>2. ASSUME main \in {"report", "exit", "lost"}
        PROVE  Waiting = 0
    <3>1. \A c \in Cpu : chan[c] = << >>
      BY <2>2 DEF ServerInv, DoneInv
    <3>2. WaitingAt = {}
      BY <3>1, ServerAssumption DEF WaitingAt
    <3> QED BY <3>2, FS_EmptySet DEF Waiting
  <2> QED BY <2>1, <2>2 DEF PieceAccounted
<1> QED BY <1>1, ServerInvariant, PTL

\* Every counter, queue and thread of the server stays within its bounds.
THEOREM ServerTypeCorrect == ServerSpec => []ServerTypeOK
<1> DEFINE Flags == {G_STOP, PID, DEV_HANDLE, unset} \subseteq BOOLEAN
<1>1. ServerInit => Flags
  BY Zenon DEF ServerInit
<1>2. Flags /\ [ServerNext]_serverVars => Flags'
  <2> SUFFICES ASSUME Flags, [ServerNext]_serverVars PROVE Flags'
    OBVIOUS
  <2>1. \/ UNCHANGED <<G_STOP, PID, DEV_HANDLE, unset>>
        \/ G_STOP' = TRUE /\ UNCHANGED <<PID, DEV_HANDLE, unset>>
        \/ PID' = TRUE /\ UNCHANGED <<G_STOP, DEV_HANDLE, unset>>
        \/ DEV_HANDLE' = TRUE /\ UNCHANGED <<G_STOP, PID, unset>>
        \/ unset' = ~PID /\ UNCHANGED <<G_STOP, PID, DEV_HANDLE>>
        \/ unset' = (unset \/ ~DEV_HANDLE) /\ UNCHANGED <<G_STOP, PID, DEV_HANDLE>>
    BY ServerSteps, ClientsShape DEF serverVars, SpawnPool, AssignPid, AssignDev,
       PollNothing, PollChunk, DropTx, JoinSpliter, Report, CtrlC, SpliterTurn, SpliterEnd,
       ReadPid, ReadDev, StartServer, PoolEnds, Within, TakePiece, statics
  <2>2. G_STOP \in BOOLEAN /\ PID \in BOOLEAN /\ DEV_HANDLE \in BOOLEAN /\ unset \in BOOLEAN
    BY Zenon
  <2>3. G_STOP' \in BOOLEAN /\ PID' \in BOOLEAN /\ DEV_HANDLE' \in BOOLEAN /\ unset' \in BOOLEAN
    BY <2>1, <2>2, Zenon
  <2> QED BY <2>3, Zenon
<1>3. ServerSpec => []Flags
  BY <1>1, <1>2, PTL DEF ServerSpec
<1>4. ServerInv /\ Flags => ServerTypeOK
  <2> SUFFICES ASSUME ServerInv, Flags PROVE ServerTypeOK
    OBVIOUS
  <2>1. queue \in 0 .. MaxTasks
    <3>1. queue \in Nat /\ Waiting \in Nat /\ started \in Nat /\ captured \in 0 .. MaxTasks
      BY WaitingCounts DEF ServerInv, ServerTypes, PoolInv, PoolTypes
    <3> QED BY <3>1, PoolAssumption DEF ServerInv, CountInv
  <2> HIDE DEF Flags
  <2>2. /\ main \in {"env", "assign", "capture", "drop", "join", "report", "exit", "crashed", "lost"}
        /\ cpu \in Cpu /\ flags \subseteq Cpu
        /\ captured \in 0 .. MaxTasks
        /\ chan \in [Cpu -> Seq({0, 1})] /\ tx \in [Cpu -> BOOLEAN]
        /\ spl \in [Cpu -> {"run", "done", "panic"}]
        /\ owner \in {"unborn", "spawned", "pid", "dev", "recv", "scan", "publish", "panic", "ended"}
        /\ listener \in {"unborn", "listen", "stopped"}
    BY DEF ServerInv, ServerTypes
  <2> QED BY <2>1, <2>2, Zenon DEF ServerTypeOK, Flags
<1> QED BY <1>3, <1>4, ServerInvariant, PTL
=============================================================================
