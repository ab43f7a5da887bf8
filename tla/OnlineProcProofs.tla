-------------------------- MODULE OnlineProcProofs --------------------------
(***************************************************************************)
(* Proofs about OnlineProc, for any number of processors, any traces, any  *)
(* size of tmp_buff and any modules.  First the polling loop: what it has  *)
(* captured when it returns, and when a channel's or a thread's unwrap can *)
(* panic.  Then the pipeline: that cutting a trace chunk by chunk gives    *)
(* the pieces cutting it at once gives, that every instruction in them is  *)
(* counted once, and that the report names every executed address.         *)
(***************************************************************************)
EXTENDS OnlineProc, FiniteSetTheorems, SequenceTheorems, TLAPS

\* The types of what the two arguments use.
OnlineTypes ==
  /\ stream \in Streams
  /\ avail \in [Cpu -> Nat] /\ captured \in [Cpu -> Nat]
  /\ at_stop \in [Cpu -> Nat] /\ last_size \in [Cpu -> Nat]
  /\ \A c \in Cpu : captured[c] <= avail[c]
  /\ pc \in {"fetch", "process", "drop", "join", "wait", "collect", "write",
             "done", "crashed", "lost"}
  /\ idx \in Cpu
  /\ DOMAIN flags = Cpu /\ flags = [c \in Cpu |-> flags[c]]
  /\ DOMAIN tx = Cpu /\ tx = [c \in Cpu |-> tx[c]]
  /\ spl \in [Cpu -> {"run", "done", "panic"}]
  /\ wrk \in [Worker -> {"run", "done"}]

\* All that ring c held when Ctrl-C came is captured, unless its last fetch filled
\* tmp_buff.
Emptied(c) == captured[c] >= at_stop[c] \/ last_size[c] = OutLen

\* In a round the flags are set in the order of the rings; once the first ring is
\* flagged, every other ring polled in the round was fetched after Ctrl-C.
StopInv ==
  /\ G_STOP => \A c \in Cpu : at_stop[c] <= avail[c]
  /\ \A c \in Cpu : flags[c] => G_STOP
  /\ Capturing => \A c \in Cpu : c >= idx => ~flags[c]
  /\ Capturing /\ flags[0] => \A c \in Cpu : c > 0 /\ c < idx => Emptied(c)
  /\ pc = "process" /\ idx > 0 /\ flags[0] => Emptied(idx)
  /\ CapturedUpToStop

\* While the loop polls, every spliter has its sender; a worker ends only after the
\* last spliter.
CrashInv ==
  /\ Capturing => \A c \in Cpu : tx[c]
  /\ \A c \in Cpu : spl[c] = "done" => ~tx[c]
  /\ \A w \in Worker : wrk[w] = "done" => \A c \in Cpu : spl[c] # "run"
  /\ \A c \in Cpu : spl[c] = "panic" => Worker = {}
  /\ pc = "crashed" => Worker = {}

OnlineInv == OnlineTypes /\ StopInv /\ CrashInv

-----------------------------------------------------------------------------
(* The polling loop and Ctrl-C.                                            *)

LEMMA CpuShape ==
  ASSUME stream \in Streams
  PROVE  \E n \in Nat : n >= 1 /\ Cpu = 0 .. n - 1 /\ CpuNums = n /\ Worker = 0 .. n - 2
<1>1. PICK n \in 1 .. MaxCpus : DOMAIN stream = 0 .. n - 1
  BY OnlineAssumption
<1>2. n \in Nat /\ n >= 1
  BY <1>1, OnlineAssumption
<1>3. Cardinality(0 .. n - 1) = n
  BY <1>2, FS_Interval
<1> QED BY <1>1, <1>2, <1>3 DEF Cpu, CpuNums, Worker

LEMMA MinOfTwo ==
  ASSUME NEW a \in Nat, NEW b \in Nat
  PROVE  Min({a, b}) = IF a <= b THEN a ELSE b
<1>1. Min({a, b}) \in {a, b} /\ \A y \in {a, b} : Min({a, b}) <= y
  <2>1. \E x \in {a, b} : \A y \in {a, b} : x <= y
    OBVIOUS
  <2> QED BY <2>1 DEF Min
<1> QED BY <1>1

\* A step that leaves the rings and the polling loop alone.
LEMMA StopAlone ==
  ASSUME StopInv,
         UNCHANGED <<stream, avail, captured, G_STOP, at_stop, idx, flags, last_size>>,
         pc' = pc
  PROVE  StopInv'
BY DEF StopInv, Emptied, Capturing, CapturedUpToStop, Cpu

\* A step of the main thread after the polling loop.
LEMMA StopAfter ==
  ASSUME OnlineTypes, StopInv,
         UNCHANGED <<stream, avail, captured, G_STOP, at_stop, flags, last_size>>,
         ~Capturing, pc # "crashed", ~Capturing'
  PROVE  StopInv'
BY DEF StopInv, Emptied, Capturing, CapturedUpToStop, Cpu

LEMMA StopHwTrace ==
  ASSUME OnlineTypes, StopInv, NEW c0 \in Cpu, HwTrace(c0)
  PROVE  StopInv' /\ avail' \in [Cpu -> Nat] /\ \A c \in Cpu : captured[c] <= avail'[c]
<1>1. /\ avail' = [avail EXCEPT ![c0] = @ + 1]
      /\ UNCHANGED <<stream, captured, G_STOP, at_stop, pc, idx, flags, last_size>>
  BY DEF HwTrace, capture
<1>2. /\ avail' \in [Cpu -> Nat] /\ \A c \in Cpu : avail[c] <= avail'[c]
      /\ \A c \in Cpu : avail[c] \in Nat /\ avail'[c] \in Nat /\ captured[c] \in Nat /\ at_stop[c] \in Nat
  BY <1>1 DEF OnlineTypes
<1>3. \A c \in Cpu : captured[c] <= avail'[c]
  BY <1>2 DEF OnlineTypes
<1>4. G_STOP => \A c \in Cpu : at_stop[c] <= avail'[c]
  BY <1>2 DEF StopInv
<1>5. StopInv'
  BY <1>1, <1>4 DEF StopInv, Emptied, Capturing, CapturedUpToStop, Cpu
<1> QED BY <1>2, <1>3, <1>5

LEMMA StopCtrlC ==
  ASSUME OnlineTypes, StopInv, CtrlC
  PROVE  StopInv' /\ at_stop' \in [Cpu -> Nat]
<1>1. /\ Capturing /\ ~G_STOP /\ at_stop' = avail
      /\ UNCHANGED <<stream, avail, captured, pc, idx, flags, last_size>>
  BY DEF CtrlC, capture, hw
<1>2. \A c \in Cpu : ~flags[c]
  BY <1>1 DEF StopInv
<1>3. 0 \in Cpu
  BY CpuShape DEF OnlineTypes
<1>4. G_STOP'
  BY DEF CtrlC
<1>5. \A c \in Cpu : at_stop'[c] <= avail'[c]
  BY <1>1 DEF OnlineTypes
<1>6. StopInv'
  BY <1>1, <1>2, <1>3, <1>4, <1>5 DEF StopInv, Capturing, CapturedUpToStop, Cpu
<1> QED BY <1>1, <1>6 DEF OnlineTypes

LEMMA StopFetch ==
  ASSUME OnlineTypes, StopInv, Fetch
  PROVE  /\ StopInv' /\ captured' \in [Cpu -> Nat] /\ last_size' \in [Cpu -> Nat]
         /\ \A c \in Cpu : captured'[c] <= avail[c]
<1>1. PICK i \in Cpu : i = idx
  BY DEF OnlineTypes
<1>2. /\ avail[i] \in Nat /\ captured[i] \in Nat /\ captured[i] <= avail[i]
      /\ OutLen \in Nat /\ avail[i] - captured[i] \in Nat
  BY OnlineAssumption DEF OnlineTypes
<1>3. PICK size \in Nat : size = ReadSize
  BY <1>1, <1>2, MinOfTwo DEF ReadSize
<1>4. size <= avail[i] - captured[i] /\ (size = avail[i] - captured[i] \/ size = OutLen)
  BY <1>1, <1>2, <1>3, MinOfTwo DEF ReadSize
<1>5. /\ pc = "fetch" /\ pc' = "process"
      /\ captured' = [captured EXCEPT ![i] = @ + size]
      /\ last_size' = [last_size EXCEPT ![i] = size]
      /\ UNCHANGED <<stream, avail, G_STOP, at_stop, idx, flags>>
  BY <1>1, <1>3 DEF Fetch, hw
<1>6. /\ captured'[i] = captured[i] + size /\ last_size'[i] = size
      /\ \A c \in Cpu : c # i => captured'[c] = captured[c] /\ last_size'[c] = last_size[c]
      /\ captured' \in [Cpu -> Nat] /\ last_size' \in [Cpu -> Nat]
  BY <1>2, <1>5 DEF OnlineTypes
<1>7. \A c \in Cpu : captured'[c] <= avail[c]
  BY <1>2, <1>4, <1>6 DEF OnlineTypes
<1>8. captured'[i] = avail[i] \/ last_size'[i] = OutLen
  BY <1>2, <1>4, <1>6
<1>9. G_STOP => Emptied(i)'
  BY <1>5, <1>8 DEF Emptied, StopInv
<1>10. \A c \in Cpu : c # i /\ Emptied(c) => Emptied(c)'
  BY <1>5, <1>6 DEF Emptied
<1>11. 0 \in Cpu /\ Cpu \subseteq Nat
  <2>1. PICK n \in Nat : n >= 1 /\ Cpu = 0 .. n - 1
    BY CpuShape DEF OnlineTypes
  <2> QED BY <2>1
<1>12. StopInv'
  <2>1. /\ G_STOP' => \A c \in Cpu' : at_stop'[c] <= avail'[c]
        /\ \A c \in Cpu' : flags'[c] => G_STOP'
        /\ \A c \in Cpu' : c >= idx' => ~flags'[c]
    BY <1>5 DEF StopInv, Capturing, Cpu
  <2>2. flags'[0] => \A c \in Cpu' : c > 0 /\ c < idx' => Emptied(c)'
    BY <1>1, <1>5, <1>10, <1>11 DEF StopInv, Capturing, Cpu
  <2>3. flags'[0] => Emptied(idx)'
    BY <1>1, <1>5, <1>9, <1>11 DEF StopInv
  <2> QED BY <1>5, <2>1, <2>2, <2>3 DEF StopInv, Capturing, CapturedUpToStop
<1> QED BY <1>6, <1>7, <1>12

LEMMA StopProcess ==
  ASSUME OnlineTypes, StopInv, Process
  PROVE  StopInv' /\ idx' \in Cpu /\ DOMAIN flags' = Cpu /\ flags' = [c \in Cpu |-> flags'[c]]
<1>1. PICK n \in Nat : n >= 1 /\ Cpu = 0 .. n - 1 /\ CpuNums = n
  BY CpuShape DEF OnlineTypes
<1>2. /\ pc = "process" /\ idx \in 0 .. n - 1 /\ 0 \in Cpu
      /\ UNCHANGED <<stream, avail, captured, G_STOP, at_stop, last_size>>
  BY <1>1 DEF Process, hw, OnlineTypes
<1>3. PICK f : f = [flags EXCEPT ![idx] = @ \/ G_STOP]
  OBVIOUS
<1>4. DOMAIN f = Cpu /\ f = [c \in Cpu |-> f[c]]
  BY <1>3, Zenon DEF OnlineTypes
<1>5. \A c \in Cpu : c # idx => f[c] = flags[c]
  BY <1>3, Zenon DEF OnlineTypes
<1>6. f[idx] => flags[idx] \/ G_STOP
  BY <1>3, Zenon DEF OnlineTypes
<1>7. ~flags[idx]
  BY <1>2 DEF StopInv, Capturing, OnlineTypes
<1>8. \A c \in Cpu : f[c] => G_STOP
  BY <1>5, <1>6, Zenon DEF StopInv
<1>9. \A c \in Cpu : c > idx => ~f[c]
  BY <1>1, <1>2, <1>5 DEF StopInv, Capturing
<1>10. idx > 0 => (f[0] => flags[0])
  BY <1>1, <1>2, <1>5
<1>11. idx > 0 /\ f[0] => \A c \in Cpu : c > 0 /\ c <= idx => Emptied(c)
  BY <1>1, <1>2, <1>10 DEF StopInv, Capturing
<1>12. \A c \in Cpu : Emptied(c)' <=> Emptied(c)
  BY <1>2 DEF Emptied
<1>13. CASE pc' = "crashed" /\ UNCHANGED <<idx, flags>>
  BY <1>2, <1>13 DEF StopInv, Capturing, CapturedUpToStop, Cpu, OnlineTypes
<1>14. CASE G_STOP /\ AllFlagged(f) /\ pc' = "drop" /\ idx' = 0 /\ flags' = f
  <2>1. \A c \in Cpu \ {0} : Emptied(c)
    <3> SUFFICES ASSUME NEW c \in Cpu, c # 0  PROVE  Emptied(c)
      OBVIOUS
    <3>1. f[c] /\ f[0]
      BY <1>2, <1>14, Zenon DEF AllFlagged
    <3>2. c <= idx /\ c > 0 /\ idx > 0
      BY <1>1, <1>2, <1>9, <3>1
    <3> QED BY <1>11, <3>1, <3>2
  <2>2. CapturedUpToStop'
    BY <1>2, <1>12, <2>1 DEF CapturedUpToStop, Emptied, Cpu
  <2>3. ~Capturing'
    BY <1>14 DEF Capturing
  <2>4. G_STOP' => \A c \in Cpu' : at_stop'[c] <= avail'[c]
    BY <1>2 DEF StopInv, Cpu
  <2>5. \A c \in Cpu' : flags'[c] => G_STOP'
    BY <1>2, <1>8, <1>14 DEF Cpu
  <2>6. pc' # "process"
    BY <1>14
  <2>7. StopInv'
    BY <2>2, <2>3, <2>4, <2>5, <2>6 DEF StopInv
  <2> QED BY <1>2, <1>4, <1>14, <2>7
<1>15. CASE pc' = "fetch" /\ idx' = (idx + 1) % CpuNums /\ flags' = NextFlags(f)
  <2>1. CASE idx = n - 1
    <3>1. idx' = 0 /\ flags' = [c \in Cpu |-> FALSE]
      <4>1. (n - 1 + 1) % n = 0
        BY <1>1
      <4> QED BY <1>1, <1>15, <2>1, <4>1 DEF NextFlags
    <3>2. \A c \in Cpu : ~flags'[c]
      BY <3>1
    <3>3. DOMAIN flags' = Cpu /\ flags' = [c \in Cpu |-> flags'[c]]
      BY <3>1
    <3>4. StopInv'
      <4>1. G_STOP' => \A c \in Cpu' : at_stop'[c] <= avail'[c]
        BY <1>2 DEF StopInv, Cpu
      <4> QED BY <1>2, <1>15, <3>2, <4>1 DEF StopInv, Capturing, CapturedUpToStop, Cpu
    <3> QED BY <1>2, <3>1, <3>3, <3>4
  <2>2. CASE idx # n - 1
    <3>1. idx' = idx + 1 /\ idx' \in Cpu
      <4>1. idx + 1 \in Nat /\ idx + 1 < n
        BY <1>1, <1>2, <2>2
      <4>2. (idx + 1) % n = idx + 1
        BY <1>1, <4>1
      <4> QED BY <1>1, <1>15, <4>1, <4>2
    <3>2. flags' = f
      BY <1>1, <1>15, <2>2 DEF NextFlags
    <3>3. \A c \in Cpu : c >= idx' => ~flags'[c]
      BY <1>1, <1>2, <1>9, <3>1, <3>2
    <3>4. flags'[0] => \A c \in Cpu : c > 0 /\ c < idx' => Emptied(c)
      BY <1>1, <1>2, <1>11, <3>1, <3>2
    <3>5. \A c \in Cpu : flags'[c] => G_STOP
      BY <1>8, <3>2
    <3>6. G_STOP' => \A c \in Cpu' : at_stop'[c] <= avail'[c]
      BY <1>2 DEF StopInv, Cpu
    <3>7. StopInv'
      <4>1. Cpu' = Cpu /\ G_STOP' = G_STOP
        BY <1>2 DEF Cpu
      <4> QED BY <1>12, <1>15, <3>3, <3>4, <3>5, <3>6, <4>1 DEF StopInv, Capturing, CapturedUpToStop
    <3> QED BY <1>4, <3>1, <3>2, <3>7
  <2> QED BY <2>1, <2>2
<1> QED BY <1>3, <1>13, <1>14, <1>15 DEF Process

-----------------------------------------------------------------------------
(* The threads: when an unwrap can panic.                                  *)

LEMMA SameMachine ==
  ASSUME stream' = stream
  PROVE  Cpu' = Cpu /\ Worker' = Worker /\ CpuNums' = CpuNums
BY DEF Cpu, Worker, CpuNums

\* A step that no other thread sees, and a step of the main thread.
LEMMA CrashMain ==
  ASSUME CrashInv, UNCHANGED <<stream, tx, spl, wrk>>,
         Capturing' => Capturing, pc' = "crashed" => Worker = {}
  PROVE  CrashInv'
<1>1. Cpu' = Cpu /\ Worker' = Worker
  BY SameMachine
<1> QED BY <1>1 DEF CrashInv

\* processor() panics only when the spliter did.
LEMMA CrashProcess ==
  ASSUME OnlineTypes, CrashInv, Process
  PROVE  CrashInv'
<1>1. UNCHANGED <<stream, tx, spl, wrk>> /\ pc = "process"
  BY DEF Process, hw, spliters, workers
<1>2. Capturing
  BY <1>1 DEF Capturing
<1>3. pc' = "crashed" => Worker = {}
  <2> SUFFICES ASSUME pc' = "crashed"  PROVE  Worker = {}
    OBVIOUS
  <2>1. spl[idx] # "run" /\ idx \in Cpu
    BY DEF Process, OnlineTypes
  <2>2. spl[idx] # "done"
    BY <1>2, <2>1 DEF CrashInv
  <2>3. spl[idx] = "panic"
    BY <2>1, <2>2 DEF OnlineTypes
  <2> QED BY <2>1, <2>3 DEF CrashInv
<1> QED BY <1>1, <1>2, <1>3, CrashMain

LEMMA CrashJoin ==
  ASSUME OnlineTypes, CrashInv, JoinSpliter
  PROVE  CrashInv'
<1>1. UNCHANGED <<stream, tx, spl, wrk>> /\ pc' \in {"crashed", "wait", "drop"}
  BY DEF JoinSpliter, hw, spliters, workers
<1>2. pc' = "crashed" => spl[idx] = "panic" /\ idx \in Cpu
  BY DEF JoinSpliter, OnlineTypes
<1>3. pc' = "crashed" => Worker = {}
  BY <1>2 DEF CrashInv
<1>4. ~Capturing'
  BY <1>1 DEF Capturing
<1> QED BY <1>1, <1>3, <1>4, CrashMain

LEMMA CrashDrop ==
  ASSUME OnlineTypes, CrashInv, DropTx
  PROVE  CrashInv' /\ DOMAIN tx' = Cpu /\ tx' = [c \in Cpu |-> tx'[c]]
<1>1. /\ UNCHANGED <<stream, spl, wrk>> /\ pc' = "join"
      /\ tx' = [tx EXCEPT ![idx] = FALSE]
  BY DEF DropTx, hw, spliters, workers
<1>2. Cpu' = Cpu /\ Worker' = Worker
  BY <1>1, SameMachine
<1>3. DOMAIN tx' = Cpu /\ tx' = [c \in Cpu |-> tx'[c]]
  BY <1>1, Zenon DEF OnlineTypes
<1>4. \A c \in Cpu : tx'[c] => tx[c]
  BY <1>1, Zenon DEF OnlineTypes
<1>5. \A c \in Cpu : spl[c] = "done" => ~tx'[c]
  BY <1>4, Zenon DEF CrashInv
<1>6. ~Capturing' /\ pc' # "crashed"
  BY <1>1 DEF Capturing
<1> QED BY <1>1, <1>2, <1>3, <1>5, <1>6 DEF CrashInv

\* A spliter's send fails when every worker has ended, and none ends while a
\* spliter runs.
LEMMA CrashSpliter ==
  ASSUME OnlineTypes, CrashInv, NEW c0 \in Cpu, SpliterTurn(c0) \/ SpliterEnd(c0)
  PROVE  CrashInv' /\ spl' \in [Cpu -> {"run", "done", "panic"}]
<1>1. UNCHANGED <<stream, tx, wrk, pc>> /\ spl[c0] = "run"
  BY DEF SpliterTurn, SpliterEnd, hw, workers
<1>2. Cpu' = Cpu /\ Worker' = Worker
  BY <1>1, SameMachine
<1>3. \A w \in Worker : wrk[w] # "done"
  BY <1>1 DEF CrashInv
<1>4. PICK v \in {"run", "done", "panic"} :
        /\ spl' = [spl EXCEPT ![c0] = v]
        /\ v = "panic" => NoReceiver
        /\ v = "done" => ~tx[c0]
  <2>1. CASE SpliterTurn(c0)
    <3>1. (spl' = [spl EXCEPT ![c0] = "panic"] /\ NoReceiver) \/ spl' = spl
      BY <2>1 DEF SpliterTurn
    <3>2. spl' = spl => spl' = [spl EXCEPT ![c0] = "run"]
      BY <1>1 DEF OnlineTypes
    <3> QED BY <3>1, <3>2
  <2>2. CASE SpliterEnd(c0)
    BY <2>2 DEF SpliterEnd
  <2> QED BY <2>1, <2>2
<1>5. v = "panic" => Worker = {}
  <2>1. NoReceiver => \A w \in Worker : wrk[w] = "done"
    BY DEF NoReceiver, OnlineTypes
  <2> QED BY <1>3, <1>4, <2>1
<1>6. /\ spl' \in [Cpu -> {"run", "done", "panic"}] /\ spl'[c0] = v
      /\ \A c \in Cpu : c # c0 => spl'[c] = spl[c]
  BY <1>4 DEF OnlineTypes
<1>7. \A c \in Cpu : spl'[c] = "done" => ~tx[c]
  BY <1>4, <1>6 DEF CrashInv
<1>8. \A c \in Cpu : spl'[c] = "panic" => Worker = {}
  BY <1>5, <1>6 DEF CrashInv
<1>9. Capturing' <=> Capturing
  BY <1>1 DEF Capturing
<1>10. CrashInv'
  BY <1>1, <1>2, <1>3, <1>7, <1>8, <1>9 DEF CrashInv
<1> QED BY <1>6, <1>10

LEMMA CrashWorker ==
  ASSUME OnlineTypes, CrashInv, NEW w0 \in Worker, WorkerTurn(w0) \/ WorkerEnd(w0)
  PROVE  CrashInv' /\ wrk' \in [Worker -> {"run", "done"}]
<1>1. UNCHANGED <<stream, tx, spl, pc>>
  BY DEF WorkerTurn, WorkerEnd, hw, spliters
<1>2. Cpu' = Cpu /\ Worker' = Worker
  BY <1>1, SameMachine
<1>3. Capturing' <=> Capturing
  BY <1>1 DEF Capturing
<1>4. CASE WorkerTurn(w0)
  <2>1. wrk' = wrk
    BY <1>4 DEF WorkerTurn
  <2> QED BY <1>1, <1>2, <1>3, <2>1 DEF CrashInv, OnlineTypes
<1>5. CASE WorkerEnd(w0)
  <2>1. wrk' = [wrk EXCEPT ![w0] = "done"] /\ \A c \in Cpu : spl[c] # "run"
    BY <1>5 DEF WorkerEnd, WorkerMayEnd
  <2>2. wrk' \in [Worker -> {"run", "done"}]
    BY <2>1 DEF OnlineTypes
  <2> QED BY <1>1, <1>2, <1>3, <2>1, <2>2 DEF CrashInv
<1> QED BY <1>4, <1>5

-----------------------------------------------------------------------------
(* The two together.                                                       *)

LEMMA OnlineInit == Init => OnlineInv
<1> SUFFICES ASSUME Init  PROVE  OnlineInv
  OBVIOUS
<1>1. PICK n \in Nat : n >= 1 /\ Cpu = 0 .. n - 1
  BY CpuShape DEF Init
<1>2. OnlineTypes
  BY <1>1 DEF Init, OnlineTypes
<1>3. StopInv
  BY DEF Init, StopInv, Capturing, CapturedUpToStop
<1>4. CrashInv
  BY DEF Init, CrashInv, Capturing
<1> QED BY <1>2, <1>3, <1>4 DEF OnlineInv

\* A step of the main thread once the loop has returned.
LEMMA AfterStep ==
  ASSUME OnlineInv, UNCHANGED <<hw, G_STOP, at_stop, capture, tx, spliters, workers>>,
         ~Capturing, pc # "crashed", ~Capturing', pc' # "crashed", idx' \in Cpu,
         pc' \in {"drop", "join", "wait", "collect", "write", "done", "lost"}
  PROVE  OnlineInv'
<1>1. UNCHANGED <<stream, avail, captured, G_STOP, at_stop, flags, last_size, tx, spl, wrk>>
  BY DEF hw, capture, spliters, workers
<1>2. Cpu' = Cpu /\ Worker' = Worker
  BY <1>1, SameMachine
<1>3. OnlineTypes'
  BY <1>1, <1>2 DEF OnlineInv, OnlineTypes
<1>4. StopInv' /\ CrashInv'
  BY <1>1, StopAfter, CrashMain DEF OnlineInv
<1> QED BY <1>3, <1>4 DEF OnlineInv

LEMMA OnlineStep == OnlineInv /\ [Next]_vars => OnlineInv'
<1> SUFFICES ASSUME OnlineInv, [Next]_vars  PROVE  OnlineInv'
  OBVIOUS
<1>0. OnlineTypes /\ StopInv /\ CrashInv
  BY DEF OnlineInv
<1>1. PICK n \in Nat : n >= 1 /\ Cpu = 0 .. n - 1 /\ CpuNums = n /\ Worker = 0 .. n - 2
  BY <1>0, CpuShape DEF OnlineTypes
<1>2. ASSUME stream' = stream  PROVE  Cpu' = Cpu /\ Worker' = Worker
  BY <1>2, SameMachine
<1>3. CASE UNCHANGED vars
  <2>1. UNCHANGED <<stream, avail, captured, G_STOP, at_stop, pc, idx, flags, last_size, tx, spl, wrk>>
    BY <1>3 DEF vars
  <2>2. OnlineTypes'
    BY <1>0, <1>2, <2>1 DEF OnlineTypes
  <2>3. StopInv'
    BY <1>0, <2>1, StopAlone
  <2>4. CrashInv'
    BY <1>0, <1>2, <2>1 DEF CrashInv, Capturing
  <2> QED BY <2>2, <2>3, <2>4 DEF OnlineInv
<1>4. ASSUME NEW c0 \in Cpu, HwTrace(c0)  PROVE  OnlineInv'
  <2>1. UNCHANGED <<stream, captured, G_STOP, at_stop, pc, idx, flags, last_size, tx, spl, wrk>>
    BY <1>4 DEF HwTrace, capture, spliters, workers
  <2>2. StopInv' /\ avail' \in [Cpu -> Nat] /\ \A c \in Cpu : captured[c] <= avail'[c]
    BY <1>0, <1>4, StopHwTrace
  <2>3. OnlineTypes'
    BY <1>0, <1>2, <2>1, <2>2 DEF OnlineTypes
  <2>4. CrashInv'
    BY <1>0, <1>2, <2>1 DEF CrashInv, Capturing
  <2> QED BY <2>2, <2>3, <2>4 DEF OnlineInv
<1>5. CASE CtrlC
  <2>1. UNCHANGED <<stream, avail, captured, pc, idx, flags, last_size, tx, spl, wrk>>
    BY <1>5 DEF CtrlC, hw, capture, spliters, workers
  <2>2. StopInv' /\ at_stop' \in [Cpu -> Nat]
    BY <1>0, <1>5, StopCtrlC
  <2>3. OnlineTypes'
    BY <1>0, <1>2, <2>1, <2>2 DEF OnlineTypes
  <2>4. CrashInv'
    BY <1>0, <1>2, <2>1 DEF CrashInv, Capturing
  <2> QED BY <2>2, <2>3, <2>4 DEF OnlineInv
<1>6. CASE Fetch
  <2>1. /\ UNCHANGED <<stream, avail, G_STOP, at_stop, idx, flags, tx, spl, wrk>>
        /\ pc = "fetch" /\ pc' = "process"
    BY <1>6 DEF Fetch, hw, spliters, workers
  <2>2. /\ StopInv' /\ captured' \in [Cpu -> Nat] /\ last_size' \in [Cpu -> Nat]
        /\ \A c \in Cpu : captured'[c] <= avail[c]
    BY <1>0, <1>6, StopFetch
  <2>3. OnlineTypes'
    BY <1>0, <1>2, <2>1, <2>2 DEF OnlineTypes
  <2>4. CrashInv'
    BY <1>0, <1>2, <2>1 DEF CrashInv, Capturing
  <2> QED BY <2>2, <2>3, <2>4 DEF OnlineInv
<1>7. CASE Process
  <2>1. /\ UNCHANGED <<stream, avail, captured, G_STOP, at_stop, last_size, tx, spl, wrk>>
        /\ pc' \in {"crashed", "drop", "fetch"}
    BY <1>7 DEF Process, hw, spliters, workers
  <2>2. StopInv' /\ idx' \in Cpu /\ DOMAIN flags' = Cpu /\ flags' = [c \in Cpu |-> flags'[c]]
    BY <1>0, <1>7, StopProcess
  <2>3. OnlineTypes'
    BY <1>0, <1>2, <2>1, <2>2 DEF OnlineTypes
  <2>4. CrashInv'
    BY <1>0, <1>7, CrashProcess
  <2> QED BY <2>2, <2>3, <2>4 DEF OnlineInv
<1>8. CASE DropTx
  <2>1. /\ UNCHANGED <<stream, avail, captured, G_STOP, at_stop, idx, flags, last_size, spl, wrk>>
        /\ pc = "drop" /\ pc' = "join"
    BY <1>8 DEF DropTx, hw, capture, spliters, workers
  <2>2. CrashInv' /\ DOMAIN tx' = Cpu /\ tx' = [c \in Cpu |-> tx'[c]]
    BY <1>0, <1>8, CrashDrop
  <2>3. StopInv'
    BY <1>0, <2>1, StopAfter DEF Capturing
  <2>4. OnlineTypes'
    BY <1>0, <1>2, <2>1, <2>2 DEF OnlineTypes
  <2> QED BY <2>2, <2>3, <2>4 DEF OnlineInv
<1>9. CASE JoinSpliter
  <2>1. /\ UNCHANGED <<stream, avail, captured, G_STOP, at_stop, flags, last_size, tx, spl, wrk>>
        /\ pc = "join" /\ pc' \in {"crashed", "wait", "drop"}
    BY <1>9 DEF JoinSpliter, hw, capture, spliters, workers
  <2>2. idx' \in Cpu
    BY <1>0, <1>1, <1>9 DEF JoinSpliter, OnlineTypes
  <2>3. CrashInv'
    BY <1>0, <1>9, CrashJoin
  <2>4. StopInv'
    BY <1>0, <2>1, StopAfter DEF Capturing
  <2>5. OnlineTypes'
    BY <1>0, <1>2, <2>1, <2>2 DEF OnlineTypes
  <2> QED BY <2>3, <2>4, <2>5 DEF OnlineInv
<1>10. CASE JoinWorker \/ Collect \/ WriteToFile \/ WriteFails
  <2>1. UNCHANGED <<hw, G_STOP, at_stop, capture, tx, spliters, workers>>
    BY <1>10 DEF JoinWorker, Collect, WriteToFile, WriteFails
  <2>2. pc \in {"wait", "collect", "write"} /\ pc' \in {"wait", "collect", "write", "done", "lost"}
    BY <1>10 DEF JoinWorker, Collect, WriteToFile, WriteFails
  <2>3. idx' \in Cpu
    <3>1. CASE JoinWorker
      BY <1>0, <1>1, <3>1 DEF JoinWorker, OnlineTypes
    <3>2. CASE Collect \/ WriteToFile \/ WriteFails
      BY <1>0, <3>2 DEF Collect, WriteToFile, WriteFails, OnlineTypes
    <3> QED BY <1>10, <3>1, <3>2
  <2> QED BY <2>1, <2>2, <2>3, AfterStep DEF Capturing
<1>11. ASSUME NEW c0 \in Cpu, Spliter(c0)  PROVE  OnlineInv'
  <2>1. UNCHANGED <<stream, avail, captured, G_STOP, at_stop, pc, idx, flags, last_size, tx, wrk>>
    BY <1>11 DEF Spliter, SpliterTurn, SpliterEnd, hw, capture, workers
  <2>2. CrashInv' /\ spl' \in [Cpu -> {"run", "done", "panic"}]
    BY <1>0, <1>11, CrashSpliter DEF Spliter
  <2>3. StopInv'
    BY <1>0, <2>1, StopAlone
  <2>4. OnlineTypes'
    BY <1>0, <1>2, <2>1, <2>2 DEF OnlineTypes
  <2> QED BY <2>2, <2>3, <2>4 DEF OnlineInv
<1>12. ASSUME NEW w0 \in Worker, WorkerThread(w0)  PROVE  OnlineInv'
  <2>1. UNCHANGED <<stream, avail, captured, G_STOP, at_stop, pc, idx, flags, last_size, tx, spl>>
    BY <1>12 DEF WorkerThread, WorkerTurn, WorkerEnd, hw, capture, spliters
  <2>2. CrashInv' /\ wrk' \in [Worker -> {"run", "done"}]
    BY <1>0, <1>12, CrashWorker DEF WorkerThread
  <2>3. StopInv'
    BY <1>0, <2>1, StopAlone
  <2>4. OnlineTypes'
    BY <1>0, <1>2, <2>1, <2>2 DEF OnlineTypes
  <2> QED BY <2>2, <2>3, <2>4 DEF OnlineInv
<1>13. CASE Terminated
  BY <1>3, <1>13 DEF Terminated
<1> QED BY <1>3, <1>4, <1>5, <1>6, <1>7, <1>8, <1>9, <1>10, <1>11, <1>12, <1>13 DEF Next, Main

-----------------------------------------------------------------------------
\* The inductive invariant: what setup_pt_no_pmi's flags say about the rings
\* fetched since Ctrl-C, and who may still hold a channel's end.
THEOREM OnlineInvariant == Spec => []OnlineInv
<1>1. Init => OnlineInv
  BY OnlineInit
<1>2. OnlineInv /\ [Next]_vars => OnlineInv'
  BY OnlineStep
<1> QED BY <1>1, <1>2, PTL DEF Spec

\* When the polling loop of setup_pt_no_pmi returns, every ring but the first holds
\* nothing from before Ctrl-C, unless its last fetch filled tmp_buff.
THEOREM StopCapturesAll == Spec => []CapturedUpToStop
<1>1. OnlineInv => CapturedUpToStop
  BY DEF OnlineInv, StopInv
<1> QED BY <1>1, OnlineInvariant, PTL

\* A thread has panicked on a machine with one processor only.
PanicNeedsOneCpu == (pc = "crashed" \/ \E c \in Cpu : spl[c] = "panic") => CpuNums = 1

\* The unwraps of the channels' sends and of the joins panic on no machine with two
\* or more processors: there a worker, and so a receiver, outlives every spliter.
THEOREM NoPanicWithWorkers == Spec => []PanicNeedsOneCpu
<1>1. OnlineInv => PanicNeedsOneCpu
  <2> SUFFICES ASSUME OnlineInv, pc = "crashed" \/ \E c \in Cpu : spl[c] = "panic"
               PROVE  CpuNums = 1
    BY DEF PanicNeedsOneCpu
  <2>1. PICK n \in Nat : n >= 1 /\ CpuNums = n /\ Worker = 0 .. n - 2
    BY CpuShape DEF OnlineInv, OnlineTypes
  <2>2. Worker = {}
    BY DEF OnlineInv, CrashInv
  <2> QED BY <2>1, <2>2
<1> QED BY <1>1, OnlineInvariant, PTL

-----------------------------------------------------------------------------
(* Induction and sums.                                                     *)

LEMMA LeastNat ==
  ASSUME NEW T, T \subseteq Nat, T # {}
  PROVE  \E m \in T : \A k \in T : m <= k
<1> DEFINE R == OpToRel(<, Nat)
<1>1. IsWellFoundedOn(R, Nat)
  BY NatLessThanWellFounded
<1>2. \A x, y \in Nat : x < y => <<x, y>> \in R
  BY DEF OpToRel
<1> HIDE DEF R
<1>3. PICK m \in T : \A k \in T : ~(<<k, m>> \in R)
  BY <1>1, WFMin
<1>4. ASSUME NEW k \in T  PROVE  m <= k
  <2>1. m \in Nat /\ k \in Nat
    BY <1>3
  <2>2. ~(k < m)
    BY <1>2, <1>3, <2>1, Zenon
  <2> QED BY <2>1, <2>2
<1> QED BY <1>4

\* Induction, for a set of numbers.
LEMMA AllNat ==
  ASSUME NEW T \in SUBSET Nat, 0 \in T, \A n \in T : n + 1 \in T
  PROVE  T = Nat
<1> SUFFICES ASSUME T # Nat  PROVE  FALSE
  OBVIOUS
<1>1. PICK m \in Nat \ T : \A k \in Nat \ T : m <= k
  BY LeastNat
<1>2. m - 1 \in T
  BY <1>1
<1> QED BY <1>1, <1>2

LEMMA DropOne ==
  ASSUME NEW s, IsFiniteSet(s), NEW x \in s, NEW n \in Nat, Cardinality(s) = n + 1
  PROVE  Cardinality(s \ {x}) = n
<1>1. Cardinality(s \ {x}) = Cardinality(s) - 1
  BY FS_RemoveElement
<1> QED BY <1>1

\* Induction, for a set of finite sets.
LEMMA AllSubsets ==
  ASSUME NEW S, IsFiniteSet(S), NEW T \in SUBSET SUBSET S, {} \in T,
         \A s \in T : \A x \in S \ s : s \cup {x} \in T
  PROVE  T = SUBSET S
<1> DEFINE N == {n \in Nat : \A s \in SUBSET S : Cardinality(s) = n => s \in T}
<1>1. ASSUME NEW s \in SUBSET S  PROVE  IsFiniteSet(s) /\ Cardinality(s) \in Nat
  BY FS_Subset, FS_CardinalityType
<1>2. 0 \in N
  BY <1>1, FS_EmptySet
<1>3. ASSUME NEW n \in N  PROVE  n + 1 \in N
  <2>1. ASSUME NEW s \in SUBSET S, Cardinality(s) = n + 1  PROVE  s \in T
    <3>0. n \in Nat /\ n + 1 # 0 /\ IsFiniteSet(s)
      BY <1>1
    <3>1. PICK x \in s : TRUE
      <4>1. s # {}
        BY <2>1, <3>0, FS_EmptySet, Zenon
      <4> QED BY <4>1
    <3>2. s \ {x} \in SUBSET S /\ Cardinality(s \ {x}) = n
      BY <2>1, <3>0, <3>1, DropOne
    <3>3. s \ {x} \in T /\ x \in S \ (s \ {x})
      BY <3>2
    <3>4. (s \ {x}) \cup {x} = s
      BY <3>1
    <3> QED BY <3>3, <3>4
  <2> QED BY <2>1
<1>4. N = Nat
  <2> HIDE DEF N
  <2>1. N \in SUBSET Nat
    BY DEF N
  <2> QED BY <1>2, <1>3, <2>1, AllNat
<1>5. ASSUME NEW s \in SUBSET S  PROVE  s \in T
  BY <1>1, <1>4
<1> QED BY <1>5

LEMMA FinDisjoint ==
  ASSUME NEW s, NEW t, IsFiniteSet(s), IsFiniteSet(t), s \cap t = {}
  PROVE  /\ IsFiniteSet(s \cup t)
         /\ Cardinality(s \cup t) = Cardinality(s) + Cardinality(t)
<1>1. /\ IsFiniteSet(s \cup t)
      /\ Cardinality(s \cup t) = Cardinality(s) + Cardinality(t) - Cardinality(s \cap t)
  BY FS_Union
<1>2. Cardinality(s \cap t) = 0
  BY FS_EmptySet
<1>3. Cardinality(s) \in Nat /\ Cardinality(t) \in Nat
  BY FS_CardinalityType
<1> QED BY <1>1, <1>2, <1>3

\* f[x] pairs for each x in s.
Units(f, s) == {p \in s \X Nat : p[2] \in 1 .. f[p[1]]}

LEMMA UnitsMore ==
  ASSUME NEW S, NEW f \in [S -> Nat], NEW s \in SUBSET S, NEW x \in S \ s, IsFiniteSet(Units(f, s))
  PROVE  /\ IsFiniteSet(Units(f, s \cup {x}))
         /\ Cardinality(Units(f, s \cup {x})) = f[x] + Cardinality(Units(f, s))
<1> DEFINE X == {x} \X (1 .. f[x])
<1>1. f[x] \in Nat
  OBVIOUS
<1>2. IsFiniteSet(1 .. f[x]) /\ Cardinality(1 .. f[x]) = f[x]
  BY <1>1, FS_Interval
<1>3. IsFiniteSet({x}) /\ Cardinality({x}) = 1
  BY FS_Singleton
<1>4. IsFiniteSet(X) /\ Cardinality(X) = f[x]
  BY <1>1, <1>2, <1>3, FS_Product
<1>5. Units(f, s \cup {x}) = Units(f, s) \cup X
  BY <1>1 DEF Units
<1>6. Units(f, s) \cap X = {}
  BY DEF Units
<1> HIDE DEF X
<1>7. Cardinality(Units(f, s)) \in Nat
  BY FS_CardinalityType
<1>8. /\ IsFiniteSet(Units(f, s) \cup X)
      /\ Cardinality(Units(f, s) \cup X) = Cardinality(Units(f, s)) + Cardinality(X)
  BY <1>4, <1>6, FinDisjoint
<1>9. Cardinality(Units(f, s)) + Cardinality(X) = f[x] + Cardinality(Units(f, s))
  BY <1>1, <1>4, <1>7
<1> QED BY <1>5, <1>8, <1>9, Zenon

LEMMA UnitsFinite ==
  ASSUME NEW S, IsFiniteSet(S), NEW f \in [S -> Nat], NEW s \in SUBSET S
  PROVE  IsFiniteSet(Units(f, s))
<1> DEFINE T == {t \in SUBSET S : IsFiniteSet(Units(f, t))}
<1>1. {} \in T
  <2>1. Units(f, {}) = {}
    BY DEF Units
  <2> QED BY <2>1, FS_EmptySet
<1>2. \A t \in T : \A x \in S \ t : t \cup {x} \in T
  BY UnitsMore
<1>3. T \in SUBSET SUBSET S
  OBVIOUS
<1> HIDE DEF T
<1>4. T = SUBSET S
  BY <1>1, <1>2, <1>3, AllSubsets
<1> QED BY <1>4 DEF T

\* A sum, which the library computes by choosing one element after the other, is
\* the number of these pairs.
LEMMA SumUnits ==
  ASSUME NEW S, IsFiniteSet(S), NEW f \in [S -> Nat]
  PROVE  SumFunction(f) = Cardinality(Units(f, S)) /\ SumFunction(f) \in Nat
<1> DEFINE Fold(h) == [s \in SUBSET S |-> IF s = {} THEN 0
                         ELSE f[CHOOSE x \in s : TRUE] + h[s \ {CHOOSE x \in s : TRUE}]]
           iter == CHOOSE h : h = Fold(h)
           g == [s \in SUBSET S |-> Cardinality(Units(f, s))]
<1>1. ASSUME NEW s \in SUBSET S, s # {}, NEW x \in s
      PROVE  /\ Cardinality(Units(f, s)) = f[x] + Cardinality(Units(f, s \ {x}))
             /\ s \ {x} \in SUBSET S
  <2>1. (s \ {x}) \cup {x} = s /\ s \ {x} \in SUBSET S /\ x \in S \ (s \ {x})
    BY <1>1
  <2>2. IsFiniteSet(Units(f, s \ {x}))
    BY <2>1, UnitsFinite
  <2> QED BY <2>1, <2>2, UnitsMore
<1>2. Cardinality(Units(f, {})) = 0
  <2>1. Units(f, {}) = {}
    BY DEF Units
  <2> QED BY <2>1, FS_EmptySet
<1>3. g = Fold(g)
  <2>1. ASSUME NEW s \in SUBSET S  PROVE  g[s] = Fold(g)[s]
    <3>1. CASE s = {}
      BY <1>2, <3>1
    <3>2. CASE s # {}
      <4>1. (CHOOSE x \in s : TRUE) \in s
        BY <3>2
      <4> QED BY <1>1, <3>2, <4>1
    <3> QED BY <3>1, <3>2
  <2> QED BY <2>1
<1>4. iter = Fold(iter)
  BY <1>3, Zenon
<1>5. SumFunction(f) = iter[S]
  <2>1. DOMAIN f = S
    OBVIOUS
  <2> QED BY <2>1, Zenon DEF SumFunction, SumFunctionOnSet, FoldFunctionOnSet, MapThenFoldSet
<1> HIDE DEF iter
<1> DEFINE T == {s \in SUBSET S : iter[s] = Cardinality(Units(f, s))}
<1>6. T = SUBSET S
  <2> DEFINE N == {n \in Nat : \A s \in SUBSET S : Cardinality(s) = n => s \in T}
  <2>1. ASSUME NEW s \in SUBSET S  PROVE  IsFiniteSet(s) /\ Cardinality(s) \in Nat
    BY FS_Subset, FS_CardinalityType
  <2>2. 0 \in N
    <3>1. iter[{}] = 0
      BY <1>4
    <3>2. {} \in T
      BY <1>2, <3>1
    <3> QED BY <2>1, <3>2, FS_EmptySet
  <2>3. ASSUME NEW n \in N  PROVE  n + 1 \in N
    <3>1. ASSUME NEW s \in SUBSET S, Cardinality(s) = n + 1  PROVE  s \in T
      <4>1. s # {}
        BY <3>1, FS_EmptySet
      <4>2. PICK x \in s : x = CHOOSE y \in s : TRUE
        BY <4>1
      <4>3. iter[s] = f[x] + iter[s \ {x}]
        BY <1>4, <4>1, <4>2
      <4>4. s \ {x} \in SUBSET S /\ Cardinality(s \ {x}) = n
        <5>1. n \in Nat /\ IsFiniteSet(s)
          BY <2>1
        <5> QED BY <3>1, <4>2, <5>1, DropOne
      <4>5. iter[s \ {x}] = Cardinality(Units(f, s \ {x}))
        BY <4>4
      <4> QED BY <1>1, <4>1, <4>3, <4>5
    <3> QED BY <3>1
  <2>4. N = Nat
    <3> HIDE DEF N
    <3>1. N \in SUBSET Nat
      BY DEF N
    <3> QED BY <2>2, <2>3, <3>1, AllNat
  <2>5. ASSUME NEW s \in SUBSET S  PROVE  s \in T
    <3>1. Cardinality(s) \in N
      BY <2>1, <2>4
    <3> QED BY <3>1
  <2> QED BY <2>5
<1>7. iter[S] = Cardinality(Units(f, S))
  <2>1. S \in T
    BY <1>6
  <2> QED BY <2>1
<1>8. Cardinality(Units(f, S)) \in Nat
  BY UnitsFinite, FS_CardinalityType
<1> QED BY <1>5, <1>7, <1>8

LEMMA SumChange ==
  ASSUME NEW S, IsFiniteSet(S), NEW f \in [S -> Nat], NEW g \in [S -> Nat], NEW x \in S,
         \A y \in S : y # x => f[y] = g[y]
  PROVE  SumFunction(g) + f[x] = SumFunction(f) + g[x]
<1>1. /\ S \ {x} \in SUBSET S /\ x \in S \ (S \ {x}) /\ (S \ {x}) \cup {x} = S
  OBVIOUS
<1>0. ASSUME NEW h \in [S -> Nat], NEW s \in SUBSET S, x \in S \ s, IsFiniteSet(Units(h, s))
      PROVE  Cardinality(Units(h, s \cup {x})) = h[x] + Cardinality(Units(h, s))
  BY <1>0, UnitsMore
<1>2. Units(f, S \ {x}) = Units(g, S \ {x})
  BY DEF Units
<1>3. IsFiniteSet(Units(f, S \ {x})) /\ Cardinality(Units(f, S \ {x})) \in Nat
  BY <1>1, UnitsFinite, FS_CardinalityType
<1>4. Cardinality(Units(f, S)) = f[x] + Cardinality(Units(f, S \ {x}))
  <2>1. Cardinality(Units(f, (S \ {x}) \cup {x})) = f[x] + Cardinality(Units(f, S \ {x}))
    BY <1>0, <1>1, <1>3
  <2> QED BY <1>1, <2>1, Zenon
<1>5. Cardinality(Units(g, S)) = g[x] + Cardinality(Units(f, S \ {x}))
  <2>1. Cardinality(Units(g, (S \ {x}) \cup {x})) = g[x] + Cardinality(Units(g, S \ {x}))
    BY <1>0, <1>1, <1>2, <1>3
  <2> QED BY <1>1, <1>2, <2>1, Zenon
<1>6. f[x] \in Nat /\ g[x] \in Nat
  OBVIOUS
<1>7. SumFunction(f) = Cardinality(Units(f, S)) /\ SumFunction(g) = Cardinality(Units(g, S))
  BY SumUnits
<1> QED BY <1>3, <1>4, <1>5, <1>6, <1>7

LEMMA SumZero ==
  ASSUME NEW S, IsFiniteSet(S), NEW f \in [S -> Nat], \A x \in S : f[x] = 0
  PROVE  SumFunction(f) = 0
<1>1. Units(f, S) = {}
  BY DEF Units
<1> QED BY <1>1, SumUnits, FS_EmptySet

-----------------------------------------------------------------------------
(* Sequences.                                                              *)

LEMMA SeqMake ==
  ASSUME NEW T, NEW n \in Nat, NEW f, DOMAIN f = 1 .. n, f = [i \in 1 .. n |-> f[i]],
         \A i \in 1 .. n : f[i] \in T
  PROVE  f \in Seq(T) /\ Len(f) = n
<1>1. f \in [1 .. n -> T]
  OBVIOUS
<1>2. f \in Seq(T)
  BY <1>1, SeqDef
<1>3. Len(f) \in Nat /\ DOMAIN f = 1 .. Len(f)
  BY <1>2, LenProperties
<1> QED BY <1>2, <1>3

\* A part of a sequence.
LEMMA SubSeqIs ==
  ASSUME NEW T, NEW s \in Seq(T), NEW i \in Nat, i >= 1, NEW j \in Nat, j <= Len(s), i <= j + 1
  PROVE  /\ SubSeq(s, i, j) \in Seq(T)
         /\ Len(SubSeq(s, i, j)) = j - i + 1
         /\ \A k \in 1 .. j - i + 1 : SubSeq(s, i, j)[k] = s[i + k - 1]
<1>1. Len(s) \in Nat
  OBVIOUS
<1>2. \A k \in i .. j : s[k] \in T
  BY <1>1
<1>3. /\ SubSeq(s, i, j) \in Seq(T)
      /\ Len(SubSeq(s, i, j)) = IF i <= j THEN j - i + 1 ELSE 0
      /\ \A k \in 1 .. j - i + 1 : SubSeq(s, i, j)[k] = s[i + k - 1]
  BY <1>2, SubSeqProperties
<1> QED BY <1>3


-----------------------------------------------------------------------------
(* The synchronisation points of a trace, in their order.                  *)

\* off lists the numbers of S in increasing order.
Lists(off, S) ==
  /\ off \in Seq(Nat)
  /\ \A i, j \in 1 .. Len(off) : i < j => off[i] < off[j]
  /\ \A i \in 1 .. Len(off) : off[i] \in S
  /\ \A k \in S : \E i \in 1 .. Len(off) : off[i] = k

LEMMA ListExists ==
  ASSUME NEW N \in Nat, NEW S \in SUBSET (1 .. N)
  PROVE  \E off \in Seq(Nat) : Lists(off, S)
<1> DEFINE T == {n \in Nat : \A s \in SUBSET (1 .. n) : \E off \in Seq(Nat) : Lists(off, s)}
<1>1. 0 \in T
  <2>1. Lists(<< >>, {})
    BY DEF Lists
  <2>2. \A s \in SUBSET (1 .. 0) : s = {}
    OBVIOUS
  <2>3. << >> \in Seq(Nat)
    OBVIOUS
  <2> QED BY <2>1, <2>2, <2>3
<1>2. ASSUME NEW n \in T  PROVE  n + 1 \in T
  <2>1. ASSUME NEW s \in SUBSET (1 .. n + 1)  PROVE  \E off \in Seq(Nat) : Lists(off, s)
    <3>1. s \ {n + 1} \in SUBSET (1 .. n)
      OBVIOUS
    <3>2. PICK off \in Seq(Nat) : Lists(off, s \ {n + 1})
      BY <3>1
    <3>3. CASE n + 1 \notin s
      BY <3>2, <3>3 DEF Lists
    <3>4. CASE n + 1 \in s
      <4>1. PICK o2 : o2 = Append(off, n + 1)
        OBVIOUS
      <4>2. /\ o2 \in Seq(Nat) /\ Len(o2) = Len(off) + 1 /\ Len(off) \in Nat
            /\ \A i \in 1 .. Len(off) : o2[i] = off[i]
            /\ o2[Len(off) + 1] = n + 1
        BY <3>2, <4>1, AppendProperties
      <4>3. \A i \in 1 .. Len(off) : off[i] \in s /\ off[i] \in Nat /\ off[i] < n + 1
        <5> SUFFICES ASSUME NEW i \in 1 .. Len(off)
                     PROVE  off[i] \in s /\ off[i] \in Nat /\ off[i] < n + 1
          OBVIOUS
        <5>1. off[i] \in s \ {n + 1}
          BY <3>2 DEF Lists
        <5>2. off[i] \in 1 .. n /\ n \in Nat
          BY <3>1, <5>1
        <5> QED BY <5>1, <5>2
      <4>4. \A i, j \in 1 .. Len(o2) : i < j => o2[i] < o2[j]
        <5> SUFFICES ASSUME NEW i \in 1 .. Len(o2), NEW j \in 1 .. Len(o2), i < j
                     PROVE  o2[i] < o2[j]
          OBVIOUS
        <5>0. PICK L \in Nat : L = Len(off) /\ Len(o2) = L + 1
          BY <4>2
        <5>1. i \in 1 .. Len(off) /\ (j \in 1 .. Len(off) \/ j = Len(off) + 1)
          BY <5>0
        <5> QED BY <3>2, <4>2, <4>3, <5>1 DEF Lists
      <4>5. \A i \in 1 .. Len(o2) : o2[i] \in s
        BY <3>4, <4>2, <4>3
      <4>6. \A k \in s : \E i \in 1 .. Len(o2) : o2[i] = k
        <5> SUFFICES ASSUME NEW k \in s  PROVE  \E i \in 1 .. Len(o2) : o2[i] = k
          OBVIOUS
        <5>1. CASE k = n + 1
          BY <4>2, <5>1
        <5>2. CASE k # n + 1
          <6>1. PICK i \in 1 .. Len(off) : off[i] = k
            BY <3>2, <5>2 DEF Lists
          <6> QED BY <4>2, <6>1
        <5> QED BY <5>1, <5>2
      <4>7. Lists(o2, s)
        BY <4>2, <4>4, <4>5, <4>6 DEF Lists
      <4> QED BY <4>2, <4>7
    <3> QED BY <3>3, <3>4
  <2> QED BY <2>1
<1>3. T = Nat
  <2>1. T \in SUBSET Nat
    OBVIOUS
  <2> HIDE DEF T
  <2> QED BY <1>1, <1>2, <2>1, AllNat
<1> QED BY <1>3

\* How many numbers a list has.
LEMMA ListLength ==
  ASSUME NEW off, NEW S, Lists(off, S)
  PROVE  IsFiniteSet(S) /\ Cardinality(S) = Len(off) /\ Len(off) \in Nat /\ off \in [1 .. Len(off) -> S]
<1>1. Len(off) \in Nat /\ off \in [1 .. Len(off) -> Nat]
  BY LenProperties DEF Lists
<1>2. off \in [1 .. Len(off) -> S]
  BY <1>1 DEF Lists
<1>3. \A i, j \in 1 .. Len(off) : off[i] = off[j] => i = j
  BY <1>1 DEF Lists
<1>4. \A k \in S : \E i \in 1 .. Len(off) : off[i] = k
  BY DEF Lists
<1>5. off \in Bijection(1 .. Len(off), S)
  BY <1>2, <1>3, <1>4 DEF Bijection, Injection, Surjection, IsInjective
<1>6. ExistsBijection(1 .. Len(off), S)
  BY <1>5 DEF ExistsBijection
<1>7. IsFiniteSet(S)
  BY <1>1, <1>6, FS_NatBijection
<1>8. Cardinality(S) = Len(off)
  BY <1>1, <1>6, FS_CountingElements
<1> QED BY <1>1, <1>2, <1>7, <1>8

LEMMA MarksIn ==
  ASSUME NEW d \in Seq(Token)
  PROVE  Marks(d) \in SUBSET (1 .. Len(d)) /\ Len(d) \in Nat
BY DEF Marks

\* sync_forward finds every synchronisation point, in order.
LEMMA SplitLists ==
  ASSUME NEW d \in Seq(Token)
  PROVE  Lists(Split(d), Marks(d))
<1>1. PICK off \in Seq(Nat) : Lists(off, Marks(d))
  BY MarksIn, ListExists
<1>2. PICK m \in Nat : m = Cardinality(Marks(d)) /\ m = Len(off) /\ IsFiniteSet(Marks(d))
  BY <1>1, ListLength
<1>3. off \in [1 .. m -> Marks(d)] /\ \A i, j \in 1 .. m : i < j => off[i] < off[j]
  BY <1>1, <1>2, ListLength DEF Lists
<1>4. PICK o2 : o2 = Split(d)
  OBVIOUS
<1>5. o2 \in [1 .. m -> Marks(d)] /\ \A i, j \in 1 .. m : i < j => o2[i] < o2[j]
  BY <1>2, <1>3, <1>4, Zenon DEF Split
<1>6. \A i \in 1 .. m : o2[i] \in Nat
  BY <1>5, MarksIn
<1>7. o2 \in Seq(Nat) /\ Len(o2) = m
  BY <1>5, <1>6, SeqMake
<1>8. o2 \in Injection(1 .. m, Marks(d))
  BY <1>5, <1>6 DEF Injection, IsInjective
<1>9. Cardinality(1 .. m) = m
  BY FS_Interval
<1>10. o2 \in Surjection(1 .. m, Marks(d))
  BY <1>2, <1>8, <1>9, FS_Injection
<1>11. \A k \in Marks(d) : \E i \in 1 .. m : o2[i] = k
  BY <1>10 DEF Surjection
<1> QED BY <1>4, <1>5, <1>7, <1>11 DEF Lists

-----------------------------------------------------------------------------
(* Cutting a trace that comes in chunks.                                   *)

LEMMA TokenMarks ==
  ASSUME NEW d \in Seq(Token), NEW k \in Marks(d)
  PROVE  k \in Nat /\ k >= 1 /\ k + 1 <= Len(d) /\ d[k] = "psb" /\ d[k + 1] = "end"
BY DEF Marks

\* The pieces and the rest, given the offsets.
LEMMA PiecesIs ==
  ASSUME NEW d \in Seq(Token), NEW off, Lists(off, Marks(d))
  PROVE  /\ Pieces(d, off) \in Seq(Seq(Token))
         /\ Len(Pieces(d, off)) = IF Len(off) = 0 THEN 0 ELSE Len(off) - 1
         /\ \A n \in 1 .. Len(off) - 1 :
              /\ Pieces(d, off)[n] = SubSeq(d, off[n], off[n + 1] - 1)
              /\ off[n] \in Nat /\ off[n] >= 1 /\ off[n + 1] \in Nat
              /\ off[n] < off[n + 1] /\ off[n + 1] <= Len(d)
<1>1. PICK m \in Nat : m = Len(off)
  BY ListLength
<1>2. ASSUME NEW n \in 1 .. m  PROVE  off[n] \in Nat /\ off[n] >= 1 /\ off[n] + 1 <= Len(d)
  <2>1. off[n] \in Marks(d)
    BY <1>1 DEF Lists
  <2> QED BY <2>1, TokenMarks
<1>3. ASSUME NEW n \in 1 .. m - 1
      PROVE  /\ off[n] \in Nat /\ off[n] >= 1 /\ off[n + 1] \in Nat /\ off[n] < off[n + 1]
             /\ off[n + 1] <= Len(d) /\ SubSeq(d, off[n], off[n + 1] - 1) \in Seq(Token)
  <2>1. n \in 1 .. m /\ n + 1 \in 1 .. m /\ n < n + 1
    OBVIOUS
  <2>2. off[n] < off[n + 1]
    BY <1>1, <2>1 DEF Lists
  <2>3. off[n] \in Nat /\ off[n] >= 1 /\ off[n + 1] \in Nat /\ off[n + 1] + 1 <= Len(d)
    BY <1>2, <2>1
  <2>4. PICK i \in Nat : i = off[n]
    BY <2>3
  <2>5. PICK j \in Nat : j = off[n + 1] - 1
    BY <2>2, <2>3
  <2>6. i >= 1 /\ i <= j + 1 /\ j <= Len(d) /\ Len(d) \in Nat
    BY <2>2, <2>3, <2>4, <2>5
  <2>7. SubSeq(d, i, j) \in Seq(Token)
    BY <2>6, SubSeqIs
  <2> QED BY <2>2, <2>3, <2>4, <2>5, <2>6, <2>7
<1>4. PICK l \in Nat : l = IF m = 0 THEN 0 ELSE m - 1
  BY <1>1
<1>5. 1 .. m - 1 = 1 .. l
  BY <1>1, <1>4
<1>6. Pieces(d, off) = [n \in 1 .. l |-> SubSeq(d, off[n], off[n + 1] - 1)]
  BY <1>1, <1>5, Zenon DEF Pieces
<1>7. Pieces(d, off) \in Seq(Seq(Token)) /\ Len(Pieces(d, off)) = l
  <2>1. PICK f : f = Pieces(d, off)
    OBVIOUS
  <2>2. DOMAIN f = 1 .. l /\ f = [n \in 1 .. l |-> f[n]] /\ \A n \in 1 .. l : f[n] \in Seq(Token)
    BY <1>3, <1>5, <1>6, <2>1
  <2> QED BY <2>1, <2>2, SeqMake
<1>8. \A n \in 1 .. l : Pieces(d, off)[n] = SubSeq(d, off[n], off[n + 1] - 1)
  BY <1>6
<1> QED BY <1>1, <1>3, <1>4, <1>5, <1>7, <1>8

LEMMA KeptIs ==
  ASSUME NEW d \in Seq(Token), NEW off, Lists(off, Marks(d))
  PROVE  /\ Kept(d, off) = IF Len(off) = 0 THEN d ELSE SubSeq(d, off[Len(off)], Len(d))
         /\ Kept(d, off) \in Seq(Token)
         /\ Len(off) # 0 => /\ off[Len(off)] \in Nat /\ off[Len(off)] >= 1
                            /\ off[Len(off)] + 1 <= Len(d)
<1>1. PICK m \in Nat : m = Len(off)
  BY ListLength
<1>2. off = << >> <=> m = 0
  BY <1>1, EmptySeq DEF Lists
<1>3. Kept(d, off) = IF m = 0 THEN d ELSE SubSeq(d, off[m], Len(d))
  BY <1>1, <1>2, Zenon DEF Kept, Last
<1>4. ASSUME m # 0
      PROVE  off[m] \in Nat /\ off[m] >= 1 /\ off[m] + 1 <= Len(d) /\ SubSeq(d, off[m], Len(d)) \in Seq(Token)
  <2>1. m \in 1 .. m
    BY <1>4
  <2>2. off[m] \in Marks(d)
    BY <1>1, <2>1 DEF Lists
  <2>3. off[m] \in Nat /\ off[m] >= 1 /\ off[m] + 1 <= Len(d) /\ Len(d) \in Nat
    BY <2>2, TokenMarks
  <2>4. off[m] <= Len(d) + 1 /\ Len(d) <= Len(d)
    BY <2>3
  <2> QED BY <2>3, <2>4, SubSeqIs
<1> QED BY <1>1, <1>3, <1>4

\* Piece n reaches from i to j.
PieceBounds(d, off, n, i, j) ==
  /\ i = off[n] /\ off[n + 1] = j + 1
  /\ 1 <= i /\ i <= j /\ j + 1 <= Len(d)
  /\ Pieces(d, off)[n] = SubSeq(d, i, j)

LEMMA PieceAt ==
  ASSUME NEW d \in Seq(Token), NEW off, Lists(off, Marks(d)), NEW n \in 1 .. Len(off) - 1
  PROVE  \E i \in Nat, j \in Nat : PieceBounds(d, off, n, i, j)
<1>1. /\ Pieces(d, off)[n] = SubSeq(d, off[n], off[n + 1] - 1)
      /\ off[n] \in Nat /\ off[n] >= 1 /\ off[n + 1] \in Nat
      /\ off[n] < off[n + 1] /\ off[n + 1] <= Len(d)
  BY PiecesIs
<1>2. PICK L \in Nat : L = Len(d)
  OBVIOUS
<1>3. /\ off[n + 1] - 1 \in Nat /\ off[n + 1] = (off[n + 1] - 1) + 1
      /\ 1 <= off[n] /\ off[n] <= off[n + 1] - 1 /\ (off[n + 1] - 1) + 1 <= L
  BY <1>1, <1>2
<1>4. PICK i \in Nat, j \in Nat : i = off[n] /\ j = off[n + 1] - 1
  BY <1>1, <1>3
<1>5. PieceBounds(d, off, n, i, j)
  BY <1>1, <1>2, <1>3, <1>4 DEF PieceBounds
<1> QED BY <1>5

LEMMA KeptAt ==
  ASSUME NEW d \in Seq(Token), NEW off, Lists(off, Marks(d)), Len(off) # 0
  PROVE  \E i \in Nat : /\ i = off[Len(off)] /\ i >= 1 /\ i + 1 <= Len(d)
                        /\ Kept(d, off) = SubSeq(d, i, Len(d))
BY KeptIs

LEMMA ConcatIs ==
  ASSUME NEW T, NEW s \in Seq(T), NEW t \in Seq(T)
  PROVE  /\ s \o t \in Seq(T) /\ Len(s \o t) = Len(s) + Len(t)
         /\ \A k \in 1 .. Len(s) : (s \o t)[k] = s[k]
         /\ \A k \in 1 .. Len(t) : (s \o t)[Len(s) + k] = t[k]
<1>1. PICK a \in Nat, b \in Nat : a = Len(s) /\ b = Len(t)
  OBVIOUS
<1>2. /\ s \o t \in Seq(T) /\ Len(s \o t) = a + b
      /\ \A i \in 1 .. a + b : (s \o t)[i] = IF i <= a THEN s[i] ELSE t[i - a]
  BY <1>1, ConcatProperties
<1>3. \A k \in 1 .. a : k \in 1 .. a + b /\ k <= a
  OBVIOUS
<1>4. \A k \in 1 .. b : a + k \in 1 .. a + b /\ ~(a + k <= a) /\ (a + k) - a = k
  OBVIOUS
<1> QED BY <1>1, <1>2, <1>3, <1>4

\* p has the elements of s and then those of t.
JoinOf(p, s, t) ==
  /\ Len(p) = Len(s) + Len(t)
  /\ \A k \in 1 .. Len(s) : p[k] = s[k]
  /\ \A k \in 1 .. Len(t) : p[Len(s) + k] = t[k]

LEMMA SeqJoin ==
  ASSUME NEW T, NEW p \in Seq(T), NEW s \in Seq(T), NEW t \in Seq(T), JoinOf(p, s, t)
  PROVE  p = s \o t
<1>1. PICK a \in Nat, b \in Nat : a = Len(s) /\ b = Len(t)
  OBVIOUS
<1>0. /\ Len(p) = a + b
      /\ \A k \in 1 .. a : p[k] = s[k]
      /\ \A k \in 1 .. b : p[a + k] = t[k]
  BY <1>1 DEF JoinOf
<1>2. PICK q : q = s \o t
  OBVIOUS
<1>3. /\ q \in Seq(T) /\ Len(q) = a + b
      /\ \A k \in 1 .. a : q[k] = s[k]
      /\ \A k \in 1 .. b : q[a + k] = t[k]
  BY <1>1, <1>2, ConcatIs
<1>4. ASSUME NEW n \in 1 .. a + b  PROVE  p[n] = q[n]
  <2>1. CASE n \in 1 .. a
    BY <1>0, <1>3, <2>1
  <2>2. CASE n \notin 1 .. a
    <3>1. n - a \in 1 .. b /\ n = a + (n - a)
      BY <2>2
    <3>2. PICK k \in 1 .. b : n = a + k
      BY <3>1
    <3> QED BY <1>0, <1>3, <3>2
  <2> QED BY <2>1, <2>2
<1>5. p = q
  BY <1>0, <1>3, <1>4, SeqEqual
<1> QED BY <1>2, <1>5

\* p is s followed by t.
IsJoin(p, s, t) == p = s \o t

\* SubSeq under a name of its own, for facts about equal parts.
Part(s, i, j) == SubSeq(s, i, j)

\* Equal parts of two sequences.
SameParts(s, i, j, t, u, v) ==
  /\ s \in Seq(Token) /\ t \in Seq(Token) /\ i \in Nat /\ j \in Nat /\ u \in Nat /\ v \in Nat
  /\ 1 <= i /\ 1 <= u /\ i <= j + 1 /\ v - u = j - i /\ j <= Len(s) /\ v <= Len(t)
  /\ \A k \in 0 .. j - i : s[i + k] = t[u + k]

LEMMA SubSeqSame ==
  ASSUME NEW s, NEW i, NEW j, NEW t, NEW u, NEW v, SameParts(s, i, j, t, u, v)
  PROVE  Part(t, u, v) = Part(s, i, j)
<1>a. s \in Seq(Token) /\ t \in Seq(Token) /\ i \in Nat /\ j \in Nat /\ u \in Nat /\ v \in Nat
  BY DEF SameParts
<1>0. /\ 1 <= i /\ 1 <= u /\ i <= j + 1 /\ v - u = j - i /\ j <= Len(s) /\ v <= Len(t)
      /\ \A k \in 0 .. j - i : s[i + k] = t[u + k]
  BY DEF SameParts
<1>1. PICK n \in Nat : n = j - i + 1
  <2>1. j - i + 1 \in Nat
    BY <1>a, <1>0
  <2> QED BY <2>1
<1>2. v - u + 1 = n /\ u <= v + 1
  BY <1>a, <1>0, <1>1
<1>3. /\ SubSeq(s, i, j) \in Seq(Token) /\ Len(SubSeq(s, i, j)) = n
      /\ \A k \in 1 .. n : SubSeq(s, i, j)[k] = s[i + k - 1]
  BY <1>a, <1>0, <1>1, SubSeqIs
<1>4. /\ SubSeq(t, u, v) \in Seq(Token) /\ Len(SubSeq(t, u, v)) = n
      /\ \A k \in 1 .. n : SubSeq(t, u, v)[k] = t[u + k - 1]
  BY <1>a, <1>0, <1>2, SubSeqIs
<1>5. ASSUME NEW k \in 1 .. n  PROVE  SubSeq(t, u, v)[k] = SubSeq(s, i, j)[k]
  <2>1. PICK l \in 0 .. j - i : l = k - 1
    BY <1>a, <1>1
  <2>2. i + k - 1 = i + l /\ u + k - 1 = u + l
    BY <1>a, <2>1
  <2> QED BY <1>a, <1>0, <1>3, <1>4, <2>1, <2>2
<1>6. SubSeq(t, u, v) = SubSeq(s, i, j)
  BY <1>3, <1>4, <1>5, SeqEqual
<1> QED BY <1>6 DEF Part

\* What is left of r, whose first B tokens were cut off.
LEMMA KeptShape ==
  ASSUME NEW r \in Seq(Token), NEW off, Lists(off, Marks(r))
  PROVE  \E B \in Nat :
           /\ B <= Len(r) /\ Len(Kept(r, off)) = Len(r) - B
           /\ \A k \in 1 .. Len(r) - B : Kept(r, off)[k] = r[k + B]
           /\ Len(off) = 0 => B = 0
           /\ Len(off) # 0 => off[Len(off)] = B + 1 /\ B + 2 <= Len(r)
<1>1. PICK R \in Nat : R = Len(r)
  OBVIOUS
<1>2. CASE Len(off) = 0
  <2>1. Kept(r, off) = r
    BY <1>2, KeptIs
  <2>2. R - 0 = R /\ 0 <= R /\ \A k \in 1 .. R : k + 0 = k
    OBVIOUS
  <2> QED BY <1>1, <1>2, <2>1, <2>2
<1>3. CASE Len(off) # 0
  <2>1. PICK i \in Nat : /\ i = off[Len(off)] /\ i >= 1 /\ i + 1 <= R
                         /\ Kept(r, off) = SubSeq(r, i, R)
    BY <1>1, <1>3, KeptAt
  <2>2. PICK B \in Nat : i = B + 1
    <3>1. i - 1 \in Nat /\ i = (i - 1) + 1
      BY <2>1
    <3> QED BY <3>1
  <2>3. i <= R + 1 /\ R <= R
    BY <2>1
  <2>4. /\ Len(SubSeq(r, i, R)) = R - i + 1
        /\ \A k \in 1 .. R - i + 1 : SubSeq(r, i, R)[k] = r[i + k - 1]
    BY <1>1, <2>1, <2>3, SubSeqIs, SMTT(40)
  <2>5. R - i + 1 = R - B /\ B <= R /\ B + 2 <= R /\ \A k \in 1 .. R - B : i + k - 1 = k + B
    BY <2>1, <2>2
  <2>6. \A k \in 1 .. R - B : SubSeq(r, i, R)[k] = r[k + B]
    BY <2>4, <2>5
  <2> QED BY <1>1, <1>3, <2>1, <2>2, <2>4, <2>5, <2>6
<1> QED BY <1>2, <1>3

\* x is r and more; d is x without the first B tokens, which end before the last
\* synchronisation point of r.
Overlap(r, x, d, off, B) ==
  /\ r \in Seq(Token) /\ x \in Seq(Token) /\ d \in Seq(Token)
  /\ Lists(off, Marks(r))
  /\ B <= Len(r) /\ Len(r) <= Len(x) /\ Len(x) = Len(d) + B
  /\ \A k \in 1 .. Len(d) : d[k] = x[k + B]
  /\ \A k \in 1 .. Len(r) : x[k] = r[k]
  /\ Len(off) = 0 => B = 0
  /\ Len(off) # 0 => off[Len(off)] = B + 1 /\ B + 2 <= Len(r)

LEMMA OverlapOf ==
  ASSUME NEW r \in Seq(Token), NEW h \in Seq(Token), NEW off, Lists(off, Marks(r))
  PROVE  \E B \in Nat : Overlap(r, r \o h, Kept(r, off) \o h, off, B)
<1>1. PICK R \in Nat, H \in Nat : R = Len(r) /\ H = Len(h)
  OBVIOUS
<1>2. PICK kept \in Seq(Token) : kept = Kept(r, off)
  BY KeptIs
<1>3. PICK B \in Nat :
        /\ B <= R /\ Len(kept) = R - B
        /\ \A k \in 1 .. R - B : kept[k] = r[k + B]
        /\ Len(off) = 0 => B = 0
        /\ Len(off) # 0 => off[Len(off)] = B + 1 /\ B + 2 <= R
  BY <1>1, <1>2, KeptShape
<1>4. PICK K \in Nat : K = R - B
  BY <1>3
<1>5. PICK x : x = r \o h
  OBVIOUS
<1>6. PICK d : d = kept \o h
  OBVIOUS
<1>7. /\ x \in Seq(Token) /\ Len(x) = R + H
      /\ \A k \in 1 .. R : x[k] = r[k]
      /\ \A k \in 1 .. H : x[R + k] = h[k]
  BY <1>1, <1>5, ConcatIs
<1>8. /\ d \in Seq(Token) /\ Len(d) = K + H
      /\ \A k \in 1 .. K : d[k] = kept[k]
      /\ \A k \in 1 .. H : d[K + k] = h[k]
  <2>1. Len(kept) = K
    BY <1>3, <1>4
  <2>2. /\ d \in Seq(Token) /\ Len(d) = Len(kept) + Len(h)
        /\ \A k \in 1 .. Len(kept) : d[k] = kept[k]
        /\ \A k \in 1 .. Len(h) : d[Len(kept) + k] = h[k]
    BY <1>6, ConcatIs
  <2> QED BY <1>1, <2>1, <2>2
<1>9. ASSUME NEW k \in 1 .. K + H  PROVE  d[k] = x[k + B]
  <2>1. CASE k <= K
    <3>1. k + B \in 1 .. R /\ k \in 1 .. R - B /\ k \in 1 .. K
      BY <1>4, <2>1
    <3> QED BY <1>3, <1>7, <1>8, <3>1
  <2>2. CASE k > K
    <3>1. PICK l \in 1 .. H : l = k - K
      BY <2>2
    <3>2. k + B = R + l /\ k = K + l
      BY <1>4, <3>1
    <3>3. d[K + l] = h[l]
      BY <1>8, <3>1
    <3>4. x[R + l] = h[l]
      BY <1>7, <3>1
    <3> QED BY <3>2, <3>3, <3>4
  <2> QED BY <2>1, <2>2
<1>10. R <= R + H /\ R + H = K + H + B
  BY <1>4
<1>11. Overlap(r, x, d, off, B)
  BY <1>1, <1>3, <1>7, <1>8, <1>9, <1>10 DEF Overlap
<1> QED BY <1>2, <1>5, <1>6, <1>11

\* The synchronisation points of x are those of r before the cut and those of d.
LEMMA OverlapMarks ==
  ASSUME NEW r, NEW x, NEW d, NEW off, NEW B \in Nat, Overlap(r, x, d, off, B)
  PROVE  /\ \A k \in Nat : k > B => (k \in Marks(x) <=> k - B \in Marks(d))
         /\ \A k \in Nat : k <= B => (k \in Marks(x) <=> k \in Marks(r))
         /\ Len(off) # 0 => 1 \in Marks(d)
<1>1. PICK R \in Nat, X \in Nat, D \in Nat : R = Len(r) /\ X = Len(x) /\ D = Len(d)
  BY DEF Overlap
<1>2. B <= R /\ R <= X /\ X = D + B
  BY <1>1 DEF Overlap
<1>3. /\ \A k \in 1 .. D : d[k] = x[k + B]
      /\ \A k \in 1 .. R : x[k] = r[k]
  BY <1>1 DEF Overlap
<1>4. ASSUME NEW k \in Nat, k > B  PROVE  k \in Marks(x) <=> k - B \in Marks(d)
  <2>1. PICK l \in Nat : l = k - B /\ l >= 1
    BY <1>2, <1>4
  <2>2. k \in 1 .. X - 1 <=> l \in 1 .. D - 1
    BY <1>2, <1>4, <2>1
  <2>3. l \in 1 .. D - 1 => x[k] = d[l] /\ x[k + 1] = d[l + 1]
    <3> SUFFICES ASSUME l \in 1 .. D - 1  PROVE  x[k] = d[l] /\ x[k + 1] = d[l + 1]
      OBVIOUS
    <3>1. l \in 1 .. D /\ l + 1 \in 1 .. D
      OBVIOUS
    <3>2. l + B = k /\ l + 1 + B = k + 1
      BY <1>2, <2>1
    <3> QED BY <1>3, <3>1, <3>2
  <2> QED BY <1>1, <2>1, <2>2, <2>3 DEF Marks
<1>5. ASSUME NEW k \in Nat, k <= B  PROVE  k \in Marks(x) <=> k \in Marks(r)
  <2>1. CASE Len(off) = 0
    <3>1. k = 0
      BY <1>5, <2>1 DEF Overlap
    <3> QED BY <1>1, <3>1 DEF Marks
  <2>2. CASE Len(off) # 0
    <3>1. k + 1 <= R - 1
      BY <1>1, <1>2, <1>5, <2>2 DEF Overlap
    <3>2. k \in 1 .. X - 1 <=> k \in 1 .. R - 1
      BY <1>2, <3>1
    <3>3. k >= 1 => x[k] = r[k] /\ x[k + 1] = r[k + 1]
      BY <1>3, <3>1
    <3> QED BY <1>1, <3>2, <3>3 DEF Marks
  <2> QED BY <2>1, <2>2
<1>6. ASSUME Len(off) # 0  PROVE  1 \in Marks(d)
  <2>1. Len(off) \in 1 .. Len(off)
    BY <1>6, ListLength DEF Overlap
  <2>2. B + 1 \in Marks(r) /\ B + 2 <= R
    BY <1>1, <1>6, <2>1 DEF Overlap, Lists
  <2>3. B + 1 + 1 = B + 2 /\ B + 1 \in Nat /\ B + 1 > B /\ B + 1 - B = 1
    BY <1>2
  <2>4. r[B + 1] = "psb" /\ r[B + 2] = "end"
    BY <2>2, <2>3 DEF Marks
  <2>5. x[B + 1] = "psb" /\ x[B + 2] = "end" /\ B + 1 \in 1 .. X - 1
    BY <1>2, <1>3, <2>2, <2>4
  <2>6. B + 1 \in Marks(x)
    BY <1>1, <2>3, <2>5 DEF Marks
  <2>7. PICK k \in Nat : k = B + 1 /\ k > B /\ k - B = 1
    BY <2>3
  <2> QED BY <1>4, <2>6, <2>7
<1> QED BY <1>4, <1>5, <1>6

\* The offsets off without the last one, then the offsets o2, moved by B.
Joined(off, o2, B, off2) ==
  LET m0 == IF Len(off) = 0 THEN 0 ELSE Len(off) - 1 IN
  /\ Len(off2) = m0 + Len(o2)
  /\ \A n \in 1 .. m0 : off2[n] = off[n]
  /\ \A n \in 1 .. Len(o2) : off2[m0 + n] = B + o2[n]
  /\ Len(off) # 0 => Len(o2) >= 1 /\ o2[1] = 1

\* The offsets of x: those of r except the last one, then those of d.
LEMMA OverlapLists ==
  ASSUME NEW r, NEW x, NEW d, NEW off, NEW B \in Nat, Overlap(r, x, d, off, B),
         NEW o2, Lists(o2, Marks(d))
  PROVE  \E off2 \in Seq(Nat) : Lists(off2, Marks(x)) /\ Joined(off, o2, B, off2)
<1>0. PICK m \in Nat, m2 \in Nat : m = Len(off) /\ m2 = Len(o2)
  BY ListLength DEF Overlap
<1>5. PICK m0 \in Nat : m0 = IF m = 0 THEN 0 ELSE m - 1
  OBVIOUS
<1>1. (m = 0 => B = 0) /\ (m # 0 => B + 1 = off[m])
  BY <1>0 DEF Overlap
<1>6. m = 0 => m0 = 0 /\ B = 0
  BY <1>1, <1>5
<1>7. m # 0 => m0 = m - 1
  BY <1>5
<1>10. Lists(off, Marks(r)) /\ r \in Seq(Token) /\ d \in Seq(Token) /\ x \in Seq(Token)
  BY DEF Overlap
<1>11. ASSUME NEW k \in Nat, k > B  PROVE  k \in Marks(x) <=> k - B \in Marks(d)
  BY <1>11, OverlapMarks
<1>12. ASSUME NEW k \in Nat, k <= B  PROVE  k \in Marks(x) <=> k \in Marks(r)
  BY <1>12, OverlapMarks
<1>13. /\ \A n \in 1 .. m : off[n] \in Nat /\ off[n] \in Marks(r)
       /\ \A n \in 1 .. m2 : o2[n] \in Nat /\ o2[n] >= 1 /\ o2[n] \in Marks(d)
  <2>1. \A n \in 1 .. m : off[n] \in Marks(r)
    BY <1>0, <1>10 DEF Lists
  <2>2. \A n \in 1 .. m2 : o2[n] \in Marks(d)
    BY <1>0, <1>10 DEF Lists
  <2> QED BY <1>10, <2>1, <2>2, TokenMarks
<1>14. /\ \A i, j \in 1 .. m : i < j => off[i] < off[j]
       /\ \A i, j \in 1 .. m2 : i < j => o2[i] < o2[j]
  BY <1>0, <1>10 DEF Lists
<1>15. /\ \A n \in 1 .. m0 : n \in 1 .. m /\ off[n] <= B
       /\ m # 0 => m2 >= 1 /\ o2[1] = 1
  <2>1. CASE m = 0
    BY <1>6, <2>1
  <2>2. CASE m # 0
    <3>1. ASSUME NEW n \in 1 .. m0  PROVE  n \in 1 .. m /\ off[n] <= B
      <4>1. n \in 1 .. m /\ m \in 1 .. m /\ n < m
        BY <1>7, <2>2
      <4>2. off[n] < off[m] /\ off[n] \in Nat /\ off[m] \in Nat
        BY <1>13, <1>14, <4>1
      <4> QED BY <1>1, <2>2, <4>1, <4>2
    <3>6. 1 \in Marks(d)
      BY <1>0, <2>2, OverlapMarks
    <3>7. PICK i \in 1 .. m2 : o2[i] = 1
      BY <1>0, <1>10, <3>6 DEF Lists
    <3>8. 1 \in 1 .. m2 /\ i >= 1
      BY <3>7
    <3>9. i = 1
      <4>1. 1 < i => o2[1] < o2[i]
        BY <1>14, <3>7, <3>8
      <4>2. o2[1] \in Nat /\ o2[1] >= 1
        BY <1>13, <3>8
      <4> QED BY <3>7, <3>8, <4>1, <4>2
    <3> QED BY <3>1, <3>7, <3>8, <3>9
  <2> QED BY <2>1, <2>2
<1>16. PICK off2 : off2 = [n \in 1 .. m0 + m2 |-> IF n <= m0 THEN off[n] ELSE B + o2[n - m0]]
  OBVIOUS
<1>17. /\ \A n \in 1 .. m0 : off2[n] = off[n]
       /\ \A n \in 1 .. m2 : off2[m0 + n] = B + o2[n]
  <2>1. \A n \in 1 .. m0 : n \in 1 .. m0 + m2 /\ n <= m0
    OBVIOUS
  <2>2. \A n \in 1 .. m2 : m0 + n \in 1 .. m0 + m2 /\ ~(m0 + n <= m0) /\ (m0 + n) - m0 = n
    OBVIOUS
  <2> QED BY <1>16, <2>1, <2>2
<1>18. ASSUME NEW n \in 1 .. m0 + m2
       PROVE  n \in 1 .. m0 \/ \E k \in 1 .. m2 : n = m0 + k
  <2>1. CASE n <= m0
    BY <2>1
  <2>2. CASE n > m0
    <3>1. n - m0 \in 1 .. m2 /\ n = m0 + (n - m0)
      BY <2>2
    <3> QED BY <3>1
  <2> QED BY <2>1, <2>2
<1>19. \A n \in 1 .. m0 + m2 : off2[n] \in Nat /\ off2[n] \in Marks(x)
  <2> SUFFICES ASSUME NEW n \in 1 .. m0 + m2  PROVE  off2[n] \in Nat /\ off2[n] \in Marks(x)
    OBVIOUS
  <2>1. CASE n \in 1 .. m0
    BY <1>12, <1>13, <1>15, <1>17, <2>1
  <2>2. ASSUME NEW k \in 1 .. m2, n = m0 + k  PROVE  off2[n] \in Nat /\ off2[n] \in Marks(x)
    <3>0. PICK o \in Nat : o = o2[k] /\ o >= 1
      BY <1>13
    <3>1. PICK v \in Nat : v = B + o /\ v > B /\ v - B = o
      <4>1. B + o \in Nat /\ B + o > B /\ (B + o) - B = o
        BY <3>0
      <4> QED BY <4>1
    <3> QED BY <1>11, <1>13, <1>17, <2>2, <3>0, <3>1
  <2> QED BY <1>18, <2>1, <2>2
<1>20. off2 \in Seq(Nat) /\ Len(off2) = m0 + m2
  <2>1. m0 + m2 \in Nat /\ DOMAIN off2 = 1 .. m0 + m2 /\ off2 = [n \in 1 .. m0 + m2 |-> off2[n]]
    BY <1>16
  <2>2. \A n \in 1 .. m0 + m2 : off2[n] \in Nat
    BY <1>19
  <2> QED BY <2>1, <2>2, SeqMake
<1>21. \A i, j \in 1 .. m0 + m2 : i < j => off2[i] < off2[j]
  <2> SUFFICES ASSUME NEW i \in 1 .. m0 + m2, NEW j \in 1 .. m0 + m2, i < j
               PROVE  off2[i] < off2[j]
    OBVIOUS
  <2>1. CASE i \in 1 .. m0 /\ j \in 1 .. m0
    BY <1>14, <1>15, <1>17, <2>1
  <2>2. ASSUME i \in 1 .. m0, NEW k \in 1 .. m2, j = m0 + k  PROVE  off2[i] < off2[j]
    <3>1. off2[i] = off[i] /\ off[i] <= B /\ off[i] \in Nat
      BY <1>13, <1>15, <1>17, <2>2
    <3>2. off2[j] = B + o2[k] /\ o2[k] \in Nat /\ o2[k] >= 1
      BY <1>13, <1>17, <2>2
    <3>3. PICK a \in Nat, b \in Nat : a = off[i] /\ b = o2[k]
      BY <3>1, <3>2
    <3> QED BY <3>1, <3>2, <3>3
  <2>3. ASSUME NEW l \in 1 .. m2, i = m0 + l, NEW k \in 1 .. m2, j = m0 + k  PROVE  off2[i] < off2[j]
    <3>1. l < k
      BY <2>3
    <3>2. o2[l] < o2[k] /\ o2[l] \in Nat /\ o2[k] \in Nat
      BY <1>13, <1>14, <3>1
    <3>3. off2[i] = B + o2[l] /\ off2[j] = B + o2[k]
      BY <1>17, <2>3
    <3>4. PICK a \in Nat, b \in Nat : a = o2[l] /\ b = o2[k]
      BY <3>2
    <3> QED BY <3>2, <3>3, <3>4
  <2>4. ASSUME NEW l \in 1 .. m2, i = m0 + l, j \in 1 .. m0  PROVE  FALSE
    BY <2>4
  <2> QED BY <1>18, <2>1, <2>2, <2>3, <2>4
<1>22. \A k \in Marks(x) : \E i \in 1 .. m0 + m2 : off2[i] = k
  <2> SUFFICES ASSUME NEW k \in Marks(x)  PROVE  \E i \in 1 .. m0 + m2 : off2[i] = k
    OBVIOUS
  <2>0. k \in Nat
    BY <1>10, TokenMarks
  <2>1. CASE k <= B
    <3>1. k \in Marks(r)
      BY <1>12, <2>0, <2>1
    <3>2. PICK i \in 1 .. m : off[i] = k
      BY <1>0, <1>10, <3>1 DEF Lists
    <3>3. m # 0 /\ i # m
      BY <1>1, <2>0, <2>1, <3>2
    <3>4. i \in 1 .. m0 /\ i \in 1 .. m0 + m2
      BY <1>7, <3>3
    <3> QED BY <1>17, <3>2, <3>4
  <2>2. CASE k > B
    <3>1. k - B \in Marks(d)
      BY <1>11, <2>0, <2>2
    <3>2. PICK i \in 1 .. m2 : o2[i] = k - B
      BY <1>0, <1>10, <3>1 DEF Lists
    <3>4. off2[m0 + i] = B + (k - B)
      BY <1>17, <3>2
    <3>3. off2[m0 + i] = k /\ m0 + i \in 1 .. m0 + m2
      BY <2>0, <3>4
    <3> QED BY <3>3
  <2> QED BY <2>0, <2>1, <2>2
<1>23. Lists(off2, Marks(x))
  BY <1>19, <1>20, <1>21, <1>22 DEF Lists
<1>24. Joined(off, o2, B, off2)
  BY <1>0, <1>5, <1>15, <1>17, <1>20 DEF Joined
<1> QED BY <1>20, <1>23, <1>24

LEMMA OverlapPieces ==
  ASSUME NEW r, NEW x, NEW d, NEW off, NEW B \in Nat, Overlap(r, x, d, off, B),
         NEW o2, Lists(o2, Marks(d)), NEW off2, Lists(off2, Marks(x)), Joined(off, o2, B, off2)
  PROVE  Pieces(x, off2) = Pieces(r, off) \o Pieces(d, o2)
<1>1. /\ r \in Seq(Token) /\ x \in Seq(Token) /\ d \in Seq(Token)
      /\ Lists(off, Marks(r))
  BY DEF Overlap
<1>2. PICK R \in Nat, X \in Nat, D \in Nat : R = Len(r) /\ X = Len(x) /\ D = Len(d)
  BY <1>1
<1>3. PICK m \in Nat, m2 \in Nat : m = Len(off) /\ m2 = Len(o2)
  BY <1>1, ListLength
<1>4. PICK m0 \in Nat, l2 \in Nat : /\ m0 = IF m = 0 THEN 0 ELSE m - 1
                                    /\ l2 = IF m2 = 0 THEN 0 ELSE m2 - 1
  <2>1. (IF m = 0 THEN 0 ELSE m - 1) \in Nat /\ (IF m2 = 0 THEN 0 ELSE m2 - 1) \in Nat
    OBVIOUS
  <2> QED BY <2>1
<1>5. /\ B <= R /\ R <= X /\ X = D + B
      /\ \A k \in 1 .. D : d[k] = x[k + B]
      /\ \A k \in 1 .. R : x[k] = r[k]
      /\ m # 0 => off[m] = B + 1
  BY <1>2, <1>3 DEF Overlap
<1>6. /\ Len(off2) = m0 + m2
      /\ \A n \in 1 .. m0 : off2[n] = off[n]
      /\ \A n \in 1 .. m2 : off2[m0 + n] = B + o2[n]
      /\ m # 0 => m2 >= 1 /\ o2[1] = 1
  BY <1>3, <1>4 DEF Joined
<1>7. Pieces(r, off) \in Seq(Seq(Token)) /\ Len(Pieces(r, off)) = m0
  BY <1>1, <1>3, <1>4, PiecesIs
<1>8. Pieces(d, o2) \in Seq(Seq(Token)) /\ Len(Pieces(d, o2)) = l2
  BY <1>1, <1>3, <1>4, PiecesIs
<1>9. Pieces(x, off2) \in Seq(Seq(Token)) /\ Len(Pieces(x, off2)) = m0 + l2
  <2>1. /\ Pieces(x, off2) \in Seq(Seq(Token))
        /\ Len(Pieces(x, off2)) = IF m0 + m2 = 0 THEN 0 ELSE m0 + m2 - 1
    BY <1>1, <1>6, PiecesIs
  <2>2. m2 = 0 => m0 = 0
    BY <1>4, <1>6
  <2>3. (IF m0 + m2 = 0 THEN 0 ELSE m0 + m2 - 1) = m0 + l2
    BY <1>4, <2>2
  <2> QED BY <2>1, <2>3
<1>10. ASSUME NEW n \in 1 .. m0  PROVE  Pieces(x, off2)[n] = Pieces(r, off)[n]
  <2>1. m = m0 + 1 /\ m2 >= 1
    BY <1>4, <1>6
  <2>2. n \in 1 .. m - 1 /\ n \in 1 .. (m0 + m2) - 1 /\ 1 \in 1 .. m2
    BY <2>1
  <2>3. n \in 1 .. Len(off) - 1 /\ n \in 1 .. Len(off2) - 1
    BY <1>3, <1>6, <2>2
  <2>4. PICK i \in Nat, j \in Nat : PieceBounds(r, off, n, i, j)
    BY <1>1, <2>3, PieceAt
  <2>5. PICK u \in Nat, v \in Nat : PieceBounds(x, off2, n, u, v)
    BY <1>1, <2>3, PieceAt
  <2>6. i = off[n] /\ off[n + 1] = j + 1 /\ 1 <= i /\ i <= j /\ j + 1 <= R
    BY <1>2, <2>4 DEF PieceBounds
  <2>7. u = off2[n] /\ off2[n + 1] = v + 1
    BY <2>5 DEF PieceBounds
  <2>8. off2[n + 1] = off[n + 1]
    <3>1. CASE n + 1 <= m0
      <4>1. n + 1 \in 1 .. m0
        BY <3>1
      <4> QED BY <1>6, <4>1
    <3>2. CASE n = m0
      <4>1. off2[m0 + 1] = B + 1
        BY <1>6, <2>1, <2>2
      <4>2. off[m] = B + 1
        BY <1>5, <2>1
      <4> QED BY <2>1, <3>2, <4>1, <4>2
    <3>3. n + 1 <= m0 \/ n = m0
      OBVIOUS
    <3> QED BY <3>1, <3>2, <3>3
  <2>9. u = i /\ v = j
    BY <1>6, <2>6, <2>7, <2>8
  <2>10. 1 <= i /\ i <= j + 1 /\ j - i = j - i /\ j <= R /\ j <= X
    BY <1>5, <2>6
  <2>11. \A k \in 0 .. j - i : i + k \in 1 .. R
    BY <2>10
  <2>12. \A k \in 0 .. j - i : r[i + k] = x[i + k]
    BY <1>5, <2>11
  <2>13. SameParts(r, i, j, x, i, j)
    BY <1>1, <1>2, <2>10, <2>12 DEF SameParts
  <2>14. Part(x, i, j) = Part(r, i, j)
    BY <2>13, SubSeqSame
  <2>15. Pieces(r, off)[n] = SubSeq(r, i, j) /\ Pieces(x, off2)[n] = SubSeq(x, u, v)
    BY <2>4, <2>5 DEF PieceBounds
  <2> QED BY <2>9, <2>14, <2>15, Zenon DEF Part
<1>11. ASSUME NEW n \in 1 .. l2  PROVE  Pieces(x, off2)[m0 + n] = Pieces(d, o2)[n]
  <2>1. l2 = m2 - 1
    BY <1>4
  <2>2. /\ n \in 1 .. m2 - 1 /\ n \in 1 .. m2 /\ n + 1 \in 1 .. m2
        /\ m0 + n \in 1 .. (m0 + m2) - 1 /\ m0 + (n + 1) = m0 + n + 1
    BY <2>1
  <2>3. n \in 1 .. Len(o2) - 1 /\ m0 + n \in 1 .. Len(off2) - 1
    BY <1>3, <1>6, <2>2
  <2>4. PICK i \in Nat, j \in Nat : PieceBounds(d, o2, n, i, j)
    BY <1>1, <2>3, PieceAt
  <2>5. PICK u \in Nat, v \in Nat : PieceBounds(x, off2, m0 + n, u, v)
    BY <1>1, <2>3, PieceAt
  <2>6. i = o2[n] /\ o2[n + 1] = j + 1 /\ 1 <= i /\ i <= j /\ j + 1 <= D
    BY <1>2, <2>4 DEF PieceBounds
  <2>7. u = off2[m0 + n] /\ off2[m0 + n + 1] = v + 1
    BY <2>5 DEF PieceBounds
  <2>8. off2[m0 + n] = B + o2[n] /\ off2[m0 + n + 1] = B + o2[n + 1]
    BY <1>6, <2>2
  <2>9. u = i + B /\ v = j + B
    BY <2>6, <2>7, <2>8
  <2>10. 1 <= i /\ 1 <= u /\ i <= j + 1 /\ v - u = j - i /\ j <= D /\ v <= X
    BY <1>5, <2>6, <2>9
  <2>11. \A k \in 0 .. j - i : i + k \in 1 .. D /\ (i + k) + B = u + k
    BY <2>6, <2>9
  <2>12. \A k \in 0 .. j - i : d[i + k] = x[u + k]
    BY <1>5, <2>11
  <2>13. SameParts(d, i, j, x, u, v)
    BY <1>1, <1>2, <2>10, <2>12 DEF SameParts
  <2>14. Part(x, u, v) = Part(d, i, j)
    BY <2>13, SubSeqSame
  <2>15. Pieces(d, o2)[n] = SubSeq(d, i, j) /\ Pieces(x, off2)[m0 + n] = SubSeq(x, u, v)
    BY <2>4, <2>5 DEF PieceBounds
  <2> QED BY <2>14, <2>15, Zenon DEF Part
<1>12. JoinOf(Pieces(x, off2), Pieces(r, off), Pieces(d, o2))
  BY <1>7, <1>8, <1>9, <1>10, <1>11 DEF JoinOf
<1> QED BY <1>7, <1>8, <1>9, <1>12, SeqJoin

LEMMA OverlapKept ==
  ASSUME NEW r, NEW x, NEW d, NEW off, NEW B \in Nat, Overlap(r, x, d, off, B),
         NEW o2, Lists(o2, Marks(d)), NEW off2, Lists(off2, Marks(x)), Joined(off, o2, B, off2)
  PROVE  Kept(x, off2) = Kept(d, o2)
<1>1. x \in Seq(Token) /\ d \in Seq(Token) /\ Lists(off, Marks(r))
  BY DEF Overlap
<1>2. PICK X \in Nat, D \in Nat : X = Len(x) /\ D = Len(d)
  BY <1>1
<1>3. PICK m \in Nat, m2 \in Nat : m = Len(off) /\ m2 = Len(o2)
  BY <1>1, ListLength
<1>4. PICK m0 \in Nat : m0 = IF m = 0 THEN 0 ELSE m - 1
  OBVIOUS
<1>5. X = D + B /\ (\A k \in 1 .. D : d[k] = x[k + B]) /\ (m = 0 => B = 0)
  BY <1>2, <1>3 DEF Overlap
<1>6. /\ Len(off2) = m0 + m2
      /\ \A n \in 1 .. m2 : off2[m0 + n] = B + o2[n]
      /\ m # 0 => m2 >= 1
  BY <1>3, <1>4 DEF Joined
<1>7. CASE m2 = 0
  <2>1. m = 0 /\ B = 0 /\ m0 + m2 = 0
    BY <1>4, <1>5, <1>6, <1>7
  <2>2. X = D /\ \A k \in 1 .. D : k + B = k
    BY <1>5, <2>1
  <2>3. d = x
    BY <1>1, <1>2, <1>5, <2>2, SeqEqual
  <2>4. Kept(x, off2) = x
    BY <1>1, <1>6, <2>1, KeptIs
  <2>5. Kept(d, o2) = d
    BY <1>1, <1>3, <1>7, KeptIs
  <2> QED BY <2>3, <2>4, <2>5
<1>8. CASE m2 # 0
  <2>1. m2 \in 1 .. m2 /\ m0 + m2 # 0
    BY <1>8
  <2>2. PICK u \in Nat : u = off2[m0 + m2] /\ Kept(x, off2) = SubSeq(x, u, X)
    BY <1>1, <1>2, <1>6, <2>1, KeptAt
  <2>3. PICK i \in Nat : /\ i = o2[m2] /\ i >= 1 /\ i + 1 <= D
                         /\ Kept(d, o2) = SubSeq(d, i, D)
    BY <1>1, <1>2, <1>3, <1>8, KeptAt
  <2>4. u = i + B
    BY <1>6, <2>1, <2>2, <2>3
  <2>5. 1 <= i /\ i + 1 <= D
    BY <2>3
  <2>6. 1 <= u /\ i <= D + 1 /\ X - u = D - i /\ D <= D /\ X <= X
    BY <1>5, <2>4, <2>5
  <2>7. \A k \in 0 .. D - i : i + k \in 1 .. D /\ (i + k) + B = u + k
    BY <2>4, <2>5
  <2>8. \A k \in 0 .. D - i : d[i + k] = x[u + k]
    BY <1>5, <2>7
  <2>9. SameParts(d, i, D, x, u, X)
    BY <1>1, <1>2, <2>5, <2>6, <2>8 DEF SameParts
  <2>10. Part(x, u, X) = Part(d, i, D)
    BY <2>9, SubSeqSame
  <2> QED BY <2>2, <2>3, <2>10, Zenon DEF Part
<1> QED BY <1>7, <1>8

\* Cutting what is left of r, with h appended, goes on where cutting r stopped: the
\* pieces of both are the pieces of r and h together, and so is the rest.
LEMMA CutMore ==
  ASSUME NEW r \in Seq(Token), NEW h \in Seq(Token), NEW off, Lists(off, Marks(r)),
         NEW x, IsJoin(x, r, h), NEW d, IsJoin(d, Kept(r, off), h), NEW o2, Lists(o2, Marks(d))
  PROVE  \E off2 \in Seq(Nat) :
           /\ Lists(off2, Marks(x))
           /\ IsJoin(Pieces(x, off2), Pieces(r, off), Pieces(d, o2))
           /\ Kept(x, off2) = Kept(d, o2)
           /\ Len(o2) <= Len(off2)
<1>1. x = r \o h /\ d = Kept(r, off) \o h
  BY DEF IsJoin
<1>2. PICK B \in Nat : Overlap(r, x, d, off, B)
  BY <1>1, OverlapOf
<1>3. Lists(o2, Marks(d))
  OBVIOUS
<1>4. PICK off2 \in Seq(Nat) : Lists(off2, Marks(x)) /\ Joined(off, o2, B, off2)
  BY <1>2, <1>3, OverlapLists
<1>5. Pieces(x, off2) = Pieces(r, off) \o Pieces(d, o2)
  BY <1>2, <1>3, <1>4, OverlapPieces
<1>6. Kept(x, off2) = Kept(d, o2)
  BY <1>2, <1>3, <1>4, OverlapKept
<1>7. Len(o2) <= Len(off2)
  <2>1. PICK m \in Nat, m2 \in Nat : m = Len(off) /\ m2 = Len(o2)
    BY ListLength
  <2>2. Len(off2) = (IF m = 0 THEN 0 ELSE m - 1) + m2
    BY <1>4, <2>1 DEF Joined
  <2> QED BY <2>1, <2>2
<1> QED BY <1>4, <1>5, <1>6, <1>7 DEF IsJoin

-----------------------------------------------------------------------------
(* Counting executions.                                                    *)

\* The executions of a between the positions i and j of d.
Hits(d, a, i, j) == {k \in i .. j : d[k] = a}

\* The executions of a in the pieces of s.
Occ(s, a) == SumFunction([n \in 1 .. Len(s) |-> Count(s[n])[a]])

LEMMA HitsFinite ==
  ASSUME NEW d, NEW a, NEW i \in Int, NEW j \in Int
  PROVE  IsFiniteSet(Hits(d, a, i, j)) /\ Cardinality(Hits(d, a, i, j)) \in Nat
<1>1. IsFiniteSet(i .. j)
  BY FS_Interval
<1>2. Hits(d, a, i, j) \in SUBSET (i .. j)
  BY DEF Hits
<1>3. IsFiniteSet(Hits(d, a, i, j))
  BY <1>1, <1>2, FS_Subset
<1> QED BY <1>3, FS_CardinalityType

LEMMA CountIs ==
  ASSUME NEW d \in Seq(Token), NEW a \in Addr
  PROVE  Count(d)[a] = Cardinality(Hits(d, a, 1, Len(d))) /\ Count(d)[a] \in Nat
<1>1. Count(d)[a] = Cardinality(Hits(d, a, 1, Len(d)))
  BY DEF Count, Hits
<1>2. Len(d) \in Int
  OBVIOUS
<1> QED BY <1>1, <1>2, HitsFinite

LEMMA CountType ==
  ASSUME NEW d \in Seq(Token)
  PROVE  Count(d) \in [Addr -> Nat]
<1>1. \A a \in Addr : Count(d)[a] \in Nat
  BY CountIs
<1> QED BY <1>1 DEF Count

LEMMA HitsSplit ==
  ASSUME NEW d, NEW a, NEW i \in Int, NEW m \in Int, NEW j \in Int, i <= m + 1, m <= j
  PROVE  Cardinality(Hits(d, a, i, j)) = Cardinality(Hits(d, a, i, m)) + Cardinality(Hits(d, a, m + 1, j))
<1>1. Hits(d, a, i, j) = Hits(d, a, i, m) \cup Hits(d, a, m + 1, j)
  BY DEF Hits
<1>2. Hits(d, a, i, m) \cap Hits(d, a, m + 1, j) = {}
  BY DEF Hits
<1>3. IsFiniteSet(Hits(d, a, i, m))
  BY HitsFinite
<1>4. m + 1 \in Int
  OBVIOUS
<1>5. IsFiniteSet(Hits(d, a, m + 1, j))
  BY <1>4, HitsFinite
<1>6. Cardinality(Hits(d, a, i, m) \cup Hits(d, a, m + 1, j)) = Cardinality(Hits(d, a, i, m)) + Cardinality(Hits(d, a, m + 1, j))
  BY <1>2, <1>3, <1>5, FinDisjoint
<1> QED BY <1>1, <1>6, Zenon

\* Counting in a part is counting between its bounds.
LEMMA CountPart ==
  ASSUME NEW d \in Seq(Token), NEW a \in Addr, NEW i \in Nat, 1 <= i, NEW j \in Nat,
         i <= j + 1, j <= Len(d)
  PROVE  Count(Part(d, i, j))[a] = Cardinality(Hits(d, a, i, j))
<1>1. PICK p : p = Part(d, i, j)
  OBVIOUS
<1>2. PICK n \in Nat : n = j - i + 1
  <2>1. j - i + 1 \in Nat
    OBVIOUS
  <2> QED BY <2>1
<1>3. p \in Seq(Token) /\ Len(p) = n /\ \A k \in 1 .. n : p[k] = d[i + k - 1]
  <2>1. /\ SubSeq(d, i, j) \in Seq(Token) /\ Len(SubSeq(d, i, j)) = j - i + 1
        /\ \A k \in 1 .. j - i + 1 : SubSeq(d, i, j)[k] = d[i + k - 1]
    BY SubSeqIs
  <2>2. p = SubSeq(d, i, j)
    BY <1>1 DEF Part
  <2> QED BY <1>2, <2>1, <2>2
<1>4. PICK f : f = [k \in Hits(p, a, 1, n) |-> i + k - 1]
  OBVIOUS
<1>5. ASSUME NEW k \in Hits(p, a, 1, n)  PROVE  f[k] = i + k - 1 /\ f[k] \in Hits(d, a, i, j)
  <2>1. k \in 1 .. n /\ p[k] = a
    BY DEF Hits
  <2>2. i + k - 1 \in i .. j
    BY <1>2, <2>1
  <2> QED BY <1>3, <1>4, <2>1, <2>2 DEF Hits
<1>6. f \in [Hits(p, a, 1, n) -> Hits(d, a, i, j)]
  BY <1>4, <1>5
<1>7. \A k, l \in Hits(p, a, 1, n) : f[k] = f[l] => k = l
  <2> SUFFICES ASSUME NEW k \in Hits(p, a, 1, n), NEW l \in Hits(p, a, 1, n), f[k] = f[l]
               PROVE  k = l
    OBVIOUS
  <2>1. k \in 1 .. n /\ l \in 1 .. n
    BY DEF Hits
  <2>2. i + k - 1 = i + l - 1
    BY <1>5
  <2> QED BY <2>1, <2>2
<1>8. \A l \in Hits(d, a, i, j) : \E k \in Hits(p, a, 1, n) : f[k] = l
  <2> SUFFICES ASSUME NEW l \in Hits(d, a, i, j)  PROVE  \E k \in Hits(p, a, 1, n) : f[k] = l
    OBVIOUS
  <2>1. l \in i .. j /\ d[l] = a
    BY DEF Hits
  <2>2. PICK k \in 1 .. n : i + k - 1 = l
    <3>1. l - i + 1 \in 1 .. n /\ i + (l - i + 1) - 1 = l
      BY <1>2, <2>1
    <3> QED BY <3>1
  <2>3. k \in Hits(p, a, 1, n)
    BY <1>3, <2>1, <2>2 DEF Hits
  <2> QED BY <1>5, <2>2, <2>3
<1>9. f \in Bijection(Hits(p, a, 1, n), Hits(d, a, i, j))
  BY <1>6, <1>7, <1>8 DEF Bijection, Injection, Surjection, IsInjective
<1>10. ExistsBijection(Hits(p, a, 1, n), Hits(d, a, i, j))
  BY <1>9 DEF ExistsBijection
<1>11. IsFiniteSet(Hits(p, a, 1, n))
  BY HitsFinite
<1>12. Cardinality(Hits(d, a, i, j)) = Cardinality(Hits(p, a, 1, n))
  BY <1>10, <1>11, FS_Bijection
<1>13. Count(p)[a] = Cardinality(Hits(p, a, 1, n))
  BY <1>3, CountIs
<1> QED BY <1>1, <1>12, <1>13

\* decode counts the first n instructions of a piece, the others are skipped.
LEMMA CountSplit ==
  ASSUME NEW d \in Seq(Token), NEW a \in Addr, NEW n \in 0 .. Len(d)
  PROVE  /\ SubSeq(d, 1, n) \in Seq(Token) /\ SubSeq(d, n + 1, Len(d)) \in Seq(Token)
         /\ Count(SubSeq(d, 1, n))[a] + Count(SubSeq(d, n + 1, Len(d)))[a] = Count(d)[a]
<1>1. PICK L \in Nat : L = Len(d)
  OBVIOUS
<1>2. /\ n \in Nat /\ n + 1 \in Nat /\ 1 <= 1 /\ 1 <= n + 1 /\ n <= L /\ L <= L /\ n + 1 <= L + 1
      /\ 1 \in Int /\ n \in Int /\ L \in Int
  BY <1>1
<1>3. SubSeq(d, 1, n) \in Seq(Token) /\ SubSeq(d, n + 1, L) \in Seq(Token)
  BY <1>1, <1>2, SubSeqIs
<1>4. Count(Part(d, 1, n))[a] = Cardinality(Hits(d, a, 1, n))
  BY <1>1, <1>2, CountPart
<1>5. Count(Part(d, n + 1, L))[a] = Cardinality(Hits(d, a, n + 1, L))
  BY <1>1, <1>2, CountPart
<1>6. Count(d)[a] = Cardinality(Hits(d, a, 1, L))
  BY <1>1, CountIs
<1>7. Cardinality(Hits(d, a, 1, L)) = Cardinality(Hits(d, a, 1, n)) + Cardinality(Hits(d, a, n + 1, L))
  BY <1>2, HitsSplit
<1>8. Count(Part(d, 1, n))[a] + Count(Part(d, n + 1, L))[a] = Count(d)[a]
  BY <1>4, <1>5, <1>6, <1>7
<1> QED BY <1>1, <1>3, <1>8 DEF Part

LEMMA OccType ==
  ASSUME NEW s \in Seq(Seq(Token)), NEW a \in Addr
  PROVE  Occ(s, a) \in Nat
<1>1. PICK f : f = [n \in 1 .. Len(s) |-> Count(s[n])[a]]
  OBVIOUS
<1>2. Len(s) \in Nat /\ IsFiniteSet(1 .. Len(s))
  <2>1. Len(s) \in Nat
    OBVIOUS
  <2> QED BY <2>1, FS_Interval
<1>3. \A n \in 1 .. Len(s) : s[n] \in Seq(Token)
  OBVIOUS
<1>4. f \in [1 .. Len(s) -> Nat]
  <2>1. \A n \in 1 .. Len(s) : Count(s[n])[a] \in Nat
    BY <1>3, CountIs
  <2> QED BY <1>1, <2>1
<1>5. SumFunction(f) \in Nat
  BY <1>2, <1>4, SumUnits
<1> QED BY <1>1, <1>5 DEF Occ

LEMMA OccEmpty ==
  ASSUME NEW a \in Addr
  PROVE  Occ(<< >>, a) = 0
<1>1. PICK f : f = [n \in 1 .. Len(<< >>) |-> Count(<< >>[n])[a]]
  OBVIOUS
<1>2. 1 .. Len(<< >>) = {}
  OBVIOUS
<1>3. f \in [{} -> Nat]
  BY <1>1, <1>2
<1>4. IsFiniteSet({})
  BY FS_EmptySet
<1>5. SumFunction(f) = 0
  BY <1>3, <1>4, SumZero
<1> QED BY <1>1, <1>5 DEF Occ

LEMMA OccAppend ==
  ASSUME NEW s \in Seq(Seq(Token)), NEW d \in Seq(Token), NEW a \in Addr
  PROVE  Occ(Append(s, d), a) = Occ(s, a) + Count(d)[a]
<1>1. PICK L \in Nat : L = Len(s)
  OBVIOUS
<1>2. PICK s2 : s2 = Append(s, d)
  OBVIOUS
<1>3. /\ s2 \in Seq(Seq(Token)) /\ Len(s2) = L + 1
      /\ \A n \in 1 .. L : s2[n] = s[n]
      /\ s2[L + 1] = d
  BY <1>1, <1>2, AppendProperties
<1>4. PICK g : g = [n \in 1 .. L |-> Count(s[n])[a]]
  OBVIOUS
<1>5. PICK f : f = [n \in 1 .. L + 1 |-> Count(s2[n])[a]]
  OBVIOUS
<1>6. g \in [1 .. L -> Nat]
  <2>1. \A n \in 1 .. L : s[n] \in Seq(Token)
    BY <1>1
  <2>2. \A n \in 1 .. L : Count(s[n])[a] \in Nat
    BY <2>1, CountIs
  <2> QED BY <1>4, <2>2
<1>7. f \in [1 .. L + 1 -> Nat]
  <2>1. \A n \in 1 .. L + 1 : s2[n] \in Seq(Token)
    BY <1>3
  <2>2. \A n \in 1 .. L + 1 : Count(s2[n])[a] \in Nat
    BY <2>1, CountIs
  <2> QED BY <1>5, <2>2
<1>8. \A n \in 1 .. L : f[n] = g[n] /\ n \in 1 .. L + 1
  BY <1>3, <1>4, <1>5
<1>9. L + 1 \in 1 .. L + 1 /\ f[L + 1] = Count(d)[a]
  BY <1>3, <1>5
<1>10. PICK S : S = 1 .. L
  OBVIOUS
<1>11. PICK x : x = L + 1
  OBVIOUS
<1>12. 1 .. L + 1 = S \cup {x} /\ x \notin S
  BY <1>10, <1>11
<1>13. IsFiniteSet(S) /\ IsFiniteSet(S \cup {x})
  <2>1. IsFiniteSet(S)
    BY <1>10, FS_Interval
  <2> QED BY <2>1, FS_AddElement
<1>14. Units(f, S) = Units(g, S)
  BY <1>8, <1>10 DEF Units
<1>15. IsFiniteSet(Units(g, S)) /\ Cardinality(Units(g, S)) \in Nat
  <2>1. S \in SUBSET S /\ g \in [S -> Nat]
    BY <1>6, <1>10
  <2>2. IsFiniteSet(Units(g, S))
    BY <1>13, <2>1, UnitsFinite
  <2> QED BY <2>2, FS_CardinalityType
<1>16. Cardinality(Units(f, S \cup {x})) = f[x] + Cardinality(Units(f, S))
  <2>1. PICK U : U = 1 .. L + 1
    OBVIOUS
  <2>2. f \in [U -> Nat] /\ S \in SUBSET U /\ x \in U \ S
    BY <1>7, <1>12, <2>1
  <2>3. IsFiniteSet(Units(f, S))
    BY <1>14, <1>15
  <2> QED BY <2>2, <2>3, UnitsMore
<1>17. SumFunction(f) = Cardinality(Units(f, S \cup {x}))
  <2>1. f \in [S \cup {x} -> Nat]
    BY <1>7, <1>12
  <2> QED BY <1>13, <2>1, SumUnits
<1>18. SumFunction(g) = Cardinality(Units(g, S))
  <2>1. g \in [S -> Nat]
    BY <1>6, <1>10
  <2> QED BY <1>13, <2>1, SumUnits
<1>19. f[x] = Count(d)[a] /\ Count(d)[a] \in Nat
  BY <1>9, <1>11, CountIs
<1>20. SumFunction(f) = SumFunction(g) + Count(d)[a]
  BY <1>14, <1>15, <1>16, <1>17, <1>18, <1>19
<1>21. Occ(s, a) = SumFunction(g)
  BY <1>1, <1>4, Zenon DEF Occ
<1>22. Occ(s2, a) = SumFunction(f)
  BY <1>3, <1>5, Zenon DEF Occ
<1> QED BY <1>2, <1>20, <1>21, <1>22

LEMMA OccConcat ==
  ASSUME NEW s \in Seq(Seq(Token)), NEW t \in Seq(Seq(Token)), NEW a \in Addr
  PROVE  Occ(s \o t, a) = Occ(s, a) + Occ(t, a)
<1> DEFINE T == {n \in Nat : \A u \in Seq(Seq(Token)) : Len(u) = n => Occ(s \o u, a) = Occ(s, a) + Occ(u, a)}
<1>1. 0 \in T
  <2> SUFFICES ASSUME NEW u \in Seq(Seq(Token)), Len(u) = 0
               PROVE  Occ(s \o u, a) = Occ(s, a) + Occ(u, a)
    OBVIOUS
  <2>1. u = << >>
    BY EmptySeq
  <2>2. s \o u = s
    BY <2>1, ConcatEmptySeq
  <2>3. Occ(u, a) = 0 /\ Occ(s, a) \in Nat
    BY <2>1, OccEmpty, OccType
  <2> QED BY <2>2, <2>3
<1>2. ASSUME NEW n \in T  PROVE  n + 1 \in T
  <2> SUFFICES ASSUME NEW u \in Seq(Seq(Token)), Len(u) = n + 1
               PROVE  Occ(s \o u, a) = Occ(s, a) + Occ(u, a)
    OBVIOUS
  <2>1. n \in Nat /\ u # << >>
    BY EmptySeq
  <2>2. PICK v \in Seq(Seq(Token)), d \in Seq(Token) : u = Append(v, d)
    BY <2>1, SequenceEmptyOrAppend
  <2>3. Len(v) = n
    <3>1. Len(Append(v, d)) = Len(v) + 1 /\ Len(v) \in Nat
      BY AppendProperties
    <3> QED BY <2>1, <2>2, <3>1
  <2>4. Occ(s \o v, a) = Occ(s, a) + Occ(v, a)
    BY <2>3
  <2>5. s \o v \in Seq(Seq(Token))
    BY ConcatIs
  <2>6. s \o u = Append(s \o v, d)
    <3>1. PICK L \in Nat, N \in Nat : L = Len(s) /\ N = Len(v)
      OBVIOUS
    <3>2. PICK w \in Seq(Seq(Token)) : w = s \o v
      BY <2>5
    <3>3. /\ Len(w) = L + N
          /\ \A k \in 1 .. L : w[k] = s[k]
          /\ \A k \in 1 .. N : w[L + k] = v[k]
      BY <3>1, <3>2, ConcatIs
    <3>4. PICK q \in Seq(Seq(Token)) : q = Append(w, d)
      BY AppendProperties
    <3>5. Len(q) = (L + N) + 1 /\ (\A k \in 1 .. L + N : q[k] = w[k]) /\ q[(L + N) + 1] = d
      <4>1. Len(q) = Len(w) + 1 /\ (\A k \in 1 .. Len(w) : q[k] = w[k]) /\ q[Len(w) + 1] = d
        BY <3>4, AppendProperties
      <4> QED BY <3>3, <4>1
    <3>6. Len(u) = N + 1 /\ (\A k \in 1 .. N : u[k] = v[k]) /\ u[N + 1] = d
      BY <2>2, <3>1, AppendProperties
    <3>7. \A k \in 1 .. L : k \in 1 .. L + N
      OBVIOUS
    <3>8. ASSUME NEW k \in 1 .. N + 1  PROVE  q[L + k] = u[k]
      <4>1. CASE k = N + 1
        <5>1. L + k = (L + N) + 1
          BY <4>1
        <5> QED BY <3>5, <3>6, <4>1, <5>1
      <4>2. CASE k # N + 1
        <5>1. k \in 1 .. N /\ L + k \in 1 .. L + N
          BY <4>2
        <5> QED BY <3>3, <3>5, <3>6, <5>1
      <4> QED BY <4>1, <4>2
    <3>9. Len(q) = L + (N + 1)
      BY <3>5
    <3>10. JoinOf(q, s, u)
      BY <3>1, <3>3, <3>5, <3>6, <3>7, <3>8, <3>9 DEF JoinOf
    <3>11. q = s \o u
      BY <3>10, SeqJoin
    <3> QED BY <3>2, <3>4, <3>11
  <2>7. Occ(s \o u, a) = Occ(s \o v, a) + Count(d)[a]
    BY <2>5, <2>6, OccAppend
  <2>8. Occ(u, a) = Occ(v, a) + Count(d)[a]
    BY <2>2, OccAppend
  <2>9. Occ(s, a) \in Nat /\ Occ(v, a) \in Nat /\ Count(d)[a] \in Nat
    BY OccType, CountIs
  <2> QED BY <2>4, <2>7, <2>8, <2>9
<1>3. T \in SUBSET Nat
  OBVIOUS
<1>4. T = Nat
  <2> HIDE DEF T
  <2> QED BY <1>1, <1>2, <1>3, AllNat
<1>5. Len(t) \in T
  BY <1>4
<1> QED BY <1>5

\* A worker takes the first piece of the queue.
LEMMA OccTail ==
  ASSUME NEW s \in Seq(Seq(Token)), s # << >>, NEW a \in Addr
  PROVE  /\ Head(s) \in Seq(Token) /\ Tail(s) \in Seq(Seq(Token))
         /\ Occ(s, a) = Count(Head(s))[a] + Occ(Tail(s), a)
<1>1. PICK d \in Seq(Token), t \in Seq(Seq(Token)) : d = Head(s) /\ t = Tail(s)
  BY HeadTailProperties
<1>2. PICK e \in Seq(Seq(Token)) : e = Append(<< >>, d)
  <2>1. << >> \in Seq(Seq(Token))
    OBVIOUS
  <2> QED BY <2>1, AppendProperties
<1>3. s = e \o t
  <2>1. Len(e) = 1 /\ e[1] = d
    BY <1>2
  <2>2. PICK L \in Nat : L = Len(t) /\ Len(s) = 1 + L /\ \A k \in 1 .. L : s[1 + k] = t[k]
    <3>1. Len(t) \in Nat /\ Len(s) \in Nat /\ Len(t) = Len(s) - 1 /\ \A k \in 1 .. Len(t) : t[k] = s[k + 1]
      BY <1>1, HeadTailProperties
    <3>2. PICK L \in Nat : L = Len(t)
      BY <3>1
    <3>3. \A k \in 1 .. L : k + 1 = 1 + k
      OBVIOUS
    <3> QED BY <3>1, <3>2, <3>3
  <2>3. s[1] = d
    BY <1>1
  <2>4. JoinOf(s, e, t)
    BY <2>1, <2>2, <2>3 DEF JoinOf
  <2> QED BY <2>4, SeqJoin
<1>4. Occ(e, a) = Count(d)[a]
  <2>1. << >> \in Seq(Seq(Token))
    OBVIOUS
  <2>2. Occ(e, a) = Occ(<< >>, a) + Count(d)[a]
    BY <1>2, <2>1, OccAppend
  <2> QED BY <2>2, OccEmpty, CountIs
<1>5. Occ(s, a) = Occ(e, a) + Occ(t, a)
  BY <1>3, OccConcat
<1> QED BY <1>1, <1>4, <1>5

\* The executions in the pieces are those between two synchronisation points.
LEMMA EnclosedOcc ==
  ASSUME NEW r \in Seq(Token), NEW off, Lists(off, Marks(r)), NEW a \in Addr
  PROVE  Cardinality(Enclosed(r, a)) = Occ(Pieces(r, off), a)
<1>1. PICK m \in Nat : m = Len(off)
  BY ListLength
<1>2. PICK P : P = Pieces(r, off)
  OBVIOUS
<1>3. P \in Seq(Seq(Token)) /\ Len(P) = IF m = 0 THEN 0 ELSE m - 1
  BY <1>1, <1>2, PiecesIs
<1>4. \A n \in 1 .. m : off[n] \in Nat /\ 1 <= off[n] /\ off[n] + 1 <= Len(r) /\ r[off[n]] = "psb"
  <2>1. \A n \in 1 .. m : off[n] \in Marks(r)
    BY <1>1 DEF Lists
  <2> QED BY <2>1, TokenMarks
<1>5. \A i, j \in 1 .. m : i < j => off[i] < off[j]
  BY <1>1 DEF Lists
<1>6. \A k \in Marks(r) : \E i \in 1 .. m : off[i] = k
  BY <1>1 DEF Lists
<1>7. a # "psb"
  BY OnlineAssumption
<1>8. CASE m <= 1
  <2>1. P = << >>
    BY <1>3, <1>8, EmptySeq
  <2>2. Enclosed(r, a) = {}
    <3> SUFFICES ASSUME NEW k \in Enclosed(r, a)  PROVE  FALSE
      OBVIOUS
    <3>1. PICK p \in Marks(r), q \in Marks(r) : p < k /\ k < q /\ k \in Nat
      BY DEF Enclosed
    <3>2. PICK i \in 1 .. m, j \in 1 .. m : off[i] = p /\ off[j] = q
      BY <1>6, <3>1
    <3>3. i = j
      BY <1>8, <3>2
    <3>4. p \in Nat /\ q \in Nat
      BY <1>4, <3>2
    <3> QED BY <3>1, <3>2, <3>3, <3>4
  <2> QED BY <1>2, <2>1, <2>2, FS_EmptySet, OccEmpty
<1>9. CASE m > 1
  <2> DEFINE T == {l \in Nat : l + 1 <= m =>
                     Occ(Part(P, 1, l), a) = Cardinality(Hits(r, a, off[1], off[l + 1] - 1))}
  <2>1. PICK l1 \in Nat : l1 = m - 1 /\ Len(P) = l1 /\ 1 \in 1 .. m /\ l1 + 1 = m
    BY <1>3, <1>9
  <2>2. ASSUME NEW l \in Nat, l <= l1
        PROVE  /\ Part(P, 1, l) \in Seq(Seq(Token)) /\ Len(Part(P, 1, l)) = l
               /\ \A k \in 1 .. l : Part(P, 1, l)[k] = P[k]
    <3>1. 1 <= l + 1 /\ l <= Len(P) /\ l - 1 + 1 = l /\ \A k \in 1 .. l : 1 + k - 1 = k
      BY <2>1, <2>2
    <3>2. /\ SubSeq(P, 1, l) \in Seq(Seq(Token))
          /\ Len(SubSeq(P, 1, l)) = l - 1 + 1
          /\ \A k \in 1 .. l - 1 + 1 : SubSeq(P, 1, l)[k] = P[1 + k - 1]
      BY <1>3, <3>1, SubSeqIs
    <3> QED BY <3>1, <3>2 DEF Part
  <2>3. 0 \in T
    <3>1. Part(P, 1, 0) = << >>
      BY <2>1, <2>2, EmptySeq
    <3>2. off[1] \in Nat /\ 0 + 1 = 1
      BY <1>4, <2>1
    <3>3. Hits(r, a, off[1], off[1] - 1) = {}
      BY <3>2 DEF Hits
    <3>4. Occ(Part(P, 1, 0), a) = Cardinality(Hits(r, a, off[1], off[1] - 1))
      BY <3>1, <3>3, OccEmpty, FS_EmptySet
    <3> QED BY <3>2, <3>4
  <2>4. ASSUME NEW l \in T  PROVE  l + 1 \in T
    <3> SUFFICES ASSUME (l + 1) + 1 <= m
                 PROVE  Occ(Part(P, 1, l + 1), a) = Cardinality(Hits(r, a, off[1], off[(l + 1) + 1] - 1))
      OBVIOUS
    <3>1. l \in Nat /\ l <= l1 /\ l + 1 <= l1 /\ l + 1 \in 1 .. m - 1 /\ l + 1 \in 1 .. m
      BY <2>1
    <3>2. PICK i \in Nat, j \in Nat : PieceBounds(r, off, l + 1, i, j)
      BY <1>1, <3>1, PieceAt
    <3>3. i = off[l + 1] /\ off[(l + 1) + 1] = j + 1 /\ 1 <= i /\ i <= j /\ j + 1 <= Len(r)
      BY <3>2 DEF PieceBounds
    <3>4. P[l + 1] = Part(r, i, j)
      BY <1>2, <3>2 DEF PieceBounds, Part
    <3>5. PICK d \in Seq(Token) : d = P[l + 1]
      <4>1. l + 1 \in 1 .. Len(P)
        BY <2>1, <3>1
      <4> QED BY <1>3, <4>1
    <3>6. Count(d)[a] = Cardinality(Hits(r, a, i, j))
      <4>1. 1 <= i /\ i <= j + 1 /\ j <= Len(r)
        BY <3>3
      <4> QED BY <3>4, <3>5, <4>1, CountPart
    <3>7. PICK s \in Seq(Seq(Token)) : s = Part(P, 1, l) /\ Len(s) = l /\ \A k \in 1 .. l : s[k] = P[k]
      BY <2>2, <3>1
    <3>8. PICK t \in Seq(Seq(Token)) :
            t = Part(P, 1, l + 1) /\ Len(t) = l + 1 /\ \A k \in 1 .. l + 1 : t[k] = P[k]
      BY <2>2, <3>1
    <3>9. t = Append(s, d)
      <4>0. PICK v \in Seq(Seq(Token)) : v = Append(s, d)
        BY AppendProperties
      <4>1. Len(v) = l + 1 /\ (\A k \in 1 .. l : v[k] = P[k]) /\ v[l + 1] = d
        BY <3>7, <4>0, AppendProperties
      <4>2. \A k \in 1 .. l + 1 : v[k] = t[k]
        BY <3>1, <3>5, <3>8, <4>1
      <4>3. v = t
        BY <3>8, <4>1, <4>2, SeqEqual, SMTT(40)
      <4> QED BY <4>0, <4>3
    <3>10. Occ(t, a) = Occ(s, a) + Count(d)[a]
      BY <3>9, OccAppend
    <3>11. Occ(s, a) = Cardinality(Hits(r, a, off[1], i - 1))
      <4>1. l + 1 <= m
        BY <3>1
      <4> QED BY <3>3, <3>7, <4>1
    <3>12. PICK o \in Nat : o = off[1] /\ o <= i
      <4>1. l = 0 => off[1] = i
        BY <3>3
      <4>2. l > 0 => off[1] < off[l + 1]
        BY <1>5, <2>1, <3>1
      <4>3. off[1] \in Nat
        BY <1>4, <2>1
      <4> QED BY <3>1, <3>3, <4>1, <4>2, <4>3
    <3>13. Cardinality(Hits(r, a, o, j)) = Cardinality(Hits(r, a, o, i - 1)) + Cardinality(Hits(r, a, i, j))
      <4>1. PICK i1 \in Int : i1 = i - 1 /\ i1 + 1 = i
        OBVIOUS
      <4>2. o <= i1 + 1 /\ i1 <= j
        BY <3>3, <3>12, <4>1, SMTT(40)
      <4>3. Cardinality(Hits(r, a, o, j)) = Cardinality(Hits(r, a, o, i1)) + Cardinality(Hits(r, a, i1 + 1, j))
        BY <4>2, HitsSplit
      <4> QED BY <4>1, <4>3
    <3>14. off[(l + 1) + 1] - 1 = j
      BY <3>3
    <3> QED BY <3>6, <3>8, <3>10, <3>11, <3>12, <3>13, <3>14
  <2>5. T = Nat
    <3>1. T \in SUBSET Nat
      OBVIOUS
    <3> HIDE DEF T
    <3> QED BY <2>3, <2>4, <3>1, AllNat
  <2>6. Occ(Part(P, 1, l1), a) = Cardinality(Hits(r, a, off[1], off[m] - 1))
    <3>1. l1 \in T
      BY <2>5
    <3> QED BY <2>1, <3>1
  <2> HIDE DEF T
  <2>7. Part(P, 1, l1) = P
    <3>1. l1 <= l1
      OBVIOUS
    <3>2. PICK t \in Seq(Seq(Token)) : t = Part(P, 1, l1) /\ Len(t) = l1 /\ \A k \in 1 .. l1 : t[k] = P[k]
      BY <2>2, <3>1
    <3>3. t = P
      BY <1>3, <2>1, <3>2, SeqEqual
    <3> QED BY <3>2, <3>3
  <2>8. Enclosed(r, a) = Hits(r, a, off[1], off[m] - 1)
    <3>0. PICK o1 \in Nat, om \in Nat : o1 = off[1] /\ om = off[m] /\ o1 < om /\ 1 <= o1 /\ om <= Len(r) /\ m \in 1 .. m
      BY <1>4, <1>5, <1>9, <2>1
    <3>1. ASSUME NEW k \in Enclosed(r, a)  PROVE  k \in Hits(r, a, o1, om - 1)
      <4>1. PICK p \in Marks(r), q \in Marks(r) : p < k /\ k < q /\ k \in Nat /\ r[k] = a
        BY DEF Enclosed
      <4>2. PICK i \in 1 .. m, j \in 1 .. m : off[i] = p /\ off[j] = q
        BY <1>6, <4>1
      <4>3. p \in Nat /\ q \in Nat
        BY <1>4, <4>2
      <4>4. o1 <= p
        <5>1. i = 1 \/ 1 < i
          OBVIOUS
        <5> QED BY <1>5, <2>1, <3>0, <4>2, <4>3, <5>1
      <4>5. q <= om
        <5>1. j = m \/ j < m
          OBVIOUS
        <5> QED BY <1>5, <3>0, <4>2, <4>3, <5>1
      <4>6. k \in o1 .. om - 1
        BY <4>1, <4>3, <4>4, <4>5
      <4> QED BY <4>1, <4>6 DEF Hits
    <3>2. ASSUME NEW k \in Hits(r, a, o1, om - 1)  PROVE  k \in Enclosed(r, a)
      <4>1. k \in o1 .. om - 1 /\ r[k] = a
        BY DEF Hits
      <4>2. k # o1
        BY <1>4, <1>7, <2>1, <3>0, <4>1
      <4>3. o1 \in Marks(r) /\ om \in Marks(r)
        BY <1>1, <2>1, <3>0 DEF Lists
      <4>4. k \in 1 .. Len(r) /\ o1 < k /\ k < om
        BY <3>0, <4>1, <4>2
      <4> QED BY <4>1, <4>3, <4>4 DEF Enclosed
    <3>3. Enclosed(r, a) = Hits(r, a, o1, om - 1)
      BY <3>1, <3>2
    <3> QED BY <3>0, <3>3
  <2> QED BY <1>2, <2>6, <2>7, <2>8
<1> QED BY <1>8, <1>9

-----------------------------------------------------------------------------
(* What a spliter has received and what is on its way.                     *)

\* The channel q holds consecutive chunks of the trace st, up to position e: chunk n
\* begins after at[n].  The spliter was given everything before, which has its
\* synchronisation points at off; it has sent the pieces snt and keeps asm.
TraceOf(st, q, e, snt, asm, at, off) ==
  /\ st \in Seq(Token) /\ q \in Seq(Seq(Token)) /\ e \in Nat /\ e <= Len(st)
  /\ at \in Seq(Nat) /\ Len(at) = Len(q) + 1 /\ at[Len(q) + 1] = e
  /\ \A n \in 1 .. Len(q) + 1 : at[n] <= e
  /\ \A n \in 1 .. Len(q) : /\ at[n + 1] = at[n] + Len(q[n]) /\ Len(q[n]) <= OutLen
                            /\ q[n] = Part(st, at[n] + 1, at[n + 1])
  /\ Lists(off, Marks(Part(st, 1, at[1])))
  /\ snt = Pieces(Part(st, 1, at[1]), off)
  /\ asm = Kept(Part(st, 1, at[1]), off)

Traced(st, q, e, snt, asm) == \E at, off \in Seq(Nat) : TraceOf(st, q, e, snt, asm, at, off)

LEMMA PartIs ==
  ASSUME NEW s \in Seq(Token), NEW i \in Nat, 1 <= i, NEW j \in Nat, j <= Len(s), i <= j + 1
  PROVE  /\ Part(s, i, j) \in Seq(Token)
         /\ Len(Part(s, i, j)) = j - i + 1
         /\ \A k \in 1 .. j - i + 1 : Part(s, i, j)[k] = s[i + k - 1]
BY SubSeqIs DEF Part

\* The first n tokens.
LEMMA PrefixIs ==
  ASSUME NEW s \in Seq(Token), NEW n \in Nat, n <= Len(s)
  PROVE  /\ Part(s, 1, n) \in Seq(Token)
         /\ Len(Part(s, 1, n)) = n
         /\ \A k \in 1 .. n : Part(s, 1, n)[k] = s[k]
<1>1. n - 1 + 1 = n /\ 1 <= n + 1 /\ \A k \in 1 .. n : 1 + k - 1 = k
  OBVIOUS
<1>2. /\ Part(s, 1, n) \in Seq(Token)
      /\ Len(Part(s, 1, n)) = n - 1 + 1
      /\ \A k \in 1 .. n - 1 + 1 : Part(s, 1, n)[k] = s[1 + k - 1]
  BY <1>1, PartIs
<1> QED BY <1>1, <1>2

LEMMA PrefixMore ==
  ASSUME NEW s \in Seq(Token), NEW i \in Nat, NEW j \in Nat, i <= j, j <= Len(s)
  PROVE  IsJoin(Part(s, 1, j), Part(s, 1, i), Part(s, i + 1, j))
<1>1. PICK p, q, h : p = Part(s, 1, j) /\ q = Part(s, 1, i) /\ h = Part(s, i + 1, j)
  OBVIOUS
<1>2. PICK n \in Nat : j = i + n
  <2>1. j - i \in Nat /\ j = i + (j - i)
    OBVIOUS
  <2> QED BY <2>1
<1>3. i <= Len(s)
  <2>1. Len(s) \in Nat
    OBVIOUS
  <2> QED BY <2>1
<1>4. p \in Seq(Token) /\ Len(p) = j /\ \A k \in 1 .. j : p[k] = s[k]
  BY <1>1, PrefixIs
<1>5. q \in Seq(Token) /\ Len(q) = i /\ \A k \in 1 .. i : q[k] = s[k]
  BY <1>1, <1>3, PrefixIs
<1>6. h \in Seq(Token) /\ Len(h) = n /\ \A k \in 1 .. n : h[k] = s[i + k]
  <2>1. /\ i + 1 \in Nat /\ 1 <= i + 1 /\ i + 1 <= j + 1 /\ j - (i + 1) + 1 = n
        /\ \A k \in 1 .. n : i + 1 + k - 1 = i + k
    BY <1>2
  <2>2. /\ h \in Seq(Token) /\ Len(h) = j - (i + 1) + 1
        /\ \A k \in 1 .. j - (i + 1) + 1 : h[k] = s[(i + 1) + k - 1]
    BY <1>1, <2>1, PartIs, ZenonT(60)
  <2> QED BY <2>1, <2>2
<1>7. JoinOf(p, q, h)
  <2>1. \A k \in 1 .. i : k \in 1 .. j
    OBVIOUS
  <2>2. \A k \in 1 .. n : i + k \in 1 .. j
    BY <1>2
  <2> QED BY <1>2, <1>4, <1>5, <1>6, <2>1, <2>2 DEF JoinOf
<1>8. p = q \o h
  BY <1>4, <1>5, <1>6, <1>7, SeqJoin
<1> QED BY <1>1, <1>8 DEF IsJoin

\* A part that has grown has the marks it had.
LEMMA MarksGrow ==
  ASSUME NEW s \in Seq(Token), NEW i \in Nat, NEW j \in Nat, i <= j, j <= Len(s)
  PROVE  Marks(Part(s, 1, i)) \subseteq Marks(Part(s, 1, j))
<1>1. i <= Len(s)
  <2>1. Len(s) \in Nat
    OBVIOUS
  <2> QED BY <2>1
<1>2. PICK p, q : p = Part(s, 1, i) /\ q = Part(s, 1, j)
  OBVIOUS
<1>3. Len(p) = i /\ \A k \in 1 .. i : p[k] = s[k]
  BY <1>1, <1>2, PrefixIs
<1>4. Len(q) = j /\ \A k \in 1 .. j : q[k] = s[k]
  BY <1>2, PrefixIs
<1>5. ASSUME NEW k \in Marks(p)  PROVE  k \in Marks(q)
  <2>1. k \in 1 .. i - 1 /\ p[k] = "psb" /\ p[k + 1] = "end"
    BY <1>3 DEF Marks
  <2>2. k \in 1 .. i /\ k + 1 \in 1 .. i /\ k \in 1 .. j - 1 /\ k \in 1 .. j /\ k + 1 \in 1 .. j
    BY <2>1
  <2> QED BY <1>3, <1>4, <2>1, <2>2 DEF Marks
<1> QED BY <1>2, <1>5

LEMMA TraceInit ==
  ASSUME NEW st \in Seq(Token)
  PROVE  Traced(st, << >>, 0, << >>, << >>)
<1>1. PICK r : r = Part(st, 1, 0)
  OBVIOUS
<1>2. r = << >>
  <2>1. r \in Seq(Token) /\ Len(r) = 0
    BY <1>1, PrefixIs
  <2> QED BY <2>1, EmptySeq
<1>3. Marks(r) = {}
  BY <1>2 DEF Marks
<1>4. Lists(<< >>, Marks(r)) /\ << >> \in Seq(Nat)
  BY <1>3 DEF Lists
<1>5. Kept(r, << >>) = << >>
  BY <1>2 DEF Kept
<1>6. Pieces(r, << >>) = << >>
  <2>1. r \in Seq(Token) /\ Len(<< >>) = 0
    BY <1>2
  <2>2. Pieces(r, << >>) \in Seq(Seq(Token)) /\ Len(Pieces(r, << >>)) = 0
    BY <1>4, <2>1, PiecesIs
  <2> QED BY <2>2, EmptySeq
<1>7. PICK at \in Seq(Nat) : Len(at) = 1 /\ at[1] = 0
  <2>1. <<0>> \in Seq(Nat) /\ Len(<<0>>) = 1 /\ <<0>>[1] = 0
    OBVIOUS
  <2> QED BY <2>1
<1>8. TraceOf(st, << >>, 0, << >>, << >>, at, << >>)
  <2>1. 0 <= Len(st) /\ << >> \in Seq(Seq(Token)) /\ Len(<< >>) = 0 /\ 0 + 1 = 1
    OBVIOUS
  <2>2. \A n \in 1 .. 0 + 1 : at[n] <= 0
    BY <1>7
  <2> QED BY <1>1, <1>4, <1>5, <1>6, <1>7, <2>1, <2>2 DEF TraceOf
<1> QED BY <1>4, <1>8 DEF Traced

\* The main thread sends the next chunk.
LEMMA TraceSend ==
  ASSUME NEW st, NEW q, NEW e \in Nat, NEW snt, NEW asm, Traced(st, q, e, snt, asm),
         NEW f \in Nat, e <= f, f <= Len(st), f - e <= OutLen,
         NEW d, d = Part(st, e + 1, f)
  PROVE  Traced(st, Append(q, d), f, snt, asm)
<1>1. PICK at \in Seq(Nat), off \in Seq(Nat) : TraceOf(st, q, e, snt, asm, at, off)
  BY DEF Traced
<1>2. st \in Seq(Token) /\ q \in Seq(Seq(Token))
  BY <1>1 DEF TraceOf
<1>3. PICK L \in Nat : L = Len(q)
  BY <1>2
<1>4. /\ Len(at) = L + 1 /\ at[L + 1] = e
      /\ \A n \in 1 .. L + 1 : at[n] <= e
      /\ \A n \in 1 .. L : /\ at[n + 1] = at[n] + Len(q[n]) /\ Len(q[n]) <= OutLen
                           /\ q[n] = Part(st, at[n] + 1, at[n + 1])
  BY <1>1, <1>3 DEF TraceOf
<1>5. d \in Seq(Token) /\ Len(d) = f - e
  <2>1. e + 1 \in Nat /\ 1 <= e + 1 /\ e + 1 <= f + 1 /\ f - (e + 1) + 1 = f - e
    OBVIOUS
  <2> QED BY <1>2, <2>1, PartIs
<1>6. PICK q2 \in Seq(Seq(Token)) : q2 = Append(q, d)
  BY <1>2, <1>5, AppendProperties
<1>7. Len(q2) = L + 1 /\ (\A n \in 1 .. L : q2[n] = q[n]) /\ q2[L + 1] = d
  BY <1>2, <1>3, <1>5, <1>6, AppendProperties
<1>8. PICK a2 \in Seq(Nat) : a2 = Append(at, f)
  BY AppendProperties
<1>9. Len(a2) = (L + 1) + 1 /\ (\A n \in 1 .. L + 1 : a2[n] = at[n]) /\ a2[(L + 1) + 1] = f
  <2>1. Len(a2) = Len(at) + 1 /\ (\A n \in 1 .. Len(at) : a2[n] = at[n]) /\ a2[Len(at) + 1] = f
    BY <1>8, AppendProperties
  <2> QED BY <1>4, <2>1
<1>10. \A n \in 1 .. (L + 1) + 1 : a2[n] <= f
  <2> SUFFICES ASSUME NEW n \in 1 .. (L + 1) + 1  PROVE  a2[n] <= f
    OBVIOUS
  <2>1. CASE n \in 1 .. L + 1
    <3>1. a2[n] = at[n] /\ at[n] <= e
      BY <1>4, <1>9, <2>1
    <3>2. at[n] \in Nat
      BY <1>4, <2>1, ElementOfSeq
    <3> QED BY <3>1, <3>2
  <2>2. CASE n = (L + 1) + 1
    BY <1>9, <2>2
  <2> QED BY <2>1, <2>2
<1>11. ASSUME NEW n \in 1 .. L + 1
       PROVE  /\ a2[n + 1] = a2[n] + Len(q2[n]) /\ Len(q2[n]) <= OutLen
              /\ q2[n] = Part(st, a2[n] + 1, a2[n + 1])
  <2>1. CASE n \in 1 .. L
    <3>1. n + 1 \in 1 .. L + 1
      BY <2>1
    <3> QED BY <1>4, <1>7, <1>9, <2>1, <3>1
  <2>2. CASE n = L + 1
    <3>1. a2[n] = e /\ a2[n + 1] = f /\ q2[n] = d
      BY <1>4, <1>7, <1>9, <2>2
    <3>2. f = e + (f - e)
      OBVIOUS
    <3> QED BY <1>5, <3>1, <3>2
  <2> QED BY <2>1, <2>2
<1>12. a2[1] = at[1]
  <2>1. 1 \in 1 .. L + 1
    OBVIOUS
  <2> QED BY <1>9, <2>1
<1>13. TraceOf(st, q2, f, snt, asm, a2, off)
  <2>1. /\ Lists(off, Marks(Part(st, 1, at[1])))
        /\ snt = Pieces(Part(st, 1, at[1]), off)
        /\ asm = Kept(Part(st, 1, at[1]), off)
    BY <1>1 DEF TraceOf
  <2> QED BY <1>2, <1>7, <1>9, <1>10, <1>11, <1>12, <2>1 DEF TraceOf
<1> QED BY <1>6, <1>13 DEF Traced

\* The spliter takes the next chunk, cuts and sends.
LEMMA TraceTurn ==
  ASSUME NEW st, NEW q, NEW e \in Nat, NEW snt, NEW asm, Traced(st, q, e, snt, asm), q # << >>,
         NEW d, d = asm \o Head(q), NEW o2, Lists(o2, Marks(d)),
         NEW snt2, IsJoin(snt2, snt, Pieces(d, o2))
  PROVE  /\ Traced(st, Tail(q), e, snt2, Kept(d, o2))
         /\ d \in Seq(Token)
         /\ Len(o2) >= 2 => \E u, v \in Marks(Part(st, 1, e)) : u < v
<1>1. PICK at \in Seq(Nat), off \in Seq(Nat) : TraceOf(st, q, e, snt, asm, at, off)
  BY DEF Traced
<1>2. st \in Seq(Token) /\ q \in Seq(Seq(Token)) /\ e <= Len(st)
  BY <1>1, SMTT(40) DEF TraceOf
<1>3. PICK L \in Nat : Len(q) = L + 1
  <2>1. Len(q) \in Nat /\ Len(q) # 0
    BY <1>2, EmptySeq
  <2>2. Len(q) - 1 \in Nat /\ Len(q) = (Len(q) - 1) + 1
    BY <2>1
  <2> QED BY <2>2
<1>4. /\ Len(at) = (L + 1) + 1 /\ at[(L + 1) + 1] = e
      /\ \A n \in 1 .. (L + 1) + 1 : at[n] <= e
      /\ \A n \in 1 .. L + 1 : /\ at[n + 1] = at[n] + Len(q[n]) /\ Len(q[n]) <= OutLen
                               /\ q[n] = Part(st, at[n] + 1, at[n + 1])
      /\ Lists(off, Marks(Part(st, 1, at[1])))
      /\ snt = Pieces(Part(st, 1, at[1]), off)
      /\ asm = Kept(Part(st, 1, at[1]), off)
  BY <1>1, <1>3 DEF TraceOf
<1>5. \A n \in 1 .. (L + 1) + 1 : at[n] \in Nat
  BY <1>4, ElementOfSeq
<1>6. PICK i \in Nat, j \in Nat : i = at[1] /\ j = at[2]
  <2>1. 1 \in 1 .. (L + 1) + 1 /\ 2 \in 1 .. (L + 1) + 1
    OBVIOUS
  <2> QED BY <1>5, <2>1
<1>7. PICK h \in Seq(Token) : h = Head(q) /\ h = q[1]
  <2>1. Head(q) = q[1] /\ Head(q) \in Seq(Token)
    BY <1>2, HeadTailProperties
  <2> QED BY <2>1
<1>8. j = i + Len(h) /\ h = Part(st, i + 1, j) /\ j <= e
  <2>1. 1 \in 1 .. L + 1 /\ 2 \in 1 .. (L + 1) + 1 /\ 1 + 1 = 2
    OBVIOUS
  <2>2. at[1 + 1] = at[1] + Len(q[1]) /\ q[1] = Part(st, at[1] + 1, at[1 + 1]) /\ at[2] <= e
    BY <1>4, <2>1
  <2> QED BY <1>6, <1>7, <2>1, <2>2
<1>9. i <= j /\ j <= Len(st) /\ i <= Len(st)
  <2>1. Len(h) \in Nat /\ Len(st) \in Nat
    BY <1>2, <1>7
  <2> QED BY <1>2, <1>8, <2>1
<1>10. PICK r \in Seq(Token) : r = Part(st, 1, i)
  BY <1>2, <1>9, PrefixIs
<1>11. PICK x \in Seq(Token) : x = Part(st, 1, j)
  BY <1>2, <1>9, PrefixIs
<1>12. IsJoin(x, r, h)
  BY <1>2, <1>8, <1>9, <1>10, <1>11, PrefixMore
<1>13. Lists(off, Marks(r)) /\ snt = Pieces(r, off) /\ asm = Kept(r, off)
  BY <1>4, <1>6, <1>10
<1>14. IsJoin(d, Kept(r, off), h)
  BY <1>7, <1>13 DEF IsJoin
<1>15. d \in Seq(Token)
  <2>1. Kept(r, off) \in Seq(Token)
    BY <1>13, KeptIs
  <2> QED BY <1>14, <2>1, ConcatIs DEF IsJoin
<1>16. PICK off2 \in Seq(Nat) : /\ Lists(off2, Marks(x))
                               /\ IsJoin(Pieces(x, off2), Pieces(r, off), Pieces(d, o2))
                               /\ Kept(x, off2) = Kept(d, o2)
                               /\ Len(o2) <= Len(off2)
  BY <1>12, <1>13, <1>14, CutMore
<1>17. snt2 = Pieces(x, off2)
  BY <1>13, <1>16 DEF IsJoin
<1>18. PICK q2 \in Seq(Seq(Token)) : /\ q2 = Tail(q) /\ Len(q2) = L
                                    /\ \A n \in 1 .. L : q2[n] = q[n + 1]
  <2>1. /\ Tail(q) \in Seq(Seq(Token)) /\ Len(Tail(q)) = Len(q) - 1
        /\ \A n \in 1 .. Len(Tail(q)) : Tail(q)[n] = q[n + 1]
    BY <1>2, HeadTailProperties
  <2>2. Len(q) - 1 = L
    BY <1>3
  <2> QED BY <2>1, <2>2
<1>19. PICK a2 \in Seq(Nat) : /\ Len(a2) = L + 1
                             /\ \A n \in 1 .. L + 1 : a2[n] = at[n + 1]
  <2>1. at # << >>
    <3>1. Len(at) # 0
      BY <1>4
    <3> QED BY <3>1
  <2>2. /\ Tail(at) \in Seq(Nat) /\ Len(Tail(at)) = Len(at) - 1
        /\ \A n \in 1 .. Len(Tail(at)) : Tail(at)[n] = at[n + 1]
    BY <2>1, HeadTailProperties
  <2>3. Len(at) - 1 = L + 1
    BY <1>4
  <2> QED BY <2>2, <2>3
<1>20. a2[L + 1] = e /\ a2[1] = j
  <2>1. L + 1 \in 1 .. L + 1 /\ 1 \in 1 .. L + 1 /\ 1 + 1 = 2
    OBVIOUS
  <2> QED BY <1>4, <1>6, <1>19, <2>1
<1>21. \A n \in 1 .. L + 1 : a2[n] <= e
  <2>1. \A n \in 1 .. L + 1 : n + 1 \in 1 .. (L + 1) + 1
    OBVIOUS
  <2> QED BY <1>4, <1>19, <2>1
<1>22. ASSUME NEW n \in 1 .. L
       PROVE  /\ a2[n + 1] = a2[n] + Len(q2[n]) /\ Len(q2[n]) <= OutLen
              /\ q2[n] = Part(st, a2[n] + 1, a2[n + 1])
  <2>1. n \in 1 .. L + 1 /\ n + 1 \in 1 .. L + 1
    OBVIOUS
  <2>2. a2[n] = at[n + 1] /\ a2[n + 1] = at[(n + 1) + 1] /\ q2[n] = q[n + 1]
    BY <1>18, <1>19, <2>1
  <2> QED BY <1>4, <2>1, <2>2
<1>23. TraceOf(st, q2, e, snt2, Kept(d, o2), a2, off2)
  BY <1>2, <1>11, <1>16, <1>17, <1>18, <1>19, <1>20, <1>21, <1>22 DEF TraceOf
<1>24. Len(o2) >= 2 => \E u, v \in Marks(Part(st, 1, e)) : u < v
  <2> SUFFICES ASSUME Len(o2) >= 2  PROVE  \E u, v \in Marks(Part(st, 1, e)) : u < v
    OBVIOUS
  <2>1. 1 \in 1 .. Len(off2) /\ 2 \in 1 .. Len(off2)
    <3>1. Len(o2) \in Nat /\ Len(off2) \in Nat
      BY ListLength
    <3> QED BY <1>16, <3>1
  <2>2. off2[1] \in Marks(x) /\ off2[2] \in Marks(x) /\ off2[1] < off2[2]
    BY <1>16, <2>1 DEF Lists
  <2>3. Marks(x) \subseteq Marks(Part(st, 1, e))
    BY <1>2, <1>8, <1>11, MarksGrow
  <2> QED BY <2>2, <2>3
<1> QED BY <1>15, <1>18, <1>23, <1>24 DEF Traced

-----------------------------------------------------------------------------
(* How much of it is still in the channel.                                 *)

LEMMA UnitsNext ==
  ASSUME NEW L \in Nat, NEW f \in [1 .. L -> Nat], NEW n \in Nat, n + 1 <= L,
         IsFiniteSet(Units(f, 1 .. n))
  PROVE  /\ IsFiniteSet(Units(f, 1 .. n + 1))
         /\ Cardinality(Units(f, 1 .. n + 1)) = f[n + 1] + Cardinality(Units(f, 1 .. n))
<1>1. PICK S, s, x : S = 1 .. L /\ s = 1 .. n /\ x = n + 1
  OBVIOUS
<1>2. s \in SUBSET S /\ x \in S \ s /\ 1 .. n + 1 = s \cup {x}
  BY <1>1
<1>3. f \in [S -> Nat] /\ IsFiniteSet(Units(f, s))
  BY <1>1
<1>4. /\ IsFiniteSet(Units(f, s \cup {x}))
      /\ Cardinality(Units(f, s \cup {x})) = f[x] + Cardinality(Units(f, s))
  BY <1>2, <1>3, UnitsMore
<1> QED BY <1>1, <1>2, <1>4

\* Counting f[1] + .. + f[L] from the partial sums.
LEMMA UnitsRun ==
  ASSUME NEW L \in Nat, NEW f \in [1 .. L -> Nat], NEW at,
         \A n \in 1 .. L + 1 : at[n] \in Nat,
         \A n \in 1 .. L : at[n + 1] = at[n] + f[n]
  PROVE  at[L + 1] = at[1] + Cardinality(Units(f, 1 .. L)) /\ Cardinality(Units(f, 1 .. L)) \in Nat
<1> DEFINE T == {n \in Nat : n <= L => /\ IsFiniteSet(Units(f, 1 .. n))
                                       /\ at[n + 1] = at[1] + Cardinality(Units(f, 1 .. n))}
<1>1. 0 \in T
  <2>1. Units(f, 1 .. 0) = {}
    BY DEF Units
  <2>2. IsFiniteSet({}) /\ Cardinality({}) = 0
    BY FS_EmptySet
  <2>3. at[0 + 1] = at[1] + 0
    <3>1. 1 \in 1 .. L + 1 /\ 0 + 1 = 1
      OBVIOUS
    <3> QED BY <3>1
  <2> QED BY <2>1, <2>2, <2>3
<1>2. ASSUME NEW n \in T  PROVE  n + 1 \in T
  <2> SUFFICES ASSUME n + 1 <= L
               PROVE  /\ IsFiniteSet(Units(f, 1 .. n + 1))
                      /\ at[(n + 1) + 1] = at[1] + Cardinality(Units(f, 1 .. n + 1))
    OBVIOUS
  <2>1. n \in Nat /\ IsFiniteSet(Units(f, 1 .. n)) /\ at[n + 1] = at[1] + Cardinality(Units(f, 1 .. n))
    OBVIOUS
  <2>4. /\ IsFiniteSet(Units(f, 1 .. n + 1))
        /\ Cardinality(Units(f, 1 .. n + 1)) = f[n + 1] + Cardinality(Units(f, 1 .. n))
    BY <2>1, UnitsNext
  <2>5. Cardinality(Units(f, 1 .. n)) \in Nat
    BY <2>1, FS_CardinalityType
  <2>6. at[(n + 1) + 1] = at[n + 1] + f[n + 1] /\ f[n + 1] \in Nat /\ at[1] \in Nat
    <3>1. n + 1 \in 1 .. L /\ 1 \in 1 .. L + 1
      BY <2>1
    <3> QED BY <3>1
  <2> QED BY <2>1, <2>4, <2>5, <2>6
<1>3. T \in SUBSET Nat
  OBVIOUS
<1> HIDE DEF T
<1>4. T = Nat
  BY <1>1, <1>2, <1>3, AllNat
<1>5. L \in T
  BY <1>4
<1>6. IsFiniteSet(Units(f, 1 .. L)) /\ at[L + 1] = at[1] + Cardinality(Units(f, 1 .. L))
  BY <1>5 DEF T
<1> QED BY <1>6, FS_CardinalityType

\* What the channel holds, as InChannel counts it.
Pending(q) == {p \in (1 .. Len(q)) \X (1 .. OutLen) : p[2] <= Len(q[p[1]])}

\* A spliter's share of the invariant, without the positions of the chunks: it was
\* given the first n tokens.
CutAt(st, n, snt, asm, off) ==
  /\ n \in Nat /\ n <= Len(st)
  /\ Lists(off, Marks(Part(st, 1, n)))
  /\ snt = Pieces(Part(st, 1, n), off)
  /\ asm = Kept(Part(st, 1, n), off)

LEMMA TraceCut ==
  ASSUME NEW st, NEW q, NEW e \in Nat, NEW snt, NEW asm, Traced(st, q, e, snt, asm)
  PROVE  /\ st \in Seq(Token)
         /\ Cardinality(Pending(q)) \in Nat
         /\ \E off \in Seq(Nat) : CutAt(st, e - Cardinality(Pending(q)), snt, asm, off)
<1>1. PICK at \in Seq(Nat), off \in Seq(Nat) : TraceOf(st, q, e, snt, asm, at, off)
  BY DEF Traced
<1>2. st \in Seq(Token) /\ q \in Seq(Seq(Token)) /\ e <= Len(st)
  BY <1>1 DEF TraceOf
<1>3. PICK L \in Nat : Len(q) = L
  BY <1>2
<1>4. /\ Len(at) = L + 1 /\ at[L + 1] = e
      /\ \A n \in 1 .. L + 1 : at[n] <= e
      /\ \A n \in 1 .. L : at[n + 1] = at[n] + Len(q[n]) /\ Len(q[n]) <= OutLen
      /\ Lists(off, Marks(Part(st, 1, at[1])))
      /\ snt = Pieces(Part(st, 1, at[1]), off)
      /\ asm = Kept(Part(st, 1, at[1]), off)
  BY <1>1, <1>3 DEF TraceOf
<1>5. \A n \in 1 .. L + 1 : at[n] \in Nat
  BY <1>4, ElementOfSeq
<1>6. \A n \in 1 .. L : Len(q[n]) \in Nat
  <2> SUFFICES ASSUME NEW n \in 1 .. L  PROVE  Len(q[n]) \in Nat
    OBVIOUS
  <2>1. q[n] \in Seq(Token)
    BY <1>2, <1>3, ElementOfSeq
  <2> QED BY <2>1
<1>7. PICK f : f = [n \in 1 .. L |-> Len(q[n])]
  OBVIOUS
<1>8. f \in [1 .. L -> Nat] /\ \A n \in 1 .. L : f[n] = Len(q[n])
  BY <1>6, <1>7
<1>9. PICK k \in Nat : k = Cardinality(Units(f, 1 .. L)) /\ at[L + 1] = at[1] + k
  <2>1. \A n \in 1 .. L : at[n + 1] = at[n] + f[n]
    BY <1>4, <1>8
  <2>2. at[L + 1] = at[1] + Cardinality(Units(f, 1 .. L)) /\ Cardinality(Units(f, 1 .. L)) \in Nat
    BY <1>5, <1>8, <2>1, UnitsRun, Zenon
  <2> QED BY <2>2
<1>10. Pending(q) = Units(f, 1 .. L)
  <2>1. OutLen \in Nat
    BY OnlineAssumption
  <2>2. ASSUME NEW n \in 1 .. L, NEW m
        PROVE  m \in 1 .. OutLen /\ m <= Len(q[n]) <=> m \in Nat /\ m \in 1 .. f[n]
    <3>1. f[n] \in Nat /\ f[n] = Len(q[n]) /\ f[n] <= OutLen
      BY <1>4, <1>6, <1>8
    <3> QED BY <2>1, <3>1
  <2>3. Pending(q) = {p \in (1 .. L) \X (1 .. OutLen) : p[2] <= Len(q[p[1]])}
    BY <1>3 DEF Pending
  <2> QED BY <2>2, <2>3 DEF Units
<1>11. Cardinality(Pending(q)) = k /\ e - k = at[1] /\ at[1] \in Nat
  <2>1. 1 \in 1 .. L + 1
    OBVIOUS
  <2> QED BY <1>4, <1>5, <1>9, <1>10, <2>1
<1>12. at[1] <= Len(st)
  <2>1. 1 \in 1 .. L + 1 /\ Len(st) \in Nat
    BY <1>2
  <2> QED BY <1>2, <1>4, <1>11, <2>1
<1>13. CutAt(st, e - Cardinality(Pending(q)), snt, asm, off)
  BY <1>4, <1>11, <1>12 DEF CutAt
<1> QED BY <1>2, <1>11, <1>13

\* The parts of such a cut.
LEMMA CutIs ==
  ASSUME NEW st \in Seq(Token), NEW n \in Nat, NEW snt, NEW asm, NEW off, CutAt(st, n, snt, asm, off),
         NEW r, r = Part(st, 1, n), NEW m, m = Cardinality(Marks(r))
  PROVE  /\ off \in [1 .. m -> Marks(r)]
         /\ \A i, j \in 1 .. m : i < j => off[i] < off[j]
         /\ Len(snt) = IF m = 0 THEN 0 ELSE m - 1
         /\ \A k \in 1 .. Len(snt) : snt[k] = Part(r, off[k], off[k + 1] - 1)
         /\ asm = IF m = 0 THEN r ELSE Part(r, off[m], Len(r))
         /\ r \in Seq(Token) /\ snt \in Seq(Seq(Token)) /\ asm \in Seq(Token)
<1>1. n <= Len(st) /\ Lists(off, Marks(r)) /\ snt = Pieces(r, off) /\ asm = Kept(r, off)
  BY DEF CutAt
<1>2. r \in Seq(Token)
  BY <1>1, PrefixIs
<1>3. Len(off) = m /\ m \in Nat /\ off \in [1 .. m -> Marks(r)]
  BY <1>1, ListLength
<1>4. \A i, j \in 1 .. m : i < j => off[i] < off[j]
  BY <1>1, <1>3 DEF Lists
<1>5. /\ snt \in Seq(Seq(Token)) /\ Len(snt) = IF m = 0 THEN 0 ELSE m - 1
      /\ \A k \in 1 .. m - 1 : snt[k] = Part(r, off[k], off[k + 1] - 1)
  BY <1>1, <1>2, <1>3, PiecesIs DEF Part
<1>6. asm \in Seq(Token) /\ asm = IF m = 0 THEN r ELSE Part(r, off[m], Len(r))
  BY <1>1, <1>2, <1>3, KeptIs DEF Part
<1>7. \A k \in 1 .. Len(snt) : k \in 1 .. m - 1
  BY <1>3, <1>5
<1> QED BY <1>2, <1>3, <1>4, <1>5, <1>6, <1>7

-----------------------------------------------------------------------------
(* The pipeline's inductive invariant.                                     *)

\* What the capture and the flags are.
PollTypes ==
  /\ \A c \in Cpu : avail[c] <= Len(stream[c])
  /\ G_STOP \in BOOLEAN
  /\ flags \in [Cpu -> BOOLEAN]
  /\ tx \in [Cpu -> BOOLEAN]
  /\ last_size \in [Cpu -> 0 .. OutLen]

\* What passes between the threads.
PipeTypes ==
  /\ chunk \in Seq(Token) /\ Len(chunk) <= OutLen
  /\ chan \in [Cpu -> Seq(Seq(Token))]
  /\ assemed \in [Cpu -> Seq(Token)]
  /\ sent \in [Cpu -> Seq(Seq(Token))]
  /\ queue \in Seq(Seq(Token))
  /\ data \in [Worker -> [Addr -> Nat]]
  /\ skipped \in [Addr -> Nat]
  /\ result \in [Addr -> Nat]

\* Between the fetch and the send, chunk is the last that was captured of the ring.
ChunkInv ==
  /\ pc # "process" => chunk = << >>
  /\ pc = "process" => /\ Len(chunk) <= captured[idx]
                       /\ chunk = Part(stream[idx], captured[idx] - Len(chunk) + 1, captured[idx])

\* The part of what was captured of ring c that the main thread still holds.
Held(c) == IF idx = c THEN Len(chunk) ELSE 0

\* Every spliter's channel continues where its input ended.
TraceInv ==
  \A c \in Cpu : spl[c] # "panic" =>
    Traced(stream[c], chan[c], captured[c] - Held(c), sent[c], assemed[c])

\* Two synchronisation points of ring c were captured.
TwoMarks(c) == \E p, q \in Marks(Part(stream[c], 1, captured[c])) : p < q

PanicInv ==
  /\ \A c \in Cpu : spl[c] = "panic" => TwoMarks(c)
  /\ pc = "crashed" => \E c \in Cpu : TwoMarks(c)

\* Every instruction that was sent is counted, given up on, or still queued.
CountInv ==
  \A a \in Addr :
    SumFunction([w \in Worker |-> data[w][a]]) + skipped[a] + Occ(queue, a)
      = SumFunction([c \in Cpu |-> Occ(sent[c], a)])

\* A thread that has ended left nothing behind, and the main thread waits for all.
SplitersJoined == pc \in {"drop", "join"} => \A c \in Cpu : c < idx => spl[c] = "done"
AllSplit == pc \in {"wait", "collect", "write", "done", "lost"} => \A c \in Cpu : spl[c] = "done"
WorkersJoined == pc = "wait" => \A w \in Worker : w < idx => wrk[w] = "done"
AllDecoded == pc \in {"collect", "write", "done", "lost"} => \A w \in Worker : wrk[w] = "done"

EndInv ==
  /\ \A c \in Cpu : spl[c] = "done" => chan[c] = << >>
  /\ \A w \in Worker : wrk[w] = "done" => queue = << >>
  /\ Worker = {} => queue = << >>
  /\ SplitersJoined /\ AllSplit /\ WorkersJoined /\ AllDecoded
  /\ pc \in {"write", "done", "lost"} =>
       \A a \in Addr : result[a] = SumFunction([w \in Worker |-> data[w][a]])

\* What write_to_file wrote.
Executed == {a \in Addr : result[a] > 0}
ReportInv ==
  /\ modules \in {Modules, << >>}
  /\ pc # "done" => report = << >>
  /\ pc = "done" => \E order \in Orders(Executed) : report = Report(modules, order, result)

-----------------------------------------------------------------------------
(* Steps that leave a part of it alone.                                    *)

LEMMA SamePoll ==
  ASSUME PollTypes, UNCHANGED <<stream, avail, G_STOP, flags, tx, last_size>>
  PROVE  PollTypes'
BY DEF PollTypes, Cpu

LEMMA SamePipe ==
  ASSUME PipeTypes, UNCHANGED <<stream, chunk, chan, assemed, sent, queue, data, skipped, result>>
  PROVE  PipeTypes'
<1>1. Cpu' = Cpu /\ Worker' = Worker
  BY SameMachine
<1> QED BY <1>1 DEF PipeTypes

LEMMA SameTrace ==
  ASSUME TraceInv, UNCHANGED <<stream, captured, idx, chunk, spl, chan, sent, assemed>>
  PROVE  TraceInv'
BY DEF TraceInv, Held, Cpu

\* Outside of a turn of the polling loop chunk is empty, whatever idx is.
LEMMA QuietTrace ==
  ASSUME ChunkInv, TraceInv, pc # "process", pc' # "process",
         UNCHANGED <<stream, captured, chunk, spl, chan, sent, assemed>>
  PROVE  ChunkInv' /\ TraceInv'
<1>1. chunk = << >> /\ chunk' = << >> /\ Len(<< >>) = 0
  BY DEF ChunkInv
<1>2. \A c : Held(c) = 0 /\ Held(c)' = 0
  BY <1>1 DEF Held
<1>3. TraceInv'
  BY <1>2 DEF TraceInv, Cpu
<1>4. ChunkInv'
  BY <1>1 DEF ChunkInv
<1> QED BY <1>3, <1>4

LEMMA SamePanic ==
  ASSUME PanicInv, UNCHANGED <<stream, captured, spl>>, pc' = "crashed" => pc = "crashed"
  PROVE  PanicInv'
BY DEF PanicInv, TwoMarks, Cpu

LEMMA SameCount ==
  ASSUME CountInv, UNCHANGED <<stream, data, skipped, queue, sent>>
  PROVE  CountInv'
<1>1. Cpu' = Cpu /\ Worker' = Worker
  BY SameMachine
<1> QED BY <1>1 DEF CountInv

LEMMA SameEnd ==
  ASSUME EndInv, UNCHANGED <<stream, spl, chan, wrk, queue, pc, idx, result, data>>
  PROVE  EndInv'
<1>1. Cpu' = Cpu /\ Worker' = Worker
  BY SameMachine
<1> QED BY <1>1 DEF EndInv, SplitersJoined, AllSplit, WorkersJoined, AllDecoded

LEMMA SameReport ==
  ASSUME ReportInv, UNCHANGED <<modules, report, result>>, pc' = "done" <=> pc = "done"
  PROVE  ReportInv'
BY DEF ReportInv, Executed

-----------------------------------------------------------------------------
(* The types of the polling loop.                                          *)

LEMMA StreamIs ==
  ASSUME OnlineTypes, PollTypes, NEW c \in Cpu
  PROVE  /\ stream[c] \in Seq(Token) /\ Len(stream[c]) \in Nat
         /\ avail[c] \in Nat /\ captured[c] \in Nat
         /\ captured[c] <= avail[c] /\ avail[c] <= Len(stream[c]) /\ captured[c] <= Len(stream[c])
<1>1. stream[c] \in Seq(Token)
  BY OnlineAssumption DEF OnlineTypes, Cpu
<1>2. Len(stream[c]) \in Nat
  BY <1>1
<1>3. avail[c] \in Nat /\ captured[c] \in Nat /\ captured[c] <= avail[c] /\ avail[c] <= Len(stream[c])
  BY DEF OnlineTypes, PollTypes
<1> QED BY <1>1, <1>2, <1>3

LEMMA PollHwTrace ==
  ASSUME OnlineTypes, PollTypes, NEW c0 \in Cpu, HwTrace(c0)
  PROVE  PollTypes'
<1>1. /\ avail[c0] < Len(stream[c0]) /\ avail' = [avail EXCEPT ![c0] = @ + 1]
      /\ UNCHANGED <<stream, G_STOP, flags, tx, last_size>>
  BY DEF HwTrace, capture
<1>2. Cpu' = Cpu
  BY <1>1, SameMachine
<1>3. \A c \in Cpu : avail'[c] <= Len(stream[c])
  <2> SUFFICES ASSUME NEW c \in Cpu  PROVE  avail'[c] <= Len(stream[c])
    OBVIOUS
  <2>1. avail[c] \in Nat /\ avail[c] <= Len(stream[c]) /\ Len(stream[c]) \in Nat
    BY StreamIs
  <2>2. avail'[c] = IF c = c0 THEN avail[c] + 1 ELSE avail[c]
    BY <1>1 DEF OnlineTypes
  <2> QED BY <1>1, <2>1, <2>2
<1>4. \A c \in Cpu' : avail'[c] <= Len(stream'[c])
  BY <1>1, <1>2, <1>3
<1>5. /\ G_STOP' \in BOOLEAN /\ flags' \in [Cpu' -> BOOLEAN] /\ tx' \in [Cpu' -> BOOLEAN]
      /\ last_size' \in [Cpu' -> 0 .. OutLen]
  BY <1>1, <1>2 DEF PollTypes
<1> QED BY <1>4, <1>5 DEF PollTypes

LEMMA PollCtrlC ==
  ASSUME PollTypes, CtrlC
  PROVE  PollTypes'
<1>1. UNCHANGED <<stream, avail, flags, tx, last_size>>
  BY DEF CtrlC, capture, hw
<1>2. G_STOP' \in BOOLEAN
  BY DEF CtrlC
<1>3. \A c \in Cpu' : avail'[c] <= Len(stream'[c])
  BY <1>1 DEF PollTypes, Cpu
<1>4. flags' \in [Cpu' -> BOOLEAN] /\ tx' \in [Cpu' -> BOOLEAN] /\ last_size' \in [Cpu' -> 0 .. OutLen]
  BY <1>1 DEF PollTypes, Cpu
<1> QED BY <1>2, <1>3, <1>4 DEF PollTypes

LEMMA PollDrop ==
  ASSUME PollTypes, DropTx
  PROVE  PollTypes'
<1>1. UNCHANGED <<stream, avail, G_STOP, flags, last_size>> /\ tx' = [tx EXCEPT ![idx] = FALSE]
  BY DEF DropTx, capture, hw
<1>2. tx' \in [Cpu -> BOOLEAN]
  BY <1>1, Zenon DEF PollTypes
<1>3. \A c \in Cpu' : avail'[c] <= Len(stream'[c])
  BY <1>1 DEF PollTypes, Cpu
<1>4. G_STOP' \in BOOLEAN /\ flags' \in [Cpu' -> BOOLEAN] /\ last_size' \in [Cpu' -> 0 .. OutLen]
  BY <1>1 DEF PollTypes, Cpu
<1>5. tx' \in [Cpu' -> BOOLEAN]
  BY <1>1, <1>2 DEF Cpu
<1> QED BY <1>3, <1>4, <1>5 DEF PollTypes

\* The loop's flags stay Booleans.
LEMMA PollProcess ==
  ASSUME OnlineTypes, PollTypes, Process
  PROVE  PollTypes'
<1>1. UNCHANGED <<stream, avail, G_STOP, tx, last_size>>
  BY DEF Process, hw
<1>2. PICK f : f = [flags EXCEPT ![idx] = @ \/ G_STOP]
  OBVIOUS
<1>3. f \in [Cpu -> BOOLEAN]
  BY <1>2, Zenon DEF PollTypes
<1>4. flags' = flags \/ flags' = f \/ flags' = NextFlags(f)
  BY <1>2 DEF Process
<1>5. NextFlags(f) = f \/ NextFlags(f) = [c \in Cpu |-> FALSE]
  BY DEF NextFlags
<1>6. [c \in Cpu |-> FALSE] \in [Cpu -> BOOLEAN]
  BY Zenon
<1>7. flags' \in [Cpu -> BOOLEAN]
  BY <1>3, <1>4, <1>5, <1>6, Zenon DEF PollTypes
<1>8. \A c \in Cpu' : avail'[c] <= Len(stream'[c])
  BY <1>1 DEF PollTypes, Cpu
<1>9. G_STOP' \in BOOLEAN /\ tx' \in [Cpu' -> BOOLEAN] /\ last_size' \in [Cpu' -> 0 .. OutLen]
  BY <1>1 DEF PollTypes, Cpu
<1>10. flags' \in [Cpu' -> BOOLEAN]
  BY <1>1, <1>7 DEF Cpu
<1> QED BY <1>8, <1>9, <1>10 DEF PollTypes

\* What fetch_data does, in terms of the size it returns.
LEMMA FetchIs ==
  ASSUME OnlineTypes, PollTypes, Fetch
  PROVE  \E size \in Nat :
           /\ size <= OutLen /\ captured[idx] + size <= avail[idx]
           /\ pc = "fetch" /\ pc' = "process"
           /\ chunk' = Part(stream[idx], captured[idx] + 1, captured[idx] + size)
           /\ captured' = [captured EXCEPT ![idx] = @ + size]
           /\ last_size' = [last_size EXCEPT ![idx] = size]
<1>1. PICK i \in Cpu : i = idx
  BY DEF OnlineTypes
<1>2. /\ avail[i] \in Nat /\ captured[i] \in Nat /\ captured[i] <= avail[i]
      /\ OutLen \in Nat /\ avail[i] - captured[i] \in Nat
  BY OnlineAssumption DEF OnlineTypes
<1>3. PICK size \in Nat : size = ReadSize
  BY <1>1, <1>2, MinOfTwo DEF ReadSize
<1>4. size <= avail[i] - captured[i] /\ size <= OutLen
  BY <1>1, <1>2, <1>3, MinOfTwo DEF ReadSize
<1>5. captured[i] + size <= avail[i]
  BY <1>2, <1>4
<1> QED BY <1>1, <1>3, <1>4, <1>5 DEF Fetch, Part

LEMMA PollFetch ==
  ASSUME OnlineTypes, PollTypes, Fetch
  PROVE  PollTypes'
<1>1. UNCHANGED <<stream, avail, G_STOP, flags, tx>>
  BY DEF Fetch, hw
<1>2. PICK size \in Nat : size <= OutLen /\ last_size' = [last_size EXCEPT ![idx] = size]
  BY FetchIs
<1>3. last_size' \in [Cpu -> 0 .. OutLen]
  <2>1. size \in 0 .. OutLen
    BY <1>2, OnlineAssumption
  <2> QED BY <1>2, <2>1 DEF PollTypes
<1>4. \A c \in Cpu' : avail'[c] <= Len(stream'[c])
  BY <1>1 DEF PollTypes, Cpu
<1>5. G_STOP' \in BOOLEAN /\ flags' \in [Cpu' -> BOOLEAN] /\ tx' \in [Cpu' -> BOOLEAN]
  BY <1>1 DEF PollTypes, Cpu
<1> QED BY <1>1, <1>3, <1>4, <1>5 DEF PollTypes, Cpu

-----------------------------------------------------------------------------
(* From the rings to the spliters.                                         *)

LEMMA TraceFetch ==
  ASSUME OnlineTypes, PollTypes, PipeTypes, ChunkInv, TraceInv, PanicInv, Fetch
  PROVE  PipeTypes' /\ ChunkInv' /\ TraceInv' /\ PanicInv'
<1>1. UNCHANGED <<stream, idx, chan, spl, assemed, sent, queue, data, skipped, result>>
  BY DEF Fetch, hw, spliters, workers, output
<1>2. Cpu' = Cpu /\ Worker' = Worker
  BY <1>1, SameMachine
<1>3. PICK i \in Cpu : i = idx
  BY DEF OnlineTypes
<1>4. PICK n \in Nat : n = captured[i]
  BY StreamIs
<1>5. PICK size \in Nat :
        /\ size <= OutLen /\ n + size <= avail[i]
        /\ pc = "fetch" /\ pc' = "process"
        /\ chunk' = Part(stream[i], n + 1, n + size)
        /\ captured' = [captured EXCEPT ![i] = @ + size]
  BY <1>3, <1>4, FetchIs
<1>6. stream[i] \in Seq(Token) /\ n + size <= Len(stream[i])
  <2>1. stream[i] \in Seq(Token) /\ avail[i] \in Nat /\ Len(stream[i]) \in Nat /\ avail[i] <= Len(stream[i])
    BY StreamIs
  <2> QED BY <1>5, <2>1
<1>7. chunk' \in Seq(Token) /\ Len(chunk') = size
  <2>1. PICK st \in Seq(Token), k \in Nat, j \in Nat : st = stream[i] /\ k = n + 1 /\ j = n + size
    BY <1>6
  <2>2. 1 <= k /\ j <= Len(st) /\ k <= j + 1 /\ j - k + 1 = size
    BY <1>6, <2>1
  <2>3. Part(st, k, j) \in Seq(Token) /\ Len(Part(st, k, j)) = j - k + 1
    BY <2>2, PartIs
  <2> QED BY <1>5, <2>1, <2>2, <2>3
<1>8. captured'[i] = n + size /\ \A c \in Cpu : c # i => captured'[c] = captured[c]
  BY <1>3, <1>4, <1>5 DEF OnlineTypes
<1>9. PipeTypes'
  BY <1>1, <1>2, <1>5, <1>7 DEF PipeTypes
<1>10. ChunkInv'
  <2>1. n + size - size + 1 = n + 1 /\ size <= n + size
    OBVIOUS
  <2>2. stream'[idx'] = stream[i] /\ captured'[idx'] = n + size
    BY <1>1, <1>3, <1>8
  <2>3. /\ Len(chunk') <= captured'[idx']
        /\ chunk' = Part(stream'[idx'], captured'[idx'] - Len(chunk') + 1, captured'[idx'])
    BY <1>5, <1>7, <2>1, <2>2
  <2> QED BY <1>5, <2>3 DEF ChunkInv
<1>11. ASSUME NEW c \in Cpu  PROVE  captured'[c] - Held(c)' = captured[c] - Held(c)
  <2>1. Held(c) = 0
    <3>1. chunk = << >> /\ Len(<< >>) = 0
      BY <1>5 DEF ChunkInv
    <3> QED BY <3>1 DEF Held
  <2>2. Held(c)' = IF c = i THEN size ELSE 0
    BY <1>1, <1>3, <1>7 DEF Held
  <2>3. captured[c] \in Nat
    BY StreamIs
  <2>4. CASE c = i
    <3>1. n + size - size = n - 0
      OBVIOUS
    <3> QED BY <1>4, <1>8, <2>1, <2>2, <2>4, <3>1
  <2>5. CASE c # i
    BY <1>8, <2>1, <2>2, <2>5
  <2> QED BY <2>4, <2>5
<1>12. TraceInv'
  BY <1>1, <1>2, <1>11 DEF TraceInv
<1>13. \A c \in Cpu : TwoMarks(c) => TwoMarks(c)'
  <2> SUFFICES ASSUME NEW c \in Cpu  PROVE  TwoMarks(c) => TwoMarks(c)'
    OBVIOUS
  <2>1. CASE c # i
    BY <1>1, <1>8, <2>1 DEF TwoMarks
  <2>2. CASE c = i
    <3>1. Marks(Part(stream[i], 1, n)) \subseteq Marks(Part(stream[i], 1, n + size))
      <4>1. n + size \in Nat /\ n <= n + size
        OBVIOUS
      <4> QED BY <1>6, <4>1, MarksGrow
    <3> QED BY <1>1, <1>4, <1>8, <2>2, <3>1 DEF TwoMarks
  <2> QED BY <2>1, <2>2
<1>14. PanicInv'
  BY <1>1, <1>2, <1>5, <1>13 DEF PanicInv
<1> QED BY <1>9, <1>10, <1>12, <1>14

\* What processor() does to the channel.
LEMMA ProcessIs ==
  ASSUME OnlineTypes, CrashInv, Process
  PROVE  /\ pc = "process" /\ chunk' = << >> /\ pc' \in {"crashed", "drop", "fetch"}
         /\ pc' = "crashed" => spl[idx] = "panic" /\ chan' = chan
         /\ pc' # "crashed" => /\ chunk = << >> => chan' = chan
                               /\ chunk # << >> => /\ spl[idx] = "run"
                                                   /\ chan' = [chan EXCEPT ![idx] = Append(@, chunk)]
<1>1. pc = "process" /\ chunk' = << >>
  BY DEF Process
<1>2. Capturing /\ idx \in Cpu
  BY <1>1 DEF Capturing, OnlineTypes
<1>3. spl[idx] # "done"
  BY <1>2 DEF CrashInv
<1>4. spl[idx] \in {"run", "panic"}
  BY <1>2, <1>3 DEF OnlineTypes
<1>5. \/ pc' = "crashed" /\ spl[idx] # "run" /\ chan' = chan
      \/ /\ pc' \in {"drop", "fetch"} /\ (chunk = << >> \/ spl[idx] = "run")
         /\ chan' = IF chunk = << >> THEN chan ELSE [chan EXCEPT ![idx] = Append(@, chunk)]
  BY DEF Process
<1> QED BY <1>1, <1>4, <1>5

LEMMA TraceProcess ==
  ASSUME OnlineTypes, PollTypes, PipeTypes, CrashInv, ChunkInv, TraceInv, PanicInv, Process
  PROVE  PipeTypes' /\ ChunkInv' /\ TraceInv' /\ PanicInv'
<1>1. UNCHANGED <<stream, captured, spl, assemed, sent, queue, data, skipped, result>>
  BY DEF Process, hw, spliters, workers, output
<1>2. Cpu' = Cpu /\ Worker' = Worker
  BY <1>1, SameMachine
<1>3. PICK i \in Cpu : i = idx
  BY DEF OnlineTypes
<1>4. pc = "process" /\ chunk' = << >> /\ pc' \in {"crashed", "drop", "fetch"} /\ Len(<< >>) = 0
  BY ProcessIs
<1>5. ChunkInv'
  BY <1>4 DEF ChunkInv
<1>6. PICK m \in Nat, n \in Nat : m = Len(chunk) /\ n = captured[i]
  <2>1. captured[i] \in Nat
    BY StreamIs
  <2>2. chunk \in Seq(Token)
    BY DEF PipeTypes
  <2>3. Len(chunk) \in Nat
    BY <2>2
  <2> QED BY <2>1, <2>3
<1>7. m <= n /\ m <= OutLen /\ chunk = Part(stream[i], n - m + 1, n)
  BY <1>3, <1>4, <1>6 DEF ChunkInv, PipeTypes
<1>8. chan' \in [Cpu -> Seq(Seq(Token))]
  <2>1. chan' = chan \/ chan' = [chan EXCEPT ![i] = Append(@, chunk)]
    BY <1>3, <1>4, ProcessIs
  <2>2. Append(chan[i], chunk) \in Seq(Seq(Token))
    <3>1. chan[i] \in Seq(Seq(Token)) /\ chunk \in Seq(Token)
      BY DEF PipeTypes
    <3> QED BY <3>1
  <2> QED BY <2>1, <2>2 DEF PipeTypes
<1>9. PipeTypes'
  <2>1. chunk' \in Seq(Token) /\ Len(chunk') <= OutLen
    BY <1>4, OnlineAssumption
  <2> QED BY <1>1, <1>2, <1>8, <2>1 DEF PipeTypes
<1>10. \A c : Held(c)' = 0
  BY <1>4 DEF Held
<1>11. ASSUME NEW c \in Cpu, spl[c] # "panic"
       PROVE  Traced(stream[c], chan'[c], captured[c] - 0, sent[c], assemed[c])
  <2>1. Traced(stream[c], chan[c], captured[c] - Held(c), sent[c], assemed[c])
    BY <1>11 DEF TraceInv
  <2>2. captured[c] \in Nat
    BY StreamIs
  <2>3. CASE c # i
    <3>1. chan'[c] = chan[c]
      BY <1>3, <1>4, <2>3, ProcessIs DEF PipeTypes
    <3>2. Held(c) = 0
      BY <1>3, <2>3 DEF Held
    <3> QED BY <2>1, <3>1, <3>2
  <2>4. CASE c = i
    <3>1. Held(c) = m
      BY <1>3, <1>6, <2>4 DEF Held
    <3>2. pc' # "crashed"
      BY <1>3, <1>11, <2>4, ProcessIs
    <3>3. CASE chunk = << >>
      <4>1. m = 0 /\ chan' = chan
        BY <1>4, <1>6, <3>2, <3>3, ProcessIs
      <4> QED BY <2>1, <3>1, <4>1
    <3>4. CASE chunk # << >>
      <4>1. chan' = [chan EXCEPT ![i] = Append(@, chunk)]
        BY <1>3, <3>2, <3>4, ProcessIs
      <4>2. chan'[i] = Append(chan[i], chunk)
        BY <4>1 DEF PipeTypes
      <4>3. PICK e \in Nat : e = n - m
        BY <1>7
      <4>4. e <= n /\ n - e <= OutLen /\ n - 0 = n
        <5>1. OutLen \in Nat
          BY OnlineAssumption
        <5> QED BY <1>7, <4>3, <5>1
      <4>5. n <= Len(stream[i])
        BY <1>6, StreamIs
      <4>6. Traced(stream[i], chan[i], e, sent[i], assemed[i])
        BY <1>6, <2>1, <2>4, <3>1, <4>3
      <4>7. chunk = Part(stream[i], e + 1, n)
        BY <1>7, <4>3
      <4>8. Traced(stream[i], Append(chan[i], chunk), n, sent[i], assemed[i])
        BY <4>4, <4>5, <4>6, <4>7, TraceSend
      <4> QED BY <1>6, <2>4, <4>2, <4>4, <4>8
    <3> QED BY <3>3, <3>4
  <2> QED BY <2>3, <2>4
<1>12. TraceInv'
  BY <1>1, <1>2, <1>10, <1>11 DEF TraceInv
<1>13. PanicInv'
  <2>1. \A c : TwoMarks(c)' <=> TwoMarks(c)
    BY <1>1 DEF TwoMarks
  <2>2. pc' = "crashed" => spl[i] = "panic"
    BY <1>3, ProcessIs
  <2> QED BY <1>1, <1>2, <2>1, <2>2 DEF PanicInv
<1> QED BY <1>5, <1>9, <1>12, <1>13

-----------------------------------------------------------------------------
(* The spliters.                                                           *)

LEMMA OccJoin ==
  ASSUME NEW s \in Seq(Seq(Token)), NEW t \in Seq(Seq(Token)), NEW p, IsJoin(p, s, t), NEW a \in Addr
  PROVE  Occ(p, a) = Occ(s, a) + Occ(t, a)
<1>1. p = s \o t
  BY DEF IsJoin
<1>2. Occ(s \o t, a) = Occ(s, a) + Occ(t, a)
  BY OccConcat
<1> QED BY <1>1, <1>2

\* The two outcomes of a turn of spliter c, with the pieces it cuts off d.
TurnPanics(c, pieces) ==
  /\ pieces # << >> /\ NoReceiver
  /\ spl' = [spl EXCEPT ![c] = "panic"]
  /\ UNCHANGED <<chan, assemed, sent, queue>>

TurnSends(c, d, off, pieces) ==
  /\ pieces = << >> \/ ~NoReceiver
  /\ chan' = [chan EXCEPT ![c] = Tail(@)]
  /\ assemed' = [assemed EXCEPT ![c] = Kept(d, off)]
  /\ sent' \in [Cpu -> Seq(Seq(Token))] /\ IsJoin(sent'[c], sent[c], pieces)
  /\ \A b \in Cpu : b # c => sent'[b] = sent[b]
  /\ queue' \in Seq(Seq(Token)) /\ IsJoin(queue', queue, pieces)
  /\ UNCHANGED spl

CutBy(c, d, off, pieces) ==
  /\ d \in Seq(Token) /\ IsJoin(d, assemed[c], Head(chan[c]))
  /\ Lists(off, Marks(d))
  /\ pieces = Pieces(d, off) /\ pieces \in Seq(Seq(Token))
  /\ pieces # << >> <=> Len(off) >= 2

LEMMA SpliterIs ==
  ASSUME OnlineTypes, PipeTypes, NEW c \in Cpu, SpliterTurn(c)
  PROVE  /\ spl[c] = "run" /\ chan[c] # << >>
         /\ chan[c] \in Seq(Seq(Token)) /\ Tail(chan[c]) \in Seq(Seq(Token))
         /\ \E d, off, pieces : /\ CutBy(c, d, off, pieces)
                                /\ TurnPanics(c, pieces) \/ TurnSends(c, d, off, pieces)
<1>1. spl[c] = "run" /\ chan[c] # << >> /\ chan[c] \in Seq(Seq(Token))
  BY DEF SpliterTurn, PipeTypes
<1>2. PICK h \in Seq(Token) : h = Head(chan[c])
  <2>1. Head(chan[c]) \in Seq(Token)
    BY <1>1, HeadTailProperties
  <2> QED BY <2>1
<1>3. Tail(chan[c]) \in Seq(Seq(Token))
  BY <1>1, HeadTailProperties
<1>4. PICK d : d = assemed[c] \o Head(chan[c])
  OBVIOUS
<1>5. d \in Seq(Token) /\ IsJoin(d, assemed[c], Head(chan[c]))
  <2>1. assemed[c] \in Seq(Token)
    BY DEF PipeTypes
  <2> QED BY <1>2, <1>4, <2>1, ConcatIs DEF IsJoin
<1>6. PICK off : off = Split(d)
  OBVIOUS
<1>7. Lists(off, Marks(d))
  BY <1>5, <1>6, SplitLists
<1>8. PICK pieces : pieces = Pieces(d, off)
  OBVIOUS
<1>9. pieces \in Seq(Seq(Token)) /\ Len(pieces) = IF Len(off) = 0 THEN 0 ELSE Len(off) - 1
  BY <1>5, <1>7, <1>8, PiecesIs
<1>10. pieces # << >> <=> Len(off) >= 2
  <2>1. Len(off) \in Nat
    BY <1>7, ListLength
  <2>2. pieces # << >> <=> Len(pieces) # 0
    BY <1>9, EmptySeq
  <2> QED BY <1>9, <2>1, <2>2
<1>11. CutBy(c, d, off, pieces)
  BY <1>5, <1>7, <1>8, <1>9, <1>10 DEF CutBy
<1>12. \/ /\ pieces # << >> /\ NoReceiver
          /\ spl' = [spl EXCEPT ![c] = "panic"]
          /\ UNCHANGED <<chan, assemed, sent, queue>>
       \/ /\ pieces = << >> \/ ~NoReceiver
          /\ chan' = [chan EXCEPT ![c] = Tail(@)]
          /\ assemed' = [assemed EXCEPT ![c] = Kept(d, off)]
          /\ sent' = [sent EXCEPT ![c] = @ \o pieces]
          /\ queue' = queue \o pieces
          /\ UNCHANGED spl
  BY <1>4, <1>6, <1>8 DEF SpliterTurn
<1>13. sent[c] \in Seq(Seq(Token)) /\ queue \in Seq(Seq(Token))
  BY DEF PipeTypes
<1>14. PICK s2 : s2 = sent[c] \o pieces
  OBVIOUS
<1>15. s2 \in Seq(Seq(Token)) /\ queue \o pieces \in Seq(Seq(Token))
  BY <1>9, <1>13, <1>14, ConcatIs
<1>16. sent' = [sent EXCEPT ![c] = @ \o pieces] =>
         /\ sent' \in [Cpu -> Seq(Seq(Token))] /\ sent'[c] = s2
         /\ \A b \in Cpu : b # c => sent'[b] = sent[b]
  <2> SUFFICES ASSUME sent' = [sent EXCEPT ![c] = s2]
               PROVE  /\ sent' \in [Cpu -> Seq(Seq(Token))] /\ sent'[c] = s2
                      /\ \A b \in Cpu : b # c => sent'[b] = sent[b]
    BY <1>14
  <2> QED BY <1>15 DEF PipeTypes
<1>17. TurnPanics(c, pieces) \/ TurnSends(c, d, off, pieces)
  BY <1>12, <1>14, <1>15, <1>16 DEF TurnPanics, TurnSends, IsJoin
<1> QED BY <1>1, <1>3, <1>11, <1>17

\* The main thread holds no more of a ring than it has captured.
LEMMA HeldIs ==
  ASSUME OnlineTypes, PollTypes, PipeTypes, ChunkInv, NEW c \in Cpu
  PROVE  /\ captured[c] \in Nat /\ Held(c) \in Nat
         /\ captured[c] - Held(c) \in Nat /\ captured[c] - Held(c) <= captured[c]
<1>1. captured[c] \in Nat
  BY StreamIs
<1>2. chunk \in Seq(Token)
  BY DEF PipeTypes
<1>3. Len(chunk) \in Nat
  BY <1>2
<1>4. idx = c => Len(chunk) <= captured[c]
  <2>1. CASE pc = "process"
    BY <2>1 DEF ChunkInv
  <2>2. CASE pc # "process"
    <3>1. Len(chunk) = 0
      BY <2>2 DEF ChunkInv
    <3> QED BY <1>1, <3>1
  <2> QED BY <2>1, <2>2
<1>5. Held(c) \in Nat /\ Held(c) <= captured[c]
  BY <1>1, <1>3, <1>4 DEF Held
<1> QED BY <1>1, <1>5

\* A turn keeps every spliter's output the cut of its input.
LEMMA TraceSpliter ==
  ASSUME OnlineTypes, PollTypes, PipeTypes, ChunkInv, TraceInv, PanicInv, NEW i \in Cpu, SpliterTurn(i)
  PROVE  PipeTypes' /\ TraceInv' /\ PanicInv'
<1>1. UNCHANGED <<stream, captured, idx, pc, chunk, data, skipped, result>>
  BY DEF SpliterTurn, hw, capture, workers, output
<1>2. Cpu' = Cpu /\ Worker' = Worker
  BY <1>1, SameMachine
<1>3. /\ spl[i] = "run" /\ chan[i] # << >>
      /\ chan[i] \in Seq(Seq(Token)) /\ Tail(chan[i]) \in Seq(Seq(Token))
  BY SpliterIs
<1>4. PICK d, off, pieces : /\ CutBy(i, d, off, pieces)
                            /\ TurnPanics(i, pieces) \/ TurnSends(i, d, off, pieces)
  BY SpliterIs
<1>5. PICK e \in Nat : e = captured[i] - Held(i)
  BY HeldIs
<1>6. e <= captured[i]
  BY <1>5, HeldIs
<1>7. Traced(stream[i], chan[i], e, sent[i], assemed[i])
  BY <1>3, <1>5 DEF TraceInv
<1>8. d = assemed[i] \o Head(chan[i]) /\ Lists(off, Marks(d)) /\ pieces = Pieces(d, off)
  BY <1>4 DEF CutBy, IsJoin
<1>9. Len(off) >= 2 => TwoMarks(i)
  <2>1. PICK s2 : IsJoin(s2, sent[i], Pieces(d, off))
    BY DEF IsJoin
  <2>2. Len(off) >= 2 => \E u, v \in Marks(Part(stream[i], 1, e)) : u < v
    BY <1>3, <1>7, <1>8, <2>1, TraceTurn
  <2>3. Marks(Part(stream[i], 1, e)) \subseteq Marks(Part(stream[i], 1, captured[i]))
    <3>1. stream[i] \in Seq(Token) /\ captured[i] \in Nat /\ captured[i] <= Len(stream[i])
      BY StreamIs
    <3> QED BY <1>6, <3>1, MarksGrow
  <2> QED BY <2>2, <2>3 DEF TwoMarks
<1>10. \A c : TwoMarks(c)' <=> TwoMarks(c)
  BY <1>1 DEF TwoMarks
<1>11. \A c : Held(c)' = Held(c)
  BY <1>1 DEF Held
<1>12. CASE TurnPanics(i, pieces)
  <2>1. UNCHANGED <<chan, assemed, sent, queue>>
    BY <1>12 DEF TurnPanics
  <2>2. \A c \in Cpu : spl'[c] = IF c = i THEN "panic" ELSE spl[c]
    BY <1>12 DEF TurnPanics, OnlineTypes
  <2>3. TwoMarks(i)
    BY <1>4, <1>9, <1>12 DEF CutBy, TurnPanics
  <2>4. TraceInv'
    BY <1>1, <1>2, <1>11, <2>1, <2>2 DEF TraceInv
  <2>5. PanicInv'
    BY <1>1, <1>2, <1>10, <2>2, <2>3 DEF PanicInv
  <2> QED BY <1>1, <2>1, <2>4, <2>5, SamePipe
<1>13. CASE TurnSends(i, d, off, pieces)
  <2>1. spl' = spl /\ \A c \in Cpu : c # i => sent'[c] = sent[c]
    BY <1>13 DEF TurnSends
  <2>2. Kept(d, off) \in Seq(Token)
    <3>1. d \in Seq(Token)
      BY <1>4 DEF CutBy
    <3> QED BY <1>8, <3>1, KeptIs
  <2>3. /\ chan' \in [Cpu -> Seq(Seq(Token))] /\ chan'[i] = Tail(chan[i])
        /\ \A c \in Cpu : c # i => chan'[c] = chan[c]
    <3>1. PICK t \in Seq(Seq(Token)) : t = Tail(chan[i])
      BY <1>3
    <3>2. chan' = [chan EXCEPT ![i] = t]
      BY <1>13, <3>1 DEF TurnSends
    <3>3. chan' \in [Cpu -> Seq(Seq(Token))] /\ chan'[i] = t /\ \A c \in Cpu : c # i => chan'[c] = chan[c]
      BY <3>2 DEF PipeTypes
    <3> QED BY <3>1, <3>3
  <2>4. /\ assemed' \in [Cpu -> Seq(Token)] /\ assemed'[i] = Kept(d, off)
        /\ \A c \in Cpu : c # i => assemed'[c] = assemed[c]
    <3>1. PICK k \in Seq(Token) : k = Kept(d, off)
      BY <2>2
    <3>2. assemed' = [assemed EXCEPT ![i] = k]
      BY <1>13, <3>1 DEF TurnSends
    <3>3. /\ assemed' \in [Cpu -> Seq(Token)] /\ assemed'[i] = k
          /\ \A c \in Cpu : c # i => assemed'[c] = assemed[c]
      BY <3>2 DEF PipeTypes
    <3> QED BY <3>1, <3>3
  <2>5. sent' \in [Cpu -> Seq(Seq(Token))] /\ queue' \in Seq(Seq(Token))
    BY <1>13 DEF TurnSends
  <2>6. PipeTypes'
    BY <1>1, <1>2, <2>3, <2>4, <2>5 DEF PipeTypes
  <2>7. Traced(stream[i], Tail(chan[i]), e, sent'[i], Kept(d, off))
    <3>1. IsJoin(sent'[i], sent[i], Pieces(d, off))
      BY <1>8, <1>13 DEF TurnSends
    <3> QED BY <1>3, <1>7, <1>8, <3>1, TraceTurn
  <2>8. TraceInv'
    <3> SUFFICES ASSUME NEW c \in Cpu, spl[c] # "panic"
                 PROVE  Traced(stream[c], chan'[c], captured[c] - Held(c), sent'[c], assemed'[c])
      BY <1>1, <1>2, <1>11, <2>1 DEF TraceInv
    <3>1. CASE c = i
      BY <1>5, <2>3, <2>4, <2>7, <3>1
    <3>2. CASE c # i
      BY <2>1, <2>3, <2>4, <3>2 DEF TraceInv
    <3> QED BY <3>1, <3>2
  <2>9. PanicInv'
    BY <1>1, <1>2, <1>10, <2>1 DEF PanicInv
  <2> QED BY <2>6, <2>8, <2>9
<1> QED BY <1>4, <1>12, <1>13

-----------------------------------------------------------------------------
(* Counting.                                                               *)

LEMMA MachineFinite ==
  ASSUME OnlineTypes
  PROVE  IsFiniteSet(Cpu) /\ IsFiniteSet(Worker)
<1>1. PICK n \in Nat : n >= 1 /\ Cpu = 0 .. n - 1 /\ Worker = 0 .. n - 2
  BY CpuShape DEF OnlineTypes
<1>2. 0 \in Int /\ n - 1 \in Int /\ n - 2 \in Int
  BY <1>1
<1>3. IsFiniteSet(0 .. n - 1) /\ IsFiniteSet(0 .. n - 2)
  BY <1>2, FS_Interval
<1> QED BY <1>1, <1>3

\* The sums of CountInv.
SumData(a) == SumFunction([w \in Worker |-> data[w][a]])
SumSent(a) == SumFunction([c \in Cpu |-> Occ(sent[c], a)])

LEMMA SumTypes ==
  ASSUME OnlineTypes, PipeTypes, NEW a \in Addr
  PROVE  SumData(a) \in Nat /\ SumSent(a) \in Nat /\ skipped[a] \in Nat /\ Occ(queue, a) \in Nat
<1>1. PICK f : f = [w \in Worker |-> data[w][a]]
  OBVIOUS
<1>2. f \in [Worker -> Nat]
  BY <1>1 DEF PipeTypes
<1>3. SumFunction(f) \in Nat
  BY <1>2, MachineFinite, SumUnits
<1>4. PICK g : g = [c \in Cpu |-> Occ(sent[c], a)]
  OBVIOUS
<1>5. g \in [Cpu -> Nat]
  <2>1. \A c \in Cpu : Occ(sent[c], a) \in Nat
    BY OccType DEF PipeTypes
  <2> QED BY <1>4, <2>1
<1>6. SumFunction(g) \in Nat
  BY <1>5, MachineFinite, SumUnits
<1>7. Occ(queue, a) \in Nat /\ skipped[a] \in Nat
  BY OccType DEF PipeTypes
<1> QED BY <1>1, <1>3, <1>4, <1>6, <1>7 DEF SumData, SumSent

LEMMA CountSpliter ==
  ASSUME OnlineTypes, PipeTypes, CountInv, NEW i \in Cpu, SpliterTurn(i)
  PROVE  CountInv'
<1>1. UNCHANGED <<stream, data, skipped>>
  BY DEF SpliterTurn, hw, workers
<1>2. Cpu' = Cpu /\ Worker' = Worker
  BY <1>1, SameMachine
<1>3. PICK d, off, pieces : /\ CutBy(i, d, off, pieces)
                            /\ TurnPanics(i, pieces) \/ TurnSends(i, d, off, pieces)
  BY SpliterIs
<1>4. CASE TurnPanics(i, pieces)
  BY <1>1, <1>4, SameCount DEF TurnPanics
<1>5. CASE TurnSends(i, d, off, pieces)
  <2> SUFFICES ASSUME NEW a \in Addr
               PROVE  SumData(a) + skipped[a] + Occ(queue', a) = SumFunction([c \in Cpu |-> Occ(sent'[c], a)])
    BY <1>1, <1>2 DEF CountInv, SumData
  <2>1. /\ sent' \in [Cpu -> Seq(Seq(Token))] /\ IsJoin(sent'[i], sent[i], pieces)
        /\ \A c \in Cpu : c # i => sent'[c] = sent[c]
        /\ IsJoin(queue', queue, pieces)
    BY <1>5 DEF TurnSends
  <2>2. pieces \in Seq(Seq(Token)) /\ queue \in Seq(Seq(Token)) /\ sent \in [Cpu -> Seq(Seq(Token))]
    BY <1>3 DEF CutBy, PipeTypes
  <2>3. PICK k \in Nat : k = Occ(pieces, a)
    BY <2>2, OccType
  <2>4. Occ(queue', a) = Occ(queue, a) + k
    BY <2>1, <2>2, <2>3, OccJoin
  <2>5. Occ(sent'[i], a) = Occ(sent[i], a) + k
    <3>1. sent[i] \in Seq(Seq(Token))
      BY <2>2
    <3> QED BY <2>1, <2>2, <2>3, <3>1, OccJoin
  <2>6. PICK f, g : f = [c \in Cpu |-> Occ(sent[c], a)] /\ g = [c \in Cpu |-> Occ(sent'[c], a)]
    OBVIOUS
  <2>7. \A c \in Cpu : Occ(sent[c], a) \in Nat /\ Occ(sent'[c], a) \in Nat
    <3> SUFFICES ASSUME NEW c \in Cpu  PROVE  Occ(sent[c], a) \in Nat /\ Occ(sent'[c], a) \in Nat
      OBVIOUS
    <3>1. sent[c] \in Seq(Seq(Token)) /\ sent'[c] \in Seq(Seq(Token))
      BY <2>1, <2>2
    <3> QED BY <3>1, OccType
  <2>8. f \in [Cpu -> Nat] /\ g \in [Cpu -> Nat] /\ g[i] = f[i] + k
    BY <2>5, <2>6, <2>7
  <2>9. \A c \in Cpu : c # i => f[c] = g[c]
    BY <2>1, <2>6
  <2>10. SumFunction(g) + f[i] = SumFunction(f) + g[i]
    BY <2>8, <2>9, MachineFinite, SumChange
  <2>11. SumFunction(f) \in Nat /\ SumFunction(g) \in Nat /\ f[i] \in Nat
    BY <2>8, MachineFinite, SumUnits
  <2>12. SumFunction(g) = SumFunction(f) + k
    BY <2>8, <2>10, <2>11
  <2>13. SumData(a) + skipped[a] + Occ(queue, a) = SumFunction(f)
    BY <2>6 DEF CountInv, SumData
  <2>14. SumData(a) \in Nat /\ skipped[a] \in Nat /\ Occ(queue, a) \in Nat
    BY SumTypes
  <2> QED BY <2>4, <2>6, <2>12, <2>13, <2>14
<1> QED BY <1>3, <1>4, <1>5

\* A worker's turn, with what it counts and what it gives up on.
LEMMA WorkerIs ==
  ASSUME OnlineTypes, PipeTypes, NEW i \in Worker, WorkerTurn(i)
  PROVE  /\ wrk[i] = "run" /\ queue # << >> /\ queue' = Tail(queue) /\ queue' \in Seq(Seq(Token))
         /\ \E n1 \in [Addr -> Nat], n2 \in [Addr -> Nat] :
              /\ \A a \in Addr : Occ(queue, a) = n1[a] + n2[a] + Occ(queue', a)
              /\ data' \in [Worker -> [Addr -> Nat]] /\ skipped' \in [Addr -> Nat]
              /\ \A a \in Addr : data'[i][a] = data[i][a] + n1[a]
              /\ \A w \in Worker : w # i => data'[w] = data[w]
              /\ \A a \in Addr : skipped'[a] = skipped[a] + n2[a]
<1>1. wrk[i] = "run" /\ queue # << >> /\ queue' = Tail(queue)
  BY DEF WorkerTurn
<1>2. queue \in Seq(Seq(Token))
  BY DEF PipeTypes
<1>3. PICK d \in Seq(Token) : d = Head(queue)
  <2>1. Head(queue) \in Seq(Token)
    BY <1>1, <1>2, HeadTailProperties
  <2> QED BY <2>1
<1>4. queue' \in Seq(Seq(Token))
  <2>1. Tail(queue) \in Seq(Seq(Token))
    BY <1>1, <1>2, HeadTailProperties
  <2> QED BY <1>1, <2>1
<1>5. PICK n \in 0 .. Len(d) :
        /\ data' = [data EXCEPT ![i] = Plus(@, Count(SubSeq(d, 1, n)))]
        /\ skipped' = Plus(skipped, Count(SubSeq(d, n + 1, Len(d))))
  BY <1>3 DEF WorkerTurn
<1>6. PICK n1, n2 : n1 = Count(SubSeq(d, 1, n)) /\ n2 = Count(SubSeq(d, n + 1, Len(d)))
  OBVIOUS
<1>7. n1 \in [Addr -> Nat] /\ n2 \in [Addr -> Nat]
  <2>1. CASE Addr = {}
    <3>1. DOMAIN n1 = Addr /\ DOMAIN n2 = Addr
      BY <1>6 DEF Count
    <3>2. n1 = [a \in Addr |-> n1[a]] /\ n2 = [a \in Addr |-> n2[a]]
      BY <1>6 DEF Count
    <3> QED BY <2>1, <3>1, <3>2
  <2>2. CASE Addr # {}
    <3>1. PICK a \in Addr : TRUE
      BY <2>2
    <3>2. SubSeq(d, 1, n) \in Seq(Token) /\ SubSeq(d, n + 1, Len(d)) \in Seq(Token)
      BY CountSplit
    <3> QED BY <1>6, <3>2, CountType
  <2> QED BY <2>1, <2>2
<1>8. ASSUME NEW a \in Addr  PROVE  n1[a] + n2[a] = Count(d)[a]
  BY <1>6, CountSplit
<1>9. ASSUME NEW a \in Addr  PROVE  Occ(queue, a) = n1[a] + n2[a] + Occ(queue', a)
  <2>1. Occ(queue, a) = Count(Head(queue))[a] + Occ(Tail(queue), a)
    BY <1>1, <1>2, OccTail
  <2> QED BY <1>1, <1>3, <1>8, <2>1
<1>10. data' = [data EXCEPT ![i] = Plus(@, n1)] /\ skipped' = Plus(skipped, n2)
  BY <1>5, <1>6
<1>11. skipped' \in [Addr -> Nat] /\ \A a \in Addr : skipped'[a] = skipped[a] + n2[a]
  BY <1>7, <1>10 DEF Plus, PipeTypes
<1>12. PICK f : f = Plus(data[i], n1)
  OBVIOUS
<1>13. f \in [Addr -> Nat] /\ \A a \in Addr : f[a] = data[i][a] + n1[a]
  <2>1. data[i] \in [Addr -> Nat]
    BY DEF PipeTypes
  <2> QED BY <1>7, <1>12, <2>1 DEF Plus
<1>14. data' = [data EXCEPT ![i] = f]
  BY <1>10, <1>12
<1>15. data' \in [Worker -> [Addr -> Nat]] /\ data'[i] = f /\ \A w \in Worker : w # i => data'[w] = data[w]
  BY <1>13, <1>14 DEF PipeTypes
<1> QED BY <1>1, <1>4, <1>7, <1>9, <1>11, <1>13, <1>15

LEMMA CountWorker ==
  ASSUME OnlineTypes, PipeTypes, CountInv, NEW i \in Worker, WorkerTurn(i)
  PROVE  PipeTypes' /\ CountInv'
<1>1. UNCHANGED <<stream, chunk, chan, assemed, sent, result>>
  BY DEF WorkerTurn, hw, capture, spliters, output
<1>2. Cpu' = Cpu /\ Worker' = Worker
  BY <1>1, SameMachine
<1>3. queue' \in Seq(Seq(Token))
  BY WorkerIs
<1>4. PICK n1 \in [Addr -> Nat], n2 \in [Addr -> Nat] :
        /\ \A a \in Addr : Occ(queue, a) = n1[a] + n2[a] + Occ(queue', a)
        /\ data' \in [Worker -> [Addr -> Nat]] /\ skipped' \in [Addr -> Nat]
        /\ \A a \in Addr : data'[i][a] = data[i][a] + n1[a]
        /\ \A w \in Worker : w # i => data'[w] = data[w]
        /\ \A a \in Addr : skipped'[a] = skipped[a] + n2[a]
  BY WorkerIs
<1>5. PipeTypes'
  BY <1>1, <1>2, <1>3, <1>4 DEF PipeTypes
<1>6. ASSUME NEW a \in Addr
      PROVE  SumFunction([w \in Worker |-> data'[w][a]]) + skipped'[a] + Occ(queue', a) = SumSent(a)
  <2>1. PICK f, g : f = [w \in Worker |-> data[w][a]] /\ g = [w \in Worker |-> data'[w][a]]
    OBVIOUS
  <2>2. f \in [Worker -> Nat] /\ g \in [Worker -> Nat]
    BY <1>4, <2>1 DEF PipeTypes
  <2>3. g[i] = f[i] + n1[a] /\ \A w \in Worker : w # i => f[w] = g[w]
    BY <1>4, <2>1
  <2>4. SumFunction(g) + f[i] = SumFunction(f) + g[i]
    BY <2>2, <2>3, MachineFinite, SumChange
  <2>5. SumFunction(f) \in Nat /\ SumFunction(g) \in Nat /\ f[i] \in Nat /\ n1[a] \in Nat /\ n2[a] \in Nat
    BY <2>2, MachineFinite, SumUnits
  <2>6. SumFunction(g) = SumFunction(f) + n1[a]
    BY <2>3, <2>4, <2>5
  <2>7. SumFunction(f) + skipped[a] + Occ(queue, a) = SumSent(a)
    BY <2>1 DEF CountInv, SumSent
  <2>8. skipped[a] \in Nat /\ Occ(queue', a) \in Nat
    BY <1>3, SumTypes, OccType
  <2>9. Occ(queue, a) = n1[a] + n2[a] + Occ(queue', a) /\ skipped'[a] = skipped[a] + n2[a]
    BY <1>4
  <2>10. SumFunction(g) + skipped'[a] + Occ(queue', a) = SumSent(a)
    BY <2>5, <2>6, <2>7, <2>8, <2>9
  <2> QED BY <2>1, <2>10
<1>7. CountInv'
  BY <1>1, <1>2, <1>6 DEF CountInv, SumSent
<1> QED BY <1>5, <1>7

-----------------------------------------------------------------------------
(* The end of the threads.                                                 *)

LEMMA EndFetch ==
  ASSUME EndInv, Fetch
  PROVE  EndInv'
<1>1. UNCHANGED <<stream, spl, chan, wrk, queue>> /\ pc' = "process"
  BY DEF Fetch, hw, spliters, workers
<1>2. Cpu' = Cpu /\ Worker' = Worker
  BY <1>1, SameMachine
<1> QED BY <1>1, <1>2 DEF EndInv, SplitersJoined, AllSplit, WorkersJoined, AllDecoded

LEMMA EndProcess ==
  ASSUME OnlineTypes, PipeTypes, CrashInv, EndInv, Process
  PROVE  EndInv'
<1>1. UNCHANGED <<stream, spl, wrk, queue>> /\ pc' \in {"crashed", "drop", "fetch"}
  BY ProcessIs DEF Process, hw, spliters, workers
<1>2. Cpu' = Cpu /\ Worker' = Worker
  BY <1>1, SameMachine
<1>3. pc' = "drop" => idx' = 0
  BY DEF Process
<1>4. Cpu \subseteq Nat
  <2>1. PICK n \in Nat : Cpu = 0 .. n - 1
    BY CpuShape DEF OnlineTypes
  <2> QED BY <2>1
<1>5. \A c \in Cpu : spl[c] = "done" => chan'[c] = << >>
  <2> SUFFICES ASSUME NEW c \in Cpu, spl[c] = "done"  PROVE  chan'[c] = << >>
    OBVIOUS
  <2>1. chan[c] = << >>
    BY DEF EndInv
  <2>2. chan' = chan \/ (spl[idx] = "run" /\ chan' = [chan EXCEPT ![idx] = Append(@, chunk)])
    BY ProcessIs
  <2>3. chan'[c] = chan[c]
    BY <2>2 DEF PipeTypes
  <2> QED BY <2>1, <2>3
<1>6. SplitersJoined'
  BY <1>2, <1>3, <1>1, <1>4 DEF SplitersJoined
<1> QED BY <1>1, <1>2, <1>5, <1>6 DEF EndInv, AllSplit, WorkersJoined, AllDecoded

LEMMA EndSpliter ==
  ASSUME OnlineTypes, PipeTypes, CrashInv, EndInv, NEW i \in Cpu, SpliterTurn(i) \/ SpliterEnd(i)
  PROVE  EndInv'
<1>1. UNCHANGED <<stream, pc, idx, wrk, data, result>> /\ spl[i] = "run" /\ pc \notin {"crashed", "lost"}
  BY DEF SpliterTurn, SpliterEnd, hw, workers, output, Alive
<1>2. Cpu' = Cpu /\ Worker' = Worker
  BY <1>1, SameMachine
<1>3. pc \notin {"wait", "collect", "write", "done", "lost"}
  BY <1>1 DEF EndInv, AllSplit
<1>4. \A w \in Worker : wrk[w] # "done"
  BY <1>1 DEF CrashInv
<1>5. \A c \in Cpu : c # i => spl'[c] = spl[c]
  <2>1. CASE SpliterEnd(i)
    BY <2>1 DEF SpliterEnd, OnlineTypes
  <2>2. CASE SpliterTurn(i)
    <3>1. spl' = spl \/ spl' = [spl EXCEPT ![i] = "panic"]
      BY <2>2 DEF SpliterTurn
    <3> QED BY <3>1 DEF OnlineTypes
  <2> QED BY <2>1, <2>2
<1>6. SplitersJoined'
  <2> SUFFICES ASSUME pc \in {"drop", "join"}, NEW c \in Cpu, c < idx  PROVE  spl'[c] = "done"
    BY <1>1, <1>2 DEF SplitersJoined
  <2>1. spl[c] = "done"
    BY DEF EndInv, SplitersJoined
  <2> QED BY <1>1, <1>5, <2>1
<1>7. CASE SpliterEnd(i)
  <2>1. chan[i] = << >> /\ UNCHANGED <<chan, queue>>
    BY <1>7 DEF SpliterEnd
  <2>2. \A c \in Cpu : spl'[c] = "done" => chan'[c] = << >>
    BY <1>5, <2>1 DEF EndInv
  <2> QED BY <1>1, <1>2, <1>3, <1>4, <1>6, <2>1, <2>2 DEF EndInv, AllSplit, WorkersJoined, AllDecoded
<1>8. CASE SpliterTurn(i)
  <2>1. PICK d, off, pieces : /\ CutBy(i, d, off, pieces)
                              /\ TurnPanics(i, pieces) \/ TurnSends(i, d, off, pieces)
    BY <1>8, SpliterIs
  <2>2. Worker = {} => queue' = << >>
    <3> SUFFICES ASSUME Worker = {}  PROVE  queue' = << >>
      OBVIOUS
    <3>1. NoReceiver /\ queue = << >>
      BY DEF NoReceiver, EndInv
    <3>2. CASE TurnPanics(i, pieces)
      BY <3>1, <3>2 DEF TurnPanics
    <3>3. CASE TurnSends(i, d, off, pieces)
      <4>1. pieces = << >> /\ queue' = queue \o pieces
        BY <3>1, <3>3 DEF TurnSends, IsJoin
      <4>2. << >> \o << >> = << >>
        OBVIOUS
      <4> QED BY <3>1, <4>1, <4>2
    <3> QED BY <2>1, <3>2, <3>3
  <2>3. \A c \in Cpu : c # i => chan'[c] = chan[c]
    <3>1. CASE TurnPanics(i, pieces)
      BY <3>1 DEF TurnPanics
    <3>2. CASE TurnSends(i, d, off, pieces)
      <4>1. PICK t : t = Tail(chan[i])
        OBVIOUS
      <4>2. chan' = [chan EXCEPT ![i] = t]
        BY <3>2, <4>1 DEF TurnSends
      <4> QED BY <4>2 DEF PipeTypes
    <3> QED BY <2>1, <3>1, <3>2
  <2>4. spl'[i] # "done"
    BY <1>1, <2>1 DEF TurnPanics, TurnSends, OnlineTypes
  <2>5. \A c \in Cpu : spl'[c] = "done" => chan'[c] = << >>
    BY <1>5, <2>3, <2>4 DEF EndInv
  <2> QED BY <1>1, <1>2, <1>3, <1>4, <1>6, <2>2, <2>5 DEF EndInv, AllSplit, WorkersJoined, AllDecoded
<1> QED BY <1>7, <1>8

LEMMA EndWorkerTurn ==
  ASSUME OnlineTypes, PipeTypes, EndInv, NEW i \in Worker, WorkerTurn(i)
  PROVE  EndInv'
<1>1. UNCHANGED <<stream, pc, idx, spl, chan, wrk, result>> /\ wrk[i] = "run" /\ queue # << >>
  BY DEF WorkerTurn, hw, spliters, output
<1>2. Cpu' = Cpu /\ Worker' = Worker
  BY <1>1, SameMachine
<1>3. pc \notin {"collect", "write", "done", "lost"}
  BY <1>1 DEF EndInv, AllDecoded
<1>4. \A w \in Worker : wrk[w] # "done"
  BY <1>1 DEF EndInv
<1> QED BY <1>1, <1>2, <1>3, <1>4 DEF EndInv, SplitersJoined, AllSplit, WorkersJoined, AllDecoded

LEMMA EndWorkerEnd ==
  ASSUME OnlineTypes, EndInv, NEW i \in Worker, WorkerEnd(i)
  PROVE  EndInv'
<1>1. /\ UNCHANGED <<stream, pc, idx, spl, chan, queue, data, result>> /\ queue = << >>
      /\ wrk' = [wrk EXCEPT ![i] = "done"]
  BY DEF WorkerEnd, WorkerMayEnd, hw, spliters, output
<1>2. Cpu' = Cpu /\ Worker' = Worker
  BY <1>1, SameMachine
<1>3. \A w \in Worker : wrk[w] = "done" => wrk'[w] = "done"
  BY <1>1 DEF OnlineTypes
<1>4. WorkersJoined' /\ AllDecoded'
  BY <1>1, <1>2, <1>3 DEF EndInv, WorkersJoined, AllDecoded
<1> QED BY <1>1, <1>2, <1>4 DEF EndInv, SplitersJoined, AllSplit

LEMMA EndDrop ==
  ASSUME EndInv, DropTx
  PROVE  EndInv'
<1>1. UNCHANGED <<stream, idx, spl, chan, wrk, queue>> /\ pc = "drop" /\ pc' = "join"
  BY DEF DropTx, hw, spliters, workers
<1>2. Cpu' = Cpu /\ Worker' = Worker
  BY <1>1, SameMachine
<1> QED BY <1>1, <1>2 DEF EndInv, SplitersJoined, AllSplit, WorkersJoined, AllDecoded

LEMMA EndJoin ==
  ASSUME OnlineTypes, EndInv, JoinSpliter
  PROVE  EndInv'
<1>1. UNCHANGED <<stream, spl, chan, wrk, queue>> /\ pc = "join"
  BY DEF JoinSpliter, hw, spliters, workers
<1>2. Cpu' = Cpu /\ Worker' = Worker
  BY <1>1, SameMachine
<1>3. PICK n \in Nat : n >= 1 /\ Cpu = 0 .. n - 1 /\ CpuNums = n /\ Worker = 0 .. n - 2
  BY CpuShape DEF OnlineTypes
<1>4. idx \in 0 .. n - 1
  BY <1>3 DEF OnlineTypes
<1>5. \A c \in Cpu : c < idx => spl[c] = "done"
  BY <1>1 DEF EndInv, SplitersJoined
<1>6. CASE pc' = "crashed"
  BY <1>1, <1>2, <1>6 DEF EndInv, SplitersJoined, AllSplit, WorkersJoined, AllDecoded
<1>7. CASE spl[idx] = "done" /\ idx = n - 1 /\ pc' = "wait" /\ idx' = 0
  <2>1. \A c \in Cpu : spl[c] = "done"
    <3> SUFFICES ASSUME NEW c \in Cpu  PROVE  spl[c] = "done"
      OBVIOUS
    <3>1. c = idx \/ c < idx
      BY <1>3, <1>7
    <3> QED BY <1>5, <1>7, <3>1
  <2>2. AllSplit' /\ SplitersJoined' /\ AllDecoded'
    BY <1>1, <1>2, <1>7, <2>1 DEF AllSplit, SplitersJoined, AllDecoded
  <2>3. WorkersJoined'
    <3>1. \A w \in Worker : ~(w < 0)
      BY <1>3
    <3> QED BY <1>2, <1>7, <3>1 DEF WorkersJoined
  <2> QED BY <1>1, <1>2, <1>7, <2>2, <2>3 DEF EndInv
<1>8. CASE spl[idx] = "done" /\ pc' = "drop" /\ idx' = idx + 1
  <2>1. \A c \in Cpu : c < idx + 1 => spl[c] = "done"
    <3> SUFFICES ASSUME NEW c \in Cpu, c < idx + 1  PROVE  spl[c] = "done"
      OBVIOUS
    <3>1. c = idx \/ c < idx
      BY <1>3, <1>4
    <3> QED BY <1>5, <1>8, <3>1
  <2> QED BY <1>1, <1>2, <1>8, <2>1 DEF EndInv, SplitersJoined, AllSplit, WorkersJoined, AllDecoded
<1> QED BY <1>3, <1>6, <1>7, <1>8 DEF JoinSpliter

LEMMA EndJoinWorker ==
  ASSUME OnlineTypes, EndInv, JoinWorker
  PROVE  EndInv'
<1>1. UNCHANGED <<stream, spl, chan, wrk, queue>> /\ pc = "wait" /\ WorkerJoined
  BY DEF JoinWorker, hw, spliters, workers
<1>2. Cpu' = Cpu /\ Worker' = Worker
  BY <1>1, SameMachine
<1>3. PICK n \in Nat : n >= 1 /\ Cpu = 0 .. n - 1 /\ CpuNums = n /\ Worker = 0 .. n - 2
  BY CpuShape DEF OnlineTypes
<1>4. idx \in 0 .. n - 1
  BY <1>3 DEF OnlineTypes
<1>5. \A w \in Worker : w < idx => wrk[w] = "done"
  BY <1>1 DEF EndInv, WorkersJoined
<1>6. \A w \in Worker : w < idx + 1 => wrk[w] = "done"
  <2> SUFFICES ASSUME NEW w \in Worker, w < idx + 1  PROVE  wrk[w] = "done"
    OBVIOUS
  <2>1. w = idx \/ w < idx
    BY <1>3, <1>4
  <2> QED BY <1>1, <1>5, <2>1 DEF WorkerJoined
<1>7. AllSplit' /\ \A c \in Cpu : spl[c] = "done"
  BY <1>1, <1>2 DEF EndInv, AllSplit
<1>8. CASE idx = n - 1 /\ pc' = "collect"
  <2>1. \A w \in Worker : wrk[w] = "done"
    <3>1. \A w \in Worker : w < idx + 1
      BY <1>3, <1>8
    <3> QED BY <1>6, <3>1
  <2>2. AllDecoded' /\ SplitersJoined' /\ WorkersJoined'
    BY <1>1, <1>2, <1>8, <2>1 DEF AllDecoded, SplitersJoined, WorkersJoined
  <2> QED BY <1>1, <1>2, <1>7, <1>8, <2>2 DEF EndInv
<1>9. CASE pc' = "wait" /\ idx' = idx + 1
  <2>1. AllDecoded' /\ SplitersJoined' /\ WorkersJoined'
    BY <1>1, <1>2, <1>6, <1>9 DEF AllDecoded, SplitersJoined, WorkersJoined
  <2> QED BY <1>1, <1>2, <1>7, <1>9, <2>1 DEF EndInv
<1> QED BY <1>3, <1>8, <1>9 DEF JoinWorker

LEMMA EndCollect ==
  ASSUME OnlineTypes, PipeTypes, EndInv, Collect
  PROVE  EndInv' /\ PipeTypes'
<1>1. /\ UNCHANGED <<stream, idx, chunk, chan, spl, assemed, sent, queue, wrk, data, skipped>>
      /\ pc = "collect" /\ pc' = "write"
      /\ result' = [a \in Addr |-> SumFunction([w \in Worker |-> data[w][a]])]
  BY DEF Collect, hw, capture, spliters, workers
<1>2. Cpu' = Cpu /\ Worker' = Worker
  BY <1>1, SameMachine
<1>3. \A a \in Addr : result'[a] = SumData(a)
  BY <1>1 DEF SumData
<1>4. result' \in [Addr -> Nat]
  <2>1. \A a \in Addr : SumData(a) \in Nat
    BY SumTypes
  <2> QED BY <1>1, <2>1 DEF SumData
<1>5. PipeTypes'
  BY <1>1, <1>2, <1>4 DEF PipeTypes
<1>6. \A a \in Addr : result'[a] = SumFunction([w \in Worker' |-> data'[w][a]])
  BY <1>1, <1>2, <1>3 DEF SumData
<1> QED BY <1>1, <1>2, <1>5, <1>6 DEF EndInv, SplitersJoined, AllSplit, WorkersJoined, AllDecoded

LEMMA EndWrite ==
  ASSUME EndInv, WriteToFile \/ WriteFails
  PROVE  EndInv'
<1>1. /\ UNCHANGED <<stream, idx, chan, spl, queue, wrk, data, result>>
      /\ pc = "write" /\ pc' \in {"done", "lost"}
  BY DEF WriteToFile, WriteFails, hw, spliters, workers, output
<1>2. Cpu' = Cpu /\ Worker' = Worker
  BY <1>1, SameMachine
<1> QED BY <1>1, <1>2 DEF EndInv, SplitersJoined, AllSplit, WorkersJoined, AllDecoded

LEMMA ReportWrite ==
  ASSUME ReportInv, WriteToFile
  PROVE  ReportInv'
<1>1. pc' = "done" /\ modules' \in {Modules, << >>} /\ result' = result
  BY DEF WriteToFile
<1>2. \E order \in Orders(Executed) : report' = Report(modules', order, result)
  BY DEF WriteToFile, Executed
<1>3. Executed' = Executed
  BY <1>1 DEF Executed
<1> QED BY <1>1, <1>2, <1>3 DEF ReportInv

-----------------------------------------------------------------------------
(* The whole.                                                              *)

PipeInv ==
  /\ OnlineInv /\ PollTypes /\ PipeTypes
  /\ ChunkInv /\ TraceInv /\ PanicInv
  /\ CountInv /\ EndInv /\ ReportInv

LEMMA PipeInit == Init => PipeInv
<1> SUFFICES ASSUME Init  PROVE  PipeInv
  OBVIOUS
<1>1. OnlineInv
  BY OnlineInit
<1>2. stream \in Streams /\ OnlineTypes
  BY <1>1 DEF OnlineInv, OnlineTypes
<1>3. \A c \in Cpu : stream[c] \in Seq(Token) /\ Len(stream[c]) \in Nat
  <2> SUFFICES ASSUME NEW c \in Cpu  PROVE  stream[c] \in Seq(Token) /\ Len(stream[c]) \in Nat
    OBVIOUS
  <2>1. stream[c] \in Seq(Token)
    BY <1>2, OnlineAssumption DEF Cpu
  <2> QED BY <2>1
<1>4. PollTypes
  <2>1. \A c \in Cpu : avail[c] <= Len(stream[c])
    BY <1>3 DEF Init
  <2>2. G_STOP \in BOOLEAN
    BY DEF Init
  <2>3. flags \in [Cpu -> BOOLEAN]
    BY Zenon DEF Init
  <2>4. tx \in [Cpu -> BOOLEAN]
    BY Zenon DEF Init
  <2>5. last_size \in [Cpu -> 0 .. OutLen]
    BY OnlineAssumption DEF Init
  <2> QED BY <2>1, <2>2, <2>3, <2>4, <2>5 DEF PollTypes
<1>5. PipeTypes
  <2>1. << >> \in Seq(Token) /\ << >> \in Seq(Seq(Token)) /\ Len(<< >>) = 0
    OBVIOUS
  <2>2. Zero \in [Addr -> Nat]
    BY DEF Zero
  <2>3. chunk \in Seq(Token) /\ Len(chunk) <= OutLen /\ queue \in Seq(Seq(Token))
    BY <2>1, OnlineAssumption DEF Init
  <2>4. chan \in [Cpu -> Seq(Seq(Token))] /\ assemed \in [Cpu -> Seq(Token)] /\ sent \in [Cpu -> Seq(Seq(Token))]
    BY <2>1 DEF Init
  <2>5. data \in [Worker -> [Addr -> Nat]] /\ skipped \in [Addr -> Nat] /\ result \in [Addr -> Nat]
    BY <2>2 DEF Init
  <2> QED BY <2>3, <2>4, <2>5 DEF PipeTypes
<1>6. ChunkInv
  BY DEF Init, ChunkInv
<1>7. TraceInv
  <2> SUFFICES ASSUME NEW c \in Cpu
               PROVE  Traced(stream[c], chan[c], captured[c] - Held(c), sent[c], assemed[c])
    BY DEF TraceInv
  <2>1. chan[c] = << >> /\ captured[c] = 0 /\ sent[c] = << >> /\ assemed[c] = << >> /\ chunk = << >>
    BY DEF Init
  <2>2. Held(c) = 0 /\ 0 - 0 = 0
    BY <2>1 DEF Held
  <2>3. Traced(stream[c], << >>, 0, << >>, << >>)
    BY <1>3, TraceInit
  <2> QED BY <2>1, <2>2, <2>3
<1>8. PanicInv
  BY DEF Init, PanicInv
<1>9. CountInv
  <2> SUFFICES ASSUME NEW a \in Addr
               PROVE  SumData(a) + skipped[a] + Occ(queue, a) = SumSent(a)
    BY DEF CountInv, SumData, SumSent
  <2>1. skipped[a] = 0 /\ Occ(queue, a) = 0
    BY OccEmpty DEF Init, Zero
  <2>2. SumData(a) = 0
    <3>1. PICK f : f = [w \in Worker |-> data[w][a]]
      OBVIOUS
    <3>2. f \in [Worker -> Nat] /\ \A w \in Worker : f[w] = 0
      BY <3>1 DEF Init, Zero
    <3>3. SumFunction(f) = 0
      BY <1>2, <3>2, MachineFinite, SumZero
    <3> QED BY <3>1, <3>3 DEF SumData
  <2>3. SumSent(a) = 0
    <3>1. PICK f : f = [c \in Cpu |-> Occ(sent[c], a)]
      OBVIOUS
    <3>2. \A c \in Cpu : sent[c] = << >>
      BY DEF Init
    <3>3. \A c \in Cpu : Occ(sent[c], a) = 0
      BY <3>2, OccEmpty
    <3>4. f \in [Cpu -> Nat] /\ \A c \in Cpu : f[c] = 0
      BY <3>1, <3>3
    <3>5. SumFunction(f) = 0
      BY <1>2, <3>4, MachineFinite, SumZero
    <3> QED BY <3>1, <3>5 DEF SumSent
  <2> QED BY <2>1, <2>2, <2>3
<1>10. EndInv
  BY DEF Init, EndInv, SplitersJoined, AllSplit, WorkersJoined, AllDecoded
<1>11. ReportInv
  BY DEF Init, ReportInv
<1> QED BY <1>1, <1>4, <1>5, <1>6, <1>7, <1>8, <1>9, <1>10, <1>11 DEF PipeInv

\* A step of the main thread after the loop that changes neither the pipeline nor
\* the counts.
LEMMA PipeAfter ==
  ASSUME PipeInv, pc # "process", pc' # "process", pc' # "crashed",
         UNCHANGED <<stream, avail, captured, G_STOP, flags, last_size, chunk, spl, chan, sent, assemed>>
  PROVE  ChunkInv' /\ TraceInv' /\ PanicInv'
<1>1. ChunkInv' /\ TraceInv'
  BY QuietTrace DEF PipeInv
<1>2. PanicInv'
  BY SamePanic DEF PipeInv
<1> QED BY <1>1, <1>2

LEMMA PipeStep == PipeInv /\ [Next]_vars => PipeInv'
<1> SUFFICES ASSUME PipeInv, [Next]_vars  PROVE  PipeInv'
  OBVIOUS
<1>1. /\ OnlineInv /\ OnlineTypes /\ CrashInv /\ PollTypes /\ PipeTypes /\ ChunkInv /\ TraceInv
      /\ PanicInv /\ CountInv /\ EndInv /\ ReportInv
  BY DEF PipeInv, OnlineInv
<1>2. OnlineInv'
  BY <1>1, OnlineStep
<1>3. ASSUME NEW c \in Cpu, HwTrace(c)  PROVE  PipeInv'
  <2>1. UNCHANGED <<stream, captured, pc, idx, chunk, chan, spl, assemed, sent, queue, wrk, data,
                    skipped, result, modules, report>>
    BY <1>3 DEF HwTrace, capture, spliters, workers, output
  <2>2. ChunkInv'
    BY <1>1, <2>1 DEF ChunkInv
  <2> QED BY <1>1, <1>2, <1>3, <2>1, <2>2, PollHwTrace, SamePipe, SameTrace, SamePanic, SameCount,
             SameEnd, SameReport DEF PipeInv
<1>4. CASE CtrlC
  <2>1. UNCHANGED <<stream, captured, pc, idx, chunk, chan, spl, assemed, sent, queue, wrk, data,
                    skipped, result, modules, report>>
    BY <1>4 DEF CtrlC, hw, capture, spliters, workers, output
  <2>2. ChunkInv'
    BY <1>1, <2>1 DEF ChunkInv
  <2> QED BY <1>1, <1>2, <1>4, <2>1, <2>2, PollCtrlC, SamePipe, SameTrace, SamePanic, SameCount,
             SameEnd, SameReport DEF PipeInv
<1>5. CASE Fetch
  <2>1. /\ UNCHANGED <<stream, sent, queue, data, skipped, result, modules, report>>
        /\ pc = "fetch" /\ pc' = "process"
    BY <1>5 DEF Fetch, hw, spliters, workers, output
  <2>2. PipeTypes' /\ ChunkInv' /\ TraceInv' /\ PanicInv'
    BY <1>1, <1>5, TraceFetch
  <2>3. PollTypes' /\ EndInv'
    BY <1>1, <1>5, PollFetch, EndFetch
  <2>4. CountInv' /\ ReportInv'
    BY <1>1, <2>1, SameCount, SameReport
  <2> QED BY <1>2, <2>2, <2>3, <2>4 DEF PipeInv
<1>6. CASE Process
  <2>1. /\ UNCHANGED <<stream, sent, queue, data, skipped, result, modules, report>>
        /\ pc = "process" /\ pc' \in {"crashed", "drop", "fetch"}
    BY <1>1, <1>6, ProcessIs DEF Process, hw, spliters, workers, output
  <2>2. PipeTypes' /\ ChunkInv' /\ TraceInv' /\ PanicInv'
    BY <1>1, <1>6, TraceProcess
  <2>3. PollTypes' /\ EndInv'
    BY <1>1, <1>6, PollProcess, EndProcess
  <2>4. CountInv' /\ ReportInv'
    BY <1>1, <2>1, SameCount, SameReport
  <2> QED BY <1>2, <2>2, <2>3, <2>4 DEF PipeInv
<1>7. ASSUME NEW c \in Cpu, SpliterTurn(c)  PROVE  PipeInv'
  <2>1. UNCHANGED <<stream, avail, G_STOP, flags, tx, last_size, pc, idx, captured, chunk,
                    modules, report, result>>
    BY <1>7 DEF SpliterTurn, hw, capture, output
  <2>2. PipeTypes' /\ TraceInv' /\ PanicInv'
    BY <1>1, <1>7, TraceSpliter
  <2>3. CountInv' /\ EndInv'
    BY <1>1, <1>7, CountSpliter, EndSpliter
  <2>4. PollTypes' /\ ReportInv'
    BY <1>1, <2>1, SamePoll, SameReport
  <2>5. ChunkInv'
    BY <1>1, <2>1 DEF ChunkInv
  <2> QED BY <1>2, <2>2, <2>3, <2>4, <2>5 DEF PipeInv
<1>8. ASSUME NEW c \in Cpu, SpliterEnd(c)  PROVE  PipeInv'
  <2>1. /\ UNCHANGED <<stream, avail, G_STOP, flags, tx, last_size, pc, idx, captured, chunk, chan,
                       assemed, sent, queue, data, skipped, modules, report, result>>
        /\ spl' = [spl EXCEPT ![c] = "done"] /\ spl[c] = "run"
    BY <1>8 DEF SpliterEnd, hw, capture, workers, output
  <2>2. Cpu' = Cpu
    BY <2>1, SameMachine
  <2>3. \A b \in Cpu : spl'[b] = "panic" <=> spl[b] = "panic"
    BY <1>1, <2>1 DEF OnlineTypes
  <2>4. TraceInv'
    BY <1>1, <2>1, <2>2, <2>3 DEF TraceInv, Held
  <2>5. PanicInv'
    <3>1. \A b : TwoMarks(b)' <=> TwoMarks(b)
      BY <2>1 DEF TwoMarks
    <3> QED BY <1>1, <2>1, <2>2, <2>3, <3>1 DEF PanicInv
  <2>6. ChunkInv'
    BY <1>1, <2>1 DEF ChunkInv
  <2>7. EndInv'
    BY <1>1, <1>8, EndSpliter
  <2>8. PollTypes' /\ PipeTypes' /\ CountInv' /\ ReportInv'
    BY <1>1, <2>1, SamePoll, SamePipe, SameCount, SameReport
  <2> QED BY <1>2, <2>4, <2>5, <2>6, <2>7, <2>8 DEF PipeInv
<1>9. ASSUME NEW w \in Worker, WorkerTurn(w)  PROVE  PipeInv'
  <2>1. UNCHANGED <<stream, avail, G_STOP, flags, tx, last_size, pc, idx, captured, chunk, chan,
                    spl, assemed, sent, modules, report, result>>
    BY <1>9 DEF WorkerTurn, hw, capture, spliters, output
  <2>2. PipeTypes' /\ CountInv' /\ EndInv'
    BY <1>1, <1>9, CountWorker, EndWorkerTurn
  <2>3. ChunkInv'
    BY <1>1, <2>1 DEF ChunkInv
  <2>4. PollTypes' /\ TraceInv' /\ PanicInv' /\ ReportInv'
    BY <1>1, <2>1, SamePoll, SameTrace, SamePanic, SameReport
  <2> QED BY <1>2, <2>2, <2>3, <2>4 DEF PipeInv
<1>10. ASSUME NEW w \in Worker, WorkerEnd(w)  PROVE  PipeInv'
  <2>1. UNCHANGED <<stream, avail, G_STOP, flags, tx, last_size, pc, idx, captured, chunk, chan,
                    spl, assemed, sent, queue, data, skipped, modules, report, result>>
    BY <1>10 DEF WorkerEnd, hw, capture, spliters, output
  <2>2. EndInv'
    BY <1>1, <1>10, EndWorkerEnd
  <2>3. ChunkInv'
    BY <1>1, <2>1 DEF ChunkInv
  <2>4. PollTypes' /\ PipeTypes' /\ TraceInv' /\ PanicInv' /\ CountInv' /\ ReportInv'
    BY <1>1, <2>1, SamePoll, SamePipe, SameTrace, SamePanic, SameCount, SameReport
  <2> QED BY <1>2, <2>2, <2>3, <2>4 DEF PipeInv
<1>11. CASE DropTx
  <2>1. /\ UNCHANGED <<stream, avail, G_STOP, flags, last_size, captured, chunk, chan, spl, assemed,
                       sent, queue, data, skipped, modules, report, result>>
        /\ pc = "drop" /\ pc' = "join"
    BY <1>11 DEF DropTx, hw, capture, spliters, workers, output
  <2>2. PollTypes' /\ EndInv'
    BY <1>1, <1>11, PollDrop, EndDrop
  <2>3. PipeTypes' /\ CountInv' /\ ReportInv' /\ ChunkInv' /\ TraceInv' /\ PanicInv'
    BY <1>1, <2>1, SamePipe, SameCount, SameReport, PipeAfter
  <2> QED BY <1>2, <2>2, <2>3 DEF PipeInv
<1>12. CASE JoinSpliter
  <2>1. /\ UNCHANGED <<stream, avail, G_STOP, flags, last_size, tx, captured, chunk, chan, spl,
                       assemed, sent, queue, data, skipped, modules, report, result>>
        /\ pc = "join" /\ pc' \in {"crashed", "wait", "drop"}
    BY <1>12 DEF JoinSpliter, hw, capture, spliters, workers, output
  <2>2. EndInv'
    BY <1>1, <1>12, EndJoin
  <2>3. PollTypes' /\ PipeTypes' /\ CountInv' /\ ReportInv' /\ ChunkInv' /\ TraceInv'
    BY <1>1, <2>1, SamePoll, SamePipe, SameCount, SameReport, QuietTrace
  <2>4. PanicInv'
    <3>1. Cpu' = Cpu
      BY <2>1, SameMachine
    <3>2. \A b : TwoMarks(b)' <=> TwoMarks(b)
      BY <2>1 DEF TwoMarks
    <3>3. pc' = "crashed" => spl[idx] = "panic" /\ idx \in Cpu
      BY <1>1, <1>12 DEF JoinSpliter, OnlineTypes
    <3> QED BY <1>1, <2>1, <3>1, <3>2, <3>3 DEF PanicInv
  <2> QED BY <1>2, <2>2, <2>3, <2>4 DEF PipeInv
<1>13. CASE JoinWorker
  <2>1. /\ UNCHANGED <<stream, avail, G_STOP, flags, last_size, tx, captured, chunk, chan, spl,
                       assemed, sent, queue, data, skipped, modules, report, result>>
        /\ pc = "wait" /\ pc' \in {"collect", "wait"}
    BY <1>13 DEF JoinWorker, hw, capture, spliters, workers, output
  <2>2. EndInv'
    BY <1>1, <1>13, EndJoinWorker
  <2>3. /\ PollTypes' /\ PipeTypes' /\ CountInv' /\ ReportInv' /\ ChunkInv' /\ TraceInv' /\ PanicInv'
    BY <1>1, <2>1, SamePoll, SamePipe, SameCount, SameReport, PipeAfter
  <2> QED BY <1>2, <2>2, <2>3 DEF PipeInv
<1>14. CASE Collect
  <2>1. /\ UNCHANGED <<stream, avail, G_STOP, flags, last_size, tx, captured, chunk, chan, spl,
                       assemed, sent, queue, data, skipped, modules, report>>
        /\ pc = "collect" /\ pc' = "write"
    BY <1>14 DEF Collect, hw, capture, spliters, workers
  <2>2. EndInv' /\ PipeTypes'
    BY <1>1, <1>14, EndCollect
  <2>3. PollTypes' /\ CountInv' /\ ChunkInv' /\ TraceInv' /\ PanicInv'
    BY <1>1, <2>1, SamePoll, SameCount, PipeAfter
  <2>4. ReportInv'
    BY <1>1, <2>1 DEF ReportInv
  <2> QED BY <1>2, <2>2, <2>3, <2>4 DEF PipeInv
<1>15. CASE WriteToFile \/ WriteFails
  <2>1. /\ UNCHANGED <<stream, avail, G_STOP, flags, last_size, tx, captured, chunk, chan, spl,
                       assemed, sent, queue, data, skipped, result>>
        /\ pc = "write" /\ pc' \in {"done", "lost"}
    BY <1>15 DEF WriteToFile, WriteFails, hw, capture, spliters, workers, output
  <2>2. EndInv'
    BY <1>1, <1>15, EndWrite
  <2>3. PollTypes' /\ PipeTypes' /\ CountInv' /\ ChunkInv' /\ TraceInv' /\ PanicInv'
    BY <1>1, <2>1, SamePoll, SamePipe, SameCount, PipeAfter
  <2>4. ReportInv'
    <3>1. CASE WriteToFile
      BY <1>1, <3>1, ReportWrite
    <3>2. CASE WriteFails
      <4>1. UNCHANGED <<modules, report, result>> /\ pc' = "lost"
        BY <3>2 DEF WriteFails, output
      <4> QED BY <1>1, <2>1, <4>1, SameReport
    <3> QED BY <1>15, <3>1, <3>2
  <2> QED BY <1>2, <2>2, <2>3, <2>4 DEF PipeInv
<1>16. CASE UNCHANGED vars
  <2>1. UNCHANGED <<stream, avail, G_STOP, flags, tx, last_size, pc, idx, captured, chunk, chan,
                    spl, assemed, sent, queue, wrk, data, skipped, modules, report, result>>
    BY <1>16 DEF vars
  <2>2. ChunkInv'
    BY <1>1, <2>1 DEF ChunkInv
  <2> QED BY <1>1, <1>2, <2>1, <2>2, SamePoll, SamePipe, SameTrace, SamePanic, SameCount, SameEnd,
             SameReport DEF PipeInv
<1> QED BY <1>3, <1>4, <1>5, <1>6, <1>7, <1>8, <1>9, <1>10, <1>11, <1>12, <1>13, <1>14, <1>15, <1>16
        DEF Next, Main, Spliter, WorkerThread, Terminated

-----------------------------------------------------------------------------
(* What the invariant says.                                                *)

LEMMA PipeChunking == PipeInv => ChunkingIrrelevant
<1> SUFFICES ASSUME PipeInv, NEW c \in Cpu, spl[c] # "panic",
                    NEW r, r = Received(c), NEW m, m = Cardinality(Marks(r))
             PROVE  \E off \in [1 .. m -> Marks(r)] :
                      /\ \A i, j \in 1 .. m : i < j => off[i] < off[j]
                      /\ Len(sent[c]) = IF m = 0 THEN 0 ELSE m - 1
                      /\ \A n \in 1 .. Len(sent[c]) : sent[c][n] = SubSeq(r, off[n], off[n + 1] - 1)
                      /\ assemed[c] = IF m = 0 THEN r ELSE SubSeq(r, off[m], Len(r))
  BY DEF ChunkingIrrelevant
<1>1. OnlineTypes /\ PollTypes /\ PipeTypes /\ ChunkInv
  BY DEF PipeInv, OnlineInv
<1>2. PICK e \in Nat : e = captured[c] - Held(c)
  BY <1>1, HeldIs
<1>3. captured[c] \in Nat /\ Held(c) \in Nat
  BY <1>1, HeldIs
<1>4. Traced(stream[c], chan[c], e, sent[c], assemed[c])
  BY <1>2 DEF PipeInv, TraceInv
<1>5. PICK k \in Nat : k = InChannel(c) /\ k = Cardinality(Pending(chan[c]))
  BY <1>4, TraceCut DEF Pending, InChannel
<1>6. stream[c] \in Seq(Token)
  BY <1>4, TraceCut
<1>7. PICK off \in Seq(Nat) : CutAt(stream[c], e - k, sent[c], assemed[c], off)
  BY <1>4, <1>5, TraceCut
<1>8. PICK n \in Nat : n = e - k
  BY <1>7 DEF CutAt
<1>9. r = Part(stream[c], 1, n)
  <2>1. n = captured[c] - k - Held(c)
    BY <1>2, <1>3, <1>5, <1>8
  <2> QED BY <1>5, <2>1 DEF Received, Held, Part
<1>10. /\ off \in [1 .. m -> Marks(r)]
       /\ \A i, j \in 1 .. m : i < j => off[i] < off[j]
       /\ Len(sent[c]) = IF m = 0 THEN 0 ELSE m - 1
       /\ \A i \in 1 .. Len(sent[c]) : sent[c][i] = Part(r, off[i], off[i + 1] - 1)
       /\ assemed[c] = IF m = 0 THEN r ELSE Part(r, off[m], Len(r))
  <2>1. PICK st, snt, asm : st \in Seq(Token) /\ st = stream[c] /\ snt = sent[c] /\ asm = assemed[c]
    BY <1>6
  <2>2. CutAt(st, n, snt, asm, off) /\ r = Part(st, 1, n)
    BY <1>7, <1>8, <1>9, <2>1
  <2>3. /\ off \in [1 .. m -> Marks(r)]
        /\ \A i, j \in 1 .. m : i < j => off[i] < off[j]
        /\ Len(snt) = IF m = 0 THEN 0 ELSE m - 1
        /\ \A i \in 1 .. Len(snt) : snt[i] = Part(r, off[i], off[i + 1] - 1)
        /\ asm = IF m = 0 THEN r ELSE Part(r, off[m], Len(r))
    BY <2>1, <2>2, CutIs
  <2> QED BY <2>1, <2>3
<1> QED BY <1>10 DEF Part

LEMMA PipeCount == PipeInv => FinalCount
<1> SUFFICES ASSUME PipeInv, pc = "done", NEW a \in Addr
             PROVE  result[a] + skipped[a] =
                      SumFunction([c \in Cpu |-> Cardinality(Enclosed(SubSeq(stream[c], 1, captured[c]), a))])
  BY DEF FinalCount
<1>1. OnlineTypes /\ PollTypes /\ PipeTypes /\ ChunkInv /\ EndInv /\ CountInv
  BY DEF PipeInv, OnlineInv
<1>2. queue = << >>
  <2>1. CASE Worker = {}
    BY <1>1, <2>1 DEF EndInv
  <2>2. CASE Worker # {}
    <3>1. PICK w \in Worker : TRUE
      BY <2>2
    <3>2. wrk[w] = "done"
      BY <1>1 DEF EndInv, AllDecoded
    <3> QED BY <1>1, <3>2 DEF EndInv
  <2> QED BY <2>1, <2>2
<1>3. result[a] = SumData(a)
  BY <1>1 DEF EndInv, SumData
<1>4. SumData(a) + skipped[a] + Occ(queue, a) = SumSent(a)
  BY <1>1 DEF CountInv, SumData, SumSent
<1>5. Occ(queue, a) = 0
  BY <1>2, OccEmpty
<1>6. ASSUME NEW c \in Cpu
      PROVE  Occ(sent[c], a) = Cardinality(Enclosed(SubSeq(stream[c], 1, captured[c]), a))
  <2>1. spl[c] = "done" /\ chan[c] = << >>
    BY <1>1 DEF EndInv, AllSplit
  <2>2. chunk = << >> /\ Len(<< >>) = 0
    BY <1>1 DEF ChunkInv
  <2>3. captured[c] \in Nat /\ captured[c] - Held(c) = captured[c]
    <3>1. captured[c] \in Nat /\ Held(c) = 0
      BY <1>1, <2>2, HeldIs DEF Held
    <3> QED BY <3>1
  <2>4. Traced(stream[c], << >>, captured[c], sent[c], assemed[c])
    BY <2>1, <2>3 DEF PipeInv, TraceInv
  <2>5. Cardinality(Pending(<< >>)) = 0
    <3>1. Pending(<< >>) = {}
      BY DEF Pending
    <3> QED BY <3>1, FS_EmptySet
  <2>6. stream[c] \in Seq(Token)
    BY <2>3, <2>4, TraceCut
  <2>7. PICK off \in Seq(Nat) : CutAt(stream[c], captured[c], sent[c], assemed[c], off)
    <3>1. PICK off \in Seq(Nat) :
            CutAt(stream[c], captured[c] - Cardinality(Pending(<< >>)), sent[c], assemed[c], off)
      BY <2>3, <2>4, TraceCut
    <3>2. captured[c] - 0 = captured[c]
      BY <2>3
    <3> QED BY <2>5, <3>1, <3>2
  <2>8. PICK r : r = Part(stream[c], 1, captured[c])
    OBVIOUS
  <2>9. r \in Seq(Token) /\ Lists(off, Marks(r)) /\ sent[c] = Pieces(r, off)
    <3>1. captured[c] <= Len(stream[c])
      BY <2>7 DEF CutAt
    <3>2. r \in Seq(Token)
      BY <2>3, <2>6, <2>8, <3>1, PrefixIs
    <3> QED BY <2>7, <2>8, <3>2 DEF CutAt
  <2>10. Cardinality(Enclosed(r, a)) = Occ(sent[c], a)
    BY <2>9, EnclosedOcc
  <2> QED BY <2>8, <2>10 DEF Part
<1>7. SumSent(a) = SumFunction([c \in Cpu |-> Cardinality(Enclosed(SubSeq(stream[c], 1, captured[c]), a))])
  BY <1>6 DEF SumSent
<1>8. SumData(a) \in Nat /\ skipped[a] \in Nat
  BY <1>1, SumTypes
<1> QED BY <1>3, <1>4, <1>5, <1>7, <1>8

LEMMA PipeCrash == PipeInv => CrashOnlyWithoutWorkers
<1> SUFFICES ASSUME PipeInv, pc = "crashed" \/ (\E c \in Cpu : spl[c] = "panic")
             PROVE  Worker = {} /\ \E c \in Cpu : TwoMarks(c)
  BY DEF CrashOnlyWithoutWorkers, TwoMarks, Part
<1> QED BY DEF PipeInv, OnlineInv, CrashInv, PanicInv

-----------------------------------------------------------------------------
(* The report.                                                             *)

\* The lists of modules there are.
ModuleList(mods) == mods \in Seq([name : STRING, base : Nat, size : Nat])

LEMMA ModulesIs ==
  ASSUME NEW mods, mods \in {Modules, << >>}
  PROVE  ModuleList(mods)
<1>1. CASE mods = Modules
  BY <1>1, ModuleAssumption DEF ModuleList
<1>2. CASE mods = << >>
  BY <1>2 DEF ModuleList
<1> QED BY <1>1, <1>2

LEMMA ModuleIs ==
  ASSUME NEW mods, ModuleList(mods), NEW k \in DOMAIN mods
  PROVE  mods[k].base \in Nat /\ mods[k].size \in Nat /\ k \in Nat
<1>1. Len(mods) \in Nat /\ DOMAIN mods = 1 .. Len(mods)
  BY LenProperties DEF ModuleList
<1>2. mods[k] \in [name : STRING, base : Nat, size : Nat]
  BY <1>1, ElementOfSeq DEF ModuleList
<1> QED BY <1>1, <1>2

\* What module_info_cache holds.
IsCache(mods, cache) == cache = NoModule \/ \E k \in DOMAIN mods : cache = mods[k]

\* The key of addr: a module that covers it and its offset, or addr itself when no
\* module does.
KeyOf(mods, key, addr) ==
  \/ \E k \in DOMAIN mods : Covers(mods[k], addr) /\ key = <<mods[k].name, addr - mods[k].base>>
  \/ (\A k \in DOMAIN mods : ~Covers(mods[k], addr)) /\ key = <<"dummy", addr>>

LEMMA QueryIs ==
  ASSUME NEW mods, ModuleList(mods), NEW cache, IsCache(mods, cache), NEW addr \in Nat
  PROVE  /\ IsCache(mods, Query(mods, cache, addr).cache)
         /\ KeyOf(mods, Query(mods, cache, addr).key, addr)
<1> DEFINE hits == {k \in DOMAIN mods : Covers(mods[k], addr)}
           found == CHOOSE k \in hits : \A l \in hits : k <= l
           hit == cache # NoModule /\ Covers(cache, addr)
<1>1. CASE hit
  <2>1. Query(mods, cache, addr) = [key |-> <<cache.name, addr - cache.base>>, cache |-> cache]
    BY <1>1 DEF Query
  <2>2. PICK k \in DOMAIN mods : cache = mods[k]
    BY <1>1 DEF IsCache
  <2>3. /\ Query(mods, cache, addr).key = <<mods[k].name, addr - mods[k].base>>
        /\ Query(mods, cache, addr).cache = cache
    BY <2>1, <2>2
  <2>4. Covers(mods[k], addr)
    BY <1>1, <2>2
  <2> QED BY <2>3, <2>4 DEF KeyOf
<1>2. CASE ~hit /\ hits # {}
  <2>1. found \in hits
    <3>1. hits \subseteq Nat
      BY ModuleIs
    <3>2. \E k \in hits : \A l \in hits : k <= l
      <4> HIDE DEF hits
      <4> QED BY <1>2, <3>1, LeastNat
    <3> QED BY <3>2
  <2>2. Query(mods, cache, addr) =
          [key |-> <<mods[found].name, addr - mods[found].base>>, cache |-> mods[found]]
    BY <1>2 DEF Query
  <2>3. PICK k \in hits : k = found
    BY <2>1
  <2>4. /\ Query(mods, cache, addr).key = <<mods[k].name, addr - mods[k].base>>
        /\ Query(mods, cache, addr).cache = mods[k]
    BY <2>2, <2>3
  <2>5. k \in DOMAIN mods /\ Covers(mods[k], addr)
    OBVIOUS
  <2> QED BY <2>4, <2>5 DEF KeyOf, IsCache
<1>3. CASE ~hit /\ hits = {}
  <2>1. Query(mods, cache, addr) = [key |-> <<"dummy", addr>>, cache |-> cache]
    BY <1>3 DEF Query
  <2>2. \A k \in DOMAIN mods : ~Covers(mods[k], addr)
    BY <1>3
  <2> QED BY <2>1, <2>2 DEF KeyOf
<1> QED BY <1>1, <1>2, <1>3

LEMMA KeyNames ==
  ASSUME NEW mods, ModuleList(mods), NEW addr \in Nat, NEW key, KeyOf(mods, key, addr)
  PROVE  NamesAddr(mods, key, addr)
<1>1. CASE \E k \in DOMAIN mods : Covers(mods[k], addr) /\ key = <<mods[k].name, addr - mods[k].base>>
  <2>1. PICK k \in DOMAIN mods : Covers(mods[k], addr) /\ key = <<mods[k].name, addr - mods[k].base>>
    BY <1>1
  <2>2. mods[k].base \in Nat /\ mods[k].size \in Nat
    BY ModuleIs
  <2>3. addr >= mods[k].base /\ addr <= mods[k].base + mods[k].size
    BY <2>1 DEF Covers
  <2>4. key[1] = mods[k].name /\ key[2] = addr - mods[k].base
    BY <2>1
  <2>5. mods[k].base + key[2] = addr /\ key[2] \in 0 .. mods[k].size
    BY <2>2, <2>3, <2>4
  <2> QED BY <2>4, <2>5 DEF NamesAddr
<1>2. CASE (\A k \in DOMAIN mods : ~Covers(mods[k], addr)) /\ key = <<"dummy", addr>>
  <2>1. ASSUME NEW k \in DOMAIN mods
        PROVE  ~(addr >= mods[k].base /\ addr < mods[k].base + mods[k].size)
    <3>1. mods[k].base \in Nat /\ mods[k].size \in Nat
      BY ModuleIs
    <3> QED BY <1>2, <3>1 DEF Covers
  <2> QED BY <1>2, <2>1 DEF NamesAddr
<1> QED BY <1>1, <1>2 DEF KeyOf

\* No two addresses share a key when the modules' names tell them apart.
LEMMA KeyTells ==
  ASSUME NEW mods, ModuleList(mods),
         \A k, l \in DOMAIN mods : mods[k].name = mods[l].name => k = l,
         \A k \in DOMAIN mods : mods[k].name # "dummy",
         NEW x \in Nat, NEW y \in Nat, NEW key, KeyOf(mods, key, x), KeyOf(mods, key, y)
  PROVE  x = y
<1>1. ASSUME NEW z \in Nat, KeyOf(mods, key, z)
      PROVE  \/ \E k \in DOMAIN mods : key[1] = mods[k].name /\ key[2] = z - mods[k].base
             \/ key[1] = "dummy" /\ key[2] = z
  BY <1>1 DEF KeyOf
<1>2. CASE key[1] = "dummy"
  <2>1. key[2] = x /\ key[2] = y
    BY <1>1, <1>2
  <2> QED BY <2>1
<1>3. CASE key[1] # "dummy"
  <2>1. PICK k \in DOMAIN mods : key[1] = mods[k].name /\ key[2] = x - mods[k].base
    BY <1>1, <1>3
  <2>2. PICK l \in DOMAIN mods : key[1] = mods[l].name /\ key[2] = y - mods[l].base
    BY <1>1, <1>3
  <2>3. k = l
    BY <2>1, <2>2
  <2>4. mods[k].base \in Nat
    BY ModuleIs
  <2> QED BY <2>1, <2>2, <2>3, <2>4
<1> QED BY <1>2, <1>3

\* An order of write_to_file meets every instruction of S once.
LEMMA OrderIs ==
  ASSUME NEW S \in SUBSET Addr, NEW order \in Orders(S)
  PROVE  \E N \in Nat :
           /\ N = Cardinality(S) /\ N = Len(order) /\ order \in [1 .. N -> S]
           /\ \A i, j \in 1 .. N : order[i] = order[j] => i = j
           /\ \A a \in S : \E n \in 1 .. N : order[n] = a
<1>1. IsFiniteSet(S)
  BY OnlineAssumption, FS_Subset
<1>2. PICK N \in Nat : N = Cardinality(S)
  BY <1>1, FS_CardinalityType
<1>3. order \in [1 .. N -> S] /\ \A i, j \in 1 .. N : i < j => order[i] # order[j]
  BY <1>2 DEF Orders
<1>4. Len(order) = N
  <2>1. DOMAIN order = 1 .. N /\ order = [i \in 1 .. N |-> order[i]] /\ \A i \in 1 .. N : order[i] \in S
    BY <1>3
  <2> QED BY <2>1, SeqMake
<1>5. \A i, j \in 1 .. N : order[i] = order[j] => i = j
  <2> SUFFICES ASSUME NEW i \in 1 .. N, NEW j \in 1 .. N, order[i] = order[j]  PROVE  i = j
    OBVIOUS
  <2>1. ~(i < j) /\ ~(j < i)
    BY <1>3
  <2> QED BY <2>1
<1>6. order \in Injection(1 .. N, S)
  BY <1>3, <1>5 DEF Injection, IsInjective
<1>7. Cardinality(1 .. N) = N
  BY FS_Interval
<1>8. order \in Surjection(1 .. N, S)
  BY <1>1, <1>2, <1>6, <1>7, FS_Injection
<1>9. \A a \in S : \E n \in 1 .. N : order[n] = a
  BY <1>8 DEF Surjection
<1> QED BY <1>2, <1>3, <1>4, <1>5, <1>9

\* c is module_info_cache after each of the first n queries.
CacheRun(mods, order, n, c) ==
  /\ DOMAIN c = 0 .. n /\ c = [i \in 0 .. n |-> c[i]]
  /\ c[0] = NoModule
  /\ \A i \in 1 .. n : c[i] = Query(mods, c[i - 1], Where[order[i]]).cache

LEMMA CacheExists ==
  ASSUME NEW mods, NEW order, NEW N \in Nat
  PROVE  \E c : CacheRun(mods, order, N, c)
<1> DEFINE T == {n \in Nat : \E c : CacheRun(mods, order, n, c)}
<1>1. 0 \in T
  <2>1. PICK c : c = [i \in 0 .. 0 |-> NoModule]
    OBVIOUS
  <2>2. DOMAIN c = 0 .. 0 /\ c[0] = NoModule /\ c = [i \in 0 .. 0 |-> c[i]]
    BY <2>1
  <2>3. CacheRun(mods, order, 0, c)
    BY <2>2 DEF CacheRun
  <2> QED BY <2>3
<1>2. ASSUME NEW n \in T  PROVE  n + 1 \in T
  <2>1. n \in Nat
    OBVIOUS
  <2>2. PICK c : CacheRun(mods, order, n, c)
    OBVIOUS
  <2>3. PICK v : v = Query(mods, c[n], Where[order[n + 1]]).cache
    OBVIOUS
  <2>4. PICK d : d = [i \in 0 .. n + 1 |-> IF i <= n THEN c[i] ELSE v]
    OBVIOUS
  <2>5. DOMAIN d = 0 .. n + 1 /\ (\A i \in 0 .. n : d[i] = c[i]) /\ d[n + 1] = v
    BY <2>1, <2>4
  <2>6. d = [i \in 0 .. n + 1 |-> d[i]]
    BY <2>4
  <2>7. d[0] = NoModule
    BY <2>1, <2>2, <2>5 DEF CacheRun
  <2>8. ASSUME NEW i \in 1 .. n + 1  PROVE  d[i] = Query(mods, d[i - 1], Where[order[i]]).cache
    <3>1. CASE i = n + 1
      <4>1. i - 1 = n /\ n \in 0 .. n
        BY <2>1, <3>1
      <4> QED BY <2>3, <2>5, <3>1, <4>1
    <3>2. CASE i # n + 1
      <4>1. i \in 1 .. n /\ i \in 0 .. n /\ i - 1 \in 0 .. n
        BY <2>1, <3>2
      <4> QED BY <2>2, <2>5, <4>1 DEF CacheRun
    <3> QED BY <3>1, <3>2
  <2>9. CacheRun(mods, order, n + 1, d)
    BY <2>5, <2>6, <2>7, <2>8 DEF CacheRun
  <2> QED BY <2>1, <2>9
<1>3. T \in SUBSET Nat
  OBVIOUS
<1> HIDE DEF T
<1>4. T = Nat
  BY <1>1, <1>2, <1>3, AllNat
<1>5. N \in T
  BY <1>4
<1> QED BY <1>5 DEF T

LEMMA CachesRun ==
  ASSUME NEW mods, NEW order, NEW N \in Nat, Len(order) = N
  PROVE  CacheRun(mods, order, N, Caches(mods, order))
<1> DEFINE Step(h) == [n \in 0 .. Len(order) |->
                         IF n = 0 THEN NoModule ELSE Query(mods, h[n - 1], Where[order[n]]).cache]
           cache == CHOOSE h : h = Step(h)
<1>1. PICK c : CacheRun(mods, order, N, c)
  BY CacheExists
<1>2. c = Step(c)
  <2>1. ASSUME NEW n \in 0 .. N  PROVE  c[n] = Step(c)[n]
    <3>1. CASE n = 0
      BY <1>1, <3>1 DEF CacheRun
    <3>2. CASE n # 0
      <4>1. n \in 1 .. N
        BY <3>2
      <4> QED BY <1>1, <3>2, <4>1 DEF CacheRun
    <3> QED BY <3>1, <3>2
  <2>2. c = [n \in 0 .. N |-> c[n]]
    BY <1>1 DEF CacheRun
  <2> QED BY <2>1, <2>2
<1>3. cache = Step(cache)
  BY <1>2, Zenon
<1>4. Caches(mods, order) = cache
  BY Zenon DEF Caches
<1> HIDE DEF cache
<1>5. DOMAIN cache = 0 .. N /\ cache = [n \in 0 .. N |-> cache[n]]
  BY <1>3
<1>6. cache[0] = NoModule
  <2>1. 0 \in 0 .. N
    OBVIOUS
  <2> QED BY <1>3, <2>1
<1>7. ASSUME NEW i \in 1 .. N  PROVE  cache[i] = Query(mods, cache[i - 1], Where[order[i]]).cache
  <2>1. i \in 0 .. N /\ i # 0
    OBVIOUS
  <2> QED BY <1>3, <2>1
<1> QED BY <1>4, <1>5, <1>6, <1>7 DEF CacheRun

\* Every key is the key of its address.
HasKeys(mods, order, N, keys) ==
  DOMAIN keys = 1 .. N /\ \A n \in 1 .. N : KeyOf(mods, keys[n], Where[order[n]])

LEMMA KeysAre ==
  ASSUME NEW mods, ModuleList(mods), NEW N \in Nat, NEW S \in SUBSET Addr, NEW order,
         order \in [1 .. N -> S], Len(order) = N
  PROVE  HasKeys(mods, order, N, Keys(mods, order))
<1>1. PICK c : c = Caches(mods, order)
  OBVIOUS
<1>2. CacheRun(mods, order, N, c)
  BY <1>1, CachesRun
<1>3. \A n \in 1 .. N : Where[order[n]] \in Nat
  BY ModuleAssumption, OnlineAssumption
<1> DEFINE T == {n \in Nat : n <= N => IsCache(mods, c[n])}
<1>4. 0 \in T
  BY <1>2 DEF CacheRun, IsCache
<1>5. ASSUME NEW n \in T  PROVE  n + 1 \in T
  <2> SUFFICES ASSUME n + 1 <= N  PROVE  IsCache(mods, c[n + 1])
    OBVIOUS
  <2>1. n \in Nat /\ IsCache(mods, c[n])
    OBVIOUS
  <2>2. n + 1 \in 1 .. N /\ n + 1 - 1 = n
    BY <2>1
  <2>3. c[n + 1] = Query(mods, c[n], Where[order[n + 1]]).cache
    <3>1. \A i \in 1 .. N : c[i] = Query(mods, c[i - 1], Where[order[i]]).cache
      BY <1>2 DEF CacheRun
    <3>2. c[n + 1] = Query(mods, c[n + 1 - 1], Where[order[n + 1]]).cache
      BY <2>2, <3>1
    <3> QED BY <2>2, <3>2
  <2>4. PICK x \in Nat : x = Where[order[n + 1]]
    BY <1>3, <2>2
  <2>5. IsCache(mods, Query(mods, c[n], x).cache)
    BY <2>1, QueryIs
  <2> QED BY <2>3, <2>4, <2>5
<1>6. T \in SUBSET Nat
  OBVIOUS
<1>7. T = Nat
  <2> HIDE DEF T
  <2> QED BY <1>4, <1>5, <1>6, AllNat
<1>8. \A n \in 0 .. N : IsCache(mods, c[n])
  BY <1>7
<1>9. DOMAIN Keys(mods, order) = 1 .. N
  BY DEF Keys
<1>10. ASSUME NEW n \in 1 .. N  PROVE  KeyOf(mods, Keys(mods, order)[n], Where[order[n]])
  <2>1. Keys(mods, order)[n] = Query(mods, c[n - 1], Where[order[n]]).key
    BY <1>1 DEF Keys
  <2>2. n - 1 \in 0 .. N
    OBVIOUS
  <2>3. IsCache(mods, c[n - 1])
    BY <1>8, <2>2
  <2>4. PICK x \in Nat : x = Where[order[n]]
    BY <1>3
  <2>5. KeyOf(mods, Query(mods, c[n - 1], x).key, x)
    BY <2>3, QueryIs
  <2> QED BY <2>1, <2>4, <2>5
<1> QED BY <1>9, <1>10 DEF HasKeys

\* The largest of some indices.
LEMMA GreatestNat ==
  ASSUME NEW N \in Nat, NEW T \in SUBSET (1 .. N), T # {}
  PROVE  \E n \in T : \A m \in T : m <= n
<1>1. PICK U : U = {N - m : m \in T}
  OBVIOUS
<1>2. U \subseteq Nat /\ U # {}
  <2>1. \A m \in T : m \in 1 .. N
    OBVIOUS
  <2>2. \A m \in 1 .. N : N - m \in Nat
    OBVIOUS
  <2> QED BY <1>1, <2>1, <2>2
<1>3. PICK u \in U : \A v \in U : u <= v
  BY <1>2, LeastNat
<1>4. PICK n \in T : u = N - n
  BY <1>1
<1>5. ASSUME NEW m \in T  PROVE  m <= n
  <2>1. N - m \in U
    BY <1>1
  <2>2. N - n <= N - m
    BY <1>3, <1>4, <2>1
  <2> QED BY <2>2
<1> QED BY <1>5

\* Every key of the report has the count of an instruction with that key.
Reports(rep, order, cnt, N, keys) ==
  /\ DOMAIN rep = {keys[n] : n \in 1 .. N}
  /\ \A n \in 1 .. N : \E l \in 1 .. N : keys[l] = keys[n] /\ rep[keys[n]] = cnt[order[l]]

LEMMA ReportIs ==
  ASSUME NEW mods, NEW N \in Nat, NEW order, NEW cnt, NEW keys, keys = Keys(mods, order),
         HasKeys(mods, order, N, keys)
  PROVE  Reports(Report(mods, order, cnt), order, cnt, N, keys)
<1> DEFINE Latest(key) == CHOOSE n \in DOMAIN keys : /\ keys[n] = key
                                                     /\ \A m \in DOMAIN keys : keys[m] = key => m <= n
<1>0. DOMAIN keys = 1 .. N
  BY DEF HasKeys
<1>1. Report(mods, order, cnt) = [key \in {keys[n] : n \in DOMAIN keys} |-> cnt[order[Latest(key)]]]
  BY DEF Report
<1>2. ASSUME NEW n \in 1 .. N  PROVE  Latest(keys[n]) \in 1 .. N /\ keys[Latest(keys[n])] = keys[n]
  <2>1. PICK T : T = {m \in 1 .. N : keys[m] = keys[n]}
    OBVIOUS
  <2>2. T \in SUBSET (1 .. N) /\ T # {}
    BY <2>1
  <2>3. PICK l \in T : \A m \in T : m <= l
    BY <2>2, GreatestNat
  <2>4. l \in DOMAIN keys /\ keys[l] = keys[n] /\ \A m \in DOMAIN keys : keys[m] = keys[n] => m <= l
    BY <1>0, <2>1, <2>3
  <2> QED BY <1>0, <2>4
<1> HIDE DEF Latest
<1>3. ASSUME NEW n \in 1 .. N
      PROVE  \E l \in 1 .. N :
               keys[l] = keys[n] /\ Report(mods, order, cnt)[keys[n]] = cnt[order[l]]
  <2>1. Report(mods, order, cnt)[keys[n]] = cnt[order[Latest(keys[n])]]
    BY <1>0, <1>1
  <2> QED BY <1>2, <2>1
<1>4. DOMAIN Report(mods, order, cnt) = {keys[n] : n \in 1 .. N}
  BY <1>0, <1>1
<1> QED BY <1>3, <1>4 DEF Reports

\* The report was written in the order of order.
Written(order, N, keys) ==
  /\ N = Cardinality(Executed) /\ order \in [1 .. N -> Executed]
  /\ \A i, j \in 1 .. N : order[i] = order[j] => i = j
  /\ \A a \in Executed : \E n \in 1 .. N : order[n] = a
  /\ HasKeys(modules, order, N, keys)
  /\ Reports(report, order, result, N, keys)

LEMMA WrittenIs ==
  ASSUME PipeInv, pc = "done"
  PROVE  ModuleList(modules) /\ \E order, keys : \E N \in Nat : Written(order, N, keys)
<1>1. ModuleList(modules)
  BY ModulesIs DEF PipeInv, ReportInv
<1>2. PICK order \in Orders(Executed) : report = Report(modules, order, result)
  BY DEF PipeInv, ReportInv
<1>3. PICK S \in SUBSET Addr : S = Executed
  BY DEF Executed
<1>4. PICK N \in Nat :
        /\ N = Cardinality(S) /\ N = Len(order) /\ order \in [1 .. N -> S]
        /\ \A i, j \in 1 .. N : order[i] = order[j] => i = j
        /\ \A a \in S : \E n \in 1 .. N : order[n] = a
  BY <1>3, OrderIs
<1>5. PICK mods, keys, cnt : mods = modules /\ keys = Keys(mods, order) /\ cnt = result
  OBVIOUS
<1>6. HasKeys(mods, order, N, keys)
  BY <1>1, <1>4, <1>5, KeysAre
<1>7. Reports(Report(mods, order, cnt), order, cnt, N, keys)
  BY <1>5, <1>6, ReportIs
<1>8. Written(order, N, keys)
  BY <1>2, <1>3, <1>4, <1>5, <1>6, <1>7 DEF Written
<1> QED BY <1>1, <1>8

LEMMA PipeReport == PipeInv => ReportFaithful
<1> SUFFICES ASSUME PipeInv, pc = "done",
                    \A k, l \in DOMAIN modules : modules[k].name = modules[l].name => k = l,
                    \A k \in DOMAIN modules : modules[k].name # "dummy"
             PROVE  /\ Cardinality(DOMAIN report) = Cardinality(Executed)
                    /\ \A a \in Executed :
                         \E key \in DOMAIN report :
                           report[key] = result[a] /\ NamesAddr(modules, key, Where[a])
  BY DEF ReportFaithful, Executed
<1>1. ModuleList(modules)
  BY WrittenIs
<1>2. PICK order, keys : \E N \in Nat : Written(order, N, keys)
  BY WrittenIs
<1>3. PICK N \in Nat : Written(order, N, keys)
  BY <1>2
<1>4. /\ N = Cardinality(Executed) /\ order \in [1 .. N -> Executed]
      /\ \A i, j \in 1 .. N : order[i] = order[j] => i = j
      /\ \A a \in Executed : \E n \in 1 .. N : order[n] = a
  BY <1>3 DEF Written
<1>5. \A a \in Executed : a \in Addr
  BY DEF Executed
<1>6. DOMAIN keys = 1 .. N /\ \A n \in 1 .. N : KeyOf(modules, keys[n], Where[order[n]])
  BY <1>3 DEF Written, HasKeys
<1>7. \A n \in 1 .. N : order[n] \in Addr /\ Where[order[n]] \in Nat
  BY <1>4, <1>5, ModuleAssumption, OnlineAssumption
<1>8. \A i, j \in 1 .. N : keys[i] = keys[j] => i = j
  <2> SUFFICES ASSUME NEW i \in 1 .. N, NEW j \in 1 .. N, keys[i] = keys[j]  PROVE  i = j
    OBVIOUS
  <2>1. PICK x \in Nat, y \in Nat : x = Where[order[i]] /\ y = Where[order[j]]
    BY <1>7
  <2>2. KeyOf(modules, keys[i], x) /\ KeyOf(modules, keys[i], y)
    BY <1>6, <2>1
  <2>3. x = y
    BY <1>1, <2>2, KeyTells
  <2>4. order[i] = order[j]
    BY <1>7, <2>1, <2>3, ModuleAssumption, OnlineAssumption
  <2> QED BY <1>4, <2>4
<1>9. /\ DOMAIN report = {keys[n] : n \in 1 .. N}
      /\ \A n \in 1 .. N : \E l \in 1 .. N :
           keys[l] = keys[n] /\ report[keys[n]] = result[order[l]]
  BY <1>3 DEF Written, Reports
<1>10. \A n \in 1 .. N : report[keys[n]] = result[order[n]]
  BY <1>8, <1>9
<1>11. Cardinality(DOMAIN report) = N
  <2>1. PICK K : K = DOMAIN report
    OBVIOUS
  <2>2. PICK f : f = [n \in 1 .. N |-> keys[n]]
    OBVIOUS
  <2>3. f \in [1 .. N -> K] /\ \A n \in 1 .. N : f[n] = keys[n]
    BY <1>9, <2>1, <2>2
  <2>4. \A i, j \in 1 .. N : f[i] = f[j] => i = j
    BY <1>8, <2>3
  <2>5. \A key \in K : \E n \in 1 .. N : f[n] = key
    BY <1>9, <2>1, <2>3
  <2>6. f \in Bijection(1 .. N, K)
    BY <2>3, <2>4, <2>5 DEF Bijection, Injection, Surjection, IsInjective
  <2>7. ExistsBijection(1 .. N, K)
    BY <2>6 DEF ExistsBijection
  <2> QED BY <2>1, <2>7, FS_CountingElements
<1>12. ASSUME NEW a \in Executed
       PROVE  \E key \in DOMAIN report : report[key] = result[a] /\ NamesAddr(modules, key, Where[a])
  <2>1. PICK n \in 1 .. N : order[n] = a
    BY <1>4
  <2>2. PICK x \in Nat : x = Where[a]
    BY <1>7, <2>1
  <2>3. KeyOf(modules, keys[n], x)
    BY <1>6, <2>1, <2>2
  <2>4. NamesAddr(modules, keys[n], x)
    BY <1>1, <2>3, KeyNames
  <2>5. keys[n] \in DOMAIN report /\ report[keys[n]] = result[a]
    BY <1>9, <1>10, <2>1
  <2> QED BY <2>2, <2>4, <2>5
<1> QED BY <1>4, <1>11, <1>12

\* No count in the report is zero.
LEMMA PipeKeys ==
  ASSUME PipeInv, NEW key \in DOMAIN report
  PROVE  report[key] \in Nat \ {0}
<1>1. CASE pc # "done"
  <2>1. report = << >>
    BY <1>1 DEF PipeInv, ReportInv
  <2> QED BY <2>1
<1>2. CASE pc = "done"
  <2>1. PICK order, keys : \E N \in Nat : Written(order, N, keys)
    BY <1>2, WrittenIs
  <2>2. PICK N \in Nat : Written(order, N, keys)
    BY <2>1
  <2>3. order \in [1 .. N -> Executed]
    BY <2>2 DEF Written
  <2>4. /\ DOMAIN report = {keys[n] : n \in 1 .. N}
        /\ \A n \in 1 .. N : \E l \in 1 .. N :
             keys[l] = keys[n] /\ report[keys[n]] = result[order[l]]
    BY <2>2 DEF Written, Reports
  <2>5. PICK l \in 1 .. N : report[key] = result[order[l]]
    BY <2>4
  <2>6. order[l] \in Addr /\ result[order[l]] > 0
    BY <2>3 DEF Executed
  <2>7. result[order[l]] \in Nat
    BY <2>6 DEF PipeInv, PipeTypes
  <2> QED BY <2>5, <2>6, <2>7
<1> QED BY <1>1, <1>2

LEMMA PipeTypeOK == PipeInv => TypeOK
<1> SUFFICES ASSUME PipeInv  PROVE  TypeOK
  OBVIOUS
<1>1. OnlineTypes /\ PollTypes /\ PipeTypes /\ ReportInv
  BY DEF PipeInv, OnlineInv
<1>2. \A c \in Cpu : avail[c] \in 0 .. Len(stream[c]) /\ captured[c] \in 0 .. avail[c]
  <2> SUFFICES ASSUME NEW c \in Cpu
               PROVE  avail[c] \in 0 .. Len(stream[c]) /\ captured[c] \in 0 .. avail[c]
    OBVIOUS
  <2>1. /\ Len(stream[c]) \in Nat /\ avail[c] \in Nat /\ captured[c] \in Nat
        /\ captured[c] <= avail[c] /\ avail[c] <= Len(stream[c])
    BY <1>1, StreamIs
  <2> QED BY <2>1
<1>3. G_STOP \in BOOLEAN /\ flags \in [Cpu -> BOOLEAN] /\ tx \in [Cpu -> BOOLEAN]
  BY <1>1 DEF PollTypes
<1>4. /\ stream \in Streams /\ idx \in Cpu
      /\ pc \in {"fetch", "process", "drop", "join", "wait", "collect", "write",
                "done", "crashed", "lost"}
      /\ spl \in [Cpu -> {"run", "done", "panic"}] /\ wrk \in [Worker -> {"run", "done"}]
  BY <1>1 DEF OnlineTypes
<1>5. last_size \in [Cpu -> 0 .. OutLen] /\ modules \in {Modules, << >>}
  BY <1>1 DEF PollTypes, ReportInv
<1>6. \A key \in DOMAIN report : report[key] \in Nat \ {0}
  BY PipeKeys
<1> QED BY <1>1, <1>2, <1>3, <1>4, <1>5, <1>6 DEF TypeOK, PipeTypes

\* The inductive invariant of the pipeline: what each channel holds continues what its
\* spliter was given, every instruction sent is counted, given up on or queued, and
\* the main thread waits for whoever still has something.
THEOREM PipeInvariant == Spec => []PipeInv
BY PipeInit, PipeStep, PTL DEF Spec

\* Every variable keeps its type; no chunk is larger than tmp_buff, nothing is
\* captured before the hardware wrote it, and no count in the report is zero.
THEOREM OnlineTypeOK == Spec => []TypeOK
BY PipeInvariant, PipeTypeOK, PTL

\* However fetch_data cut the trace, a spliter sends the pieces that cutting all of
\* its input at once would give: assemed_data carries a header over chunk boundaries.
THEOREM ChunkingIsIrrelevant == Spec => []ChunkingIrrelevant
BY PipeInvariant, PipeChunking, PTL

\* When write_to_file has run, collect_all_data's table and the instructions decode
\* gave up on are all that was captured between two synchronisation points.
THEOREM CountIsFinal == Spec => []FinalCount
BY PipeInvariant, PipeCount, PTL

\* The unwraps on channels and joins panic on a machine without a worker only, and
\* only after two synchronisation points of one ring were captured.
THEOREM CrashNeedsOneCpu == Spec => []CrashOnlyWithoutWorkers
BY PipeInvariant, PipeCrash, PTL

\* Every executed instruction has its count under a key that names its address, and
\* no two share a key, whatever the order of the pages and the state of
\* module_info_cache, when the modules' names tell them apart.
THEOREM ReportIsFaithful == Spec => []ReportFaithful
BY PipeInvariant, PipeReport, PTL
=============================================================================
