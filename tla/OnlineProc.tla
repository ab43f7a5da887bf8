----------------------------- MODULE OnlineProc -----------------------------
(***************************************************************************)
(* The online decoder, src/bin/online_proc.rs: one thread polls the trace  *)
(* rings of all processors, one spliter thread per processor cuts the      *)
(* bytes it is handed at the synchronisation points of the trace, and the  *)
(* workers, one fewer than processors, decode the pieces and count how     *)
(* often each address was executed.  Ctrl-C ends the capture; the main     *)
(* thread then joins everybody and adds the counts up.                     *)
(*                                                                         *)
(* A trace is a sequence of tokens: "psb" and "end" open and close the     *)
(* header of a synchronisation point, every other token is one executed    *)
(* instruction, given by its address.  The rings are lossless here; PtRing *)
(* says when they are.                                                     *)
(***************************************************************************)
EXTENDS Integers, Sequences, FiniteSets, FiniteSetsExt, SequencesExt, ModuleLookup

CONSTANTS
  Addr,      \* the instructions; Where gives their addresses
  MaxCpus,   \* bound on the number of processors
  Streams,   \* the machines: the trace each of their processors will produce
  OutLen     \* tmp_buff.len(): the most one fetch_data returns

Token == Addr \cup {"psb", "end"}

ASSUME OnlineAssumption ==
  /\ OutLen \in Nat \ {0}
  /\ MaxCpus \in Nat
  /\ IsFiniteSet(Addr)
  /\ DOMAIN Where = Addr
  /\ {"psb", "end"} \cap Addr = {}
  /\ \A s \in Streams : /\ \E n \in 1 .. MaxCpus : DOMAIN s = 0 .. n - 1
                        /\ \A c \in DOMAIN s : s[c] \in Seq(Token)

VARIABLES
  stream,     \* what each processor's trace will be
  avail,      \* how much of it the hardware has written
  captured,   \* how much of it fetch_data has taken (read_pos, unwrapped)
  G_STOP,     \* set by the Ctrl-C handler
  at_stop,    \* history: avail when G_STOP was set
  pc, idx,    \* the main thread: where it is, and its loop variable
  flags,      \* setup_pt_no_pmi: the rings that saw G_STOP in this round
  chunk,      \* tmp_buff[..read_size]
  last_size,  \* history: size of the last chunk of each ring
  tx,         \* pd.tx.0: the sender to each spliter is still there
  chan,       \* the mpsc channel to each spliter
  spl,        \* the spliter threads: "run", "done" or "panic"
  assemed,    \* assemed_data of each spliter
  sent,       \* history: the pieces each spliter sent
  queue,      \* the channel all workers receive from
  wrk,        \* the worker threads: "run" or "done"
  data,       \* pd.data: executions of each address, per worker
  skipped,    \* history: instructions lost to decoding errors
  result,     \* the merged counts
  modules,    \* all_module_info of the Process write_to_file makes
  report      \* data_wt: what write_to_file writes

\* cpu_nums, which is also out_buff_num, and the workers.
Cpu == DOMAIN stream
CpuNums == Cardinality(Cpu)
Worker == 0 .. CpuNums - 2

hw == <<stream, avail>>
capture == <<captured, flags, chunk, last_size>>
spliters == <<spl, assemed, sent>>
workers == <<wrk, data, skipped>>
output == <<result, modules, report>>
vars == <<stream, avail, captured, G_STOP, at_stop, pc, idx, flags, chunk,
          last_size, tx, chan, spl, assemed, sent, queue, wrk, data, skipped,
          result, modules, report>>

Alive == pc \notin {"crashed", "lost"}
Capturing == pc \in {"fetch", "process"}

Zero == [a \in Addr |-> 0]
Count(s) == [a \in Addr |-> Cardinality({k \in 1 .. Len(s) : s[k] = a})]
Plus(f, g) == [a \in Addr |-> f[a] + g[a]]

Init ==
  /\ stream \in Streams
  /\ avail = [c \in Cpu |-> 0]
  /\ captured = [c \in Cpu |-> 0]
  /\ G_STOP = FALSE
  /\ at_stop = [c \in Cpu |-> 0]
  /\ pc = "fetch"
  /\ idx = 0
  /\ flags = [c \in Cpu |-> FALSE]
  /\ chunk = << >>
  /\ last_size = [c \in Cpu |-> 0]
  /\ tx = [c \in Cpu |-> TRUE]
  /\ chan = [c \in Cpu |-> << >>]
  /\ spl = [c \in Cpu |-> "run"]
  /\ assemed = [c \in Cpu |-> << >>]
  /\ sent = [c \in Cpu |-> << >>]
  /\ queue = << >>
  /\ wrk = [w \in Worker |-> "run"]
  /\ data = [w \in Worker |-> Zero]
  /\ skipped = Zero
  /\ result = Zero
  /\ modules = << >>
  /\ report = << >>

-----------------------------------------------------------------------------
(* The environment: the hardware writes trace, the user presses Ctrl-C.    *)
(* What happens after the last poll is not observed.                       *)

HwTrace(c) ==
  /\ Capturing
  /\ avail[c] < Len(stream[c])
  /\ avail' = [avail EXCEPT ![c] = @ + 1]
  /\ UNCHANGED <<stream, G_STOP, at_stop, pc, idx, capture, tx, chan, spliters,
                 queue, workers, output>>

CtrlC ==
  /\ Capturing
  /\ ~G_STOP
  /\ G_STOP' = TRUE
  /\ at_stop' = avail
  /\ UNCHANGED <<hw, pc, idx, capture, tx, chan, spliters, queue, workers, output>>

-----------------------------------------------------------------------------
(* The main thread: the polling loop of setup_pt_no_pmi.                   *)

\* What fetch_data finds, at most a full tmp_buff.
ReadSizeUncapped == avail[idx] - captured[idx]
ReadSize == Min({avail[idx] - captured[idx], OutLen})

\* fetch_data on ring idx.
Fetch ==
  LET size == ReadSize IN
  /\ pc = "fetch"
  /\ pc' = "process"
  /\ chunk' = SubSeq(stream[idx], captured[idx] + 1, captured[idx] + size)
  /\ captured' = [captured EXCEPT ![idx] = @ + size]
  /\ last_size' = [last_size EXCEPT ![idx] = size]
  /\ UNCHANGED <<hw, G_STOP, at_stop, idx, flags, tx, chan, spliters, queue,
                 workers, output>>

\* The condition on which the polling loop returns.
AllFlaggedOneMore(f) == \A c \in 0 .. CpuNums : c \in Cpu /\ f[c]
AllFlagged(f) == \A c \in Cpu : f[c]

\* flags at the head of the next turn: a new vector for every round.
NextFlagsKept(f) == f
NextFlags(f) == IF idx = CpuNums - 1 THEN [c \in Cpu |-> FALSE] ELSE f

\* processor(idx, ..) and what setup_pt_no_pmi makes of its answer.  The send
\* panics, and with it the process dies, when the spliter is gone.
Process ==
  LET f == [flags EXCEPT ![idx] = @ \/ G_STOP] IN
  /\ pc = "process"
  /\ chunk' = << >>
  /\ \/ /\ chunk # << >> /\ spl[idx] # "run"
        /\ pc' = "crashed"
        /\ UNCHANGED <<idx, flags, chan>>
     \/ /\ chunk = << >> \/ spl[idx] = "run"
        /\ chan' = IF chunk = << >> THEN chan ELSE [chan EXCEPT ![idx] = Append(@, chunk)]
        /\ \/ /\ G_STOP /\ AllFlagged(f)
              /\ pc' = "drop" /\ idx' = 0 /\ flags' = f
           \/ /\ ~(G_STOP /\ AllFlagged(f))
              /\ pc' = "fetch" /\ idx' = (idx + 1) % CpuNums /\ flags' = NextFlags(f)
  /\ UNCHANGED <<hw, captured, G_STOP, at_stop, last_size, tx, spliters, queue,
                 workers, output>>

-----------------------------------------------------------------------------
(* The spliter threads.                                                    *)

\* The synchronisation points whose header is complete.
Marks(s) == {k \in 1 .. Len(s) - 1 : s[k] = "psb" /\ s[k + 1] = "end"}

\* Their offsets, in the order in which sync_forward finds them.
Split(d) ==
  LET marks == Marks(d)
      m == Cardinality(marks)
  IN  CHOOSE off \in [1 .. m -> marks] : \A i, j \in 1 .. m : i < j => off[i] < off[j]

\* The pieces between consecutive offsets.
PiecesWithTail(d, off) ==
  [n \in 1 .. Len(off) |->
     SubSeq(d, off[n], IF n = Len(off) THEN Len(d) ELSE off[n + 1] - 1)]
Pieces(d, off) == [n \in 1 .. Len(off) - 1 |-> SubSeq(d, off[n], off[n + 1] - 1)]

\* assemed_data afterwards: everything from the last offset on.
KeptAfterHeader(d, off) == IF off = << >> THEN d ELSE SubSeq(d, Last(off) + 2, Len(d))
Kept(d, off) == IF off = << >> THEN d ELSE SubSeq(d, Last(off), Len(d))

\* send fails once no worker holds a receiver.
NoReceiverNever == FALSE
NoReceiver == \A w \in Worker : wrk[w] # "run"

\* One turn of the loop: append what was received, cut, send the pieces.  The
\* first failing send panics.
SpliterTurn(c) ==
  LET d == assemed[c] \o Head(chan[c])
      off == Split(d)
      pieces == Pieces(d, off)
  IN
  /\ Alive
  /\ spl[c] = "run"
  /\ chan[c] # << >>
  /\ \/ /\ pieces # << >> /\ NoReceiver
        /\ spl' = [spl EXCEPT ![c] = "panic"]
        /\ UNCHANGED <<chan, assemed, sent, queue>>
     \/ /\ pieces = << >> \/ ~NoReceiver
        /\ chan' = [chan EXCEPT ![c] = Tail(@)]
        /\ assemed' = [assemed EXCEPT ![c] = Kept(d, off)]
        /\ sent' = [sent EXCEPT ![c] = @ \o pieces]
        /\ queue' = queue \o pieces
        /\ UNCHANGED spl
  /\ UNCHANGED <<hw, G_STOP, at_stop, pc, idx, capture, tx, workers, output>>

\* recv fails once the sender is dropped and the channel drained.
SpliterEnd(c) ==
  /\ Alive
  /\ spl[c] = "run"
  /\ chan[c] = << >>
  /\ ~tx[c]
  /\ spl' = [spl EXCEPT ![c] = "done"]
  /\ UNCHANGED <<hw, G_STOP, at_stop, pc, idx, capture, tx, chan, assemed, sent,
                 queue, workers, output>>

-----------------------------------------------------------------------------
(* The worker threads.                                                     *)

\* One turn of the loop: decode counts the instructions of a piece, up to the
\* first one libipt cannot decode.  Nobody else looks at data meanwhile.
WorkerTurn(w) ==
  /\ Alive
  /\ wrk[w] = "run"
  /\ queue # << >>
  /\ queue' = Tail(queue)
  /\ \E n \in 0 .. Len(Head(queue)) :
       LET d == Head(queue) IN
       /\ n < Len(d) => d[n + 1] \in Addr
       /\ data' = [data EXCEPT ![w] = Plus(@, Count(SubSeq(d, 1, n)))]
       /\ skipped' = Plus(skipped, Count(SubSeq(d, n + 1, Len(d))))
  /\ UNCHANGED <<hw, G_STOP, at_stop, pc, idx, capture, tx, chan, spliters, wrk,
                 output>>

\* recv fails once every spliter has dropped its sender and nothing is queued.
WorkerMayEndIdle == queue = << >>
WorkerMayEnd == queue = << >> /\ \A c \in Cpu : spl[c] # "run"

WorkerEnd(w) ==
  /\ Alive
  /\ wrk[w] = "run"
  /\ WorkerMayEnd
  /\ wrk' = [wrk EXCEPT ![w] = "done"]
  /\ UNCHANGED <<hw, G_STOP, at_stop, pc, idx, capture, tx, chan, spliters, queue,
                 data, skipped, output>>

-----------------------------------------------------------------------------
(* The main thread again: wait_for_complete and collect_all_data.          *)

\* pd.tx.0.take()
DropTx ==
  /\ pc = "drop"
  /\ tx' = [tx EXCEPT ![idx] = FALSE]
  /\ pc' = "join"
  /\ UNCHANGED <<hw, G_STOP, at_stop, idx, capture, chan, spliters, queue, workers,
                 output>>

\* h.join().unwrap()
JoinSpliter ==
  /\ pc = "join"
  /\ \/ /\ spl[idx] = "panic"
        /\ pc' = "crashed"
        /\ UNCHANGED idx
     \/ /\ spl[idx] = "done"
        /\ IF idx = CpuNums - 1 THEN pc' = "wait" /\ idx' = 0
                                ELSE pc' = "drop" /\ idx' = idx + 1
  /\ UNCHANGED <<hw, G_STOP, at_stop, capture, tx, chan, spliters, queue, workers,
                 output>>

\* pd.worker is None for the last processor.
WorkerJoinedAlways == TRUE
WorkerJoined == idx \in Worker => wrk[idx] = "done"

JoinWorker ==
  /\ pc = "wait"
  /\ WorkerJoined
  /\ IF idx = CpuNums - 1 THEN pc' = "collect" /\ idx' = 0
                          ELSE pc' = "wait" /\ idx' = idx + 1
  /\ UNCHANGED <<hw, G_STOP, at_stop, capture, tx, chan, spliters, queue, workers,
                 output>>

\* Merge the tables of all workers.
Collect ==
  /\ pc = "collect"
  /\ pc' = "write"
  /\ result' = [a \in Addr |-> SumFunction([w \in Worker |-> data[w][a]])]
  /\ UNCHANGED <<hw, G_STOP, at_stop, idx, capture, tx, chan, spliters, queue,
                 workers, modules, report>>

\* write_to_file.  The modules are listed only now: a process that has ended
\* meanwhile has none left.
WriteToFile ==
  LET executed == {a \in Addr : result[a] > 0} IN
  /\ pc = "write"
  /\ pc' = "done"
  /\ modules' \in {Modules, << >>}
  /\ \E order \in Orders(executed) : report' = Report(modules', order, result)
  /\ UNCHANGED <<hw, G_STOP, at_stop, idx, capture, tx, chan, spliters, queue,
                 workers, result>>

\* get_module_info, the creation of the file or its write fails: the unwrap
\* panics and the counts are lost.
WriteFails ==
  /\ pc = "write"
  /\ pc' = "lost"
  /\ UNCHANGED <<hw, G_STOP, at_stop, idx, capture, tx, chan, spliters, queue,
                 workers, output>>

\* The process has ended.
Terminated == pc \in {"done", "crashed", "lost"} /\ UNCHANGED vars

Main == Fetch \/ Process \/ DropTx \/ JoinSpliter \/ JoinWorker \/ Collect
        \/ WriteToFile \/ WriteFails
Spliter(c) == SpliterTurn(c) \/ SpliterEnd(c)
WorkerThread(w) == WorkerTurn(w) \/ WorkerEnd(w)

Next ==
  \/ Main
  \/ \E c \in Cpu : HwTrace(c) \/ Spliter(c)
  \/ \E w \in Worker : WorkerThread(w)
  \/ CtrlC
  \/ Terminated

\* Every thread is scheduled by the operating system; nobody has to press Ctrl-C.
Fairness ==
  /\ WF_vars(Main)
  /\ \A c \in 0 .. MaxCpus - 1 : WF_vars(c \in Cpu /\ Spliter(c))
  /\ \A w \in 0 .. MaxCpus - 2 : WF_vars(w \in Worker /\ WorkerThread(w))

Spec == Init /\ [][Next]_vars /\ Fairness
-----------------------------------------------------------------------------
TypeOK ==
  /\ stream \in Streams
  /\ \A c \in Cpu : avail[c] \in 0 .. Len(stream[c]) /\ captured[c] \in 0 .. avail[c]
  /\ G_STOP \in BOOLEAN
  /\ pc \in {"fetch", "process", "drop", "join", "wait", "collect", "write",
            "done", "crashed", "lost"}
  /\ idx \in Cpu
  /\ flags \in [Cpu -> BOOLEAN]
  /\ chunk \in Seq(Token) /\ Len(chunk) <= OutLen
  /\ last_size \in [Cpu -> 0 .. OutLen]
  /\ tx \in [Cpu -> BOOLEAN]
  /\ chan \in [Cpu -> Seq(Seq(Token))]
  /\ spl \in [Cpu -> {"run", "done", "panic"}]
  /\ assemed \in [Cpu -> Seq(Token)]
  /\ sent \in [Cpu -> Seq(Seq(Token))]
  /\ queue \in Seq(Seq(Token))
  /\ wrk \in [Worker -> {"run", "done"}]
  /\ data \in [Worker -> [Addr -> Nat]]
  /\ skipped \in [Addr -> Nat]
  /\ result \in [Addr -> Nat]
  /\ modules \in {Modules, << >>}
  /\ \A key \in DOMAIN report : report[key] \in Nat \ {0}

\* What the spliter of c has received: what was captured, without the chunk the
\* main thread still holds and the chunks in the channel.
InChannel(c) ==
  Cardinality({p \in (1 .. Len(chan[c])) \X (1 .. OutLen) : p[2] <= Len(chan[c][p[1]])})
Received(c) ==
  SubSeq(stream[c], 1, captured[c] - InChannel(c) - IF idx = c THEN Len(chunk) ELSE 0)

\* However the trace was cut into chunks, even through the header of a
\* synchronisation point, a spliter has sent exactly the pieces that cutting
\* everything it received at once would give, and keeps the rest.
ChunkingIrrelevant ==
  \A c \in Cpu : spl[c] # "panic" =>
    LET r == Received(c)
        marks == Marks(r)
        m == Cardinality(marks)
    IN  \E off \in [1 .. m -> marks] :
          /\ \A i, j \in 1 .. m : i < j => off[i] < off[j]
          /\ Len(sent[c]) = IF m = 0 THEN 0 ELSE m - 1
          /\ \A n \in 1 .. Len(sent[c]) : sent[c][n] = SubSeq(r, off[n], off[n + 1] - 1)
          /\ assemed[c] = IF m = 0 THEN r ELSE SubSeq(r, off[m], Len(r))

\* The executions of a between two synchronisation points of s.
Enclosed(s, a) ==
  {k \in 1 .. Len(s) : /\ s[k] = a
                       /\ \E p, q \in Marks(s) : p < k /\ k < q}

\* The counts written at the end cover every instruction captured between two
\* synchronisation points, once each, except those decode gave up on: nothing is
\* left in a channel, in a thread, or in a table that was merged too early.
FinalCount ==
  pc = "done" =>
    \A a \in Addr :
      result[a] + skipped[a] =
        SumFunction([c \in Cpu |-> Cardinality(Enclosed(SubSeq(stream[c], 1, captured[c]), a))])

\* When the polling loop has returned, every ring except the first was fetched
\* after Ctrl-C: all it held then is captured, unless the last fetch filled
\* tmp_buff.  (The first ring may have been fetched just before.)
CapturedUpToStop ==
  ~Capturing /\ pc # "crashed" =>
    \A c \in Cpu \ {0} : captured[c] >= at_stop[c] \/ last_size[c] = OutLen

\* The unwraps on channels and joins panic only on a machine with one processor,
\* where there is no worker, and only once there is a complete piece to decode.
CrashOnlyWithoutWorkers ==
  pc = "crashed" \/ (\E c \in Cpu : spl[c] = "panic") =>
    /\ Worker = {}
    /\ \E c \in Cpu :
         \E p, q \in Marks(SubSeq(stream[c], 1, captured[c])) : p < q

\* The report gives every executed instruction its count, once, under a key from
\* which its address can be told: whatever the order of the pages and whichever
\* of two adjacent modules the lookup picks, no two addresses share a key and
\* none is placed in a module it is outside of.  (Two modules of the same name, or
\* one called as the addresses outside of all modules are, may share keys.)
ReportFaithful ==
  LET executed == {a \in Addr : result[a] > 0}
      distinct == \A k, l \in DOMAIN modules : modules[k].name = modules[l].name => k = l
      proper == \A k \in DOMAIN modules : modules[k].name # "dummy"
  IN
  pc = "done" /\ distinct /\ proper =>
    /\ Cardinality(DOMAIN report) = Cardinality(executed)
    /\ \A a \in executed :
         \E key \in DOMAIN report : report[key] = result[a] /\ NamesAddr(modules, key, Where[a])

\* After Ctrl-C the program winds down: all threads end and the counts are
\* written, or the write fails (or, with a single processor, the panic of the
\* spliter ends the process).
StopCompletes == G_STOP ~> (pc \in {"done", "lost"} \/ (Worker = {} /\ pc = "crashed"))
=============================================================================
