------------------------------ MODULE Collector -----------------------------
(***************************************************************************)
(* The trace collector, src/bin/collector.rs, and its file writer,         *)
(* src/file_writer/mod.rs.  One thread polls the rings and hands every     *)
(* chunk, empty ones too, to the current DataWriter of the ring; a task    *)
(* per DataWriter takes the chunks from a bounded channel, writes them to  *)
(* a file named <seconds>-<ring>.tmp, and renames the file to .data once   *)
(* its DataWriter was replaced by the next.                                *)
(*                                                                         *)
(* The bytes of a ring are numbered in the order they are fetched.  Files  *)
(* behave as on the target system: creating a name that exists truncates   *)
(* the file behind it, a rename leaves open handles valid and replaces the *)
(* target, and each handle has a position of its own.  The collector has   *)
(* no orderly end: it is killed, in any state of this model.               *)
(***************************************************************************)
EXTENDS Integers, Sequences, FiniteSets, SequencesExt

CONSTANTS
  Rings,      \* out_buff_num, and the number of processors
  FILE_SIZE,  \* bytes after which a new file is begun
  Cap,        \* capacity of a writer's channel (10000 in the source)
  MaxChunk,   \* the most one fetch_data returns
  MaxBytes,   \* bound on the bytes fetched from one ring
  MaxTime     \* bound on the clock, in seconds

ASSUME CollectorAssumption ==
  /\ Rings \in Nat \ {0} /\ Cap \in Nat \ {0}
  /\ {FILE_SIZE, MaxChunk, MaxBytes, MaxTime} \subseteq Nat

Ring == 0 .. Rings - 1

VARIABLES
  clock,      \* seconds since the epoch
  pc, idx,    \* the polling thread: where it is, and its loop variable
  fetched,    \* bytes fetched so far, per ring
  writers,    \* the DataWriters of each ring and their tasks, oldest first
  dir,        \* the directory: which file a name stands for
  content,    \* the bytes of each file; 0 is a hole
  io_failed   \* history: an operation on a file failed

poll == <<pc, idx, fetched>>
files == <<dir, content>>
vars == <<clock, pc, idx, fetched, writers, dir, content, io_failed>>

Alive == pc # "crashed"

\* The bytes numbered a + 1 to b.
Bytes(a, b) == [k \in 1 .. b - a |-> a + k]

\* get_file_name, with the suffix exchanged for "data" in the complete name.
FileName(r, suffix) == <<clock, r, suffix>>

\* DataWriter::new: the channel and a task that has not run yet.
NewWriter(r, first) ==
  [file_name |-> FileName(r, "tmp"), complete_name |-> FileName(r, "data"),
   queue |-> << >>, tx |-> TRUE, write_size |-> 0,
   task |-> "create", file |-> 0, pos |-> 0,
   first |-> first]            \* history: bytes of the ring before this writer's

Init ==
  /\ clock = 0
  /\ pc = "create_env"
  /\ idx = 0
  /\ fetched = [r \in Ring |-> 0]
  /\ writers = [r \in Ring |-> << >>]
  /\ dir = << >>
  /\ content = << >>
  /\ io_failed = FALSE

Tick ==
  /\ clock < MaxTime
  /\ clock' = clock + 1
  /\ UNCHANGED <<poll, writers, files, io_failed>>

-----------------------------------------------------------------------------
(* The main thread.                                                        *)

\* One turn of the loop of create_env.
CreateEnv ==
  /\ pc = "create_env"
  /\ writers' = [writers EXCEPT ![idx] = <<NewWriter(idx, 0)>>]
  /\ idx' = (idx + 1) % Rings
  /\ pc' = IF idx = Rings - 1 THEN "poll" ELSE pc
  /\ UNCHANGED <<clock, fetched, files, io_failed>>

\* try_send succeeds: there is room, and the task has not panicked.
CanSendAtCap(w) == Len(w.queue) <= Cap /\ w.task # "panic"
CanSendBelow(w) == Len(w.queue) < Cap - 1 /\ w.task # "panic"
CanSend(w) == Len(w.queue) < Cap /\ w.task # "panic"

\* The writers of a ring once the newest was replaced: its sender is dropped.
ReplacedKept(ws, new) == Append(ws, new)
Replaced(ws, new) == Append([ws EXCEPT ![Len(ws)].tx = FALSE], new)

\* fetch_data found n bytes in ring idx, and processor is called.  A try_send that
\* fails panics, on the main thread.
Processor(n) ==
  LET now == fetched[idx] + n
      ws == writers[idx]
      w == Last(ws)
      sent == [ws EXCEPT ![Len(ws)] =
                 [w EXCEPT !.queue = Append(@, Bytes(fetched[idx], now)),
                           !.write_size = @ + n]]
  IN
  /\ pc = "poll"
  /\ now <= MaxBytes
  /\ fetched' = [fetched EXCEPT ![idx] = now]
  /\ \/ ~CanSend(w) /\ pc' = "crashed" /\ UNCHANGED <<idx, writers>>
     \/ /\ CanSend(w)
        /\ writers' = [writers EXCEPT ![idx] =
                         IF w.write_size + n > FILE_SIZE
                         THEN Replaced(sent, NewWriter(idx, now))
                         ELSE sent]
        /\ idx' = (idx + 1) % Rings
        /\ UNCHANGED pc
  /\ UNCHANGED <<clock, files, io_failed>>

-----------------------------------------------------------------------------
(* The task of the k-th writer of ring r.                                  *)

Becomes(r, k, w) == writers' = [writers EXCEPT ![r][k] = w]

\* File::create.
Create(r, k) ==
  LET w == writers[r][k]
      f == IF w.file_name \in DOMAIN dir THEN dir[w.file_name] ELSE Len(content) + 1
  IN
  /\ w.task = "create"
  /\ dir' = [n \in DOMAIN dir \cup {w.file_name} |-> IF n = w.file_name THEN f ELSE dir[n]]
  /\ content' = IF f \in DOMAIN content THEN [content EXCEPT ![f] = << >>]
                                        ELSE Append(content, << >>)
  /\ Becomes(r, k, [w EXCEPT !.task = "write", !.file = f])
  /\ UNCHANGED <<clock, poll, io_failed>>

\* The bytes of a file after d was written at position p.
Overwrite(c, p, d) ==
  [n \in 1 .. IF d = << >> \/ Len(c) > p + Len(d) THEN Len(c) ELSE p + Len(d) |->
     IF n \in p + 1 .. p + Len(d) THEN d[n - p]
     ELSE IF n <= Len(c) THEN c[n] ELSE 0]

\* Where the handle is after that.
AdvancedByOne(p, d) == p + 1
Advanced(p, d) == p + Len(d)

\* rx.recv() and write_all.
Write(r, k) ==
  LET w == writers[r][k]
      d == Head(w.queue)
  IN
  /\ w.task = "write"
  /\ w.queue # << >>
  /\ content' = [content EXCEPT ![w.file] = Overwrite(@, w.pos, d)]
  /\ Becomes(r, k, [w EXCEPT !.queue = Tail(@), !.pos = Advanced(@, d)])
  /\ UNCHANGED <<clock, poll, dir, io_failed>>

\* rx.recv() returns None: no sender, and nothing left in the channel.
DrainedOrDropped(w) == ~w.tx
Drained(w) == ~w.tx /\ w.queue = << >>

\* flush, and the file is closed.
Flush(r, k) ==
  LET w == writers[r][k] IN
  /\ w.task = "write"
  /\ Drained(w)
  /\ Becomes(r, k, [w EXCEPT !.task = "rename"])
  /\ UNCHANGED <<clock, poll, files, io_failed>>

\* fs::rename; it fails, and the task panics, when the name is gone.
Rename(r, k) ==
  LET w == writers[r][k] IN
  /\ w.task = "rename"
  /\ \/ /\ w.file_name \in DOMAIN dir
        /\ dir' = [n \in (DOMAIN dir \ {w.file_name}) \cup {w.complete_name} |->
                     IF n = w.complete_name THEN dir[w.file_name] ELSE dir[n]]
        /\ Becomes(r, k, [w EXCEPT !.task = "done"])
     \/ /\ w.file_name \notin DOMAIN dir
        /\ Becomes(r, k, [w EXCEPT !.task = "panic"])
        /\ UNCHANGED dir
  /\ UNCHANGED <<clock, poll, content, io_failed>>

\* An operation on the file fails: unwrap panics, and the receiver is dropped with
\* what is in the channel.  A failing write may have written part of the chunk.
IoFails(r, k) ==
  LET w == writers[r][k] IN
  /\ w.task \in {"create", "write", "rename"}
  /\ w.task = "write" => w.queue # << >> \/ Drained(w)
  /\ \E n \in 0 .. IF w.queue = << >> THEN 0 ELSE Len(Head(w.queue)) :
       content' = IF w.task = "write" /\ n > 0
                  THEN [content EXCEPT ![w.file] = Overwrite(@, w.pos, SubSeq(Head(w.queue), 1, n))]
                  ELSE content
  /\ Becomes(r, k, [w EXCEPT !.task = "panic", !.queue = << >>])
  /\ io_failed' = TRUE
  /\ UNCHANGED <<clock, poll, dir>>

Task(r, k) ==
  /\ Alive
  /\ k <= Len(writers[r])
  /\ Create(r, k) \/ Write(r, k) \/ Flush(r, k) \/ Rename(r, k) \/ IoFails(r, k)

\* A panic of the main thread ends the process.
Terminated == ~Alive /\ UNCHANGED vars

\* Every writer but the last holds a byte, so there are at most this many.
MaxWriters == MaxBytes + 1

Next ==
  \/ Alive /\ Tick
  \/ CreateEnv
  \/ \E n \in 0 .. MaxChunk : Processor(n)
  \/ \E r \in Ring, k \in 1 .. MaxWriters : Task(r, k)
  \/ Terminated

\* The runtime runs every task that can go on; the polling thread is not needed.
Spec ==
  /\ Init /\ [][Next]_vars
  /\ \A r \in Ring, k \in 1 .. MaxWriters : WF_vars(Task(r, k))

-----------------------------------------------------------------------------
Name == (0 .. MaxTime) \X Ring \X {"tmp", "data"}

TypeOK ==
  /\ clock \in 0 .. MaxTime
  /\ pc \in {"create_env", "poll", "crashed"}
  /\ idx \in Ring
  /\ fetched \in [Ring -> 0 .. MaxBytes]
  /\ DOMAIN dir \subseteq Name
  /\ \A n \in DOMAIN dir : dir[n] \in DOMAIN content
  /\ \A f \in DOMAIN content : content[f] \in Seq(0 .. MaxBytes)
  /\ io_failed \in BOOLEAN
  /\ DOMAIN writers = Ring
  /\ \A r \in Ring : /\ Len(writers[r]) <= MaxWriters
                     /\ \A k \in DOMAIN writers[r] :
                          LET w == writers[r][k] IN
                          /\ {w.file_name, w.complete_name} \subseteq Name
                          /\ Len(w.queue) <= Cap
                          /\ w.tx = (k = Len(writers[r]))
                          /\ w.task \in {"create", "write", "rename", "done", "panic"}
                          /\ w.file \in DOMAIN content \/ w.task \in {"create", "panic"}

\* Two files of ring r were begun in the same second, and share a name.
Clash(r) ==
  \E k, l \in DOMAIN writers[r] : k # l /\ writers[r][k].file_name = writers[r][l].file_name

\* What the DataWriter was handed.
Handed(w) == Bytes(w.first, w.first + w.write_size)

\* What is in its file.
Stored(w) == IF w.file = 0 THEN << >> ELSE content[w.file]

\* The chunks q hold, one after the other, the bytes numbered a + 1 to b.
Chained(q, a, b) ==
  \E at \in [1 .. Len(q) + 1 -> a .. b] :
    /\ at[1] = a /\ at[Len(q) + 1] = b
    /\ \A i, j \in 1 .. Len(q) + 1 : i <= j => at[i] <= at[j]
    /\ \A j \in 1 .. Len(q) : q[j] = Bytes(at[j], at[j + 1])

\* Unless two files were begun in the same second, every byte fetched is, once and
\* in its place, in the file of the writer that was current, or on its way there;
\* what a failed writer leaves is a beginning of what it was handed.
BytesConserved ==
  \A r \in Ring : ~Clash(r) =>
    \A k \in DOMAIN writers[r] :
      LET w == writers[r][k]
          at == w.first + Len(Stored(w))
          end == w.first + w.write_size
      IN  /\ at <= end /\ Stored(w) = Bytes(w.first, at)
          /\ w.task # "panic" => Chained(w.queue, at, end)

\* Whenever the collector is killed: a name that ends in .data stands for a file
\* that is complete, and the files of a ring, in the order they were begun, leave
\* no gap and end where the current writer begins.
DataFilesComplete ==
  \A r \in Ring : ~Clash(r) =>
    LET ws == writers[r]
        end(k) == ws[k].first + ws[k].write_size
    IN
    /\ \A n \in DOMAIN dir : n[2] = r /\ n[3] = "data" =>
         \E k \in DOMAIN ws : /\ ws[k].complete_name = n
                              /\ ~ws[k].tx
                              /\ content[dir[n]] = Handed(ws[k])
    /\ ws # << >> /\ Alive =>
         /\ ws[1].first = 0 /\ end(Len(ws)) = fetched[r]
         /\ \A k \in 1 .. Len(ws) - 1 : ws[k + 1].first = end(k)
         /\ \A k \in DOMAIN ws : ws[k].task = "done" => ws[k].complete_name \in DOMAIN dir

\* The collector dies only of a writer whose channel is full, or of a failed
\* operation on a file: never of a writer that was replaced meanwhile.
CrashOnlyWhenBehind ==
  ~Alive => io_failed \/ Len(Last(writers[idx]).queue) = Cap

Completed(r, k) == k \in DOMAIN writers[r] /\ writers[r][k].task = "done"

\* A file that was replaced by the next is eventually complete under its final
\* name, whatever the rings do, unless a file operation failed, the collector
\* died, or another file was begun in the same second.
RotatedCompleted ==
  \A r \in Ring : \A k \in 1 .. MaxBytes :
    (Len(writers[r]) > k)
      ~> (Completed(r, k) \/ Clash(r) \/ io_failed \/ ~Alive)
=============================================================================
