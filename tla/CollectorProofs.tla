--------------------------- MODULE CollectorProofs ---------------------------
(***************************************************************************)
(* Proofs about Collector, for any number of rings, any file and channel   *)
(* sizes, and any number of bytes and seconds.                             *)
(***************************************************************************)
EXTENDS Collector, TLAPS

Chunk == Seq(0 .. MaxBytes)

Writer ==
  [file_name : Name, complete_name : Name, queue : Seq(Chunk), tx : BOOLEAN,
   write_size : Nat, task : {"create", "write", "rename", "done", "panic"},
   file : Nat, pos : Nat, first : Nat]

CollectorTypes ==
  /\ clock \in 0 .. MaxTime
  /\ pc \in {"create_env", "poll", "crashed"}
  /\ idx \in Ring
  /\ fetched \in [Ring -> 0 .. MaxBytes]
  /\ writers \in [Ring -> Seq(Writer)]
  /\ content \in Seq(Chunk)
  /\ DOMAIN dir \subseteq Name
  /\ \A n \in DOMAIN dir : dir[n] \in DOMAIN content

\* The writers of a ring: the last has the sender, each begins where the one before
\* it ended, and the last ends where the ring was fetched to.
RingInv ==
  \A r \in Ring :
    /\ pc = "create_env" => fetched[r] = 0 /\ Len(writers[r]) = IF r < idx THEN 1 ELSE 0
    /\ pc = "poll" => Len(writers[r]) > 0
    /\ Alive /\ Len(writers[r]) > 0 =>
         writers[r][Len(writers[r])].first + writers[r][Len(writers[r])].write_size = fetched[r]
    /\ \A k \in 1 .. Len(writers[r]) :
         LET w == writers[r][k] IN
         /\ w.tx <=> k = Len(writers[r])
         /\ k - 1 <= w.first /\ w.first + w.write_size <= fetched[r]
         /\ k = 1 => w.first = 0
         /\ k < Len(writers[r]) => writers[r][k + 1].first = w.first + w.write_size
         /\ k < Len(writers[r]) => w.write_size > 0
         /\ Len(w.queue) <= Cap

\* The two names of a writer.
NameInv ==
  \A r \in Ring : \A k \in 1 .. Len(writers[r]) :
    \E t \in 0 .. MaxTime : /\ writers[r][k].file_name = <<t, r, "tmp">>
                            /\ writers[r][k].complete_name = <<t, r, "data">>

\* The tasks: which have a file, and which are through with their channel.
TaskInv ==
  \A r \in Ring : \A k \in 1 .. Len(writers[r]) :
    LET w == writers[r][k] IN
    /\ w.task = "create" => w.file = 0 /\ w.pos = 0
    /\ w.task \in {"write", "rename", "done"} => w.file # 0
    /\ w.file # 0 => w.file \in DOMAIN content
    /\ w.task \in {"rename", "done"} => ~w.tx /\ w.queue = << >>

\* A writer that panicked on its own, and not over a file, was replaced before.
PanicInv == io_failed \/ \A r \in Ring : \A k \in 1 .. Len(writers[r]) :
                           writers[r][k].task = "panic" => ~writers[r][k].tx

\* Names and files: no two names share a file, a file has the writers of one ring.
DirInv ==
  /\ \A m, n \in DOMAIN dir : dir[m] = dir[n] => m = n
  /\ \A n \in DOMAIN dir :
       \E k \in 1 .. Len(writers[n[2]]) : /\ writers[n[2]][k].file = dir[n]
                                          /\ n \in {writers[n[2]][k].file_name,
                                                    writers[n[2]][k].complete_name}
  /\ \A r, s \in Ring : \A k \in 1 .. Len(writers[r]) : \A l \in 1 .. Len(writers[s]) :
       writers[r][k].file = writers[s][l].file /\ writers[r][k].file # 0 => r = s

\* The file of a writer whose name is its own is where its task has put it.
OwnOf(w, d) ==
  /\ w.file = 0 => w.file_name \notin DOMAIN d
  /\ w.file # 0 /\ w.task # "done" => w.file_name \in DOMAIN d /\ d[w.file_name] = w.file
  /\ w.task # "done" => w.complete_name \notin DOMAIN d
  /\ w.task = "done" => /\ w.file_name \notin DOMAIN d /\ w.complete_name \in DOMAIN d
                        /\ d[w.complete_name] = w.file

OwnInv ==
  \A r \in Ring : ~Clash(r) =>
    \A k \in 1 .. Len(writers[r]) : OwnOf(writers[r][k], dir)

\* What is in the file and in the channel of such a writer.
DataOf(w, stored) ==
  /\ w.task # "panic" => /\ w.pos <= w.write_size
                         /\ stored = Bytes(w.first, w.first + w.pos)
                         /\ Chained(w.queue, w.first + w.pos, w.first + w.write_size)
  /\ w.task = "panic" => \E p \in 0 .. w.write_size : stored = Bytes(w.first, w.first + p)

DataInv ==
  \A r \in Ring : ~Clash(r) =>
    \A k \in 1 .. Len(writers[r]) : DataOf(writers[r][k], Stored(writers[r][k]))

CollectorInv ==
  /\ CollectorTypes /\ RingInv /\ NameInv /\ TaskInv /\ PanicInv /\ DirInv /\ OwnInv /\ DataInv
  /\ CrashOnlyWhenBehind

-----------------------------------------------------------------------------
(* Bytes, chunks and files.                                                *)

LEMMA BytesSeq ==
  ASSUME NEW a \in Nat, NEW b \in Nat, a <= b
  PROVE  /\ Len(Bytes(a, b)) = b - a
         /\ \A i \in 1 .. b - a : Bytes(a, b)[i] = a + i
         /\ Bytes(a, b) \in Seq(Nat)
         /\ b <= MaxBytes => Bytes(a, b) \in Chunk
<1> USE CollectorAssumption
<1>1. b - a \in Nat
  OBVIOUS
<1>2. Bytes(a, b) \in [1 .. b - a -> Nat]
  BY DEF Bytes
<1>3. Bytes(a, b) \in Seq(Nat) /\ Len(Bytes(a, b)) = b - a
  BY <1>1, <1>2, SMTT(40)
<1>4. b <= MaxBytes => Bytes(a, b) \in [1 .. b - a -> 0 .. MaxBytes]
  BY DEF Bytes
<1>5. b <= MaxBytes => Bytes(a, b) \in Chunk
  BY <1>1, <1>4 DEF Chunk
<1> QED BY <1>3, <1>5 DEF Bytes

LEMMA BytesPrefix ==
  ASSUME NEW a \in Nat, NEW b \in Nat, a <= b, NEW n \in 0 .. b - a
  PROVE  SubSeq(Bytes(a, b), 1, n) = Bytes(a, a + n)
<1>1. Bytes(a, b) \in Seq(Nat) /\ Len(Bytes(a, b)) = b - a /\ \A i \in 1 .. b - a : Bytes(a, b)[i] = a + i
  BY BytesSeq
<1>2. SubSeq(Bytes(a, b), 1, n) = [i \in 1 .. n |-> Bytes(a, b)[i]]
  BY <1>1
<1>3. Bytes(a, a + n) = [i \in 1 .. n |-> a + i]
  BY DEF Bytes
<1> QED BY <1>1, <1>2, <1>3

LEMMA ChainedEmpty ==
  ASSUME NEW a \in Nat
  PROVE  Chained(<< >>, a, a) /\ \A b : Chained(<< >>, a, b) => b = a
<1>1. Len(<< >>) + 1 = 1 /\ 1 .. Len(<< >>) = {}
  OBVIOUS
<1>2. Chained(<< >>, a, a)
  <2> DEFINE at == [j \in 1 .. 1 |-> a]
  <2>1. at \in [1 .. 1 -> a .. a] /\ at[1] = a /\ \A i, j \in 1 .. 1 : at[i] <= at[j]
    OBVIOUS
  <2> HIDE DEF at
  <2> QED BY <1>1, <2>1 DEF Chained
<1>3. \A b : Chained(<< >>, a, b) => b = a
  BY <1>1 DEF Chained
<1> QED BY <1>2, <1>3

LEMMA ChainedAppend ==
  ASSUME NEW q \in Seq(Chunk), NEW a \in Nat, NEW b \in Nat, NEW c \in Nat, b <= c, Chained(q, a, b)
  PROVE  Chained(Append(q, Bytes(b, c)), a, c)
<1> DEFINE d == Bytes(b, c)
           p == Append(q, d)
           n == Len(q)
<1>1. PICK at \in [1 .. n + 1 -> a .. b] :
        /\ at[1] = a /\ at[n + 1] = b
        /\ \A i, j \in 1 .. n + 1 : i <= j => at[i] <= at[j]
        /\ \A j \in 1 .. n : q[j] = Bytes(at[j], at[j + 1])
  BY DEF Chained
<1>2. n \in Nat /\ Len(p) = n + 1 /\ p[n + 1] = d /\ \A j \in 1 .. n : p[j] = q[j]
  OBVIOUS
<1> HIDE DEF p, n
<1> DEFINE at2 == [j \in 1 .. (n + 1) + 1 |-> IF j <= n + 1 THEN at[j] ELSE c]
<1>3. /\ at2 \in [1 .. (n + 1) + 1 -> a .. c]
      /\ \A j \in 1 .. n + 1 : at2[j] = at[j]
      /\ at2[(n + 1) + 1] = c
  BY <1>1, <1>2
<1>4. \A i, j \in 1 .. (n + 1) + 1 : i <= j => at2[i] <= at2[j]
  <2> TAKE i, j \in 1 .. (n + 1) + 1
  <2>1. CASE i \in 1 .. n + 1 /\ j \in 1 .. n + 1
    BY <1>1, <1>3, <2>1
  <2>2. CASE j = (n + 1) + 1
    BY <1>2, <1>3, <2>2
  <2>3. CASE j \in 1 .. n + 1 /\ i = (n + 1) + 1
    BY <1>2, <2>3
  <2> QED BY <1>2, <2>1, <2>2, <2>3
<1> HIDE DEF at2
<1>5. \A j \in 1 .. n + 1 : p[j] = Bytes(at2[j], at2[j + 1])
  <2> TAKE j \in 1 .. n + 1
  <2>1. CASE j \in 1 .. n
    <3>1. j \in 1 .. n + 1 /\ j + 1 \in 1 .. n + 1
      BY <1>2, <2>1
    <3> QED BY <1>1, <1>2, <1>3, <2>1, <3>1
  <2>2. CASE j = n + 1
    BY <1>1, <1>2, <1>3, <2>2 DEF d
  <2> QED BY <1>2, <2>1, <2>2
<1>6. 1 \in 1 .. n + 1
  BY <1>2
<1>7. Chained(p, a, c)
  <2>1. at2 \in [1 .. Len(p) + 1 -> a .. c]
    BY <1>2, <1>3
  <2>2. at2[1] = a /\ at2[Len(p) + 1] = c
    BY <1>1, <1>2, <1>3, <1>6
  <2>3. \A i, j \in 1 .. Len(p) + 1 : i <= j => at2[i] <= at2[j]
    BY <1>2, <1>4
  <2>4. \A j \in 1 .. Len(p) : p[j] = Bytes(at2[j], at2[j + 1])
    BY <1>2, <1>5
  <2> HIDE DEF p
  <2> QED BY <2>1, <2>2, <2>3, <2>4, Zenon DEF Chained
<1> QED BY <1>7 DEF p

LEMMA ChainedTail ==
  ASSUME NEW q \in Seq(Chunk), q # << >>, NEW a \in Nat, NEW b \in Nat, Chained(q, a, b)
  PROVE  \E m \in a .. b : Head(q) = Bytes(a, m) /\ Chained(Tail(q), m, b)
<1> DEFINE t == Tail(q)
           n == Len(t)
<1>1. /\ n \in Nat /\ Len(q) = n + 1 /\ Head(q) = q[1] /\ \A j \in 1 .. n : t[j] = q[j + 1]
  OBVIOUS
<1> HIDE DEF t, n
<1>2. PICK at \in [1 .. (n + 1) + 1 -> a .. b] :
        /\ at[1] = a /\ at[(n + 1) + 1] = b
        /\ \A i, j \in 1 .. (n + 1) + 1 : i <= j => at[i] <= at[j]
        /\ \A j \in 1 .. n + 1 : q[j] = Bytes(at[j], at[j + 1])
  BY <1>1 DEF Chained
<1> DEFINE m == at[2]
           at2 == [j \in 1 .. n + 1 |-> at[j + 1]]
<1>3. 1 \in 1 .. n + 1 /\ 2 \in 1 .. (n + 1) + 1 /\ m \in a .. b /\ Head(q) = Bytes(a, m)
  BY <1>1, <1>2
<1>4. \A j \in 1 .. n + 1 : j + 1 \in 1 .. (n + 1) + 1 /\ 2 <= j + 1 /\ at2[j] = at[j + 1]
  BY <1>1
<1>5. at2 \in [1 .. n + 1 -> m .. b]
  <2>1. \A j \in 1 .. n + 1 : at[j + 1] \in a .. b /\ m <= at[j + 1]
    BY <1>2, <1>3, <1>4
  <2> QED BY <1>3, <2>1
<1> HIDE DEF at2
<1>6. /\ at2[1] = m /\ at2[n + 1] = b
      /\ \A i, j \in 1 .. n + 1 : i <= j => at2[i] <= at2[j]
  <2>1. n + 1 \in 1 .. n + 1
    BY <1>1
  <2>2. \A i, j \in 1 .. n + 1 : i <= j => i + 1 <= j + 1
    BY <1>1
  <2> QED BY <1>2, <1>3, <1>4, <2>1, <2>2
<1>7. \A j \in 1 .. n : t[j] = Bytes(at2[j], at2[j + 1])
  <2> TAKE j \in 1 .. n
  <2>1. j \in 1 .. n + 1 /\ j + 1 \in 1 .. n + 1
    BY <1>1
  <2> QED BY <1>1, <1>2, <1>4, <2>1
<1> HIDE DEF m
<1>8. Chained(t, m, b)
  BY <1>5, <1>6, <1>7 DEF Chained, n
<1> QED BY <1>3, <1>8 DEF t

\* A chunk written at the end of a file.
LEMMA OverwriteAtEnd ==
  ASSUME NEW a \in Nat, NEW p \in Nat, NEW m \in Nat, a + p <= m
  PROVE  Overwrite(Bytes(a, a + p), p, Bytes(a + p, m)) = Bytes(a, m)
<1> DEFINE c == Bytes(a, a + p)
           d == Bytes(a + p, m)
<1>1. /\ Len(c) = p /\ \A i \in 1 .. p : c[i] = a + i
      /\ Len(d) = m - (a + p) /\ \A i \in 1 .. m - (a + p) : d[i] = a + p + i
      /\ d \in Seq(Nat)
  <2>1. a + p \in Nat /\ a <= a + p /\ a + p - a = p
    OBVIOUS
  <2>2. Len(c) = a + p - a /\ \A i \in 1 .. a + p - a : c[i] = a + i
    BY <2>1, BytesSeq
  <2>3. Len(d) = m - (a + p) /\ d \in Seq(Nat) /\ \A i \in 1 .. m - (a + p) : d[i] = a + p + i
    BY <2>1, BytesSeq
  <2> HIDE DEF c, d
  <2> QED BY <2>1, <2>2, <2>3
<1> HIDE DEF c, d
<1>2. d = << >> <=> m - (a + p) = 0
  BY <1>1
<1>3. (IF d = << >> \/ Len(c) > p + Len(d) THEN Len(c) ELSE p + Len(d)) = m - a
  BY <1>1, <1>2
<1>4. \A i \in 1 .. m - a :
        (IF i \in p + 1 .. p + Len(d) THEN d[i - p] ELSE IF i <= Len(c) THEN c[i] ELSE 0) = a + i
  <2> TAKE i \in 1 .. m - a
  <2>1. CASE i <= p
    BY <1>1, <2>1
  <2>2. CASE i > p
    <3>1. i - p \in 1 .. m - (a + p) /\ i \in p + 1 .. p + Len(d) /\ a + p + (i - p) = a + i
      BY <1>1, <2>2
    <3> QED BY <1>1, <3>1
  <2> QED BY <2>1, <2>2
<1>5. Overwrite(c, p, d) = Bytes(a, m)
  BY <1>3, <1>4 DEF Overwrite, Bytes
<1> QED BY <1>5 DEF c, d

LEMMA OverwriteType ==
  ASSUME NEW c \in Chunk, NEW d \in Chunk, NEW p \in Nat
  PROVE  Overwrite(c, p, d) \in Chunk
<1> USE CollectorAssumption
<1> DEFINE n == IF d = << >> \/ Len(c) > p + Len(d) THEN Len(c) ELSE p + Len(d)
           e(i) == IF i \in p + 1 .. p + Len(d) THEN d[i - p] ELSE IF i <= Len(c) THEN c[i] ELSE 0
<1>1. /\ Len(c) \in Nat /\ \A i \in 1 .. Len(c) : c[i] \in 0 .. MaxBytes
      /\ Len(d) \in Nat /\ \A i \in 1 .. Len(d) : d[i] \in 0 .. MaxBytes
      /\ 0 \in 0 .. MaxBytes
  BY DEF Chunk
<1>2. n \in Nat
  BY <1>1
<1> HIDE DEF n
<1>3. \A i \in 1 .. n : e(i) \in 0 .. MaxBytes
  <2> TAKE i \in 1 .. n
  <2>1. i \in p + 1 .. p + Len(d) => i - p \in 1 .. Len(d)
    BY <1>1, <1>2
  <2>2. i <= Len(c) => i \in 1 .. Len(c)
    BY <1>1, <1>2
  <2> QED BY <1>1, <2>1, <2>2
<1> HIDE DEF e
<1>4. [i \in 1 .. n |-> e(i)] \in Seq(0 .. MaxBytes)
  BY <1>2, <1>3
<1> QED BY <1>4 DEF Overwrite, Chunk, n, e

LEMMA ChunkPrefix ==
  ASSUME NEW c \in Chunk, NEW n \in 1 .. Len(c)
  PROVE  SubSeq(c, 1, n) \in Chunk
<1>1. Len(c) \in Nat /\ \A j \in 1 .. Len(c) : c[j] \in 0 .. MaxBytes
  BY CollectorAssumption DEF Chunk
<1>2. n \in Nat
  BY <1>1
<1>3. SubSeq(c, 1, n) = [j \in 1 .. n |-> c[j]]
  BY <1>1, <1>2 DEF Chunk
<1>4. [j \in 1 .. n |-> c[j]] \in [1 .. n -> 0 .. MaxBytes]
  BY <1>1, <1>2
<1> QED BY <1>2, <1>3, <1>4 DEF Chunk

-----------------------------------------------------------------------------
(* What a step does to the writers: the ones there keep their names and    *)
(* files, and the ones added have not run.                                 *)

KeepsNames ==
  /\ writers' \in [Ring -> Seq(Writer)]
  /\ \A s \in Ring : Len(writers[s]) <= Len(writers'[s])
  /\ \A s \in Ring : \A l \in 1 .. Len(writers[s]) :
       /\ writers'[s][l].file_name = writers[s][l].file_name
       /\ writers'[s][l].complete_name = writers[s][l].complete_name

KeepsFiles ==
  \A s \in Ring : \A l \in 1 .. Len(writers[s]) :
    /\ writers'[s][l].file = writers[s][l].file
    /\ writers'[s][l].task = "done" <=> writers[s][l].task = "done"

AddsFresh ==
  \A s \in Ring : \A l \in 1 .. Len(writers'[s]) : l > Len(writers[s]) =>
    /\ writers'[s][l].file_name = <<clock, s, "tmp">>
    /\ writers'[s][l].complete_name = <<clock, s, "data">>
    /\ writers'[s][l].file = 0
    /\ writers'[s][l].task = "create"

LEMMA NamesKept ==
  ASSUME CollectorTypes, NameInv, KeepsNames, AddsFresh
  PROVE  NameInv' /\ \A s \in Ring : Clash(s) => Clash(s)'
<1>0. \A s \in Ring : /\ writers[s] \in Seq(Writer) /\ writers'[s] \in Seq(Writer)
                      /\ Len(writers[s]) \in Nat /\ Len(writers'[s]) \in Nat
                      /\ DOMAIN writers[s] = 1 .. Len(writers[s])
                      /\ DOMAIN writers'[s] = 1 .. Len(writers'[s])
  BY DEF CollectorTypes, KeepsNames
<1>1. NameInv'
  <2> SUFFICES ASSUME NEW s \in Ring, NEW l \in 1 .. Len(writers'[s])
               PROVE  \E t \in 0 .. MaxTime : /\ writers'[s][l].file_name = <<t, s, "tmp">>
                                              /\ writers'[s][l].complete_name = <<t, s, "data">>
    BY DEF NameInv
  <2>1. CASE l \in 1 .. Len(writers[s])
    BY <2>1 DEF NameInv, KeepsNames
  <2>2. CASE l > Len(writers[s])
    BY <2>2 DEF AddsFresh, CollectorTypes
  <2> QED BY <1>0, <2>1, <2>2
<1>2. ASSUME NEW s \in Ring, Clash(s)  PROVE  Clash(s)'
  <2>1. PICK k, l \in 1 .. Len(writers[s]) : k # l /\ writers[s][k].file_name = writers[s][l].file_name
    BY <1>0, <1>2 DEF Clash
  <2>2. k \in DOMAIN writers'[s] /\ l \in DOMAIN writers'[s]
    BY <1>0, <2>1 DEF KeepsNames
  <2>3. writers'[s][k].file_name = writers'[s][l].file_name
    BY <2>1 DEF KeepsNames
  <2> QED BY <2>1, <2>2, <2>3 DEF Clash
<1> QED BY <1>1, <1>2

\* The two names of a writer are of its ring, and either of them tells the other.
LEMMA NamesApart ==
  ASSUME NameInv, NEW r \in Ring, NEW s \in Ring,
         NEW k \in 1 .. Len(writers[r]), NEW l \in 1 .. Len(writers[s])
  PROVE  /\ writers[r][k].file_name # writers[s][l].complete_name
         /\ r # s => /\ writers[r][k].file_name # writers[s][l].file_name
                     /\ writers[r][k].complete_name # writers[s][l].complete_name
         /\ writers[r][k].file_name = writers[s][l].file_name
              <=> writers[r][k].complete_name = writers[s][l].complete_name
         /\ writers[r][k].file_name[2] = r /\ writers[r][k].complete_name[2] = r
         /\ writers[r][k].file_name[3] = "tmp" /\ writers[r][k].complete_name[3] = "data"
<1>1. PICK t \in 0 .. MaxTime : /\ writers[r][k].file_name = <<t, r, "tmp">>
                               /\ writers[r][k].complete_name = <<t, r, "data">>
  BY DEF NameInv
<1>2. PICK u \in 0 .. MaxTime : /\ writers[s][l].file_name = <<u, s, "tmp">>
                               /\ writers[s][l].complete_name = <<u, s, "data">>
  BY DEF NameInv
<1> QED BY <1>1, <1>2

\* Two writers of a ring whose names are their own do not share a file.
LEMMA FilesApart ==
  ASSUME CollectorTypes, NameInv, DirInv, OwnInv,
         NEW r \in Ring, ~Clash(r), NEW k \in 1 .. Len(writers[r]), NEW l \in 1 .. Len(writers[r]),
         k # l, writers[r][k].file # 0
  PROVE  writers[r][k].file # writers[r][l].file
<1> DEFINE w == writers[r][k]
           v == writers[r][l]
<1>1. w.file_name # v.file_name
  BY DEF Clash, CollectorTypes
<1>2. w.complete_name # v.complete_name /\ w.file_name # v.complete_name /\ v.file_name # w.complete_name
  BY <1>1, NamesApart
<1>3. OwnOf(w, dir) /\ OwnOf(v, dir)
  BY DEF OwnInv
<1>4. \A m, n \in DOMAIN dir : dir[m] = dir[n] => m = n
  BY DEF DirInv
<1> HIDE DEF w, v
<1>5. w.file # 0 => w.file # v.file
  BY <1>1, <1>2, <1>3, <1>4 DEF OwnOf
<1> QED BY <1>5 DEF w, v

\* Unless it clashes, the name of a new writer is not in the directory yet.
LEMMA FreshName ==
  ASSUME CollectorTypes, NameInv, DirInv, KeepsNames, AddsFresh,
         NEW r \in Ring, NEW k \in 1 .. Len(writers'[r]), k > Len(writers[r]), ~Clash(r)'
  PROVE  writers'[r][k].file_name \notin DOMAIN dir /\ writers'[r][k].complete_name \notin DOMAIN dir
<1> DEFINE f == writers'[r][k].file_name
           c == writers'[r][k].complete_name
<1>1. f = <<clock, r, "tmp">> /\ c = <<clock, r, "data">>
  BY DEF AddsFresh
<1>2. \A l \in 1 .. Len(writers[r]) : writers[r][l].file_name # f
  <2> TAKE l \in 1 .. Len(writers[r])
  <2>1. l \in DOMAIN writers'[r] /\ k \in DOMAIN writers'[r] /\ l # k
    BY DEF KeepsNames, CollectorTypes
  <2>2. writers'[r][l].file_name # f
    BY <2>1 DEF Clash
  <2> QED BY <2>2 DEF KeepsNames
<1>3. \A l \in 1 .. Len(writers[r]) : writers[r][l].complete_name # f /\ writers[r][l].complete_name # c
                                      /\ writers[r][l].file_name # c
  <2> TAKE l \in 1 .. Len(writers[r])
  <2>1. PICK t \in 0 .. MaxTime : /\ writers[r][l].file_name = <<t, r, "tmp">>
                                 /\ writers[r][l].complete_name = <<t, r, "data">>
    BY DEF NameInv
  <2> QED BY <1>1, <1>2, <2>1
<1>4. f[2] = r /\ c[2] = r
  BY <1>1
<1> HIDE DEF f, c
<1>5. f \notin DOMAIN dir /\ c \notin DOMAIN dir
  BY <1>2, <1>3, <1>4 DEF DirInv
<1> QED BY <1>5 DEF f, c

\* A step that leaves the directory and the files of the writers alone.
LEMMA SameFiles ==
  ASSUME CollectorTypes, NameInv, TaskInv, DirInv, OwnInv, KeepsNames, KeepsFiles, AddsFresh, dir' = dir
  PROVE  DirInv' /\ OwnInv'
<1>0. \A s \in Ring : /\ Len(writers[s]) \in Nat /\ Len(writers'[s]) \in Nat
                      /\ Len(writers[s]) <= Len(writers'[s])
  BY DEF CollectorTypes, KeepsNames
<1>1. DirInv'
  <2>1. \A m, n \in DOMAIN dir' : dir'[m] = dir'[n] => m = n
    BY DEF DirInv
  <2>2. ASSUME NEW n \in DOMAIN dir'
        PROVE  \E k \in 1 .. Len(writers'[n[2]]) : /\ writers'[n[2]][k].file = dir'[n]
                                                   /\ n \in {writers'[n[2]][k].file_name,
                                                             writers'[n[2]][k].complete_name}
    <3>1. n[2] \in Ring
      BY <2>2 DEF CollectorTypes, Name
    <3>2. PICK k \in 1 .. Len(writers[n[2]]) : /\ writers[n[2]][k].file = dir[n]
                                              /\ n \in {writers[n[2]][k].file_name,
                                                        writers[n[2]][k].complete_name}
      BY <2>2 DEF DirInv
    <3>3. k \in 1 .. Len(writers'[n[2]])
      BY <1>0, <3>1, <3>2
    <3> QED BY <3>1, <3>2, <3>3 DEF KeepsNames, KeepsFiles
  <2>3. ASSUME NEW r \in Ring, NEW s \in Ring,
               NEW k \in 1 .. Len(writers'[r]), NEW l \in 1 .. Len(writers'[s]),
               writers'[r][k].file = writers'[s][l].file, writers'[r][k].file # 0
        PROVE  r = s
    <3>1. k \in 1 .. Len(writers[r]) /\ l \in 1 .. Len(writers[s])
      BY <1>0, <2>3 DEF AddsFresh
    <3>2. writers[r][k].file = writers[s][l].file /\ writers[r][k].file # 0
      BY <2>3, <3>1 DEF KeepsFiles
    <3> QED BY <3>1, <3>2 DEF DirInv
  <2> QED BY <2>1, <2>2, <2>3 DEF DirInv
<1>2. ASSUME NEW r \in Ring, ~Clash(r)', NEW k \in 1 .. Len(writers'[r])
      PROVE  OwnOf(writers'[r][k], dir')
  <2>1. CASE k \in 1 .. Len(writers[r])
    <3>1. ~Clash(r)
      BY <1>2, NamesKept
    <3>2. OwnOf(writers[r][k], dir)
      BY <2>1, <3>1 DEF OwnInv
    <3> QED BY <2>1, <3>2 DEF OwnOf, KeepsNames, KeepsFiles
  <2>2. CASE k > Len(writers[r])
    <3>1. writers'[r][k].file_name \notin DOMAIN dir /\ writers'[r][k].complete_name \notin DOMAIN dir
      BY <1>2, <2>2, FreshName
    <3>2. writers'[r][k].file = 0 /\ writers'[r][k].task = "create"
      BY <2>2 DEF AddsFresh
    <3> QED BY <3>1, <3>2 DEF OwnOf
  <2> QED BY <1>0, <2>1, <2>2
<1>3. OwnInv'
  BY <1>2 DEF OwnInv
<1> QED BY <1>1, <1>3

-----------------------------------------------------------------------------
(* Steps of the task of one writer.                                        *)

\* The task of the k-th writer of ring r makes it v.
Moves(r, k, v) ==
  /\ v \in Writer /\ Becomes(r, k, v)
  /\ v.file_name = writers[r][k].file_name /\ v.complete_name = writers[r][k].complete_name
  /\ v.tx = writers[r][k].tx
  /\ v.write_size = writers[r][k].write_size /\ v.first = writers[r][k].first
  /\ Len(v.queue) <= Len(writers[r][k].queue)
  /\ UNCHANGED <<clock, pc, idx, fetched>>

LEMMA MovesShape ==
  ASSUME CollectorTypes, NEW r \in Ring, NEW k \in 1 .. Len(writers[r]), NEW v, Moves(r, k, v)
  PROVE  /\ writers' \in [Ring -> Seq(Writer)]
         /\ \A s \in Ring : Len(writers'[s]) = Len(writers[s])
         /\ writers'[r][k] = v
         /\ \A s \in Ring : \A l \in 1 .. Len(writers[s]) :
              s # r \/ l # k => writers'[s][l] = writers[s][l]
<1>1. writers \in [Ring -> Seq(Writer)] /\ writers[r] \in Seq(Writer) /\ v \in Writer
  BY DEF CollectorTypes, Moves
<1> DEFINE ws == [writers[r] EXCEPT ![k] = v]
<1>2. ws \in Seq(Writer) /\ Len(ws) = Len(writers[r]) /\ ws[k] = v
      /\ \A l \in 1 .. Len(writers[r]) : l # k => ws[l] = writers[r][l]
  BY <1>1
<1>3. writers' = [writers EXCEPT ![r] = ws]
  BY DEF Moves, Becomes
<1> HIDE DEF ws
<1> QED BY <1>1, <1>2, <1>3

LEMMA MovesKeeps ==
  ASSUME CollectorInv, Alive, NEW r \in Ring, NEW k \in 1 .. Len(writers[r]), NEW v, Moves(r, k, v)
  PROVE  KeepsNames /\ AddsFresh /\ RingInv' /\ NameInv' /\ CrashOnlyWhenBehind'
<1>0. CollectorTypes /\ RingInv /\ NameInv
  BY DEF CollectorInv
<1>1. /\ writers' \in [Ring -> Seq(Writer)]
      /\ \A s \in Ring : Len(writers'[s]) = Len(writers[s])
      /\ writers'[r][k] = v
      /\ \A s \in Ring : \A l \in 1 .. Len(writers[s]) :
           s # r \/ l # k => writers'[s][l] = writers[s][l]
  BY <1>0, MovesShape
<1>2. pc' = pc /\ idx' = idx /\ fetched' = fetched
  BY DEF Moves
<1>3. \A s \in Ring : /\ Len(writers[s]) \in Nat
                      /\ \A l \in 1 .. Len(writers[s]) :
                           /\ Len(writers[s][l].queue) \in Nat /\ Len(writers'[s][l].queue) \in Nat
                           /\ writers[s][l].first \in Nat /\ writers[s][l].write_size \in Nat
  <2> TAKE s \in Ring
  <2>1. Len(writers[s]) \in Nat
    BY <1>0 DEF CollectorTypes
  <2>2. ASSUME NEW l \in 1 .. Len(writers[s])
        PROVE  writers[s][l] \in Writer /\ writers'[s][l] \in Writer
    BY <1>0, <1>1 DEF CollectorTypes
  <2>3. \A w \in Writer : Len(w.queue) \in Nat /\ w.first \in Nat /\ w.write_size \in Nat
    BY DEF Writer
  <2> QED BY <2>1, <2>2, <2>3
<1>4. \A s \in Ring : \A l \in 1 .. Len(writers[s]) :
        /\ writers'[s][l].file_name = writers[s][l].file_name
        /\ writers'[s][l].complete_name = writers[s][l].complete_name
        /\ writers'[s][l].tx = writers[s][l].tx
        /\ writers'[s][l].write_size = writers[s][l].write_size
        /\ writers'[s][l].first = writers[s][l].first
        /\ Len(writers'[s][l].queue) <= Len(writers[s][l].queue)
  <2> TAKE s \in Ring
  <2> TAKE l \in 1 .. Len(writers[s])
  <2>1. CASE s = r /\ l = k
    BY <1>1, <2>1 DEF Moves
  <2>2. CASE s # r \/ l # k
    <3>1. writers'[s][l] = writers[s][l]
      BY <1>1, <2>2
    <3>2. Len(writers'[s][l].queue) <= Len(writers[s][l].queue)
      BY <1>3, <3>1
    <3> QED BY <3>1, <3>2
  <2> QED BY <2>1, <2>2
<1>5. KeepsNames /\ AddsFresh
  <2>1. \A s \in Ring : Len(writers[s]) <= Len(writers'[s]) /\ \A l \in 1 .. Len(writers'[s]) : ~(l > Len(writers[s]))
    BY <1>1, <1>3
  <2> QED BY <1>1, <1>4, <2>1 DEF KeepsNames, AddsFresh
<1>6. RingInv'
  <2> SUFFICES ASSUME NEW s \in Ring
               PROVE  /\ pc = "create_env" => fetched[s] = 0 /\ Len(writers'[s]) = IF s < idx THEN 1 ELSE 0
                      /\ pc = "poll" => Len(writers'[s]) > 0
                      /\ Alive /\ Len(writers'[s]) > 0 =>
                           writers'[s][Len(writers'[s])].first + writers'[s][Len(writers'[s])].write_size = fetched[s]
                      /\ \A l \in 1 .. Len(writers'[s]) :
                           /\ writers'[s][l].tx <=> l = Len(writers'[s])
                           /\ l - 1 <= writers'[s][l].first
                           /\ writers'[s][l].first + writers'[s][l].write_size <= fetched[s]
                           /\ l = 1 => writers'[s][l].first = 0
                           /\ l < Len(writers'[s]) =>
                                writers'[s][l + 1].first = writers'[s][l].first + writers'[s][l].write_size
                           /\ l < Len(writers'[s]) => writers'[s][l].write_size > 0
                           /\ Len(writers'[s][l].queue) <= Cap
    BY <1>2 DEF RingInv, Alive
  <2>1. Len(writers'[s]) = Len(writers[s]) /\ Len(writers[s]) \in Nat
    BY <1>1, <1>3
  <2>2. Alive /\ Len(writers[s]) > 0 =>
           writers'[s][Len(writers[s])].first + writers'[s][Len(writers[s])].write_size = fetched[s]
    <3>1. Len(writers[s]) > 0 => Len(writers[s]) \in 1 .. Len(writers[s])
      BY <2>1
    <3> QED BY <1>0, <1>4, <3>1, ZenonT(60) DEF RingInv
  <2>3. ASSUME NEW l \in 1 .. Len(writers[s])
        PROVE  /\ writers'[s][l].tx <=> l = Len(writers[s])
               /\ l - 1 <= writers'[s][l].first
               /\ writers'[s][l].first + writers'[s][l].write_size <= fetched[s]
               /\ l = 1 => writers'[s][l].first = 0
               /\ l < Len(writers[s]) =>
                    writers'[s][l + 1].first = writers'[s][l].first + writers'[s][l].write_size
               /\ l < Len(writers[s]) => writers'[s][l].write_size > 0
               /\ Len(writers'[s][l].queue) <= Cap
    <3>1. l < Len(writers[s]) => l + 1 \in 1 .. Len(writers[s])
      BY <2>1
    <3>2. writers'[s][l].tx <=> l = Len(writers[s])
      <4>1. writers[s][l].tx <=> l = Len(writers[s])
        BY <1>0 DEF RingInv
      <4>2. writers'[s][l].tx = writers[s][l].tx
        BY <1>4
      <4> QED BY <4>1, <4>2, Zenon
    <3>3. Len(writers[s][l].queue) <= Cap
      BY <1>0 DEF RingInv
    <3>4. Len(writers'[s][l].queue) <= Cap
      <4>1. Len(writers'[s][l].queue) <= Len(writers[s][l].queue)
        BY <1>4
      <4>2. Len(writers'[s][l].queue) \in Nat /\ Len(writers[s][l].queue) \in Nat
        BY <1>3
      <4>3. \A a, b \in Nat : a <= b /\ b <= Cap => a <= Cap
        BY CollectorAssumption
      <4> QED BY <3>3, <4>1, <4>2, <4>3, Zenon
    <3>5. /\ l - 1 <= writers[s][l].first
          /\ writers[s][l].first + writers[s][l].write_size <= fetched[s]
          /\ l = 1 => writers[s][l].first = 0
          /\ l < Len(writers[s]) => writers[s][l + 1].first = writers[s][l].first + writers[s][l].write_size
          /\ l < Len(writers[s]) => writers[s][l].write_size > 0
      BY <1>0 DEF RingInv
    <3>6. l < Len(writers[s]) => writers'[s][l + 1].first = writers[s][l + 1].first
      BY <1>4, <3>1
    <3> QED BY <1>4, <3>2, <3>4, <3>5, <3>6
  <2> QED BY <1>0, <2>1, <2>2, <2>3 DEF RingInv
<1>7. CrashOnlyWhenBehind'
  BY <1>2 DEF CrashOnlyWhenBehind, Alive
<1> QED BY <1>0, <1>5, <1>6, <1>7, NamesKept

\* The writers whose task does not move keep what they have, if their file is kept.
LEMMA OthersData ==
  ASSUME CollectorInv, NEW r \in Ring, NEW k \in 1 .. Len(writers[r]), NEW v, Moves(r, k, v),
         KeepsNames, AddsFresh,
         \A s \in Ring : \A l \in 1 .. Len(writers[s]) :
           ~Clash(s) /\ (s # r \/ l # k) /\ writers[s][l].file # 0 =>
             content'[writers[s][l].file] = content[writers[s][l].file],
         ~Clash(r) => DataOf(v, IF v.file = 0 THEN << >> ELSE content'[v.file])
  PROVE  DataInv'
<1>0. CollectorTypes /\ NameInv /\ DataInv
  BY DEF CollectorInv
<1>1. /\ \A s \in Ring : Len(writers'[s]) = Len(writers[s])
      /\ writers'[r][k] = v
      /\ \A s \in Ring : \A l \in 1 .. Len(writers[s]) :
           s # r \/ l # k => writers'[s][l] = writers[s][l]
  BY <1>0, MovesShape
<1>2. \A s \in Ring : Clash(s) => Clash(s)'
  BY <1>0, NamesKept
<1>3. ASSUME NEW s \in Ring, ~Clash(s)', NEW l \in 1 .. Len(writers'[s])
      PROVE  DataOf(writers'[s][l], IF writers'[s][l].file = 0 THEN << >> ELSE content'[writers'[s][l].file])
  <2>1. ~Clash(s) /\ l \in 1 .. Len(writers[s])
    BY <1>1, <1>2, <1>3
  <2>2. CASE s = r /\ l = k
    BY <1>1, <2>1, <2>2
  <2>3. CASE s # r \/ l # k
    <3>1. DataOf(writers[s][l], IF writers[s][l].file = 0 THEN << >> ELSE content[writers[s][l].file])
      BY <1>0, <2>1 DEF DataInv, Stored
    <3>2. writers'[s][l] = writers[s][l]
      BY <1>1, <2>1, <2>3
    <3>3. writers[s][l].file # 0 => content'[writers[s][l].file] = content[writers[s][l].file]
      BY <2>1, <2>3
    <3> QED BY <3>1, <3>2, <3>3
  <2> QED BY <2>2, <2>3
<1> QED BY <1>3 DEF DataInv, Stored

\* Only the writers of a ring where names clash share their files.
LEMMA OneOwner ==
  ASSUME CollectorInv, NEW r \in Ring, NEW k \in 1 .. Len(writers[r]), writers[r][k].file # 0,
         NEW s \in Ring, NEW l \in 1 .. Len(writers[s]), ~Clash(s), s # r \/ l # k
  PROVE  writers[s][l].file # writers[r][k].file
<1>1. CollectorTypes /\ NameInv /\ DirInv /\ OwnInv
  BY DEF CollectorInv
<1>2. CASE s # r
  BY <1>1, <1>2 DEF DirInv
<1>3. CASE s = r
  BY <1>1, <1>3, FilesApart
<1> QED BY <1>2, <1>3

LEMMA SameTasks ==
  ASSUME CollectorInv, NEW r \in Ring, NEW k \in 1 .. Len(writers[r]), NEW v, Moves(r, k, v),
         DOMAIN content \subseteq DOMAIN content',
         /\ v.task = "create" => v.file = 0 /\ v.pos = 0
         /\ v.task \in {"write", "rename", "done"} => v.file # 0
         /\ v.file # 0 => v.file \in DOMAIN content'
         /\ v.task \in {"rename", "done"} => ~v.tx /\ v.queue = << >>,
         io_failed' \/ (io_failed' = io_failed /\ (v.task = "panic" => ~v.tx))
  PROVE  TaskInv' /\ PanicInv'
<1>0. CollectorTypes /\ TaskInv /\ PanicInv
  BY DEF CollectorInv
<1>1. /\ \A s \in Ring : Len(writers'[s]) = Len(writers[s])
      /\ writers'[r][k] = v
      /\ \A s \in Ring : \A l \in 1 .. Len(writers[s]) :
           s # r \/ l # k => writers'[s][l] = writers[s][l]
  BY <1>0, MovesShape
<1>2. TaskInv'
  BY <1>0, <1>1 DEF TaskInv
<1>3. PanicInv'
  BY <1>0, <1>1 DEF PanicInv
<1> QED BY <1>2, <1>3

-----------------------------------------------------------------------------
(* Create, Write, Flush, Rename and IoFails.                               *)

LEMMA WriteKeeps ==
  ASSUME CollectorInv, NEW r \in Ring, NEW k \in 1 .. Len(writers[r]), Alive, Write(r, k)
  PROVE  CollectorInv'
<1>0. CollectorTypes /\ RingInv /\ NameInv /\ TaskInv /\ PanicInv /\ DirInv /\ OwnInv /\ DataInv
  BY DEF CollectorInv
<1>1. PICK w \in Writer : w = writers[r][k]
  BY <1>0 DEF CollectorTypes
<1>2. PICK d \in Chunk : d = Head(w.queue)
  BY <1>1 DEF Write, Writer
<1>3. PICK v : v = [w EXCEPT !.queue = Tail(@), !.pos = Advanced(@, d)]
  OBVIOUS
<1>4. /\ w.task = "write" /\ w.queue # << >>
      /\ content' = [content EXCEPT ![w.file] = Overwrite(@, w.pos, d)]
      /\ Becomes(r, k, v)
      /\ clock' = clock /\ pc' = pc /\ idx' = idx /\ fetched' = fetched
      /\ dir' = dir /\ io_failed' = io_failed
  BY <1>1, <1>2, <1>3 DEF Write, poll
<1>5. /\ v \in Writer
      /\ v.file_name = w.file_name /\ v.complete_name = w.complete_name
      /\ v.tx = w.tx /\ v.write_size = w.write_size /\ v.first = w.first
      /\ v.task = "write" /\ v.file = w.file
      /\ v.queue = Tail(w.queue) /\ v.pos = w.pos + Len(d)
      /\ Len(v.queue) <= Len(w.queue)
  <2>1. w.queue \in Seq(Chunk) /\ w.pos \in Nat /\ Len(d) \in Nat
    BY <1>1, <1>2 DEF Writer, Chunk
  <2>2. Tail(w.queue) \in Seq(Chunk) /\ Len(Tail(w.queue)) <= Len(w.queue) /\ w.pos + Len(d) \in Nat
    BY <1>4, <2>1
  <2> QED BY <1>1, <1>3, <1>4, <2>2 DEF Writer, Advanced
<1>6. Moves(r, k, v)
  BY <1>1, <1>4, <1>5 DEF Moves
<1>7. w.file # 0 /\ w.file \in DOMAIN content /\ content[w.file] \in Chunk
  BY <1>0, <1>1, <1>4 DEF TaskInv, CollectorTypes
<1>8. /\ content' \in Seq(Chunk) /\ DOMAIN content' = DOMAIN content
      /\ content'[w.file] = Overwrite(content[w.file], w.pos, d)
      /\ \A f \in DOMAIN content : f # w.file => content'[f] = content[f]
  <2>1. Overwrite(content[w.file], w.pos, d) \in Chunk
    BY <1>1, <1>2, <1>7, OverwriteType DEF Writer
  <2> QED BY <1>0, <1>4, <1>7, <2>1 DEF CollectorTypes
<1>9. KeepsNames /\ AddsFresh /\ RingInv' /\ NameInv' /\ CrashOnlyWhenBehind'
  BY <1>6, MovesKeeps
<1>10. CollectorTypes'
  BY <1>0, <1>4, <1>8, <1>9 DEF CollectorTypes, KeepsNames
<1>11. TaskInv' /\ PanicInv'
  BY <1>4, <1>5, <1>6, <1>7, <1>8, SameTasks
<1>12. KeepsFiles
  BY <1>0, <1>1, <1>4, <1>5, <1>6, MovesShape DEF KeepsFiles
<1>13. DirInv' /\ OwnInv'
  BY <1>0, <1>4, <1>9, <1>12, SameFiles
<1>14. DataInv'
  <2>1. ASSUME NEW s \in Ring, NEW l \in 1 .. Len(writers[s]),
               ~Clash(s), s # r \/ l # k, writers[s][l].file # 0
        PROVE  content'[writers[s][l].file] = content[writers[s][l].file]
    <3>1. writers[s][l].file # w.file
      BY <1>1, <1>7, <2>1, OneOwner
    <3>2. writers[s][l].file \in DOMAIN content
      BY <1>0, <2>1 DEF TaskInv
    <3> QED BY <1>8, <3>1, <3>2
  <2>2. ASSUME ~Clash(r)  PROVE  DataOf(v, content'[v.file])
    <3> DEFINE a == w.first + w.pos
               e == w.first + w.write_size
    <3>1. /\ w.first \in Nat /\ w.pos \in Nat /\ w.write_size \in Nat /\ w.queue \in Seq(Chunk)
      BY <1>1 DEF Writer
    <3>2. /\ w.pos <= w.write_size /\ content[w.file] = Bytes(w.first, w.first + w.pos)
          /\ Chained(w.queue, a, e)
      BY <1>0, <1>1, <1>4, <1>7, <2>2 DEF DataInv, DataOf, Stored
    <3>3. a \in Nat /\ e \in Nat
      BY <3>1
    <3>4. PICK m \in a .. e : d = Bytes(a, m) /\ Chained(v.queue, m, e)
      BY <1>2, <1>4, <1>5, <3>1, <3>2, <3>3, ChainedTail
    <3>5. m \in Nat /\ a <= m /\ m <= e
      BY <3>3
    <3>6. Len(d) = m - a
      BY <3>3, <3>4, <3>5, BytesSeq
    <3>7. content'[w.file] = Bytes(w.first, m)
      BY <1>8, <3>1, <3>2, <3>4, <3>5, OverwriteAtEnd
    <3>8. v.pos <= v.write_size /\ v.first + v.pos = m
      BY <1>5, <3>1, <3>5, <3>6
    <3> QED BY <1>5, <3>4, <3>7, <3>8 DEF DataOf
  <2>3. ~Clash(r) => DataOf(v, IF v.file = 0 THEN << >> ELSE content'[v.file])
    BY <1>5, <1>7, <2>2
  <2> QED BY <1>6, <1>9, <2>1, <2>3, OthersData
<1> QED BY <1>9, <1>10, <1>11, <1>13, <1>14 DEF CollectorInv

LEMMA FlushKeeps ==
  ASSUME CollectorInv, NEW r \in Ring, NEW k \in 1 .. Len(writers[r]), Alive, Flush(r, k)
  PROVE  CollectorInv'
<1>0. CollectorTypes /\ RingInv /\ NameInv /\ TaskInv /\ PanicInv /\ DirInv /\ OwnInv /\ DataInv
  BY DEF CollectorInv
<1>1. PICK w \in Writer : w = writers[r][k]
  BY <1>0 DEF CollectorTypes
<1>2. PICK v : v = [w EXCEPT !.task = "rename"]
  OBVIOUS
<1>3. /\ w.task = "write" /\ w.queue = << >> /\ ~w.tx
      /\ Becomes(r, k, v)
      /\ clock' = clock /\ pc' = pc /\ idx' = idx /\ fetched' = fetched
      /\ dir' = dir /\ content' = content /\ io_failed' = io_failed
  BY <1>1, <1>2 DEF Flush, poll, files, Drained
<1>4. /\ v \in Writer
      /\ v.file_name = w.file_name /\ v.complete_name = w.complete_name
      /\ v.tx = w.tx /\ v.write_size = w.write_size /\ v.first = w.first
      /\ v.task = "rename" /\ v.file = w.file
      /\ v.queue = w.queue /\ v.pos = w.pos
  BY <1>1, <1>2 DEF Writer
<1>5. Moves(r, k, v)
  <2>1. Len(w.queue) <= Len(w.queue)
    BY <1>1 DEF Writer
  <2> QED BY <1>1, <1>3, <1>4, <2>1 DEF Moves
<1>6. w.file # 0 /\ w.file \in DOMAIN content
  BY <1>0, <1>1, <1>3 DEF TaskInv
<1>7. KeepsNames /\ AddsFresh /\ RingInv' /\ NameInv' /\ CrashOnlyWhenBehind'
  BY <1>5, MovesKeeps
<1>8. CollectorTypes'
  BY <1>0, <1>3, <1>7 DEF CollectorTypes, KeepsNames
<1>9. TaskInv' /\ PanicInv'
  BY <1>3, <1>4, <1>5, <1>6, SameTasks
<1>10. KeepsFiles
  BY <1>0, <1>1, <1>3, <1>4, <1>5, MovesShape DEF KeepsFiles
<1>11. DirInv' /\ OwnInv'
  BY <1>0, <1>3, <1>7, <1>10, SameFiles
<1>12. DataInv'
  <2>1. ~Clash(r) => DataOf(w, content[w.file])
    BY <1>0, <1>1, <1>6 DEF DataInv, Stored
  <2>2. ~Clash(r) => DataOf(v, IF v.file = 0 THEN << >> ELSE content'[v.file])
    BY <1>3, <1>4, <1>6, <2>1 DEF DataOf
  <2> QED BY <1>3, <1>5, <1>7, <2>2, OthersData
<1> QED BY <1>7, <1>8, <1>9, <1>11, <1>12 DEF CollectorInv

LEMMA IoFailsKeeps ==
  ASSUME CollectorInv, NEW r \in Ring, NEW k \in 1 .. Len(writers[r]), Alive, IoFails(r, k)
  PROVE  CollectorInv'
<1>0. CollectorTypes /\ RingInv /\ NameInv /\ TaskInv /\ PanicInv /\ DirInv /\ OwnInv /\ DataInv
  BY DEF CollectorInv
<1>1. PICK w \in Writer : w = writers[r][k]
  BY <1>0 DEF CollectorTypes
<1>2. PICK v : v = [w EXCEPT !.task = "panic", !.queue = << >>]
  OBVIOUS
<1>3. /\ w.task \in {"create", "write", "rename"}
      /\ Becomes(r, k, v)
      /\ clock' = clock /\ pc' = pc /\ idx' = idx /\ fetched' = fetched
      /\ dir' = dir /\ io_failed'
  BY <1>1, <1>2 DEF IoFails, poll
<1>4. PICK n \in 0 .. IF w.queue = << >> THEN 0 ELSE Len(Head(w.queue)) :
        content' = IF w.task = "write" /\ n > 0
                   THEN [content EXCEPT ![w.file] = Overwrite(@, w.pos, SubSeq(Head(w.queue), 1, n))]
                   ELSE content
  BY <1>1 DEF IoFails
<1>5. /\ v \in Writer
      /\ v.file_name = w.file_name /\ v.complete_name = w.complete_name
      /\ v.tx = w.tx /\ v.write_size = w.write_size /\ v.first = w.first
      /\ v.task = "panic" /\ v.file = w.file /\ v.queue = << >>
  <2>1. << >> \in Seq(Chunk)
    OBVIOUS
  <2> QED BY <1>1, <1>2, <2>1 DEF Writer
<1>6. Moves(r, k, v)
  <2>1. Len(v.queue) <= Len(w.queue)
    BY <1>1, <1>5 DEF Writer
  <2> QED BY <1>1, <1>3, <1>5, <2>1 DEF Moves
<1>7. /\ w.task = "create" => w.file = 0 /\ w.pos = 0
      /\ w.task # "create" => w.file # 0
      /\ w.file # 0 => w.file \in DOMAIN content /\ content[w.file] \in Chunk
  BY <1>0, <1>1, <1>3 DEF TaskInv, CollectorTypes
<1> DEFINE wrote == w.task = "write" /\ n > 0
           d == SubSeq(Head(w.queue), 1, n)
<1>8. wrote => w.queue # << >> /\ Head(w.queue) \in Chunk /\ n \in 1 .. Len(Head(w.queue)) /\ d \in Chunk
  <2> SUFFICES ASSUME wrote
               PROVE  w.queue # << >> /\ Head(w.queue) \in Chunk /\ n \in 1 .. Len(Head(w.queue)) /\ d \in Chunk
    OBVIOUS
  <2>1. w.queue \in Seq(Chunk)
    BY <1>1 DEF Writer
  <2>2. w.queue # << >>
    BY <1>4
  <2>3. Head(w.queue) \in Chunk
    BY <2>1, <2>2
  <2>4. n \in 1 .. Len(Head(w.queue))
    BY <1>4, <2>2, <2>3 DEF Chunk
  <2> QED BY <2>2, <2>3, <2>4, ChunkPrefix
<1>9. /\ content' \in Seq(Chunk) /\ DOMAIN content' = DOMAIN content
      /\ wrote => content'[w.file] = Overwrite(content[w.file], w.pos, d)
      /\ ~wrote => content' = content
      /\ \A f \in DOMAIN content : f # w.file => content'[f] = content[f]
  <2>1. CASE ~wrote
    BY <1>0, <1>4, <2>1 DEF CollectorTypes
  <2>2. CASE wrote
    <3>1. Overwrite(content[w.file], w.pos, d) \in Chunk
      BY <1>1, <1>7, <1>8, <2>2, OverwriteType DEF Writer
    <3> HIDE DEF d
    <3>2. content' = [content EXCEPT ![w.file] = Overwrite(content[w.file], w.pos, d)]
      BY <1>4, <2>2 DEF d
    <3> QED BY <1>0, <1>7, <2>2, <3>1, <3>2 DEF CollectorTypes
  <2> QED BY <2>1, <2>2
<1>10. KeepsNames /\ AddsFresh /\ RingInv' /\ NameInv' /\ CrashOnlyWhenBehind'
  BY <1>6, MovesKeeps
<1>11. CollectorTypes'
  BY <1>0, <1>3, <1>9, <1>10 DEF CollectorTypes, KeepsNames
<1>12. TaskInv' /\ PanicInv'
  <2>1. v.task \notin {"create", "write", "rename", "done"} /\ (v.file # 0 => v.file \in DOMAIN content')
    BY <1>5, <1>7, <1>9
  <2> QED BY <1>3, <1>6, <1>9, <2>1, SameTasks
<1>13. KeepsFiles
  BY <1>0, <1>1, <1>3, <1>5, <1>6, MovesShape DEF KeepsFiles
<1>14. DirInv' /\ OwnInv'
  BY <1>0, <1>3, <1>10, <1>13, SameFiles
<1>15. DataInv'
  <2>1. ASSUME NEW s \in Ring, NEW l \in 1 .. Len(writers[s]),
               ~Clash(s), s # r \/ l # k, writers[s][l].file # 0
        PROVE  content'[writers[s][l].file] = content[writers[s][l].file]
    <3>1. CASE ~wrote
      BY <1>9, <3>1
    <3>2. CASE wrote
      <4>1. writers[s][l].file # w.file
        BY <1>1, <1>7, <2>1, <3>2, OneOwner
      <4>2. writers[s][l].file \in DOMAIN content
        BY <1>0, <2>1 DEF TaskInv
      <4> QED BY <1>9, <4>1, <4>2
    <3> QED BY <3>1, <3>2
  <2>2. ASSUME ~Clash(r)  PROVE  DataOf(v, IF v.file = 0 THEN << >> ELSE content'[v.file])
    <3> DEFINE a == w.first + w.pos
               e == w.first + w.write_size
               c == IF w.file = 0 THEN << >> ELSE content[w.file]
    <3>1. /\ w.first \in Nat /\ w.pos \in Nat /\ w.write_size \in Nat /\ w.queue \in Seq(Chunk)
      BY <1>1 DEF Writer
    <3>2. /\ w.pos <= w.write_size /\ c = Bytes(w.first, w.first + w.pos)
          /\ Chained(w.queue, a, e)
      BY <1>0, <1>1, <1>3, <2>2 DEF DataInv, DataOf, Stored
    <3>3. a \in Nat /\ e \in Nat
      BY <3>1
    <3>4. CASE ~wrote
      <4>1. w.pos \in 0 .. v.write_size /\ c = Bytes(v.first, v.first + w.pos)
        BY <1>5, <3>1, <3>2
      <4>2. (IF v.file = 0 THEN << >> ELSE content'[v.file]) = c
        BY <1>5, <1>9, <3>4
      <4> QED BY <1>5, <4>1, <4>2 DEF DataOf
    <3>5. CASE wrote
      <4>1. PICK m \in a .. e : Head(w.queue) = Bytes(a, m)
        BY <1>8, <3>1, <3>2, <3>3, <3>5, ChainedTail
      <4>2. m \in Nat /\ a <= m /\ m <= e
        BY <3>3
      <4>3. n \in 0 .. m - a /\ n \in Nat
        <5>1. Len(Head(w.queue)) = m - a
          BY <3>3, <4>1, <4>2, BytesSeq
        <5> QED BY <1>8, <3>3, <3>5, <4>2, <5>1
      <4>4. d = Bytes(a, a + n)
        BY <3>3, <4>1, <4>2, <4>3, BytesPrefix, ZenonT(60)
      <4>5. content'[w.file] = Bytes(w.first, a + n)
        <5>1. a + n \in Nat /\ a <= a + n
          BY <3>3, <4>3
        <5>2. Overwrite(Bytes(w.first, w.first + w.pos), w.pos, Bytes(a, a + n)) = Bytes(w.first, a + n)
          BY <3>1, <5>1, OverwriteAtEnd
        <5>3. c = content[w.file]
          BY <1>7, <3>5
        <5> QED BY <1>9, <3>2, <3>5, <4>4, <5>2, <5>3
      <4>6. w.pos + n \in 0 .. v.write_size /\ v.first + (w.pos + n) = a + n
        BY <1>5, <3>1, <4>2, <4>3, SMTT(40)
      <4>7. (IF v.file = 0 THEN << >> ELSE content'[v.file]) = Bytes(v.first, v.first + (w.pos + n))
        BY <1>5, <1>7, <3>5, <4>5, <4>6
      <4> QED BY <1>5, <4>6, <4>7 DEF DataOf
    <3> QED BY <3>4, <3>5
  <2> QED BY <1>6, <1>10, <2>1, <2>2, OthersData
<1> QED BY <1>10, <1>11, <1>12, <1>14, <1>15 DEF CollectorInv

LEMMA CreateKeeps ==
  ASSUME CollectorInv, NEW r \in Ring, NEW k \in 1 .. Len(writers[r]), Alive, Create(r, k)
  PROVE  CollectorInv'
<1>0. CollectorTypes /\ RingInv /\ NameInv /\ TaskInv /\ PanicInv /\ DirInv /\ OwnInv /\ DataInv
  BY DEF CollectorInv
<1>1. PICK w \in Writer : w = writers[r][k]
  BY <1>0 DEF CollectorTypes
<1>2. PICK f : f = IF w.file_name \in DOMAIN dir THEN dir[w.file_name] ELSE Len(content) + 1
  OBVIOUS
<1>3. PICK v : v = [w EXCEPT !.task = "write", !.file = f]
  OBVIOUS
<1>4. /\ w.task = "create"
      /\ dir' = [n \in DOMAIN dir \cup {w.file_name} |-> IF n = w.file_name THEN f ELSE dir[n]]
      /\ content' = IF f \in DOMAIN content THEN [content EXCEPT ![f] = << >>]
                                            ELSE Append(content, << >>)
      /\ Becomes(r, k, v)
      /\ clock' = clock /\ pc' = pc /\ idx' = idx /\ fetched' = fetched /\ io_failed' = io_failed
  BY <1>1, <1>2, <1>3 DEF Create, poll
<1>5. w.file = 0 /\ w.pos = 0
  BY <1>0, <1>1, <1>4 DEF TaskInv
<1>6. content \in Seq(Chunk) /\ Len(content) \in Nat /\ DOMAIN content = 1 .. Len(content) /\ << >> \in Chunk
  BY <1>0 DEF CollectorTypes, Chunk
<1>7. /\ f \in Nat /\ f # 0 /\ f \in DOMAIN content'
      /\ w.file_name \in DOMAIN dir => f \in DOMAIN content
      /\ w.file_name \notin DOMAIN dir => f = Len(content) + 1 /\ f \notin DOMAIN content
      /\ content' \in Seq(Chunk) /\ DOMAIN content \subseteq DOMAIN content'
      /\ content'[f] = << >>
      /\ \A g \in DOMAIN content : g # f => content'[g] = content[g]
  <2>1. CASE w.file_name \in DOMAIN dir
    <3>1. f \in 1 .. Len(content)
      BY <1>0, <1>2, <1>6, <2>1 DEF CollectorTypes
    <3>2. content' = [content EXCEPT ![f] = << >>]
      BY <1>4, <1>6, <3>1
    <3> QED BY <1>6, <2>1, <3>1, <3>2
  <2>2. CASE w.file_name \notin DOMAIN dir
    <3>1. f = Len(content) + 1 /\ f \notin DOMAIN content
      BY <1>2, <1>6, <2>2
    <3>2. content' = Append(content, << >>)
      BY <1>4, <3>1
    <3> QED BY <1>6, <2>2, <3>1, <3>2
  <2> QED BY <2>1, <2>2
<1>8. /\ v \in Writer
      /\ v.file_name = w.file_name /\ v.complete_name = w.complete_name
      /\ v.tx = w.tx /\ v.write_size = w.write_size /\ v.first = w.first
      /\ v.task = "write" /\ v.file = f /\ v.queue = w.queue /\ v.pos = 0
  BY <1>1, <1>3, <1>5, <1>7 DEF Writer
<1>9. Moves(r, k, v)
  <2>1. Len(w.queue) <= Len(w.queue)
    BY <1>1 DEF Writer
  <2> QED BY <1>1, <1>4, <1>8, <2>1 DEF Moves
<1>10. KeepsNames /\ AddsFresh /\ RingInv' /\ NameInv' /\ CrashOnlyWhenBehind'
  BY <1>9, MovesKeeps
<1>11. /\ DOMAIN dir' = DOMAIN dir \cup {w.file_name}
       /\ dir'[w.file_name] = f
       /\ \A n \in DOMAIN dir : n # w.file_name => dir'[n] = dir[n]
  BY <1>4
<1>12. CollectorTypes'
  <2>1. DOMAIN dir' \subseteq Name
    BY <1>0, <1>1, <1>11 DEF CollectorTypes, Writer
  <2>2. \A n \in DOMAIN dir' : dir'[n] \in DOMAIN content'
    BY <1>0, <1>7, <1>11 DEF CollectorTypes
  <2> QED BY <1>0, <1>4, <1>7, <1>10, <2>1, <2>2 DEF CollectorTypes, KeepsNames
<1>13. TaskInv' /\ PanicInv'
  BY <1>4, <1>7, <1>8, <1>9, SameTasks
<1>14. /\ \A s \in Ring : Len(writers'[s]) = Len(writers[s])
       /\ writers'[r][k] = v
       /\ \A s \in Ring : \A l \in 1 .. Len(writers[s]) :
            s # r \/ l # k => writers'[s][l] = writers[s][l]
  BY <1>0, <1>9, MovesShape
\* Who already has the file: writers of the ring, and only where names clash.
<1>15. \A s \in Ring : \A l \in 1 .. Len(writers[s]) : writers[s][l].file = f => s = r
  <2> SUFFICES ASSUME NEW s \in Ring, NEW l \in 1 .. Len(writers[s]), writers[s][l].file = f
               PROVE  s = r
    OBVIOUS
  <2>1. f \in DOMAIN content
    BY <1>0, <1>7 DEF TaskInv
  <2>2. w.file_name \in DOMAIN dir /\ dir[w.file_name] = f
    BY <1>2, <1>7, <2>1
  <2>3. w.file_name[2] = r
    BY <1>0, <1>1, NamesApart
  <2>4. PICK j \in 1 .. Len(writers[r]) : writers[r][j].file = f
    BY <1>0, <2>2, <2>3 DEF DirInv
  <2> QED BY <1>0, <1>7, <2>4, SMTT(40) DEF DirInv
<1>16. ~Clash(r) => w.file_name \notin DOMAIN dir
  BY <1>0, <1>1, <1>5 DEF OwnInv, OwnOf
<1>17. DirInv'
  <2>1. \A m, n \in DOMAIN dir' : dir'[m] = dir'[n] => m = n
    <3>1. CASE w.file_name \in DOMAIN dir
      BY <1>0, <1>2, <1>11, <3>1 DEF DirInv
    <3>2. CASE w.file_name \notin DOMAIN dir
      <4>1. \A n \in DOMAIN dir : dir[n] # f
        BY <1>0, <1>7, <3>2 DEF CollectorTypes
      <4> QED BY <1>0, <1>11, <3>2, <4>1 DEF DirInv
    <3> QED BY <3>1, <3>2
  <2>2. ASSUME NEW n \in DOMAIN dir'
        PROVE  \E j \in 1 .. Len(writers'[n[2]]) : /\ writers'[n[2]][j].file = dir'[n]
                                                   /\ n \in {writers'[n[2]][j].file_name,
                                                             writers'[n[2]][j].complete_name}
    <3>1. CASE n = w.file_name
      <4>1. n[2] = r
        BY <1>0, <1>1, <3>1, NamesApart
      <4> QED BY <1>8, <1>11, <1>14, <3>1, <4>1
    <3>2. CASE n # w.file_name
      <4>1. n \in DOMAIN dir /\ dir'[n] = dir[n]
        BY <1>11, <3>2
      <4>2. n[2] \in Ring
        BY <1>0, <4>1 DEF CollectorTypes, Name
      <4>3. PICK j \in 1 .. Len(writers[n[2]]) : /\ writers[n[2]][j].file = dir[n]
                                                /\ n \in {writers[n[2]][j].file_name,
                                                          writers[n[2]][j].complete_name}
        BY <1>0, <4>1 DEF DirInv
      <4>4. dir[n] # 0
        BY <1>0, <1>6, <4>1 DEF CollectorTypes
      <4>5. n[2] # r \/ j # k
        BY <1>1, <1>5, <4>3, <4>4
      <4>6. writers'[n[2]][j] = writers[n[2]][j] /\ j \in 1 .. Len(writers'[n[2]])
        BY <1>14, <4>2, <4>3, <4>5
      <4> QED BY <4>1, <4>3, <4>6
    <3> QED BY <3>1, <3>2
  <2>3. ASSUME NEW s \in Ring, NEW u \in Ring,
               NEW l \in 1 .. Len(writers'[s]), NEW j \in 1 .. Len(writers'[u]),
               writers'[s][l].file = writers'[u][j].file, writers'[s][l].file # 0
        PROVE  s = u
    <3>1. l \in 1 .. Len(writers[s]) /\ j \in 1 .. Len(writers[u])
      BY <1>14
    <3>2. CASE (s # r \/ l # k) /\ (u # r \/ j # k)
      BY <1>0, <1>14, <2>3, <3>1, <3>2, SMTT(40) DEF DirInv
    <3>3. CASE s = r /\ l = k /\ ~(u = r /\ j = k)
      BY <1>8, <1>14, <1>15, <2>3, <3>1, <3>3
    <3>4. CASE u = r /\ j = k /\ ~(s = r /\ l = k)
      BY <1>8, <1>14, <1>15, <2>3, <3>1, <3>4
    <3> QED BY <3>2, <3>3, <3>4
  <2> QED BY <2>1, <2>2, <2>3 DEF DirInv
<1>18. \A s \in Ring : ~Clash(s)' => ~Clash(s)
  BY <1>0, <1>10, NamesKept
<1>19. ASSUME NEW s \in Ring, ~Clash(s)', NEW l \in 1 .. Len(writers'[s])
       PROVE  OwnOf(writers'[s][l], dir')
  <2>1. ~Clash(s) /\ l \in 1 .. Len(writers[s])
    BY <1>14, <1>18, <1>19
  <2>2. OwnOf(writers[s][l], dir)
    BY <1>0, <2>1 DEF OwnInv
  <2>3. writers[s][l].complete_name # w.file_name
    BY <1>0, <1>1, <2>1, NamesApart
  <2>4. CASE s = r /\ l = k
    BY <1>1, <1>4, <1>7, <1>8, <1>11, <1>14, <2>2, <2>3, <2>4 DEF OwnOf
  <2>5. CASE s # r \/ l # k
    <3>1. writers'[s][l] = writers[s][l]
      BY <1>14, <2>1, <2>5
    <3>2. writers[s][l].file_name # w.file_name
      <4>1. CASE s # r
        BY <1>0, <1>1, <2>1, <4>1, NamesApart
      <4>2. CASE s = r /\ l # k
        BY <1>0, <1>1, <2>1, <4>2 DEF Clash, CollectorTypes
      <4> QED BY <2>5, <4>1, <4>2
    <3> QED BY <1>11, <2>2, <2>3, <3>1, <3>2 DEF OwnOf
  <2> QED BY <2>4, <2>5
<1>20. OwnInv'
  BY <1>19 DEF OwnInv
<1>21. DataInv'
  <2>1. ASSUME NEW s \in Ring, NEW l \in 1 .. Len(writers[s]),
               ~Clash(s), s # r \/ l # k, writers[s][l].file # 0
        PROVE  content'[writers[s][l].file] = content[writers[s][l].file]
    <3>1. writers[s][l].file \in DOMAIN content
      BY <1>0, <2>1 DEF TaskInv
    <3>2. writers[s][l].file # f
      BY <1>7, <1>15, <1>16, <2>1, <3>1
    <3> QED BY <1>7, <3>1, <3>2
  <2>2. ASSUME ~Clash(r)  PROVE  DataOf(v, content'[v.file])
    <3>1. DataOf(w, << >>)
      BY <1>0, <1>1, <1>5, <2>2 DEF DataInv, Stored
    <3> QED BY <1>4, <1>5, <1>7, <1>8, <3>1 DEF DataOf
  <2>3. ~Clash(r) => DataOf(v, IF v.file = 0 THEN << >> ELSE content'[v.file])
    BY <1>7, <1>8, <2>2
  <2> QED BY <1>9, <1>10, <2>1, <2>3, OthersData
<1> QED BY <1>10, <1>12, <1>13, <1>17, <1>20, <1>21 DEF CollectorInv

LEMMA RenameKeeps ==
  ASSUME CollectorInv, NEW r \in Ring, NEW k \in 1 .. Len(writers[r]), Alive, Rename(r, k)
  PROVE  CollectorInv'
<1>0. CollectorTypes /\ RingInv /\ NameInv /\ TaskInv /\ PanicInv /\ DirInv /\ OwnInv /\ DataInv
  BY DEF CollectorInv
<1>1. PICK w \in Writer : w = writers[r][k]
  BY <1>0 DEF CollectorTypes
<1>2. PICK t : t = IF w.file_name \in DOMAIN dir THEN "done" ELSE "panic"
  OBVIOUS
<1>3. PICK v : v = [w EXCEPT !.task = t]
  OBVIOUS
<1>4. /\ w.task = "rename"
      /\ w.file_name \in DOMAIN dir =>
           dir' = [n \in (DOMAIN dir \ {w.file_name}) \cup {w.complete_name} |->
                     IF n = w.complete_name THEN dir[w.file_name] ELSE dir[n]]
      /\ w.file_name \notin DOMAIN dir => dir' = dir
      /\ Becomes(r, k, v)
      /\ clock' = clock /\ pc' = pc /\ idx' = idx /\ fetched' = fetched
      /\ content' = content /\ io_failed' = io_failed
  BY <1>1, <1>2, <1>3 DEF Rename, poll
<1>5. /\ v \in Writer
      /\ v.file_name = w.file_name /\ v.complete_name = w.complete_name
      /\ v.tx = w.tx /\ v.write_size = w.write_size /\ v.first = w.first
      /\ v.task = t /\ v.file = w.file
      /\ v.queue = w.queue /\ v.pos = w.pos
  BY <1>1, <1>2, <1>3 DEF Writer
<1>6. Moves(r, k, v)
  <2>1. Len(w.queue) <= Len(w.queue)
    BY <1>1 DEF Writer
  <2> QED BY <1>1, <1>4, <1>5, <2>1 DEF Moves
<1>7. w.file # 0 /\ w.file \in DOMAIN content /\ ~w.tx /\ w.queue = << >>
  BY <1>0, <1>1, <1>4 DEF TaskInv
<1>8. KeepsNames /\ AddsFresh /\ RingInv' /\ NameInv' /\ CrashOnlyWhenBehind'
  BY <1>6, MovesKeeps
<1>9. TaskInv' /\ PanicInv'
  BY <1>2, <1>4, <1>5, <1>6, <1>7, SameTasks
<1>10. ~Clash(r) => w.file_name \in DOMAIN dir /\ dir[w.file_name] = w.file /\ t = "done"
  BY <1>0, <1>1, <1>2, <1>4, <1>7 DEF OwnInv, OwnOf
<1>11. DataInv'
  <2>1. ~Clash(r) => DataOf(w, content[w.file])
    BY <1>0, <1>1, <1>7 DEF DataInv, Stored
  <2>2. ~Clash(r) => DataOf(v, IF v.file = 0 THEN << >> ELSE content'[v.file])
    BY <1>4, <1>5, <1>7, <1>10, <2>1 DEF DataOf
  <2> QED BY <1>4, <1>6, <1>8, <2>2, OthersData
<1>12. CASE w.file_name \notin DOMAIN dir
  <2>1. CollectorTypes'
    BY <1>0, <1>4, <1>8, <1>12 DEF CollectorTypes, KeepsNames
  <2>2. t = "panic"
    BY <1>2, <1>12
  <2>3. KeepsFiles
    BY <1>0, <1>1, <1>4, <1>5, <1>6, <2>2, MovesShape DEF KeepsFiles
  <2>4. DirInv' /\ OwnInv'
    BY <1>0, <1>4, <1>8, <1>12, <2>3, SameFiles
  <2> QED BY <1>8, <1>9, <1>11, <2>1, <2>4 DEF CollectorInv
<1>13. CASE w.file_name \in DOMAIN dir
  <2>0. w.file_name # w.complete_name /\ w.complete_name \in Name
    BY <1>0, <1>1, NamesApart DEF Writer
  <2>1. /\ DOMAIN dir' = (DOMAIN dir \ {w.file_name}) \cup {w.complete_name}
        /\ dir'[w.complete_name] = dir[w.file_name]
        /\ \A n \in DOMAIN dir : n # w.file_name /\ n # w.complete_name =>
             n \in DOMAIN dir' /\ dir'[n] = dir[n]
    BY <1>4, <1>13
  <2>2. t = "done"
    BY <1>2, <1>13
  <2>3. CollectorTypes'
    <3>1. DOMAIN dir' \subseteq Name
      BY <1>0, <2>0, <2>1 DEF CollectorTypes
    <3>2. \A n \in DOMAIN dir' : dir'[n] \in DOMAIN content'
      BY <1>0, <1>4, <1>13, <2>1 DEF CollectorTypes
    <3> QED BY <1>0, <1>4, <1>8, <3>1, <3>2 DEF CollectorTypes, KeepsNames
  <2>4. /\ \A s \in Ring : Len(writers'[s]) = Len(writers[s])
        /\ writers'[r][k] = v
        /\ \A s \in Ring : \A l \in 1 .. Len(writers[s]) :
             s # r \/ l # k => writers'[s][l] = writers[s][l]
    BY <1>0, <1>6, MovesShape
  <2>5. \A s \in Ring : \A l \in 1 .. Len(writers[s]) :
          /\ writers'[s][l].file = writers[s][l].file
          /\ writers'[s][l].file_name = writers[s][l].file_name
          /\ writers'[s][l].complete_name = writers[s][l].complete_name
    BY <1>1, <1>5, <2>4
  <2>6. DirInv'
    <3>1. \A m, n \in DOMAIN dir' : dir'[m] = dir'[n] => m = n
      BY <1>0, <1>13, <2>1 DEF DirInv
    <3>2. ASSUME NEW n \in DOMAIN dir'
          PROVE  \E j \in 1 .. Len(writers'[n[2]]) : /\ writers'[n[2]][j].file = dir'[n]
                                                     /\ n \in {writers'[n[2]][j].file_name,
                                                               writers'[n[2]][j].complete_name}
      <4>1. CASE n = w.complete_name
        <5>1. w.file_name[2] = r /\ n[2] = r
          BY <1>0, <1>1, <4>1, NamesApart
        <5>2. PICK j \in 1 .. Len(writers[r]) : /\ writers[r][j].file = dir[w.file_name]
                                               /\ w.file_name \in {writers[r][j].file_name,
                                                                   writers[r][j].complete_name}
          BY <1>0, <1>13, <5>1 DEF DirInv
        <5>3. writers[r][j].complete_name = w.complete_name
          BY <1>0, <1>1, <5>2, NamesApart
        <5> QED BY <2>1, <2>4, <2>5, <4>1, <5>1, <5>2, <5>3
      <4>2. CASE n # w.complete_name
        <5>1. n \in DOMAIN dir /\ dir'[n] = dir[n]
          BY <2>1, <3>2, <4>2
        <5>2. n[2] \in Ring
          BY <1>0, <5>1 DEF CollectorTypes, Name
        <5>3. PICK j \in 1 .. Len(writers[n[2]]) : /\ writers[n[2]][j].file = dir[n]
                                                  /\ n \in {writers[n[2]][j].file_name,
                                                            writers[n[2]][j].complete_name}
          BY <1>0, <5>1 DEF DirInv
        <5> QED BY <2>4, <2>5, <5>1, <5>2, <5>3
      <4> QED BY <4>1, <4>2
    <3>3. ASSUME NEW s \in Ring, NEW u \in Ring,
                 NEW l \in 1 .. Len(writers'[s]), NEW j \in 1 .. Len(writers'[u]),
                 writers'[s][l].file = writers'[u][j].file, writers'[s][l].file # 0
          PROVE  s = u
      <4>1. l \in 1 .. Len(writers[s]) /\ j \in 1 .. Len(writers[u])
        BY <2>4
      <4>2. writers[s][l].file = writers[u][j].file /\ writers[s][l].file # 0
        BY <2>5, <3>3, <4>1
      <4> QED BY <1>0, <4>1, <4>2 DEF DirInv
    <3> QED BY <3>1, <3>2, <3>3 DEF DirInv
  <2>7. ASSUME NEW s \in Ring, ~Clash(s)', NEW l \in 1 .. Len(writers'[s])
        PROVE  OwnOf(writers'[s][l], dir')
    <3>1. ~Clash(s) /\ l \in 1 .. Len(writers[s])
      BY <1>0, <1>8, <2>4, <2>7, NamesKept
    <3>2. OwnOf(writers[s][l], dir)
      BY <1>0, <3>1 DEF OwnInv
    <3>3. CASE s = r /\ l = k
      BY <1>5, <1>10, <1>13, <2>0, <2>1, <2>2, <2>4, <3>1, <3>3, <1>7 DEF OwnOf
    <3>4. CASE s # r \/ l # k
      <4>1. writers'[s][l] = writers[s][l]
        BY <2>4, <3>1, <3>4
      <4>2. writers[s][l].file_name # w.file_name
        <5>1. CASE s # r
          BY <1>0, <1>1, <3>1, <5>1, NamesApart
        <5>2. CASE s = r /\ l # k
          BY <1>0, <1>1, <3>1, <5>2 DEF Clash, CollectorTypes
        <5> QED BY <3>4, <5>1, <5>2
      <4>3. /\ writers[s][l].file_name # w.complete_name
            /\ writers[s][l].complete_name # w.complete_name
            /\ writers[s][l].complete_name # w.file_name
        BY <1>0, <1>1, <3>1, <4>2, NamesApart
      <4> QED BY <2>1, <3>2, <4>1, <4>2, <4>3 DEF OwnOf
    <3> QED BY <3>3, <3>4
  <2>8. OwnInv'
    BY <2>7 DEF OwnInv
  <2> QED BY <1>8, <1>9, <1>11, <2>3, <2>6, <2>8 DEF CollectorInv
<1> QED BY <1>12, <1>13

-----------------------------------------------------------------------------
(* The main thread.                                                        *)

LEMMA NewWriterShape ==
  ASSUME CollectorTypes, NEW r \in Ring, NEW n \in Nat
  PROVE  LET new == NewWriter(r, n) IN
         /\ new \in Writer
         /\ new.file_name = <<clock, r, "tmp">> /\ new.complete_name = <<clock, r, "data">>
         /\ new.queue = << >> /\ new.tx /\ new.write_size = 0 /\ new.task = "create"
         /\ new.file = 0 /\ new.pos = 0 /\ new.first = n
<1>1. << >> \in Seq(Chunk) /\ TRUE \in BOOLEAN /\ 0 \in Nat
  OBVIOUS
<1>2. <<clock, r, "tmp">> \in Name /\ <<clock, r, "data">> \in Name
  BY DEF CollectorTypes, Name
<1> QED BY <1>1, <1>2 DEF NewWriter, FileName, Writer

\* A writer that was just made holds nothing, and was handed nothing.
LEMMA NewWriterData ==
  ASSUME CollectorTypes, NEW r \in Ring, NEW n \in Nat
  PROVE  DataOf(NewWriter(r, n), << >>)
<1> DEFINE new == NewWriter(r, n)
<1>1. /\ new.queue = << >> /\ new.write_size = 0 /\ new.task = "create" /\ new.pos = 0 /\ new.first = n
  BY NewWriterShape
<1> HIDE DEF new
<1>2. Bytes(n, n) = << >> /\ n + 0 = n
  BY DEF Bytes
<1>3. DataOf(new, << >>)
  BY <1>1, <1>2, ChainedEmpty DEF DataOf
<1> QED BY <1>3 DEF new

LEMMA SameWriters ==
  ASSUME CollectorInv, writers' = writers, dir' = dir, content' = content, io_failed' = io_failed
  PROVE  NameInv' /\ TaskInv' /\ PanicInv' /\ DirInv' /\ OwnInv' /\ DataInv'
<1>0. NameInv /\ TaskInv /\ PanicInv /\ DirInv /\ OwnInv /\ DataInv
  BY DEF CollectorInv
<1>1. \A r \in Ring : Clash(r)' <=> Clash(r)
  BY DEF Clash
<1>2. NameInv' /\ DirInv'
  BY <1>0 DEF NameInv, DirInv
<1>3. TaskInv' /\ PanicInv'
  BY <1>0, Zenon DEF TaskInv, PanicInv
<1>4. OwnInv'
  BY <1>0, <1>1 DEF OwnInv
<1>5. DataInv'
  BY <1>0, <1>1 DEF DataInv, Stored
<1> QED BY <1>2, <1>3, <1>4, <1>5

LEMMA ProcessorKeeps ==
  ASSUME CollectorInv, NEW n \in 0 .. MaxChunk, Processor(n)
  PROVE  CollectorInv'
<1>0. CollectorTypes /\ RingInv /\ NameInv /\ TaskInv /\ PanicInv /\ DirInv /\ OwnInv /\ DataInv
      /\ CrashOnlyWhenBehind
  BY DEF CollectorInv
<1>1. PICK i \in Ring : i = idx
  BY <1>0 DEF CollectorTypes
<1>2. PICK old \in 0 .. MaxBytes : old = fetched[i]
  BY <1>0 DEF CollectorTypes
<1>3. PICK now : now = old + n
  OBVIOUS
<1>4. PICK ws \in Seq(Writer) : ws = writers[i]
  BY <1>0 DEF CollectorTypes
<1>5. PICK L \in Nat : L = Len(ws)
  BY <1>4
<1>6. /\ pc = "poll" /\ now <= MaxBytes /\ fetched' = [fetched EXCEPT ![i] = now]
      /\ clock' = clock /\ dir' = dir /\ content' = content /\ io_failed' = io_failed
  BY <1>1, <1>2, <1>3 DEF Processor, files
<1>7. L > 0
  BY <1>0, <1>4, <1>5, <1>6 DEF RingInv
<1>8. PICK w \in Writer : w = ws[L] /\ w = Last(ws)
  BY <1>4, <1>5, <1>7 DEF Last
<1>9. /\ old \in Nat /\ n \in Nat /\ now \in 0 .. MaxBytes /\ old <= now
      /\ fetched' \in [Ring -> 0 .. MaxBytes] /\ fetched'[i] = now
      /\ \A s \in Ring : s # i => fetched'[s] = fetched[s]
      /\ \A s \in Ring : fetched[s] \in Nat /\ fetched'[s] \in Nat /\ fetched[s] <= fetched'[s]
  <2>1. old \in Nat /\ n \in Nat
    BY CollectorAssumption
  <2>2. now \in 0 .. MaxBytes /\ old <= now
    BY <1>3, <1>6, <2>1, CollectorAssumption
  <2>3. fetched \in [Ring -> 0 .. MaxBytes]
    BY <1>0 DEF CollectorTypes
  <2>4. /\ fetched' \in [Ring -> 0 .. MaxBytes] /\ fetched'[i] = now
        /\ \A s \in Ring : s # i => fetched'[s] = fetched[s]
    BY <1>6, <2>2, <2>3
  <2>5. \A s \in Ring : fetched[s] \in Nat /\ fetched'[s] \in Nat /\ fetched[s] <= fetched'[s]
    BY <1>2, <2>2, <2>3, <2>4, CollectorAssumption
  <2> QED BY <2>1, <2>2, <2>4, <2>5
<1>10. /\ w.tx /\ w.first + w.write_size = old /\ Len(w.queue) <= Cap /\ L - 1 <= w.first
       /\ w.first \in Nat /\ w.write_size \in Nat /\ w.queue \in Seq(Chunk) /\ w.pos \in Nat
       /\ Len(w.queue) \in Nat /\ w.task \notin {"rename", "done"}
  <2>1. L \in 1 .. Len(writers[i]) /\ writers[i][L] = w
    BY <1>4, <1>5, <1>7, <1>8
  <2>2. w.tx /\ Len(w.queue) <= Cap /\ L - 1 <= w.first
    BY <1>0, <1>4, <1>5, <2>1 DEF RingInv
  <2>3. w.first + w.write_size = old
    BY <1>0, <1>2, <1>4, <1>5, <1>6, <1>7, <2>1 DEF RingInv, Alive
  <2>4. w.first \in Nat /\ w.write_size \in Nat /\ w.queue \in Seq(Chunk) /\ w.pos \in Nat
    BY <1>8 DEF Writer
  <2>5. w.task \notin {"rename", "done"}
    BY <1>0, <2>1, <2>2 DEF TaskInv
  <2> QED BY <2>2, <2>3, <2>4, <2>5
<1>11. CASE ~CanSend(w)
  <2>1. pc' = "crashed" /\ idx' = i /\ writers' = writers
    BY <1>1, <1>4, <1>8, <1>11 DEF Processor
  <2>2. CollectorTypes'
    BY <1>0, <1>1, <1>6, <1>9, <2>1 DEF CollectorTypes
  <2>3. RingInv'
    <3> SUFFICES ASSUME NEW s \in Ring, NEW k \in 1 .. Len(writers[s])
                 PROVE  writers[s][k].first + writers[s][k].write_size <= fetched'[s]
      BY <1>0, <2>1 DEF RingInv, Alive
    <3>1. writers[s][k] \in Writer
      BY <1>0 DEF CollectorTypes
    <3>2. writers[s][k].first \in Nat /\ writers[s][k].write_size \in Nat
      BY <3>1 DEF Writer
    <3>3. writers[s][k].first + writers[s][k].write_size <= fetched[s]
      BY <1>0 DEF RingInv
    <3> QED BY <1>9, <3>2, <3>3
  <2>4. NameInv' /\ TaskInv' /\ PanicInv' /\ DirInv' /\ OwnInv' /\ DataInv'
    BY <1>6, <2>1, SameWriters
  <2>5. io_failed \/ Len(w.queue) = Cap
    <3>1. CASE w.task = "panic"
      <4>1. L \in 1 .. Len(writers[i]) /\ writers[i][L] = w
        BY <1>4, <1>5, <1>7, <1>8
      <4>2. io_failed \/ (writers[i][L].task = "panic" => ~writers[i][L].tx)
        BY <1>0, <4>1, Zenon DEF PanicInv
      <4> QED BY <1>10, <3>1, <4>1, <4>2, Zenon
    <3>2. CASE w.task # "panic"
      BY <1>10, <1>11, <3>2, CollectorAssumption DEF CanSend
    <3> QED BY <3>1, <3>2
  <2>6. CrashOnlyWhenBehind'
    BY <1>4, <1>6, <1>8, <2>1, <2>5 DEF CrashOnlyWhenBehind
  <2> QED BY <2>2, <2>3, <2>4, <2>6 DEF CollectorInv
<1>12. CASE CanSend(w)
  <2> DEFINE d == Bytes(old, now)
             new == NewWriter(i, now)
             rotate == w.write_size + n > FILE_SIZE
  <2>1. PICK u : u = [w EXCEPT !.queue = Append(@, d), !.write_size = @ + n]
    OBVIOUS
  <2>2. d \in Chunk
    BY <1>9, BytesSeq
  <2>3. /\ u \in Writer
        /\ u.file_name = w.file_name /\ u.complete_name = w.complete_name /\ u.tx
        /\ u.task = w.task /\ u.file = w.file /\ u.pos = w.pos /\ u.first = w.first
        /\ u.queue = Append(w.queue, d) /\ u.write_size = w.write_size + n
    <3>1. Append(w.queue, d) \in Seq(Chunk) /\ w.write_size + n \in Nat
      BY <1>9, <1>10, <2>2
    <3> HIDE DEF d
    <3> QED BY <1>8, <1>10, <2>1, <3>1 DEF Writer
  <2>4. PICK sent \in Seq(Writer) :
          sent = [ws EXCEPT ![L] = u] /\ Len(sent) = L /\ sent[L] = u
          /\ \A k \in 1 .. L : k # L => sent[k] = ws[k]
    <3> DEFINE x == [ws EXCEPT ![L] = u]
    <3>1. x \in Seq(Writer) /\ Len(x) = L
      BY <1>4, <1>5, <1>7, <2>3
    <3>2. x[L] = u /\ \A k \in 1 .. L : k # L => x[k] = ws[k]
      BY <1>4, <1>5, <1>7
    <3> QED BY <3>1, <3>2
  <2>5. /\ writers' = [writers EXCEPT ![i] = IF rotate THEN Replaced(sent, new) ELSE sent]
        /\ idx' = (i + 1) % Rings /\ pc' = pc
    BY <1>1, <1>2, <1>3, <1>4, <1>5, <1>6, <1>8, <1>12, <2>1, <2>4 DEF Processor
  <2>6. PICK v : v = IF rotate THEN [u EXCEPT !.tx = FALSE] ELSE u
    OBVIOUS
  <2>7. /\ v \in Writer
        /\ v.file_name = w.file_name /\ v.complete_name = w.complete_name /\ (v.tx <=> ~rotate)
        /\ v.task = w.task /\ v.file = w.file /\ v.pos = w.pos /\ v.first = w.first
        /\ v.queue = Append(w.queue, d) /\ v.write_size = w.write_size + n
    <3> HIDE DEF d, rotate
    <3>1. CASE rotate
      <4>1. FALSE \in BOOLEAN
        OBVIOUS
      <4> QED BY <2>3, <2>6, <3>1, <4>1 DEF Writer
    <3>2. CASE ~rotate
      BY <2>3, <2>6, <3>2
    <3> QED BY <3>1, <3>2
  <2>8. PICK M \in Nat : M = IF rotate THEN L + 1 ELSE L
    OBVIOUS
  <2>9. /\ writers' \in [Ring -> Seq(Writer)]
        /\ Len(writers'[i]) = M
        /\ writers'[i][L] = v
        /\ rotate => writers'[i][L + 1] = new
        /\ \A k \in 1 .. L : k # L => writers'[i][k] = writers[i][k]
        /\ \A s \in Ring : s # i => writers'[s] = writers[s]
    <3>0. writers \in [Ring -> Seq(Writer)]
      BY <1>0 DEF CollectorTypes
    <3>1. new \in Writer
      BY <1>0, <1>9, NewWriterShape
    <3> HIDE DEF new
    <3>2. CASE rotate
      <4> DEFINE kept == [sent EXCEPT ![L] = v]
      <4>1. kept \in Seq(Writer) /\ Len(kept) = L /\ kept[L] = v
            /\ \A k \in 1 .. L : k # L => kept[k] = ws[k]
        BY <1>7, <2>4, <2>7
      <4>2. [sent EXCEPT ![Len(sent)].tx = FALSE] = kept
        BY <2>4, <2>6, <3>2
      <4>3. writers' = [writers EXCEPT ![i] = Append(kept, new)]
        BY <2>5, <3>2, <4>2 DEF Replaced
      <4> HIDE DEF kept
      <4>4. Append(kept, new) \in Seq(Writer) /\ Len(Append(kept, new)) = L + 1
            /\ Append(kept, new)[L + 1] = new /\ \A k \in 1 .. L : Append(kept, new)[k] = kept[k]
        BY <3>1, <4>1
      <4>5. /\ writers'[i] = Append(kept, new) /\ writers' \in [Ring -> Seq(Writer)]
            /\ \A s \in Ring : s # i => writers'[s] = writers[s]
        BY <3>0, <4>3, <4>4
      <4>6. L \in 1 .. L
        BY <1>7
      <4> QED BY <1>4, <2>8, <3>2, <4>1, <4>4, <4>5, <4>6
    <3>3. CASE ~rotate
      <4>1. writers' = [writers EXCEPT ![i] = sent]
        BY <2>5, <3>3
      <4>2. /\ writers'[i] = sent /\ writers' \in [Ring -> Seq(Writer)]
            /\ \A s \in Ring : s # i => writers'[s] = writers[s]
        BY <2>4, <3>0, <4>1
      <4> QED BY <1>4, <2>4, <2>6, <2>8, <3>3, <4>2
    <3> QED BY <3>2, <3>3
  <2>10. /\ new.file_name = <<clock, i, "tmp">> /\ new.complete_name = <<clock, i, "data">>
         /\ new.queue = << >> /\ new.tx /\ new.write_size = 0 /\ new.task = "create"
         /\ new.file = 0 /\ new.pos = 0 /\ new.first = now
    BY <1>0, <1>9, NewWriterShape
  <2>11. DataOf(new, << >>)
    BY <1>0, <1>9, NewWriterData
  <2> HIDE DEF new
  <2>12. \A k \in 1 .. M : k \in 1 .. L - 1 \/ k = L \/ (rotate /\ k = L + 1)
    BY <1>7, <2>8
  <2>13. idx' \in Ring
    BY <2>5, CollectorAssumption DEF Ring
  <2> HIDE DEF d, rotate
  <2>14. KeepsNames /\ KeepsFiles /\ AddsFresh
    <3>0. L <= M /\ \A s \in Ring : Len(writers[s]) \in Nat
      BY <1>0, <2>8 DEF CollectorTypes
    <3>1. \A s \in Ring : Len(writers[s]) <= Len(writers'[s])
      BY <1>4, <1>5, <2>9, <3>0, SMTT(40)
    <3>2. ASSUME NEW s \in Ring, NEW l \in 1 .. Len(writers[s])
          PROVE  /\ writers'[s][l].file_name = writers[s][l].file_name
                 /\ writers'[s][l].complete_name = writers[s][l].complete_name
                 /\ writers'[s][l].file = writers[s][l].file
                 /\ writers'[s][l].task = writers[s][l].task
      <4>1. CASE s # i \/ l # L
        BY <1>4, <1>5, <2>9, <4>1
      <4>2. CASE s = i /\ l = L
        BY <1>4, <1>8, <2>7, <2>9, <4>2
      <4> QED BY <4>1, <4>2
    <3>3. ASSUME NEW s \in Ring, NEW l \in 1 .. Len(writers'[s]), l > Len(writers[s])
          PROVE  s = i /\ writers'[s][l] = new
      <4>1. s = i
        BY <2>9, <3>0, <3>3
      <4>2. l = L + 1 /\ rotate
        BY <1>4, <1>5, <1>7, <2>8, <2>9, <2>12, <3>3, <4>1
      <4> QED BY <2>9, <4>1, <4>2
    <3>4. KeepsNames
      BY <2>9, <3>1, <3>2 DEF KeepsNames
    <3>5. KeepsFiles
      BY <2>9, <3>1, <3>2 DEF KeepsFiles
    <3>6. AddsFresh
      BY <2>9, <2>10, <3>3 DEF AddsFresh
    <3> QED BY <3>4, <3>5, <3>6
  <2>15. CollectorTypes'
    BY <1>0, <1>6, <1>9, <2>5, <2>9, <2>13 DEF CollectorTypes
  <2>16. NameInv' /\ DirInv' /\ OwnInv'
    BY <1>0, <1>6, <2>14, NamesKept, SameFiles
  <2>17. TaskInv' /\ PanicInv'
    <3>1. ASSUME NEW s \in Ring, NEW l \in 1 .. Len(writers'[s])
          PROVE  LET x == writers'[s][l] IN
                 /\ x.task = "create" => x.file = 0 /\ x.pos = 0
                 /\ x.task \in {"write", "rename", "done"} => x.file # 0
                 /\ x.file # 0 => x.file \in DOMAIN content
                 /\ x.task \in {"rename", "done"} => ~x.tx /\ x.queue = << >>
                 /\ io_failed \/ (x.task = "panic" => ~x.tx)
      <4> DEFINE OK(x) == /\ x.task = "create" => x.file = 0 /\ x.pos = 0
                          /\ x.task \in {"write", "rename", "done"} => x.file # 0
                          /\ x.file # 0 => x.file \in DOMAIN content
                          /\ x.task \in {"rename", "done"} => ~x.tx /\ x.queue = << >>
                          /\ io_failed \/ (x.task = "panic" => ~x.tx)
      <4>0. L \in 1 .. Len(writers[i]) /\ writers[i][L] = w
        BY <1>4, <1>5, <1>7, <1>8
      <4>1. \A r \in Ring : \A k \in 1 .. Len(writers[r]) : OK(writers[r][k])
        BY <1>0, Zenon DEF TaskInv, PanicInv
      <4>2. OK(v)
        <5>1. OK(w) /\ v.task \notin {"rename", "done", "panic"}
          BY <1>10, <1>12, <2>7, <4>0, <4>1 DEF CanSend
        <5> QED BY <2>7, <5>1
      <4>3. OK(new)
        BY <2>10
      <4> HIDE DEF OK
      <4>4. s # i => OK(writers'[s][l])
        BY <2>9, <4>1
      <4>5. ASSUME s = i, l \in 1 .. L - 1  PROVE  OK(writers'[s][l])
        <5>1. l \in 1 .. L /\ l # L
          BY <4>5
        <5>2. writers'[i][l] = writers[i][l] /\ Len(writers[i]) = L
          BY <1>4, <1>5, <2>9, <5>1
        <5> QED BY <4>1, <4>5, <5>1, <5>2
      <4>6. OK(writers'[s][l])
        BY <2>9, <2>12, <4>2, <4>3, <4>4, <4>5
      <4> QED BY <4>6, Zenon DEF OK
    <3> QED BY <1>6, <3>1, Zenon DEF TaskInv, PanicInv
  <2>18. RingInv'
    <3> SUFFICES ASSUME NEW s \in Ring
                 PROVE  /\ Len(writers'[s]) > 0
                        /\ writers'[s][Len(writers'[s])].first + writers'[s][Len(writers'[s])].write_size = fetched'[s]
                        /\ \A l \in 1 .. Len(writers'[s]) :
                             /\ writers'[s][l].tx <=> l = Len(writers'[s])
                             /\ l - 1 <= writers'[s][l].first
                             /\ writers'[s][l].first + writers'[s][l].write_size <= fetched'[s]
                             /\ l = 1 => writers'[s][l].first = 0
                             /\ l < Len(writers'[s]) =>
                                  writers'[s][l + 1].first = writers'[s][l].first + writers'[s][l].write_size
                             /\ l < Len(writers'[s]) => writers'[s][l].write_size > 0
                             /\ Len(writers'[s][l].queue) <= Cap
      BY <1>6, <2>5 DEF RingInv, Alive
    <3>1. CASE s # i
      <4>1. writers'[s] = writers[s] /\ fetched'[s] = fetched[s]
        BY <1>9, <2>9, <3>1
      <4> QED BY <1>0, <1>6, <4>1 DEF RingInv, Alive
    <3>2. CASE s = i
      <4>1. L \in 1 .. Len(writers[i]) /\ writers[i][L] = w /\ Len(writers[i]) = L
        BY <1>4, <1>5, <1>7, <1>8
      <4>2. v.first + v.write_size = now /\ v.first = w.first /\ v.first \in Nat /\ v.write_size \in Nat
        <5>1. v.first = w.first /\ v.write_size = w.write_size + n
          BY <2>7
        <5>2. w.first \in Nat /\ w.write_size \in Nat /\ n \in Nat /\ w.first + w.write_size = old
          BY <1>9, <1>10
        <5>3. \A a, b \in Nat : a + b = old => a + (b + n) = now /\ b + n \in Nat
          BY <1>3, <1>9
        <5>4. w.first + (w.write_size + n) = now /\ w.write_size + n \in Nat
          BY <5>2, <5>3
        <5> QED BY <5>1, <5>2, <5>4
      <4>3. Len(v.queue) <= Cap
        BY <1>10, <1>12, <2>2, <2>7, CollectorAssumption DEF CanSend
      <4>4. Len(new.queue) <= Cap
        BY <2>10, CollectorAssumption
      <4>5. rotate => v.write_size > 0
        BY <1>9, <1>10, <2>7, CollectorAssumption DEF rotate
      <4>6. L - 1 <= v.first /\ (L = 1 => v.first = 0)
        BY <1>0, <1>10, <2>7, <4>1 DEF RingInv
      <4>7. ASSUME NEW l \in 1 .. L - 1
            PROVE  /\ l \in 1 .. L /\ l # L /\ l < L
                   /\ writers'[i][l] = writers[i][l]
                   /\ l - 1 <= writers[i][l].first
                   /\ writers[i][l].first + writers[i][l].write_size <= now
                   /\ l = 1 => writers[i][l].first = 0
                   /\ writers'[i][l + 1].first = writers[i][l].first + writers[i][l].write_size
                   /\ writers[i][l].write_size > 0
                   /\ Len(writers[i][l].queue) <= Cap
                   /\ ~writers[i][l].tx
        <5>1. l \in 1 .. L /\ l # L /\ l < L /\ l + 1 \in 1 .. L
          BY <1>7
        <5>2. /\ l - 1 <= writers[i][l].first
              /\ writers[i][l].first + writers[i][l].write_size <= old
              /\ l = 1 => writers[i][l].first = 0
              /\ writers[i][l + 1].first = writers[i][l].first + writers[i][l].write_size
              /\ writers[i][l].write_size > 0
              /\ Len(writers[i][l].queue) <= Cap
          <6>1. l \in 1 .. Len(writers[i]) /\ l < Len(writers[i])
            BY <4>1, <5>1
          <6> QED BY <1>0, <1>2, <6>1 DEF RingInv
        <5>3. ~writers[i][l].tx
          BY <1>0, <4>1, <5>1 DEF RingInv
        <5>4. writers[i][l] \in Writer
          BY <1>4, <4>1, <5>1
        <5>5. writers[i][l].first \in Nat /\ writers[i][l].write_size \in Nat
          BY <5>4 DEF Writer
        <5>6. writers[i][l].first + writers[i][l].write_size <= now
          <6>1. \A a, b \in Nat : a + b <= old => a + b <= now
            BY <1>9, CollectorAssumption
          <6> QED BY <5>2, <5>5, <6>1
        <5>7. writers'[i][l + 1].first = writers[i][l + 1].first
          BY <2>9, <4>1, <4>2, <5>1
        <5> QED BY <2>9, <5>1, <5>2, <5>3, <5>6, <5>7
      <4>8. CASE rotate
        <5>1. M = L + 1 /\ writers'[i][L + 1] = new
          BY <2>8, <2>9, <4>8
        <5>2. ~v.tx /\ new.tx
          BY <2>7, <2>10, <4>8
        <5>3. L <= now
          BY <4>2, <4>5, <4>6, <4>8, <1>9
        <5>4. now + 0 = now /\ now <= now
          BY <1>9
        <5>5. ASSUME NEW l \in 1 .. M
              PROVE  /\ writers'[i][l].tx <=> l = M
                     /\ l - 1 <= writers'[i][l].first
                     /\ writers'[i][l].first + writers'[i][l].write_size <= now
                     /\ l = 1 => writers'[i][l].first = 0
                     /\ l < M => writers'[i][l + 1].first = writers'[i][l].first + writers'[i][l].write_size
                     /\ l < M => writers'[i][l].write_size > 0
                     /\ Len(writers'[i][l].queue) <= Cap
          <6>1. CASE l \in 1 .. L - 1
            <7>1. l # M
              BY <5>1, <6>1
            <7>2. ~writers'[i][l].tx
              BY <4>7, <6>1
            <7> QED BY <4>7, <6>1, <7>1, <7>2
          <6>2. CASE l = L
            <7>1. l # M /\ writers'[i][l] = v /\ writers'[i][l + 1].first = now
              BY <2>9, <2>10, <5>1, <6>2
            <7> QED BY <4>2, <4>3, <4>5, <4>6, <4>8, <5>2, <5>4, <6>2, <7>1
          <6>3. CASE l = L + 1
            <7>1. l = M /\ ~(l < M) /\ l # 1 /\ writers'[i][l] = new /\ l - 1 <= now
              BY <1>7, <5>1, <5>3, <6>3
            <7> QED BY <2>10, <4>4, <5>2, <5>4, <7>1
          <6> QED BY <2>12, <6>1, <6>2, <6>3
        <5>6. M > 0 /\ writers'[i][M].first + writers'[i][M].write_size = now
          BY <2>10, <5>1, <5>4
        <5> QED BY <1>9, <2>9, <3>2, <5>5, <5>6
      <4>9. CASE ~rotate
        <5>1. M = L /\ v.tx
          BY <2>7, <2>8, <4>9
        <5>2. now <= now
          BY <1>9
        <5>3. ASSUME NEW l \in 1 .. M
              PROVE  /\ writers'[i][l].tx <=> l = M
                     /\ l - 1 <= writers'[i][l].first
                     /\ writers'[i][l].first + writers'[i][l].write_size <= now
                     /\ l = 1 => writers'[i][l].first = 0
                     /\ l < M => writers'[i][l + 1].first = writers'[i][l].first + writers'[i][l].write_size
                     /\ l < M => writers'[i][l].write_size > 0
                     /\ Len(writers'[i][l].queue) <= Cap
          <6>1. CASE l \in 1 .. L - 1
            <7>1. l # M
              BY <5>1, <6>1
            <7>2. ~writers'[i][l].tx
              BY <4>7, <6>1
            <7> QED BY <4>7, <6>1, <7>1, <7>2
          <6>2. CASE l = L
            <7>1. l = M /\ ~(l < M) /\ writers'[i][l] = v
              BY <2>9, <5>1, <6>2
            <7> QED BY <4>2, <4>3, <4>6, <5>1, <5>2, <6>2, <7>1
          <6> QED BY <2>12, <4>9, <6>1, <6>2
        <5>4. M > 0 /\ writers'[i][M].first + writers'[i][M].write_size = now
          BY <1>7, <2>9, <4>2, <5>1
        <5> QED BY <1>9, <2>9, <3>2, <5>3, <5>4
      <4> QED BY <4>8, <4>9
    <3> QED BY <3>1, <3>2
  <2>19. DataInv'
    <3>1. ASSUME NEW s \in Ring, ~Clash(s)', NEW l \in 1 .. Len(writers'[s])
          PROVE  DataOf(writers'[s][l], IF writers'[s][l].file = 0 THEN << >> ELSE content[writers'[s][l].file])
      <4>0. ~Clash(s)
        BY <1>0, <2>14, <3>1, NamesKept
      <4>1. \A k \in 1 .. Len(writers[s]) :
              DataOf(writers[s][k], IF writers[s][k].file = 0 THEN << >> ELSE content[writers[s][k].file])
        BY <1>0, <4>0 DEF DataInv, Stored
      <4>2. CASE s # i
        BY <2>9, <4>1, <4>2
      <4>3. CASE s = i /\ l \in 1 .. L - 1
        <5>1. l \in 1 .. Len(writers[s]) /\ writers'[s][l] = writers[s][l]
          BY <1>4, <1>5, <1>7, <2>9, <4>3
        <5> QED BY <4>1, <5>1
      <4>4. CASE s = i /\ l = L
        <5> DEFINE c == IF w.file = 0 THEN << >> ELSE content[w.file]
        <5>1. DataOf(w, c)
          <6>0. Len(writers[s]) = L /\ writers[s] = ws
            BY <1>4, <1>5, <4>4
          <6>1. L \in 1 .. Len(writers[s])
            BY <1>7, <6>0
          <6>2. writers[s][L] = w
            BY <1>8, <6>0
          <6> QED BY <4>1, <6>1, <6>2
        <5> HIDE DEF c
        <5>2. w.task # "panic"
          BY <1>12 DEF CanSend
        <5>3. /\ w.pos <= w.write_size /\ c = Bytes(w.first, w.first + w.pos)
              /\ Chained(w.queue, w.first + w.pos, old)
          BY <1>10, <5>1, <5>2 DEF DataOf
        <5>4. Chained(v.queue, w.first + w.pos, now)
          <6>1. w.first + w.pos \in Nat /\ now \in Nat
            BY <1>9, <1>10, SMTT(40)
          <6> QED BY <1>9, <1>10, <2>7, <5>3, <6>1, ChainedAppend DEF d
        <5>5. v.first + v.write_size = now /\ v.pos <= v.write_size
          <6>1. v.first = w.first /\ v.write_size = w.write_size + n /\ v.pos = w.pos
            BY <2>7
          <6>2. w.first \in Nat /\ w.write_size \in Nat /\ w.pos \in Nat /\ n \in Nat
                /\ w.first + w.write_size = old
            BY <1>9, <1>10
          <6>3. \A a, b, e \in Nat : a + b = old /\ e <= b => a + (b + n) = now /\ e <= b + n
            BY <1>3, <1>9
          <6> QED BY <5>3, <6>1, <6>2, <6>3, ZenonT(60)
        <5>6. DataOf(v, c)
          BY <2>7, <5>2, <5>3, <5>4, <5>5 DEF DataOf
        <5> QED BY <2>7, <2>9, <4>4, <5>6 DEF c
      <4>5. CASE s = i /\ rotate /\ l = L + 1
        BY <2>9, <2>10, <2>11, <4>5
      <4> QED BY <2>9, <2>12, <4>2, <4>3, <4>4, <4>5
    <3> QED BY <1>6, <3>1 DEF DataInv, Stored
  <2>20. CrashOnlyWhenBehind'
    BY <1>6, <2>5 DEF CrashOnlyWhenBehind, Alive
  <2> QED BY <2>15, <2>16, <2>17, <2>18, <2>19, <2>20 DEF CollectorInv
<1> QED BY <1>11, <1>12

LEMMA CreateEnvKeeps ==
  ASSUME CollectorInv, CreateEnv
  PROVE  CollectorInv'
<1>0. CollectorTypes /\ RingInv /\ NameInv /\ TaskInv /\ PanicInv /\ DirInv /\ OwnInv /\ DataInv
  BY DEF CollectorInv
<1>1. PICK i \in Ring : i = idx
  BY <1>0 DEF CollectorTypes
<1> DEFINE new == NewWriter(i, 0)
<1>2. /\ pc = "create_env" /\ writers' = [writers EXCEPT ![i] = <<new>>]
      /\ idx' = (i + 1) % Rings /\ pc' = IF i = Rings - 1 THEN "poll" ELSE pc
      /\ clock' = clock /\ fetched' = fetched
      /\ dir' = dir /\ content' = content /\ io_failed' = io_failed
  BY <1>1 DEF CreateEnv, files
<1>3. /\ new \in Writer
      /\ new.file_name = <<clock, i, "tmp">> /\ new.complete_name = <<clock, i, "data">>
      /\ new.queue = << >> /\ new.tx /\ new.write_size = 0 /\ new.task = "create"
      /\ new.file = 0 /\ new.pos = 0 /\ new.first = 0
  BY <1>0, NewWriterShape
<1>4. DataOf(new, << >>)
  BY <1>0, NewWriterData
<1> HIDE DEF new
<1>5. /\ writers' \in [Ring -> Seq(Writer)]
      /\ Len(writers'[i]) = 1 /\ writers'[i][1] = new
      /\ \A s \in Ring : s # i => writers'[s] = writers[s]
  <2>1. <<new>> \in Seq(Writer) /\ Len(<<new>>) = 1 /\ <<new>>[1] = new
    BY <1>3
  <2> QED BY <1>0, <1>2, <2>1 DEF CollectorTypes
<1>6. Len(writers[i]) = 0 /\ fetched[i] = 0
  BY <1>0, <1>1, <1>2 DEF RingInv, Ring
<1>7. /\ idx' \in Ring
      /\ i = Rings - 1 => pc' = "poll"
      /\ i # Rings - 1 => idx' = i + 1 /\ pc' = "create_env"
  <2>1. Rings \in Nat /\ Rings > 0 /\ i \in 0 .. Rings - 1
    BY CollectorAssumption DEF Ring
  <2>2. (i + 1) % Rings \in 0 .. Rings - 1 /\ (i # Rings - 1 => (i + 1) % Rings = i + 1)
    BY <2>1
  <2> QED BY <1>2, <2>2 DEF Ring
<1>8. KeepsNames /\ KeepsFiles /\ AddsFresh
  <2>0. \A s \in Ring : Len(writers[s]) \in Nat
    BY <1>0 DEF CollectorTypes
  <2>1. \A s \in Ring : Len(writers[s]) <= Len(writers'[s])
    BY <1>5, <1>6, <2>0, SMTT(40)
  <2>2. \A s \in Ring : \A l \in 1 .. Len(writers[s]) : writers'[s][l] = writers[s][l]
    BY <1>5, <1>6
  <2>3. \A s \in Ring : \A l \in 1 .. Len(writers'[s]) : l > Len(writers[s]) => s = i /\ l = 1
    <3> TAKE s \in Ring
    <3>1. CASE s = i
      <4>1. Len(writers'[s]) = 1
        BY <1>5, <3>1
      <4> QED BY <3>1, <4>1
    <3>2. CASE s # i
      <4>1. Len(writers'[s]) = Len(writers[s]) /\ Len(writers[s]) \in Nat
        BY <1>5, <2>0, <3>2
      <4> QED BY <4>1
    <3> QED BY <3>1, <3>2
  <2> QED BY <1>3, <1>5, <2>1, <2>2, <2>3 DEF KeepsNames, KeepsFiles, AddsFresh
<1>9. CollectorTypes'
  BY <1>0, <1>2, <1>5, <1>7 DEF CollectorTypes
<1>10. NameInv' /\ DirInv' /\ OwnInv'
  BY <1>0, <1>2, <1>8, NamesKept, SameFiles
<1>11. \A s \in Ring : \A l \in 1 .. Len(writers'[s]) :
         (s = i /\ l = 1 /\ writers'[s][l] = new)
           \/ (s # i /\ l \in 1 .. Len(writers[s]) /\ writers'[s][l] = writers[s][l])
  <2> TAKE s \in Ring
  <2>1. CASE s = i
    <3>1. Len(writers'[s]) = 1
      BY <1>5, <2>1
    <3>2. \A l \in 1 .. Len(writers'[s]) : l = 1
      BY <3>1
    <3> QED BY <1>5, <2>1, <3>2
  <2>2. CASE s # i
    BY <1>5, <2>2
  <2> QED BY <2>1, <2>2
<1>12. TaskInv' /\ PanicInv'
  <2>1. TaskInv'
    BY <1>0, <1>2, <1>3, <1>11 DEF TaskInv
  <2>2. new.task # "panic"
    BY <1>3
  <2>3. PanicInv'
    BY <1>0, <1>2, <1>11, <2>2 DEF PanicInv
  <2> QED BY <2>1, <2>3
<1>13. RingInv'
  <2> SUFFICES ASSUME NEW s \in Ring
               PROVE  /\ pc' = "create_env" => fetched[s] = 0 /\ Len(writers'[s]) = IF s < idx' THEN 1 ELSE 0
                      /\ pc' = "poll" => Len(writers'[s]) > 0
                      /\ Len(writers'[s]) > 0 =>
                           writers'[s][Len(writers'[s])].first + writers'[s][Len(writers'[s])].write_size = fetched[s]
                      /\ \A l \in 1 .. Len(writers'[s]) :
                           /\ writers'[s][l].tx <=> l = Len(writers'[s])
                           /\ l - 1 <= writers'[s][l].first
                           /\ writers'[s][l].first + writers'[s][l].write_size <= fetched[s]
                           /\ l = 1 => writers'[s][l].first = 0
                           /\ l < Len(writers'[s]) =>
                                writers'[s][l + 1].first = writers'[s][l].first + writers'[s][l].write_size
                           /\ l < Len(writers'[s]) => writers'[s][l].write_size > 0
                           /\ Len(writers'[s][l].queue) <= Cap
    BY <1>2 DEF RingInv, Alive
  <2>0. Rings \in Nat /\ i \in 0 .. Rings - 1 /\ s \in 0 .. Rings - 1 /\ Cap \in Nat
    BY CollectorAssumption DEF Ring
  <2>1. pc' = "create_env" => fetched[s] = 0 /\ Len(writers'[s]) = IF s < idx' THEN 1 ELSE 0
    <3>1. CASE s = i
      BY <1>5, <1>6, <1>7, <2>0, <3>1
    <3>2. CASE s # i
      <4>1. fetched[s] = 0 /\ Len(writers'[s]) = IF s < i THEN 1 ELSE 0
        BY <1>0, <1>1, <1>2, <1>5, <3>2 DEF RingInv
      <4> QED BY <1>7, <2>0, <3>2, <4>1
    <3> QED BY <3>1, <3>2
  <2>2. pc' = "poll" => Len(writers'[s]) > 0
    <3>1. CASE s = i
      BY <1>5, <3>1, SMTT(40)
    <3>2. CASE s # i
      <4>1. Len(writers'[s]) = IF s < i THEN 1 ELSE 0
        BY <1>0, <1>1, <1>2, <1>5, <3>2 DEF RingInv
      <4>2. pc' = "poll" => i = Rings - 1
        BY <1>7
      <4> QED BY <2>0, <3>2, <4>1, <4>2
    <3> QED BY <3>1, <3>2
  <2>3. CASE s # i
    <3>1. writers'[s] = writers[s]
      BY <1>5, <2>3
    <3>2. Alive
      BY <1>2 DEF Alive
    <3>3. /\ Len(writers[s]) > 0 =>
               writers[s][Len(writers[s])].first + writers[s][Len(writers[s])].write_size = fetched[s]
          /\ \A l \in 1 .. Len(writers[s]) :
               /\ writers[s][l].tx <=> l = Len(writers[s])
               /\ l - 1 <= writers[s][l].first
               /\ writers[s][l].first + writers[s][l].write_size <= fetched[s]
               /\ l = 1 => writers[s][l].first = 0
               /\ l < Len(writers[s]) =>
                    writers[s][l + 1].first = writers[s][l].first + writers[s][l].write_size
               /\ l < Len(writers[s]) => writers[s][l].write_size > 0
               /\ Len(writers[s][l].queue) <= Cap
      BY <1>0, <3>2, Zenon DEF RingInv
    <3> QED BY <2>1, <2>2, <3>1, <3>3
  <2>4. CASE s = i
    <3>1. Len(writers'[s]) = 1 /\ writers'[s][1] = new /\ fetched[s] = 0
      BY <1>5, <1>6, <2>4
    <3>2. Len(new.queue) <= Cap
      BY <1>3, <2>0
    <3>3. \A l \in 1 .. Len(writers'[s]) : l = 1 /\ l = Len(writers'[s]) /\ ~(l < Len(writers'[s]))
      BY <3>1
    <3>4. new.first + new.write_size = 0 /\ 1 - 1 <= new.first /\ new.first + new.write_size <= 0
      BY <1>3
    <3>5. writers'[s][1].tx
      BY <1>3, <3>1
    <3> QED BY <1>3, <2>1, <2>2, <3>1, <3>2, <3>3, <3>4, <3>5
  <2> QED BY <2>3, <2>4
<1>14. DataInv'
  <2>1. ASSUME NEW s \in Ring, ~Clash(s)', NEW l \in 1 .. Len(writers'[s])
        PROVE  DataOf(writers'[s][l], IF writers'[s][l].file = 0 THEN << >> ELSE content[writers'[s][l].file])
    <3>1. ~Clash(s)
      BY <1>0, <1>8, <2>1, NamesKept
    <3>2. CASE s = i
      BY <1>3, <1>4, <1>11, <2>1, <3>2
    <3>3. CASE s # i
      BY <1>0, <1>11, <2>1, <3>1, <3>3 DEF DataInv, Stored
    <3> QED BY <3>2, <3>3
  <2> QED BY <1>2, <2>1 DEF DataInv, Stored
<1>15. CrashOnlyWhenBehind'
  BY <1>2, <1>7 DEF CrashOnlyWhenBehind, Alive
<1> QED BY <1>9, <1>10, <1>12, <1>13, <1>14, <1>15 DEF CollectorInv

LEMMA TickKeeps ==
  ASSUME CollectorInv, Tick
  PROVE  CollectorInv'
<1>1. CollectorTypes /\ RingInv /\ CrashOnlyWhenBehind
  BY DEF CollectorInv
<1>2. /\ clock < MaxTime /\ clock' = clock + 1
      /\ pc' = pc /\ idx' = idx /\ fetched' = fetched /\ writers' = writers
      /\ dir' = dir /\ content' = content /\ io_failed' = io_failed
  BY DEF Tick, poll, files
<1>3. NameInv' /\ TaskInv' /\ PanicInv' /\ DirInv' /\ OwnInv' /\ DataInv'
  BY <1>2, SameWriters
<1>4. CollectorTypes'
  BY <1>1, <1>2, CollectorAssumption DEF CollectorTypes
<1>5. RingInv' /\ CrashOnlyWhenBehind'
  BY <1>1, <1>2, ZenonT(60) DEF RingInv, CrashOnlyWhenBehind, Alive
<1> QED BY <1>3, <1>4, <1>5 DEF CollectorInv

LEMMA StutterKeeps ==
  ASSUME CollectorInv, UNCHANGED vars
  PROVE  CollectorInv'
<1>1. CollectorTypes /\ RingInv /\ CrashOnlyWhenBehind
  BY DEF CollectorInv
<1>2. /\ clock' = clock /\ pc' = pc /\ idx' = idx /\ fetched' = fetched /\ writers' = writers
      /\ dir' = dir /\ content' = content /\ io_failed' = io_failed
  BY DEF vars
<1>3. NameInv' /\ TaskInv' /\ PanicInv' /\ DirInv' /\ OwnInv' /\ DataInv'
  BY <1>2, SameWriters
<1>4. CollectorTypes'
  BY <1>1, <1>2 DEF CollectorTypes
<1>5. RingInv' /\ CrashOnlyWhenBehind'
  BY <1>1, <1>2, ZenonT(60) DEF RingInv, CrashOnlyWhenBehind, Alive
<1> QED BY <1>3, <1>4, <1>5 DEF CollectorInv

LEMMA CollectorInit == Init => CollectorInv
<1> SUFFICES ASSUME Init  PROVE  CollectorInv
  OBVIOUS
<1> USE DEF Init
<1>0. Rings \in Nat /\ Rings > 0 /\ MaxTime \in Nat /\ MaxBytes \in Nat
  BY CollectorAssumption
<1>1. CollectorTypes
  BY <1>0 DEF CollectorTypes, Ring
<1>2. \A r \in Ring : writers[r] = << >> /\ Len(writers[r]) = 0 /\ 1 .. Len(writers[r]) = {} /\ ~(r < idx) /\ fetched[r] = 0
  BY <1>0 DEF Ring
<1>3. RingInv
  BY <1>2 DEF RingInv
<1>4. NameInv /\ TaskInv /\ PanicInv
  BY <1>2 DEF NameInv, TaskInv, PanicInv
<1>5. OwnInv /\ DataInv
  BY <1>2 DEF OwnInv, DataInv
<1>6. DirInv
  <2>1. DOMAIN dir = {}
    OBVIOUS
  <2> QED BY <1>2, <2>1 DEF DirInv
<1>7. CrashOnlyWhenBehind
  BY DEF CrashOnlyWhenBehind, Alive
<1> QED BY <1>1, <1>3, <1>4, <1>5, <1>6, <1>7 DEF CollectorInv

\* The invariant of the collector and its writers, of every action of the main
\* thread and of every step of a task.
THEOREM CollectorInvariant == Spec => []CollectorInv
<1>1. ASSUME CollectorInv, [Next]_vars  PROVE  CollectorInv'
  <2>1. CASE Alive /\ Tick
    BY <1>1, <2>1, TickKeeps
  <2>2. CASE CreateEnv
    BY <1>1, <2>2, CreateEnvKeeps
  <2>3. ASSUME NEW n \in 0 .. MaxChunk, Processor(n)  PROVE  CollectorInv'
    BY <1>1, <2>3, ProcessorKeeps
  <2>4. ASSUME NEW r \in Ring, NEW k \in 1 .. MaxWriters, Task(r, k)  PROVE  CollectorInv'
    <3>1. Alive /\ k \in 1 .. Len(writers[r])
      <4>1. Len(writers[r]) \in Nat
        BY <1>1 DEF CollectorInv, CollectorTypes
      <4> QED BY <2>4, <4>1, CollectorAssumption DEF Task, MaxWriters
    <3>2. CASE Create(r, k)
      BY <1>1, <3>1, <3>2, CreateKeeps
    <3>3. CASE Write(r, k)
      BY <1>1, <3>1, <3>3, WriteKeeps
    <3>4. CASE Flush(r, k)
      BY <1>1, <3>1, <3>4, FlushKeeps
    <3>5. CASE Rename(r, k)
      BY <1>1, <3>1, <3>5, RenameKeeps
    <3>6. CASE IoFails(r, k)
      BY <1>1, <3>1, <3>6, IoFailsKeeps
    <3> QED BY <2>4, <3>2, <3>3, <3>4, <3>5, <3>6 DEF Task
  <2>5. CASE UNCHANGED vars
    BY <1>1, <2>5, StutterKeeps
  <2> QED BY <1>1, <2>1, <2>2, <2>3, <2>4, <2>5 DEF Next, Terminated
<1> QED BY <1>1, CollectorInit, PTL DEF Spec

\* The collector dies only of a channel that is full or of a failed operation on a
\* file, whatever the files and tasks of the replaced writers do.
THEOREM CollectorDiesOnlyBehind == Spec => []CrashOnlyWhenBehind
<1>1. CollectorInv => CrashOnlyWhenBehind
  BY DEF CollectorInv
<1> QED BY <1>1, CollectorInvariant, PTL

\* Every byte fetched is, once and in its place, in the file of the writer that was
\* current or in its channel, unless two files of the ring share a name.
THEOREM CollectorConservesBytes == Spec => []BytesConserved
<1>1. ASSUME CollectorInv  PROVE  BytesConserved
  <2>0. CollectorTypes /\ DataInv
    BY <1>1 DEF CollectorInv
  <2> SUFFICES ASSUME NEW r \in Ring, ~Clash(r), NEW k \in DOMAIN writers[r], NEW w, w = writers[r][k]
               PROVE  /\ w.first + Len(Stored(w)) <= w.first + w.write_size
                      /\ Stored(w) = Bytes(w.first, w.first + Len(Stored(w)))
                      /\ w.task # "panic" => Chained(w.queue, w.first + Len(Stored(w)), w.first + w.write_size)
    BY DEF BytesConserved
  <2>1. k \in 1 .. Len(writers[r]) /\ w \in Writer
    BY <2>0 DEF CollectorTypes
  <2>2. w.first \in Nat /\ w.write_size \in Nat /\ w.pos \in Nat
    BY <2>1 DEF Writer
  <2>3. DataOf(w, Stored(w))
    BY <2>0, <2>1 DEF DataInv
  <2>4. \A p \in Nat : Len(Bytes(w.first, w.first + p)) = p
    <3> TAKE p \in Nat
    <3>2. \A a, b \in Nat : a <= b => Len(Bytes(a, b)) = b - a
      BY BytesSeq
    <3>3. PICK a \in Nat : a = w.first
      BY <2>2
    <3>4. PICK b \in Nat : b = a + p
      BY <3>3
    <3>5. Len(Bytes(a, b)) = b - a
      BY <3>2, <3>4
    <3>6. b - a = p
      BY <3>4
    <3> QED BY <3>3, <3>4, <3>5, <3>6
  <2>5. CASE w.task # "panic"
    <3>1. /\ w.pos <= w.write_size /\ Stored(w) = Bytes(w.first, w.first + w.pos)
          /\ Chained(w.queue, w.first + w.pos, w.first + w.write_size)
      BY <2>3, <2>5 DEF DataOf
    <3>2. Len(Stored(w)) = w.pos
      BY <2>2, <2>4, <3>1
    <3> QED BY <2>2, <3>1, <3>2
  <2>6. CASE w.task = "panic"
    <3>1. PICK p \in 0 .. w.write_size : Stored(w) = Bytes(w.first, w.first + p)
      BY <2>3, <2>6 DEF DataOf
    <3>2. p \in Nat /\ p <= w.write_size
      BY <2>2
    <3>3. Len(Stored(w)) = p
      BY <2>4, <3>1, <3>2
    <3> QED BY <2>2, <2>6, <3>1, <3>2, <3>3
  <2> QED BY <2>5, <2>6
<1> QED BY <1>1, CollectorInvariant, PTL

\* Whenever the collector is killed, every .data file of a ring is complete, and the
\* files of the ring leave no gap, unless two of them share a name.
THEOREM CollectorDataComplete == Spec => []DataFilesComplete
<1>1. ASSUME CollectorInv  PROVE  DataFilesComplete
  <2>0. CollectorTypes /\ RingInv /\ NameInv /\ TaskInv /\ DirInv /\ OwnInv /\ DataInv
    BY <1>1 DEF CollectorInv
  <2>1. ASSUME NEW r \in Ring, ~Clash(r), NEW n \in DOMAIN dir, n[2] = r, n[3] = "data"
        PROVE  \E k \in DOMAIN writers[r] : /\ writers[r][k].complete_name = n
                                            /\ ~writers[r][k].tx
                                            /\ content[dir[n]] = Handed(writers[r][k])
    <3>1. PICK k \in 1 .. Len(writers[r]) : /\ writers[r][k].file = dir[n]
                                           /\ n \in {writers[r][k].file_name, writers[r][k].complete_name}
      BY <2>0, <2>1 DEF DirInv
    <3>2. PICK w \in Writer : w = writers[r][k]
      BY <2>0 DEF CollectorTypes
    <3>3. w.complete_name = n
      <4>1. w.file_name[3] = "tmp"
        BY <2>0, <3>2, NamesApart
      <4> QED BY <2>1, <3>1, <3>2, <4>1
    <3>4. w.task = "done" /\ ~w.tx /\ w.queue = << >>
      <4>1. w.task = "done"
        BY <2>0, <2>1, <3>2, <3>3 DEF OwnInv, OwnOf
      <4> QED BY <2>0, <3>2, <4>1 DEF TaskInv
    <3>5. w.file # 0
      BY <2>0, <3>2, <3>4 DEF TaskInv
    <3>6. w.first \in Nat /\ w.write_size \in Nat /\ w.pos \in Nat
      BY <3>2 DEF Writer
    <3>7. /\ content[w.file] = Bytes(w.first, w.first + w.pos)
          /\ Chained(<< >>, w.first + w.pos, w.first + w.write_size)
      BY <2>0, <2>1, <3>2, <3>4, <3>5 DEF DataInv, DataOf, Stored
    <3>8. w.first + w.write_size = w.first + w.pos
      <4>1. w.first + w.pos \in Nat
        BY <3>6
      <4> QED BY <3>7, <4>1, ChainedEmpty
    <3>9. content[dir[n]] = Handed(w)
      BY <3>1, <3>2, <3>7, <3>8 DEF Handed
    <3>10. k \in DOMAIN writers[r]
      BY <2>0, <3>1 DEF CollectorTypes
    <3> QED BY <3>2, <3>3, <3>4, <3>9, <3>10
  <2>2. ASSUME NEW r \in Ring, ~Clash(r), writers[r] # << >>, Alive
        PROVE  /\ writers[r][1].first = 0
               /\ writers[r][Len(writers[r])].first + writers[r][Len(writers[r])].write_size = fetched[r]
               /\ \A k \in 1 .. Len(writers[r]) - 1 :
                    writers[r][k + 1].first = writers[r][k].first + writers[r][k].write_size
               /\ \A k \in DOMAIN writers[r] :
                    writers[r][k].task = "done" => writers[r][k].complete_name \in DOMAIN dir
    <3>1. Len(writers[r]) \in Nat /\ Len(writers[r]) > 0 /\ DOMAIN writers[r] = 1 .. Len(writers[r])
      BY <2>0, <2>2 DEF CollectorTypes
    <3>2. 1 \in 1 .. Len(writers[r])
      BY <3>1
    <3>3. writers[r][1].first = 0
      BY <2>0, <3>2 DEF RingInv
    <3>4. writers[r][Len(writers[r])].first + writers[r][Len(writers[r])].write_size = fetched[r]
      BY <2>0, <2>2, <3>1 DEF RingInv
    <3>5. ASSUME NEW k \in 1 .. Len(writers[r]) - 1
          PROVE  writers[r][k + 1].first = writers[r][k].first + writers[r][k].write_size
      <4>1. k \in 1 .. Len(writers[r]) /\ k < Len(writers[r])
        BY <3>1
      <4> QED BY <2>0, <4>1 DEF RingInv
    <3>6. \A k \in DOMAIN writers[r] : writers[r][k].task = "done" => writers[r][k].complete_name \in DOMAIN dir
      BY <2>0, <2>2, <3>1 DEF OwnInv, OwnOf
    <3> QED BY <3>3, <3>4, <3>5, <3>6
  <2> QED BY <2>1, <2>2 DEF DataFilesComplete
<1> QED BY <1>1, CollectorInvariant, PTL

\* The types of the collector: its channels are never over their capacity, exactly
\* the newest writer of a ring has a sender, and a ring has at most one writer more
\* than bytes were fetched from it.
THEOREM CollectorTypeCorrect == Spec => []TypeOK
<1> DEFINE FlagOK == io_failed \in BOOLEAN
<1>1. Init => FlagOK
  BY Zenon DEF Init
<1>2. FlagOK /\ [Next]_vars => FlagOK'
  <2> SUFFICES ASSUME io_failed \in BOOLEAN, [Next]_vars  PROVE  io_failed' \in BOOLEAN
    OBVIOUS
  <2>1. io_failed' = io_failed \/ io_failed' = TRUE
    <3>1. (Alive /\ Tick) \/ CreateEnv \/ Terminated \/ UNCHANGED vars => io_failed' = io_failed
      BY DEF Tick, CreateEnv, Terminated, vars
    <3>2. \A n \in 0 .. MaxChunk : Processor(n) => io_failed' = io_failed
      BY DEF Processor
    <3>3. ASSUME NEW r \in Ring, NEW k \in 1 .. MaxWriters, Task(r, k)
          PROVE  io_failed' = io_failed \/ io_failed' = TRUE
      BY <3>3, Zenon DEF Task, Create, Write, Flush, Rename, IoFails
    <3> QED BY <3>1, <3>2, <3>3, Zenon DEF Next
  <2> QED BY <2>1, Zenon
<1>3. Spec => []FlagOK
  BY <1>1, <1>2, PTL DEF Spec
<1>4. ASSUME CollectorInv, io_failed \in BOOLEAN  PROVE  TypeOK
  <2>0. CollectorTypes /\ RingInv /\ TaskInv
    BY <1>4 DEF CollectorInv
  <2>1. /\ clock \in 0 .. MaxTime /\ pc \in {"create_env", "poll", "crashed"} /\ idx \in Ring
        /\ fetched \in [Ring -> 0 .. MaxBytes] /\ DOMAIN dir \subseteq Name
        /\ \A n \in DOMAIN dir : dir[n] \in DOMAIN content
        /\ DOMAIN writers = Ring
    BY <2>0 DEF CollectorTypes
  <2>2. \A f \in DOMAIN content : content[f] \in Seq(0 .. MaxBytes)
    BY <2>0 DEF CollectorTypes, Chunk
  <2>3. ASSUME NEW r \in Ring
        PROVE  /\ Len(writers[r]) <= MaxWriters
               /\ \A k \in DOMAIN writers[r] :
                    LET w == writers[r][k] IN
                    /\ {w.file_name, w.complete_name} \subseteq Name
                    /\ Len(w.queue) <= Cap
                    /\ w.tx = (k = Len(writers[r]))
                    /\ w.task \in {"create", "write", "rename", "done", "panic"}
                    /\ w.file \in DOMAIN content \/ w.task \in {"create", "panic"}
    <3>0. Len(writers[r]) \in Nat /\ DOMAIN writers[r] = 1 .. Len(writers[r])
      BY <2>0 DEF CollectorTypes
    <3>1. ASSUME NEW k \in 1 .. Len(writers[r])
          PROVE  /\ {writers[r][k].file_name, writers[r][k].complete_name} \subseteq Name
                 /\ writers[r][k].task \in {"create", "write", "rename", "done", "panic"}
                 /\ writers[r][k].tx \in BOOLEAN
                 /\ writers[r][k].first \in Nat /\ writers[r][k].write_size \in Nat
      <4>1. writers[r][k] \in Writer
        BY <2>0 DEF CollectorTypes
      <4> QED BY <4>1 DEF Writer
    <3>2. ASSUME NEW k \in 1 .. Len(writers[r])
          PROVE  writers[r][k].tx = (k = Len(writers[r]))
      <4>1. writers[r][k].tx <=> k = Len(writers[r])
        BY <2>0 DEF RingInv
      <4>2. writers[r][k].tx \in BOOLEAN
        BY <3>1
      <4> QED BY <4>1, <4>2, Zenon
    <3>3. ASSUME NEW k \in 1 .. Len(writers[r])
          PROVE  writers[r][k].file \in DOMAIN content \/ writers[r][k].task \in {"create", "panic"}
      BY <2>0, <3>1 DEF TaskInv
    <3>4. \A k \in 1 .. Len(writers[r]) : Len(writers[r][k].queue) <= Cap
      BY <2>0 DEF RingInv
    <3>5. Len(writers[r]) <= MaxWriters
      <4>1. CASE Len(writers[r]) = 0
        BY <4>1, CollectorAssumption DEF MaxWriters
      <4>2. CASE Len(writers[r]) # 0
        <5>1. PICK L \in Nat : L = Len(writers[r])
          BY <3>0
        <5>2. L \in 1 .. Len(writers[r])
          BY <4>2, <5>1
        <5>3. /\ writers[r][L].first \in Nat /\ writers[r][L].write_size \in Nat
              /\ L - 1 <= writers[r][L].first
              /\ writers[r][L].first + writers[r][L].write_size <= fetched[r]
          BY <2>0, <3>1, <5>2 DEF RingInv
        <5>4. fetched[r] \in Nat /\ fetched[r] <= MaxBytes
          BY <2>1, CollectorAssumption
        <5>5. L - 1 <= fetched[r]
          BY <5>1, <5>3, <5>4
        <5> QED BY <5>1, <5>4, <5>5, CollectorAssumption DEF MaxWriters
      <4> QED BY <4>1, <4>2
    <3> QED BY <3>0, <3>1, <3>2, <3>3, <3>4, <3>5, Zenon
  <2> QED BY <1>4, <2>1, <2>2, <2>3, Zenon DEF TypeOK
<1>5. CollectorInv /\ FlagOK => TypeOK
  BY <1>4
<1> QED BY <1>3, <1>5, CollectorInvariant, PTL
=============================================================================
