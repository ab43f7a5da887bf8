-------------------------- MODULE ServerAgentProofs --------------------------
(***************************************************************************)
(* Proofs about ServerAgent, for any number of workers, pages, runtime     *)
(* threads and pieces.                                                     *)
(***************************************************************************)
EXTENDS ServerAgent, FiniteSetTheorems, TLAPS

\* TypeOK without the flag.
AgentTypes ==
  /\ conn \in {"open", "closed"}
  /\ to_client \in Seq(Msg) /\ to_server \in Seq(Msg)
  /\ issued \in 0 .. MaxTasks /\ inits \in 0 .. MaxInit
  /\ answered \in Seq(1 .. MaxTasks) /\ unsent \subseteq MaybeTooLong
  /\ h1 \in {"reg", "recv", "send", "end"}
  /\ h1_addr \in Page \cup {None}
  /\ h2 \in {"unborn", "ready", "recv", "lock", "net", "end"}
  /\ h2_req \in {<< >>} \cup (Page \X Worker)
  /\ mem_req_tx \in Seq(Page \X Worker)
  /\ mem_req_lst \in [Page -> Worker \cup {None, Stale}]
  /\ proc_tx \in Seq(Msg)
  /\ wrk \in [Worker -> {"unborn", "ready", "recv", "decode", "wait", "got", "rsp", "end",
                         "panic"}]
  /\ cur \in [Worker -> 0 .. MaxTasks]
  /\ want \in [Worker -> Page \cup {None}]
  /\ reply \in [Worker -> 0 .. 1]
  /\ cache \in [Worker -> SUBSET Page]

\* Where the tasks are, and what they hold there.
TaskInv ==
  /\ \A w \in Worker : cur[w] # 0 <=> wrk[w] \in {"decode", "wait", "got", "rsp"}
  /\ \A w \in Worker : wrk[w] \in {"wait", "got"} => want[w] \in Page
  /\ h2 \in {"lock", "net"} <=> h2_req \in Page \X Worker
  /\ h2_req \in Page \X Worker \/ h2_req = << >>
  /\ h1 = "send" => h1_addr \in Page
  /\ h1 = "reg" => h2 = "unborn" /\ \A w \in Worker : wrk[w] = "unborn"
  /\ h2 = "end" => conn = "closed" \/ \A w \in Worker : wrk[w] \in {"end", "panic"}

\* w waits for its first answer to the request for p.
Fresh(p, w) == wrk[w] = "wait" /\ want[w] = p /\ reply[w] = 0

\* A reply channel is in one place: with the request on its way to h2, or in
\* mem_req_lst under the page its worker asked for last.
SenderInv ==
  /\ \A n \in 1 .. Len(mem_req_tx) : Fresh(mem_req_tx[n][1], mem_req_tx[n][2])
  /\ \A m, n \in 1 .. Len(mem_req_tx) : mem_req_tx[m][2] = mem_req_tx[n][2] => m = n
  /\ h2 = "lock" => /\ Fresh(h2_req[1], h2_req[2])
                    /\ \A n \in 1 .. Len(mem_req_tx) : mem_req_tx[n][2] # h2_req[2]
  /\ \A p \in Page : \A w \in Worker : mem_req_lst[p] = w =>
       /\ wrk[w] \in {"wait", "got"} /\ want[w] = p
       /\ \A n \in 1 .. Len(mem_req_tx) : mem_req_tx[n][2] # w
       /\ h2 = "lock" => h2_req[2] # w
  /\ \A w \in Worker : reply[w] = 1 => wrk[w] \in {"wait", "got"}

\* The worker recorded for p waits, and has got nothing yet.
Owed(p) == \E w \in Worker : mem_req_lst[p] = w /\ Fresh(p, w)

\* The message m is at most once in s.
Once(s, m) == \A i, j \in 1 .. Len(s) : s[i] = m /\ s[j] = m => i = j

\* While no two workers waited for the same page: at most one request or answer for
\* a page is on its way, and the worker recorded for the page waits for it.
TokenInv ==
  conn = "open" /\ ~overlap =>
    /\ h1 \notin {"send", "end"}
    /\ \A v, w \in Worker : wrk[v] = "wait" /\ wrk[w] = "wait" /\ want[v] = want[w] => v = w
    /\ \A p \in Page :
         /\ h2 = "net" /\ h2_req[1] = p =>
              Owed(p) /\ ~Contains(to_server, MemReq(p)) /\ ~Contains(to_client, MemRsp(p))
         /\ Contains(to_server, MemReq(p)) => Owed(p) /\ ~Contains(to_client, MemRsp(p))
         /\ Contains(to_client, MemRsp(p)) => Owed(p)
         /\ Once(to_server, MemReq(p)) /\ Once(to_client, MemRsp(p))

\* A piece that was issued is in one place, and one that was not is nowhere.
PieceInv ==
  \A k \in 1 .. MaxTasks :
    /\ k <= issued => Places(k) <= 1 /\ (conn = "open" => Places(k) = 1)
    /\ k > issued => Places(k) = 0

\* What is sent in each direction, and what the workers get.
ClientMsg == {m \in Msg : m.t \in {"RegRsp", "Init", "DataReq", "MemRsp"}}
ServerMsg == {m \in Msg : m.t \in {"RegReq", "DataRsp", "MemReq"}}
WorkMsg == {m \in Msg : m.t \in {"Init", "DataReq"}}
MsgInv ==
  to_client \in Seq(ClientMsg) /\ to_server \in Seq(ServerMsg) /\ proc_tx \in Seq(WorkMsg)

AgentInv == AgentTypes /\ MsgInv /\ TaskInv /\ SenderInv /\ NoOrphanWait /\ TokenInv /\ PieceInv

-----------------------------------------------------------------------------
(* Sequences, messages and counts.                                         *)

LEMMA TakeFirst ==
  ASSUME NEW S, NEW s \in Seq(S), s # << >>
  PROVE  /\ Len(s) \in Nat /\ Len(s) >= 1
         /\ Head(s) = s[1] /\ Head(s) \in S
         /\ Tail(s) \in Seq(S)
         /\ Len(Tail(s)) = Len(s) - 1
         /\ \A i \in 1 .. Len(s) - 1 : Tail(s)[i] = s[i + 1]
OBVIOUS

LEMMA PutLast ==
  ASSUME NEW S, NEW s \in Seq(S), NEW e \in S
  PROVE  /\ Append(s, e) \in Seq(S)
         /\ Len(s) \in Nat
         /\ Len(Append(s, e)) = Len(s) + 1
         /\ \A i \in 1 .. Len(s) : Append(s, e)[i] = s[i]
         /\ Append(s, e)[Len(s) + 1] = e
OBVIOUS

LEMMA MsgShape ==
  ASSUME NEW m \in Msg
  PROVE  /\ m.t \in {"RegReq", "RegRsp", "Init", "DataReq", "DataRsp", "MemReq", "MemRsp"}
         /\ m.t \in {"DataReq", "DataRsp"} => m.task \in 1 .. MaxTasks
         /\ m.t \in {"MemReq", "MemRsp"} => m.addr \in Page
         /\ m.t = "DataReq" => m = DataReq(m.task)
         /\ m.t = "DataRsp" => m = DataRsp(m.task)
         /\ m.t = "MemReq" => m = MemReq(m.addr)
         /\ m.t = "MemRsp" => m = MemRsp(m.addr)
BY DEF Msg, DataReq, DataRsp, MemReq, MemRsp

LEMMA MsgMakes ==
  /\ \A k \in 1 .. MaxTasks : /\ DataReq(k) \in Msg /\ DataReq(k).t = "DataReq" /\ DataReq(k).task = k
                               /\ DataRsp(k) \in Msg /\ DataRsp(k).t = "DataRsp" /\ DataRsp(k).task = k
  /\ \A p \in Page : /\ MemReq(p) \in Msg /\ MemReq(p).t = "MemReq" /\ MemReq(p).addr = p
                      /\ MemRsp(p) \in Msg /\ MemRsp(p).t = "MemRsp" /\ MemRsp(p).addr = p
  /\ [t |-> "RegReq"] \in Msg /\ [t |-> "RegReq"].t = "RegReq"
  /\ [t |-> "RegRsp"] \in Msg /\ [t |-> "RegRsp"].t = "RegRsp"
  /\ [t |-> "Init"] \in Msg /\ [t |-> "Init"].t = "Init"
BY DEF Msg, DataReq, DataRsp, MemReq, MemRsp

\* The positions of s that hold an element of X.
PosIn(s, X) == {n \in 1 .. Len(s) : s[n] \in X}

LEMMA PosFinite ==
  ASSUME NEW S, NEW s \in Seq(S), NEW X
  PROVE  IsFiniteSet(PosIn(s, X)) /\ Cardinality(PosIn(s, X)) \in Nat
<1>1. IsFiniteSet(1 .. Len(s))
  BY FS_Interval
<1>2. IsFiniteSet(PosIn(s, X))
  BY <1>1, FS_Subset DEF PosIn
<1> QED BY <1>2, FS_CardinalityType

LEMMA PosEmpty ==
  ASSUME NEW X
  PROVE  Cardinality(PosIn(<< >>, X)) = 0
<1>1. PosIn(<< >>, X) = {}
  BY DEF PosIn
<1> QED BY <1>1, FS_EmptySet

LEMMA PosAppend ==
  ASSUME NEW S, NEW s \in Seq(S), NEW e \in S, NEW X
  PROVE  Cardinality(PosIn(Append(s, e), X)) = Cardinality(PosIn(s, X)) + IF e \in X THEN 1 ELSE 0
<1> DEFINE a == Append(s, e)
           n == Len(s)
<1>1. /\ n \in Nat /\ Len(a) = n + 1 /\ a[n + 1] = e /\ \A i \in 1 .. n : a[i] = s[i]
  BY PutLast
<1> HIDE DEF a
<1>2. CASE e \in X
  <2>1. PosIn(a, X) = PosIn(s, X) \cup {n + 1} /\ n + 1 \notin PosIn(s, X)
    BY <1>1, <1>2 DEF PosIn
  <2> QED BY <1>2, <2>1, PosFinite, FS_AddElement DEF a
<1>3. CASE e \notin X
  <2>1. PosIn(a, X) = PosIn(s, X)
    BY <1>1, <1>3 DEF PosIn
  <2> QED BY <1>3, <2>1, PosFinite DEF a
<1> QED BY <1>2, <1>3

LEMMA PosTail ==
  ASSUME NEW S, NEW s \in Seq(S), s # << >>, NEW X
  PROVE  Cardinality(PosIn(s, X)) = Cardinality(PosIn(Tail(s), X)) + IF Head(s) \in X THEN 1 ELSE 0
<1> DEFINE t == Tail(s)
           R == PosIn(s, X) \ {1}
           f == [i \in PosIn(t, X) |-> i + 1]
<1>1. /\ Len(s) \in Nat /\ Len(s) >= 1 /\ Head(s) = s[1] /\ t \in Seq(S) /\ Len(t) = Len(s) - 1
      /\ \A i \in 1 .. Len(s) - 1 : t[i] = s[i + 1]
  BY TakeFirst
<1> HIDE DEF t
<1>2. \A i \in PosIn(t, X) : i \in Nat /\ f[i] = i + 1 /\ f[i] \in R
  BY <1>1 DEF PosIn
<1>3. \A i, j \in PosIn(t, X) : f[i] = f[j] => i = j
  BY <1>2
<1>4. ASSUME NEW j \in R  PROVE  \E i \in PosIn(t, X) : f[i] = j
  <2>1. j - 1 \in PosIn(t, X) /\ j - 1 + 1 = j
    BY <1>1 DEF PosIn
  <2> QED BY <1>2, <2>1
<1>5. ExistsBijection(PosIn(t, X), R)
  <2>1. f \in [PosIn(t, X) -> R]
    BY <1>2
  <2> HIDE DEF f, R
  <2>2. f \in Bijection(PosIn(t, X), R)
    BY <1>3, <1>4, <2>1 DEF Bijection, Injection, IsInjective, Surjection
  <2> QED BY <2>2 DEF ExistsBijection
<1>6. Cardinality(R) = Cardinality(PosIn(t, X)) /\ Cardinality(PosIn(t, X)) \in Nat
  BY <1>1, <1>5, PosFinite, FS_Bijection
<1>7. 1 \in PosIn(s, X) <=> Head(s) \in X
  BY <1>1 DEF PosIn
<1>8. Cardinality(R) = IF 1 \in PosIn(s, X) THEN Cardinality(PosIn(s, X)) - 1
                                             ELSE Cardinality(PosIn(s, X))
  BY PosFinite, FS_RemoveElement
<1>9. Cardinality(PosIn(s, X)) \in Nat
  BY PosFinite
<1> HIDE DEF R
<1>10. Cardinality(PosIn(s, X)) = Cardinality(PosIn(t, X)) + IF Head(s) \in X THEN 1 ELSE 0
  BY <1>6, <1>7, <1>8, <1>9
<1> QED BY <1>10 DEF t

LEMMA PosPrefix ==
  ASSUME NEW S, NEW s \in Seq(S), NEW n \in 0 .. Len(s), NEW X
  PROVE  /\ SubSeq(s, 1, n) \in Seq(S)
         /\ Cardinality(PosIn(SubSeq(s, 1, n), X)) <= Cardinality(PosIn(s, X))
<1> DEFINE t == SubSeq(s, 1, n)
<1>1. t \in Seq(S) /\ Len(t) = n /\ Len(s) \in Nat /\ n \in Nat /\ \A i \in 1 .. n : t[i] = s[i]
  OBVIOUS
<1> HIDE DEF t
<1>2. PosIn(t, X) \subseteq PosIn(s, X)
  BY <1>1 DEF PosIn
<1>3. Cardinality(PosIn(t, X)) <= Cardinality(PosIn(s, X))
  BY <1>2, PosFinite, FS_Subset
<1> QED BY <1>1, <1>3 DEF t

LEMMA ContainsTail ==
  ASSUME NEW S, NEW s \in Seq(S), s # << >>, NEW m
  PROVE  /\ Contains(Tail(s), m) => Contains(s, m)
         /\ Contains(s, m) => Head(s) = m \/ Contains(Tail(s), m)
         /\ Once(s, m) => Once(Tail(s), m)
         /\ Once(s, m) /\ Head(s) = m => ~Contains(Tail(s), m)
         /\ Head(s) = m => Contains(s, m)
<1> DEFINE t == Tail(s)
<1>1. /\ Len(s) \in Nat /\ Len(s) >= 1 /\ Head(s) = s[1] /\ Len(t) = Len(s) - 1
      /\ \A i \in 1 .. Len(s) - 1 : t[i] = s[i + 1]
  BY TakeFirst
<1> HIDE DEF t
<1>2. Contains(t, m) => Contains(s, m)
  BY <1>1 DEF Contains
<1>3. Contains(s, m) => Head(s) = m \/ Contains(t, m)
  <2> SUFFICES ASSUME NEW i \in 1 .. Len(s), s[i] = m, Head(s) # m  PROVE  Contains(t, m)
    BY DEF Contains
  <2>1. i - 1 \in 1 .. Len(t) /\ t[i - 1] = s[i]
    BY <1>1
  <2> QED BY <2>1 DEF Contains
<1>4. Once(s, m) => Once(t, m)
  BY <1>1 DEF Once
<1>5. Once(s, m) /\ Head(s) = m => ~Contains(t, m)
  BY <1>1 DEF Once, Contains
<1>6. Head(s) = m => Contains(s, m)
  BY <1>1 DEF Contains
<1> QED BY <1>2, <1>3, <1>4, <1>5, <1>6 DEF t

LEMMA ContainsAppend ==
  ASSUME NEW S, NEW s \in Seq(S), NEW e \in S, NEW m
  PROVE  /\ Contains(Append(s, e), m) <=> Contains(s, m) \/ e = m
         /\ Once(s, m) /\ (e = m => ~Contains(s, m)) => Once(Append(s, e), m)
<1> DEFINE a == Append(s, e)
           n == Len(s)
<1>1. /\ n \in Nat /\ Len(a) = n + 1 /\ a[n + 1] = e /\ \A i \in 1 .. n : a[i] = s[i]
  BY PutLast
<1> HIDE DEF a
<1>2. Contains(a, m) <=> Contains(s, m) \/ e = m
  BY <1>1 DEF Contains
<1>3. Once(s, m) /\ (e = m => ~Contains(s, m)) => Once(a, m)
  BY <1>1 DEF Once, Contains
<1> QED BY <1>2, <1>3 DEF a

-----------------------------------------------------------------------------
(* Steps that leave the requests for memory alone.                         *)

\* Nobody begins or ends to wait, and h2 neither takes nor finishes a request.
Quiet ==
  /\ UNCHANGED <<want, reply, mem_req_tx, h2_req, mem_req_lst>>
  /\ \A w \in Worker :
       \/ wrk'[w] = wrk[w]
       \/ wrk[w] \notin {"wait", "got"} /\ wrk'[w] \notin {"wait", "got"}
  /\ h2' = h2 \/ (h2 \notin {"lock", "net"} /\ h2' \notin {"lock", "net"})

LEMMA QuietSender ==
  ASSUME AgentTypes, TaskInv, SenderInv, Quiet
  PROVE  /\ SenderInv'
         /\ \A p : \A w \in Worker : Fresh(p, w)' <=> Fresh(p, w)
         /\ \A p : Owed(p)' <=> Owed(p)
<1>1. \A p : \A w \in Worker : Fresh(p, w)' <=> Fresh(p, w)
  BY DEF Quiet, Fresh
<1>2. \A p : Owed(p)' <=> Owed(p)
  BY <1>1 DEF Quiet, Owed
<1>3. /\ mem_req_tx' = mem_req_tx /\ h2_req' = h2_req /\ mem_req_lst' = mem_req_lst
      /\ reply' = reply /\ want' = want
      /\ h2' = "lock" => h2 = "lock"
  BY DEF Quiet
<1>4. \A n \in 1 .. Len(mem_req_tx) : mem_req_tx[n][2] \in Worker
  BY DEF AgentTypes
<1>5. h2 = "lock" => h2_req[2] \in Worker
  BY DEF TaskInv
<1>6. \A n \in 1 .. Len(mem_req_tx') : Fresh(mem_req_tx[n][1], mem_req_tx[n][2])'
  BY <1>1, <1>3, <1>4 DEF SenderInv
<1>7. \A m, n \in 1 .. Len(mem_req_tx') : mem_req_tx'[m][2] = mem_req_tx'[n][2] => m = n
  BY <1>3 DEF SenderInv
<1>8. h2' = "lock" => /\ Fresh(h2_req[1], h2_req[2])'
                      /\ \A n \in 1 .. Len(mem_req_tx') : mem_req_tx'[n][2] # h2_req'[2]
  BY <1>1, <1>3, <1>5 DEF SenderInv
<1>9. ASSUME NEW p \in Page, NEW w \in Worker, mem_req_lst'[p] = w
      PROVE  /\ wrk'[w] \in {"wait", "got"} /\ want'[w] = p
             /\ \A n \in 1 .. Len(mem_req_tx') : mem_req_tx'[n][2] # w
             /\ h2' = "lock" => h2_req'[2] # w
  BY <1>3, <1>9 DEF SenderInv, Quiet
<1>10. \A w \in Worker : reply'[w] = 1 => wrk'[w] \in {"wait", "got"}
  BY <1>3 DEF SenderInv, Quiet
<1>11. SenderInv'
  BY <1>6, <1>7, <1>8, <1>9, <1>10 DEF SenderInv
<1> QED BY <1>1, <1>2, <1>11

LEMMA QuietOrphan ==
  ASSUME NoOrphanWait, Quiet,
         conn' = "open" => conn = "open",
         h1' # "end" => h1 # "end",
         h1 = "send" => h1' \in {"send", "end"} /\ h1_addr' = h1_addr,
         conn' = "open" => \A p \in Page :
           /\ Contains(to_server, MemReq(p)) =>
                Contains(to_server', MemReq(p)) \/ Contains(to_client', MemRsp(p))
           /\ Contains(to_client, MemRsp(p)) => Contains(to_client', MemRsp(p)),
         TaskInv
  PROVE  NoOrphanWait'
<1> SUFFICES ASSUME conn' = "open", h1' # "end", NEW w \in Worker, wrk'[w] = "wait",
                    reply'[w] # 1, HasSender(w)'
             PROVE  \/ Contains(mem_req_tx', <<want'[w], w>>)
                    \/ h2' = "lock" /\ h2_req' = <<want'[w], w>>
                    \/ /\ mem_req_lst'[want'[w]] = w
                       /\ \/ h2' = "net" /\ h2_req'[1] = want'[w]
                          \/ Contains(to_server', MemReq(want'[w]))
                          \/ Contains(to_client', MemRsp(want'[w]))
                          \/ h1' = "send" /\ h1_addr' = want'[w]
  BY DEF NoOrphanWait
<1>1. /\ wrk[w] = "wait" /\ want'[w] = want[w] /\ want[w] \in Page /\ reply[w] # 1
      /\ conn = "open" /\ h1 # "end" /\ mem_req_tx' = mem_req_tx /\ h2_req' = h2_req
      /\ mem_req_lst' = mem_req_lst
  BY DEF Quiet, TaskInv
<1>2. HasSender(w)
  BY <1>1 DEF HasSender
<1>3. \/ Contains(mem_req_tx, <<want[w], w>>)
      \/ h2 = "lock" /\ h2_req = <<want[w], w>>
      \/ /\ mem_req_lst[want[w]] = w
         /\ \/ h2 = "net" /\ h2_req[1] = want[w]
            \/ Contains(to_server, MemReq(want[w]))
            \/ Contains(to_client, MemRsp(want[w]))
            \/ h1 = "send" /\ h1_addr = want[w]
  BY <1>1, <1>2 DEF NoOrphanWait
<1>4. h2 \in {"lock", "net"} => h2' = h2
  BY DEF Quiet
<1> QED BY <1>1, <1>3, <1>4

LEMMA QuietToken ==
  ASSUME AgentTypes, TaskInv, SenderInv, TokenInv, Quiet,
         conn' = "open" => conn = "open",
         overlap' = overlap,
         conn' = "open" /\ h1' \in {"send", "end"} => h1 \in {"send", "end"},
         conn' = "open" => \A p \in Page :
           /\ Contains(to_server', MemReq(p)) => Contains(to_server, MemReq(p))
           /\ Contains(to_client', MemRsp(p)) => Contains(to_client, MemRsp(p))
           /\ Once(to_server, MemReq(p)) => Once(to_server', MemReq(p))
           /\ Once(to_client, MemRsp(p)) => Once(to_client', MemRsp(p))
  PROVE  TokenInv'
<1> SUFFICES ASSUME conn' = "open", ~overlap'
             PROVE  /\ h1' \notin {"send", "end"}
                    /\ \A v, w \in Worker :
                         wrk'[v] = "wait" /\ wrk'[w] = "wait" /\ want'[v] = want'[w] => v = w
                    /\ \A p \in Page :
                         /\ h2' = "net" /\ h2_req'[1] = p =>
                              Owed(p)' /\ ~Contains(to_server', MemReq(p)) /\ ~Contains(to_client', MemRsp(p))
                         /\ Contains(to_server', MemReq(p)) => Owed(p)' /\ ~Contains(to_client', MemRsp(p))
                         /\ Contains(to_client', MemRsp(p)) => Owed(p)'
                         /\ Once(to_server', MemReq(p)) /\ Once(to_client', MemRsp(p))
  BY DEF TokenInv
<1>1. conn = "open" /\ ~overlap
  OBVIOUS
<1>2. \A p : Owed(p)' <=> Owed(p)
  BY QuietSender
<1>3. \A v, w \in Worker : wrk'[v] = "wait" /\ wrk'[w] = "wait" /\ want'[v] = want'[w] => v = w
  BY <1>1 DEF Quiet, TokenInv
<1>4. h1' \notin {"send", "end"}
  BY <1>1 DEF TokenInv
<1>5. h2' = "net" => h2 = "net" /\ h2_req' = h2_req
  BY DEF Quiet
<1>6. ASSUME NEW p \in Page
      PROVE  /\ h2' = "net" /\ h2_req'[1] = p =>
                  Owed(p)' /\ ~Contains(to_server', MemReq(p)) /\ ~Contains(to_client', MemRsp(p))
             /\ Contains(to_server', MemReq(p)) => Owed(p)' /\ ~Contains(to_client', MemRsp(p))
             /\ Contains(to_client', MemRsp(p)) => Owed(p)'
             /\ Once(to_server', MemReq(p)) /\ Once(to_client', MemRsp(p))
  <2>1. /\ h2 = "net" /\ h2_req[1] = p =>
             Owed(p) /\ ~Contains(to_server, MemReq(p)) /\ ~Contains(to_client, MemRsp(p))
        /\ Contains(to_server, MemReq(p)) => Owed(p) /\ ~Contains(to_client, MemRsp(p))
        /\ Contains(to_client, MemRsp(p)) => Owed(p)
        /\ Once(to_server, MemReq(p)) /\ Once(to_client, MemRsp(p))
    BY <1>1 DEF TokenInv
  <2> QED BY <1>2, <1>5, <2>1, Zenon
<1> QED BY <1>3, <1>4, <1>6

-----------------------------------------------------------------------------
(* Where the pieces are.                                                   *)

\* How often piece k is among the messages s, the pieces a, the pieces being
\* decoded and the ones given up.
InSeq(s, k) == Cardinality(PosIn(s, {DataReq(k), DataRsp(k)}))
InAnswers(a, k) == Cardinality(PosIn(a, {k}))
AtWork(c, k) == Cardinality({w \in Worker : c[w] = k})
GivenUp(u, k) == Cardinality({k} \cap u)

\* 1 when the message m carries piece k.
Carries(m, k) == IF m.t \in {"DataReq", "DataRsp"} /\ m.task = k THEN 1 ELSE 0

LEMMA CarriesMeans ==
  ASSUME NEW m \in Msg, NEW k \in 1 .. MaxTasks
  PROVE  /\ Carries(m, k) = IF m \in {DataReq(k), DataRsp(k)} THEN 1 ELSE 0
         /\ Carries(m, k) \in {0, 1}
<1>1. m \in {DataReq(k), DataRsp(k)} <=> m.t \in {"DataReq", "DataRsp"} /\ m.task = k
  BY MsgShape, MsgMakes
<1> QED BY <1>1 DEF Carries

LEMMA InSeqFacts ==
  ASSUME NEW s \in Seq(Msg), NEW k \in 1 .. MaxTasks
  PROVE  /\ InSeq(s, k) \in Nat
         /\ InSeq(<< >>, k) = 0
         /\ \A m \in Msg : InSeq(Append(s, m), k) = InSeq(s, k) + Carries(m, k)
         /\ s # << >> => InSeq(s, k) = InSeq(Tail(s), k) + Carries(Head(s), k)
         /\ \A n \in 0 .. Len(s) : InSeq(SubSeq(s, 1, n), k) <= InSeq(s, k)
<1>1. InSeq(s, k) \in Nat
  BY PosFinite DEF InSeq
<1>2. InSeq(<< >>, k) = 0
  BY PosEmpty DEF InSeq
<1>3. ASSUME NEW m \in Msg  PROVE  InSeq(Append(s, m), k) = InSeq(s, k) + Carries(m, k)
  BY PosAppend, CarriesMeans DEF InSeq
<1>4. ASSUME s # << >>  PROVE  InSeq(s, k) = InSeq(Tail(s), k) + Carries(Head(s), k)
  <2>1. Head(s) \in Msg
    BY <1>4
  <2> QED BY <1>4, <2>1, PosTail, CarriesMeans DEF InSeq
<1>5. ASSUME NEW n \in 0 .. Len(s)  PROVE  InSeq(SubSeq(s, 1, n), k) <= InSeq(s, k)
  BY PosPrefix DEF InSeq
<1> QED BY <1>1, <1>2, <1>3, <1>4, <1>5

LEMMA InAnswersFacts ==
  ASSUME NEW a \in Seq(1 .. MaxTasks), NEW k \in 1 .. MaxTasks
  PROVE  /\ InAnswers(a, k) \in Nat
         /\ InAnswers(<< >>, k) = 0
         /\ \A j \in 1 .. MaxTasks :
              InAnswers(Append(a, j), k) = InAnswers(a, k) + IF j = k THEN 1 ELSE 0
<1>1. InAnswers(a, k) \in Nat
  BY PosFinite DEF InAnswers
<1>2. InAnswers(<< >>, k) = 0
  BY PosEmpty DEF InAnswers
<1>3. ASSUME NEW j \in 1 .. MaxTasks
      PROVE  InAnswers(Append(a, j), k) = InAnswers(a, k) + IF j = k THEN 1 ELSE 0
  <2>1. Cardinality(PosIn(Append(a, j), {k}))
          = Cardinality(PosIn(a, {k})) + IF j \in {k} THEN 1 ELSE 0
    BY PosAppend
  <2>2. j \in {k} <=> j = k
    OBVIOUS
  <2> QED BY <2>1, <2>2 DEF InAnswers
<1> QED BY <1>1, <1>2, <1>3

LEMMA InSeqAppend ==
  ASSUME NEW s \in Seq(Msg), NEW k \in 1 .. MaxTasks, NEW m \in Msg
  PROVE  /\ InSeq(Append(s, m), k) = InSeq(s, k) + Carries(m, k)
         /\ Carries(m, k) = 0 => InSeq(Append(s, m), k) = InSeq(s, k)
BY InSeqFacts

LEMMA AtWorkFacts ==
  ASSUME NEW c \in [Worker -> 0 .. MaxTasks], NEW k \in 1 .. MaxTasks
  PROVE  /\ IsFiniteSet({v \in Worker : c[v] = k})
         /\ AtWork(c, k) \in Nat
         /\ AtWork(c, k) = 0 => \A w \in Worker : c[w] # k
<1> DEFINE S == {v \in Worker : c[v] = k}
<1>1. IsFiniteSet(S)
  BY AgentAssumption, FS_Subset
<1>2. Cardinality(S) \in Nat /\ (Cardinality(S) = 0 => S = {})
  BY <1>1, FS_CardinalityType, FS_EmptySet
<1> QED BY <1>1, <1>2 DEF AtWork

LEMMA AtWorkSet ==
  ASSUME NEW c \in [Worker -> 0 .. MaxTasks], NEW k \in 1 .. MaxTasks,
         NEW w \in Worker, NEW j \in 0 .. MaxTasks
  PROVE  /\ j = k /\ c[w] # k => AtWork([c EXCEPT ![w] = j], k) = AtWork(c, k) + 1
         /\ j # k /\ c[w] = k => AtWork([c EXCEPT ![w] = j], k) = AtWork(c, k) - 1
         /\ j # k /\ c[w] # k => AtWork([c EXCEPT ![w] = j], k) = AtWork(c, k)
<1> DEFINE S == {v \in Worker : c[v] = k}
           d == [c EXCEPT ![w] = j]
           T == {v \in Worker : d[v] = k}
<1>1. IsFiniteSet(S)
  BY AtWorkFacts
<1>2. ASSUME j = k, c[w] # k  PROVE  Cardinality(T) = Cardinality(S) + 1
  <2>1. T = S \cup {w} /\ w \notin S
    BY <1>2
  <2> QED BY <1>1, <2>1, FS_AddElement
<1>3. ASSUME j # k, c[w] = k  PROVE  Cardinality(T) = Cardinality(S) - 1
  <2>1. T = S \ {w} /\ w \in S
    BY <1>3
  <2> QED BY <1>1, <2>1, FS_RemoveElement
<1>4. ASSUME j # k, c[w] # k  PROVE  T = S
  BY <1>4
<1> QED BY <1>2, <1>3, <1>4 DEF AtWork

LEMMA GivenUpFacts ==
  ASSUME NEW u, NEW k
  PROVE  /\ GivenUp(u, k) = IF k \in u THEN 1 ELSE 0
         /\ GivenUp(u, k) \in Nat
<1>1. CASE k \in u
  <2>1. {k} \cap u = {k}
    BY <1>1
  <2> QED BY <1>1, <2>1, FS_Singleton DEF GivenUp
<1>2. CASE k \notin u
  <2>1. {k} \cap u = {}
    BY <1>2
  <2> QED BY <1>2, <2>1, FS_EmptySet DEF GivenUp
<1> QED BY <1>1, <1>2

LEMMA PlacesSum ==
  ASSUME NEW k
  PROVE  /\ Places(k) = InSeq(to_client, k) + InSeq(proc_tx, k) + AtWork(cur, k)
                          + InSeq(to_server, k) + InAnswers(answered, k) + GivenUp(unsent, k)
         /\ Places(k)' = InSeq(to_client', k) + InSeq(proc_tx', k) + AtWork(cur', k)
                           + InSeq(to_server', k) + InAnswers(answered', k) + GivenUp(unsent', k)
<1>1. \A s : Holding(s, k) = PosIn(s, {DataReq(k), DataRsp(k)})
  BY DEF Holding, PosIn
<1>2. {n \in 1 .. Len(answered) : answered[n] = k} = PosIn(answered, {k})
  BY DEF PosIn
<1>3. {n \in 1 .. Len(answered') : answered'[n] = k} = PosIn(answered', {k})
  BY DEF PosIn
<1> QED BY <1>1, <1>2, <1>3 DEF Places, InSeq, AtWork, InAnswers, GivenUp

LEMMA PlacesNat ==
  ASSUME AgentTypes, NEW k \in 1 .. MaxTasks
  PROVE  /\ InSeq(to_client, k) \in Nat /\ InSeq(proc_tx, k) \in Nat /\ AtWork(cur, k) \in Nat
         /\ InSeq(to_server, k) \in Nat /\ InAnswers(answered, k) \in Nat
         /\ GivenUp(unsent, k) \in Nat
         /\ Places(k) \in Nat
<1>1. /\ InSeq(to_client, k) \in Nat /\ InSeq(proc_tx, k) \in Nat /\ AtWork(cur, k) \in Nat
      /\ InSeq(to_server, k) \in Nat /\ InAnswers(answered, k) \in Nat
      /\ GivenUp(unsent, k) \in Nat
  BY InSeqFacts, AtWorkFacts, InAnswersFacts, GivenUpFacts DEF AgentTypes
<1> QED BY <1>1, PlacesSum

\* A step that publishes nothing, moves pieces about and loses one only with the
\* connection keeps every piece in at most one place.
LEMMA PiecesKept ==
  ASSUME AgentTypes, PieceInv, issued' = issued, conn' = "open" => conn = "open",
         \A k \in 1 .. MaxTasks :
           \/ Places(k)' = Places(k)
           \/ conn' # "open" /\ Places(k)' \in Nat /\ Places(k)' <= Places(k)
  PROVE  PieceInv'
<1> SUFFICES ASSUME NEW k \in 1 .. MaxTasks
             PROVE  /\ k <= issued' => Places(k)' <= 1 /\ (conn' = "open" => Places(k)' = 1)
                    /\ k > issued' => Places(k)' = 0
  BY DEF PieceInv
<1>1. Places(k) \in Nat /\ issued \in Nat /\ k \in Nat
  BY PlacesNat DEF AgentTypes
<1>2. /\ k <= issued => Places(k) <= 1 /\ (conn = "open" => Places(k) = 1)
      /\ k > issued => Places(k) = 0
  BY DEF PieceInv
<1>3. \/ Places(k)' = Places(k)
      \/ conn' # "open" /\ Places(k)' \in Nat /\ Places(k)' <= Places(k)
  OBVIOUS
<1> QED BY <1>1, <1>2, <1>3

\* Nothing that holds a piece changes.
LEMMA PiecesAlone ==
  ASSUME AgentTypes, PieceInv,
         UNCHANGED <<conn, issued, to_client, proc_tx, cur, to_server, answered, unsent>>
  PROVE  PieceInv'
<1>1. \A k \in 1 .. MaxTasks : Places(k)' = Places(k)
  BY PlacesSum
<1> QED BY <1>1, PiecesKept

-----------------------------------------------------------------------------
(* Types, messages and tasks.                                              *)

LEMMA AnswerForms ==
  ASSUME NEW s \in Seq(ClientMsg), NEW m \in ServerMsg
  PROVE  /\ s \o Answer(m) =
              IF m.t = "RegReq" THEN Append(s, [t |-> "RegRsp"])
              ELSE IF m.t = "MemReq" THEN Append(s, MemRsp(m.addr)) ELSE s
         /\ m.t = "MemReq" => MemRsp(m.addr) \in ClientMsg
         /\ [t |-> "RegRsp"] \in ClientMsg
<1>1. CASE m.t = "RegReq"
  <2>1. Answer(m) = << [t |-> "RegRsp"] >>
    BY <1>1 DEF Answer
  <2> QED BY <1>1, <2>1, MsgMakes DEF ClientMsg
<1>2. CASE m.t = "MemReq"
  <2>1. Answer(m) = << MemRsp(m.addr) >>
    BY <1>2 DEF Answer
  <2> QED BY <1>2, <2>1, MsgMakes, MsgShape DEF ClientMsg, ServerMsg
<1>3. CASE m.t \notin {"RegReq", "MemReq"}
  <2>1. Answer(m) = << >>
    BY <1>3 DEF Answer
  <2> QED BY <1>3, <2>1, MsgMakes DEF ClientMsg
<1> QED BY <1>1, <1>2, <1>3

LEMMA SeqWider ==
  ASSUME NEW S, NEW T, S \subseteq T, NEW s \in Seq(S)
  PROVE  s \in Seq(T)
OBVIOUS

LEMMA SeqKept ==
  ASSUME NEW S, NEW s \in Seq(S)
  PROVE  /\ s # << >> => Tail(s) \in Seq(S) /\ Head(s) \in S
         /\ \A e \in S : Append(s, e) \in Seq(S)
         /\ \A n \in 0 .. Len(s) : SubSeq(s, 1, n) \in Seq(S)
         /\ << >> \in Seq(S)
OBVIOUS

\* What the messages of the steps are, and the heads of the queues.
LEMMA MsgUses ==
  ASSUME AgentTypes, MsgInv, TaskInv
  PROVE  /\ [t |-> "RegReq"] \in ServerMsg /\ [t |-> "Init"] \in ClientMsg
         /\ \A k \in 1 .. MaxTasks : DataReq(k) \in ClientMsg /\ DataRsp(k) \in ServerMsg
         /\ \A p \in Page : MemReq(p) \in ServerMsg /\ MemRsp(p) \in ClientMsg
         /\ ClientMsg \subseteq Msg /\ ServerMsg \subseteq Msg /\ WorkMsg \subseteq Msg
         /\ to_client # << >> => Head(to_client) \in ClientMsg
         /\ to_server # << >> => Head(to_server) \in ServerMsg
         /\ proc_tx # << >> => Head(proc_tx) \in WorkMsg
         /\ h2 \in {"lock", "net"} => h2_req[1] \in Page /\ h2_req[2] \in Worker
         /\ \A w \in Worker : wrk[w] = "rsp" => cur[w] \in 1 .. MaxTasks
<1>1. /\ to_client # << >> => Head(to_client) \in ClientMsg
      /\ to_server # << >> => Head(to_server) \in ServerMsg
      /\ proc_tx # << >> => Head(proc_tx) \in WorkMsg
  BY SeqKept DEF MsgInv
<1>2. h2 \in {"lock", "net"} => h2_req[1] \in Page /\ h2_req[2] \in Worker
  BY DEF TaskInv
<1>3. \A w \in Worker : wrk[w] = "rsp" => cur[w] \in 1 .. MaxTasks
  BY AgentAssumption DEF TaskInv, AgentTypes
<1>4. /\ [t |-> "RegReq"] \in ServerMsg /\ [t |-> "Init"] \in ClientMsg
      /\ \A k \in 1 .. MaxTasks : DataReq(k) \in ClientMsg /\ DataRsp(k) \in ServerMsg
      /\ \A p \in Page : MemReq(p) \in ServerMsg /\ MemRsp(p) \in ClientMsg
  BY MsgMakes DEF ClientMsg, ServerMsg
<1>5. ClientMsg \subseteq Msg /\ ServerMsg \subseteq Msg /\ WorkMsg \subseteq Msg
  BY DEF ClientMsg, ServerMsg, WorkMsg
<1> QED BY <1>1, <1>2, <1>3, <1>4, <1>5

LEMMA MsgStep ==
  ASSUME AgentTypes, MsgInv, TaskInv, Next
  PROVE  MsgInv'
<1> USE MsgUses, SeqKept
<1>1. CASE ServerRecv
  <2>1. to_client' \in Seq(ClientMsg)
    <3>1. PICK m \in ServerMsg : m = Head(to_server) /\ to_client' = to_client \o Answer(m)
      BY <1>1 DEF ServerRecv
    <3>2. to_client \in Seq(ClientMsg)
      BY DEF MsgInv
    <3>3. to_client' = to_client \/ \E a \in ClientMsg : to_client' = Append(to_client, a)
      BY <3>1, <3>2, AnswerForms
    <3> QED BY <3>2, <3>3
  <2> QED BY <1>1, <2>1 DEF ServerRecv, MsgInv, tasks
<1>2. CASE ServerPublish
  <2>1. issued + 1 \in 1 .. MaxTasks
    BY <1>2, AgentAssumption DEF ServerPublish, AgentTypes
  <2> QED BY <1>2, <2>1 DEF ServerPublish, MsgInv
<1>3. CASE ServerInit
  BY <1>3 DEF ServerInit, MsgInv
<1>4. CASE Break
  BY <1>4 DEF Break, MsgInv
<1>5. CASE Register
  BY <1>5 DEF Register, MsgInv, SendOk, SendFails
<1>6. CASE RecvCtrl
  <2>1. Head(to_client).t \in {"Init", "DataReq"} => Head(to_client) \in WorkMsg
    BY <1>6 DEF RecvCtrl, H1Ready, WorkMsg, ClientMsg
  <2> QED BY <1>6, <2>1 DEF RecvCtrl, H1Ready, MsgInv
<1>7. CASE RecvMemRsp
  BY <1>7 DEF RecvMemRsp, H1Ready, MsgInv
<1>8. CASE UnblockSend \/ RecvClosed
  BY <1>8 DEF UnblockSend, RecvClosed, MsgInv, net
<1>9. CASE H2Start \/ H2Recv \/ H2Insert \/ H2End
  BY <1>9 DEF H2Start, H2Recv, H2Insert, H2End, MsgInv, net
<1>10. CASE H2Send
  BY <1>10 DEF H2Send, MsgInv, SendOk, SendFails
<1>11. ASSUME NEW w \in Worker, Work(w)  PROVE  MsgInv'
  <2>1. CASE WorkerRecv(w)
    BY <2>1 DEF WorkerRecv, MsgInv, net
  <2>2. CASE WorkerRespond(w)
    BY <2>2 DEF WorkerRespond, MsgInv, SendOk, SendFails
  <2>3. CASE \E p \in Page : ReadMem(w, p)
    BY <2>3 DEF ReadMem, MsgInv, net
  <2>4. CASE WorkerStart(w) \/ WorkerGot(w) \/ WorkerCache(w) \/ WorkerDecoded(w) \/ WorkerEnd(w)
    BY <2>4 DEF WorkerStart, WorkerGot, WorkerCache, WorkerDecoded, WorkerEnd, MsgInv, net
  <2> QED BY <1>11, <2>1, <2>2, <2>3, <2>4 DEF Work
<1> QED BY <1>1, <1>2, <1>3, <1>4, <1>5, <1>6, <1>7, <1>8, <1>9, <1>10, <1>11 DEF Next, H1, H2

LEMMA TypesStep ==
  ASSUME AgentTypes, MsgInv, TaskInv, Next
  PROVE  AgentTypes'
<1>0. to_client' \in Seq(Msg) /\ to_server' \in Seq(Msg) /\ proc_tx' \in Seq(Msg)
  BY MsgStep, MsgUses, SeqWider DEF MsgInv
<1> USE <1>0 DEF AgentTypes
<1>1. CASE ServerRecv
  <2>1. Head(to_server).t = "DataRsp" => Head(to_server).task \in 1 .. MaxTasks
    BY <1>1, MsgUses, MsgShape DEF ServerRecv
  <2>2. answered' = IF Head(to_server).t = "DataRsp" THEN Append(answered, Head(to_server).task)
                                                      ELSE answered
    BY <1>1 DEF ServerRecv
  <2>3. answered \in Seq(1 .. MaxTasks)
    OBVIOUS
  <2>4. answered' \in Seq(1 .. MaxTasks)
    BY <2>1, <2>2, <2>3, SeqKept
  <2> QED BY <1>1, <2>4 DEF ServerRecv, tasks
<1>2. CASE ServerPublish
  BY <1>2, AgentAssumption DEF ServerPublish, tasks
<1>3. CASE ServerInit
  BY <1>3, AgentAssumption DEF ServerInit, tasks
<1>4. CASE Break
  BY <1>4 DEF Break, tasks, server
<1>5. CASE Register
  BY <1>5 DEF Register, server, SendOk, SendFails
<1>6. CASE RecvCtrl
  BY <1>6 DEF RecvCtrl, H1Ready, server, tasks
<1>7. CASE RecvMemRsp
  <2>1. Head(to_client).addr \in Page
    BY <1>7, MsgUses, MsgShape DEF RecvMemRsp, H1Ready
  <2>2. reply' \in [Worker -> 0 .. 1]
    BY <1>7, <2>1, SMTT(40) DEF RecvMemRsp, ReplyFull, Replied
  <2> QED BY <1>7, <2>1, <2>2 DEF RecvMemRsp, server
<1>8. CASE UnblockSend
  BY <1>8, SMTT(40) DEF UnblockSend, net, server, ReplyFull, Replied
<1>9. CASE RecvClosed
  BY <1>9 DEF RecvClosed, net, server, tasks
<1>10. CASE H2Start
  BY <1>10 DEF H2Start, net, server, tasks
<1>11. CASE H2Recv
  <2>1. Head(mem_req_tx) \in Page \X Worker /\ Tail(mem_req_tx) \in Seq(Page \X Worker)
    BY <1>11, SeqKept DEF H2Recv
  <2> QED BY <1>11, <2>1 DEF H2Recv, net, server, tasks
<1>12. CASE H2Insert
  BY <1>12, MsgUses DEF H2Insert, net, server, tasks, Inserted
<1>13. CASE H2Send
  <2>1. mem_req_tx' = mem_req_tx \/ mem_req_tx' = << >>
    BY <1>13 DEF H2Send
  <2>2. mem_req_tx' \in Seq(Page \X Worker)
    BY <2>1, SeqKept
  <2>3. h2' \in {"recv", "end"} /\ h2_req' = << >>
    BY <1>13 DEF H2Send
  <2> QED BY <1>13, <2>2, <2>3 DEF H2Send, server, tasks
<1>14. CASE H2End
  BY <1>14 DEF H2End, net, server, tasks
<1>15. ASSUME NEW w \in Worker, Work(w)  PROVE  AgentTypes'
  <2>1. CASE WorkerStart(w)
    BY <2>1 DEF WorkerStart, net, server
  <2>2. CASE WorkerRecv(w)
    <3>1. Head(proc_tx).t = "DataReq" => Head(proc_tx).task \in 1 .. MaxTasks
      BY <2>2, MsgUses, MsgShape DEF WorkerRecv
    <3>2. \/ cur' = cur
          \/ cur' = [cur EXCEPT ![w] = Head(proc_tx).task] /\ Head(proc_tx).t = "DataReq"
      BY <2>2, Zenon DEF WorkerRecv
    <3>3. \A j \in 1 .. MaxTasks : j \in 0 .. MaxTasks
      BY AgentAssumption
    <3>4. cur' \in [Worker -> 0 .. MaxTasks]
      BY <3>1, <3>2, <3>3
    <3> QED BY <2>2, <3>4 DEF WorkerRecv, net, server
  <2>3. ASSUME NEW p \in Page, ReadMem(w, p)  PROVE  AgentTypes'
    <3>1. 0 \in 0 .. MaxTasks
      BY AgentAssumption
    <3>2. cur' = cur \/ cur' = [cur EXCEPT ![w] = 0]
      BY <2>3 DEF ReadMem
    <3>3. cur' \in [Worker -> 0 .. MaxTasks]
      BY <3>1, <3>2
    <3>4. <<p, w>> \in Page \X Worker
      OBVIOUS
    <3>5. mem_req_tx' = mem_req_tx \/ mem_req_tx' = Append(mem_req_tx, <<p, w>>)
      BY <2>3, Zenon DEF ReadMem
    <3>6. mem_req_tx \in Seq(Page \X Worker)
      OBVIOUS
    <3>7. mem_req_tx' \in Seq(Page \X Worker)
      <4>1. Append(mem_req_tx, <<p, w>>) \in Seq(Page \X Worker)
        BY <3>4, <3>6, PutLast, Zenon
      <4> QED BY <3>5, <3>6, <4>1, Zenon
    <3>8. /\ wrk' = [wrk EXCEPT ![w] = "wait"] \/ wrk' = [wrk EXCEPT ![w] = "panic"]
          /\ want' = want \/ want' = [want EXCEPT ![w] = p]
      BY <2>3 DEF ReadMem
    <3>9. /\ wrk' \in [Worker -> {"unborn", "ready", "recv", "decode", "wait", "got", "rsp", "end",
                                   "panic"}]
          /\ want' \in [Worker -> Page \cup {None}]
      BY <3>8, ZenonT(60)
    <3>10. UNCHANGED <<conn, to_client, to_server, issued, inits, answered, unsent, h1, h1_addr,
                       h2, h2_req, mem_req_lst, proc_tx, reply, cache>>
      BY <2>3 DEF ReadMem, net, server
    <3> QED BY <3>3, <3>7, <3>9, <3>10
  <2>4. CASE WorkerGot(w)
    BY <2>4 DEF WorkerGot, net, server
  <2>5. CASE WorkerCache(w)
    <3>1. want[w] \in Page
      BY <2>5 DEF WorkerCache, TaskInv
    <3> QED BY <2>5, <3>1 DEF WorkerCache, net, server
  <2>6. CASE WorkerDecoded(w)
    BY <2>6 DEF WorkerDecoded, net, server
  <2>7. CASE WorkerRespond(w)
    <3>1. 0 \in 0 .. MaxTasks
      BY AgentAssumption
    <3>2. cur' \in [Worker -> 0 .. MaxTasks]
      BY <2>7, <3>1 DEF WorkerRespond, ClearedCur
    <3>3. unsent' \subseteq MaybeTooLong
      BY <2>7 DEF WorkerRespond
    <3> QED BY <2>7, <3>2, <3>3 DEF WorkerRespond
  <2>8. CASE WorkerEnd(w)
    BY <2>8 DEF WorkerEnd, net, server
  <2> QED BY <1>15, <2>1, <2>2, <2>3, <2>4, <2>5, <2>6, <2>7, <2>8 DEF Work
<1> QED BY <1>1, <1>2, <1>3, <1>4, <1>5, <1>6, <1>7, <1>8, <1>9, <1>10, <1>11, <1>12, <1>13, <1>14, <1>15 DEF Next, H1, H2

LEMMA TaskStep ==
  ASSUME AgentTypes, MsgInv, TaskInv, Next
  PROVE  TaskInv'
<1> USE DEF TaskInv
<1>1. CASE ServerRecv \/ ServerPublish \/ ServerInit \/ Break \/ RecvCtrl
  BY <1>1 DEF ServerRecv, ServerPublish, ServerInit, Break, RecvCtrl, tasks
<1>2. CASE Register
  <2>1. \A w \in Worker : cur[w] = 0
    BY <1>2 DEF Register
  <2>2. \A w \in Worker : wrk'[w] \in {"unborn", "ready"}
    BY <1>2 DEF Register
  <2>3. h2' \in {h2, "ready"} /\ h2_req' = h2_req /\ conn' = conn /\ cur' = cur
        /\ h1' \in {"recv", "end"}
    BY <1>2 DEF Register
  <2>4. h2' = "end" => conn' = "closed" \/ \A w \in Worker : wrk'[w] \in {"end", "panic"}
    BY <1>2 DEF Register
  <2>6. h2' \in {"lock", "net"} <=> h2_req' \in Page \X Worker
    <3>1. h2 = "unborn" /\ h2' \in {"unborn", "ready"} /\ h2_req' = h2_req
      BY <1>2 DEF Register
    <3>2. h2_req \notin Page \X Worker
      BY <3>1
    <3> QED BY <3>1, <3>2
  <2> QED BY <2>1, <2>2, <2>3, <2>4, <2>6
<1>3. CASE RecvMemRsp
  <2>1. Head(to_client).addr \in Page
    BY <1>3, MsgUses, MsgShape DEF RecvMemRsp, H1Ready
  <2> QED BY <1>3, <2>1 DEF RecvMemRsp, H1Ready
<1>4. CASE UnblockSend \/ RecvClosed \/ H2Start \/ H2Insert \/ H2End
  BY <1>4 DEF UnblockSend, RecvClosed, H2Start, H2Insert, H2End, net, tasks
<1>5. CASE H2Recv
  <2>1. Head(mem_req_tx) \in Page \X Worker
    BY <1>5, SeqKept DEF H2Recv, AgentTypes
  <2> QED BY <1>5, <2>1 DEF H2Recv, net, tasks
<1>6. CASE H2Send
  BY <1>6 DEF H2Send, tasks, SendFails
<1>7. ASSUME NEW w \in Worker, Work(w)  PROVE  TaskInv'
  <2>0. wrk \in [Worker -> {"unborn", "ready", "recv", "decode", "wait", "got", "rsp", "end",
                            "panic"}]
        /\ cur \in [Worker -> 0 .. MaxTasks] /\ want \in [Worker -> Page \cup {None}]
    BY DEF AgentTypes
  <2>1. CASE WorkerStart(w) \/ WorkerGot(w) \/ WorkerDecoded(w) \/ WorkerEnd(w)
    BY <2>0, <2>1 DEF WorkerStart, WorkerGot, WorkerDecoded, WorkerEnd, net
  <2>2. CASE WorkerRecv(w)
    <3>1. Head(proc_tx).t = "DataReq" => Head(proc_tx).task \in 1 .. MaxTasks
      BY <2>2, MsgUses, MsgShape DEF WorkerRecv
    <3>2. \A j \in 1 .. MaxTasks : j # 0
      OBVIOUS
    <3>3. CASE Head(proc_tx).t = "Init"
      BY <2>2, <3>3 DEF WorkerRecv, net
    <3>4. CASE Head(proc_tx).t = "DataReq"
      BY <2>0, <2>2, <3>1, <3>2, <3>4 DEF WorkerRecv, net
    <3> QED BY <2>2, <3>3, <3>4 DEF WorkerRecv
  <2>3. ASSUME NEW p \in Page, ReadMem(w, p)  PROVE  TaskInv'
    <3>1. wrk[w] = "decode"
      BY <2>3 DEF ReadMem
    <3>2. UNCHANGED <<conn, h1, h1_addr, h2, h2_req>>
      BY <2>3 DEF ReadMem, net
    <3>3. CASE h2 # "end"
      <4>1. wrk' = [wrk EXCEPT ![w] = "wait"] /\ want' = [want EXCEPT ![w] = p] /\ cur' = cur
        BY <2>3, <3>3, Zenon DEF ReadMem
      <4> QED BY <2>0, <3>1, <3>2, <3>3, <4>1
    <3>4. CASE h2 = "end"
      <4>1. wrk' = [wrk EXCEPT ![w] = "panic"] /\ want' = want /\ cur' = [cur EXCEPT ![w] = 0]
        BY <2>3, <3>4, Zenon DEF ReadMem
      <4> QED BY <2>0, <3>1, <3>2, <3>4, <4>1
    <3> QED BY <3>3, <3>4
  <2>4. CASE WorkerCache(w)
    BY <2>0, <2>4 DEF WorkerCache, net
  <2>5. CASE WorkerRespond(w)
    <3>1. /\ wrk[w] = "rsp" /\ wrk' = [wrk EXCEPT ![w] = "recv"] /\ cur' = [cur EXCEPT ![w] = 0]
          /\ UNCHANGED <<conn, h1, h1_addr, h2, h2_req, want>>
      BY <2>5 DEF WorkerRespond, ClearedCur
    <3> QED BY <2>0, <3>1
  <2> QED BY <1>7, <2>1, <2>2, <2>3, <2>4, <2>5 DEF Work
<1> QED BY <1>1, <1>2, <1>3, <1>4, <1>5, <1>6, <1>7 DEF Next, H1, H2

-----------------------------------------------------------------------------
(* Every step keeps every piece in one place.                              *)

LEMMA PieceStep ==
  ASSUME AgentTypes, MsgInv, TaskInv, PieceInv, Next
  PROVE  PieceInv'
<1>0. /\ to_client \in Seq(Msg) /\ to_server \in Seq(Msg) /\ proc_tx \in Seq(Msg)
      /\ answered \in Seq(1 .. MaxTasks) /\ cur \in [Worker -> 0 .. MaxTasks]
      /\ issued \in 0 .. MaxTasks
  BY DEF AgentTypes
<1>1. CASE ServerRecv
  <2> DEFINE m == Head(to_server)
  <2>1. /\ to_server # << >> /\ to_server' = Tail(to_server) /\ to_client' = to_client \o Answer(m)
        /\ answered' = IF m.t = "DataRsp" THEN Append(answered, m.task) ELSE answered
        /\ UNCHANGED <<conn, issued, proc_tx, cur, unsent>>
    BY <1>1 DEF ServerRecv, tasks
  <2>2. m \in ServerMsg /\ m \in Msg
    BY <2>1, MsgUses
  <2>3. m.t = "DataRsp" => m.task \in 1 .. MaxTasks
    BY <2>2, MsgShape
  <2>4. m.t \in {"RegReq", "DataRsp", "MemReq"}
    BY <2>2 DEF ServerMsg
  <2> HIDE DEF m
  <2>5. ASSUME NEW k \in 1 .. MaxTasks  PROVE  Places(k)' = Places(k)
    <3>1. InSeq(to_server, k) = InSeq(to_server', k) + Carries(m, k)
      BY <1>0, <2>1, InSeqFacts DEF m
    <3>2. InSeq(to_client', k) = InSeq(to_client, k)
      <4>1. to_client' = IF m.t = "RegReq" THEN Append(to_client, [t |-> "RegRsp"])
                         ELSE IF m.t = "MemReq" THEN Append(to_client, MemRsp(m.addr))
                         ELSE to_client
        BY <2>1, <2>2, AnswerForms DEF MsgInv
      <4>2. CASE m.t = "RegReq"
        <5>1. [t |-> "RegRsp"] \in Msg /\ Carries([t |-> "RegRsp"], k) = 0
          BY MsgMakes DEF Carries
        <5> QED BY <1>0, <4>1, <4>2, <5>1, InSeqAppend
      <4>3. CASE m.t = "MemReq"
        <5>1. MemRsp(m.addr) \in Msg /\ Carries(MemRsp(m.addr), k) = 0
          BY <2>2, <4>3, MsgMakes, MsgShape DEF Carries
        <5> QED BY <1>0, <4>1, <4>3, <5>1, InSeqAppend
      <4> QED BY <2>4, <4>1, <4>2, <4>3
    <3>3. InAnswers(answered', k) = InAnswers(answered, k) + Carries(m, k)
      <4>1. CASE m.t = "DataRsp"
        BY <1>0, <2>1, <2>3, <4>1, InAnswersFacts DEF Carries
      <4>2. CASE m.t # "DataRsp"
        BY <1>0, <2>1, <2>4, <4>2, InAnswersFacts DEF Carries
      <4> QED BY <4>1, <4>2
    <3>4. Carries(m, k) \in {0, 1} /\ InSeq(to_server', k) \in Nat
      BY <1>0, <2>1, <2>2, CarriesMeans, InSeqFacts, TakeFirst
    <3>5. /\ InSeq(to_client, k) \in Nat /\ InSeq(proc_tx, k) \in Nat /\ AtWork(cur, k) \in Nat
          /\ InAnswers(answered, k) \in Nat /\ GivenUp(unsent, k) \in Nat
      BY PlacesNat
    <3>6. UNCHANGED <<proc_tx, cur, unsent>>
      BY <2>1
    <3> QED BY <3>1, <3>2, <3>3, <3>4, <3>5, <3>6, PlacesSum
  <2> QED BY <2>1, <2>5, PiecesKept
<1>2. CASE ServerPublish
  <2> SUFFICES ASSUME NEW k \in 1 .. MaxTasks
               PROVE  /\ k <= issued' => Places(k)' <= 1 /\ (conn' = "open" => Places(k)' = 1)
                      /\ k > issued' => Places(k)' = 0
    BY DEF PieceInv
  <2>1. /\ conn = "open" /\ issued' = issued + 1 /\ issued < MaxTasks
        /\ to_client' = Append(to_client, DataReq(issued + 1))
        /\ UNCHANGED <<conn, to_server, answered, unsent, proc_tx, cur>>
    BY <1>2 DEF ServerPublish, tasks
  <2>2. issued + 1 \in 1 .. MaxTasks
    BY <1>0, <2>1, AgentAssumption
  <2>3. /\ DataReq(issued + 1) \in Msg
        /\ Carries(DataReq(issued + 1), k) = IF issued + 1 = k THEN 1 ELSE 0
    BY <2>2, MsgMakes DEF Carries
  <2>4. InSeq(to_client', k) = InSeq(to_client, k) + IF issued + 1 = k THEN 1 ELSE 0
    BY <1>0, <2>1, <2>3, InSeqFacts
  <2>5. Places(k)' = Places(k) + IF issued + 1 = k THEN 1 ELSE 0
    BY <2>1, <2>4, PlacesSum, PlacesNat, SMTT(40)
  <2>6. /\ k <= issued => Places(k) <= 1 /\ (conn = "open" => Places(k) = 1)
        /\ k > issued => Places(k) = 0
    BY DEF PieceInv
  <2> QED BY <1>0, <2>1, <2>5, <2>6
<1>3. CASE ServerInit
  <2>1. /\ to_client' = Append(to_client, [t |-> "Init"])
        /\ UNCHANGED <<conn, issued, to_server, answered, unsent, proc_tx, cur>>
    BY <1>3 DEF ServerInit, tasks
  <2>2. \A k \in 1 .. MaxTasks : Places(k)' = Places(k)
    <3> SUFFICES ASSUME NEW k \in 1 .. MaxTasks  PROVE  Places(k)' = Places(k)
      OBVIOUS
    <3>1. [t |-> "Init"] \in Msg /\ Carries([t |-> "Init"], k) = 0
      BY MsgMakes DEF Carries
    <3>2. InSeq(to_client', k) = InSeq(to_client, k)
      BY <1>0, <2>1, <3>1, InSeqFacts
    <3> QED BY <2>1, <3>2, PlacesSum
  <2> QED BY <2>1, <2>2, PiecesKept
<1>4. CASE Break
  <2>1. /\ conn' = "closed" /\ to_server' = << >>
        /\ UNCHANGED <<issued, answered, unsent, proc_tx, cur>>
    BY <1>4 DEF Break, server, tasks
  <2>2. PICK n \in 0 .. Len(to_client) : to_client' = SubSeq(to_client, 1, n)
    BY <1>4 DEF Break
  <2>3. ASSUME NEW k \in 1 .. MaxTasks  PROVE  Places(k)' \in Nat /\ Places(k)' <= Places(k)
    <3>1. InSeq(to_client', k) \in Nat /\ InSeq(to_client', k) <= InSeq(to_client, k)
      BY <1>0, <2>2, InSeqFacts, SeqKept
    <3>2. InSeq(to_server', k) = 0
      BY <1>0, <2>1, InSeqFacts
    <3> QED BY <2>1, <3>1, <3>2, PlacesSum, PlacesNat, SMTT(40)
  <2> QED BY <2>1, <2>3, PiecesKept
<1>5. ASSUME NEW m \in Msg, m.t \notin {"DataReq", "DataRsp"},
             to_server' = to_server \/ to_server' = Append(to_server, m),
             UNCHANGED <<conn, issued, to_client, answered, unsent, proc_tx, cur>>
      PROVE  PieceInv'
  <2>1. ASSUME NEW k \in 1 .. MaxTasks  PROVE  Places(k)' = Places(k)
    <3>1. Carries(m, k) = 0
      BY <1>5 DEF Carries
    <3>2. InSeq(to_server', k) = InSeq(to_server, k)
      <4>1. CASE to_server' = to_server
        BY <4>1
      <4>2. CASE to_server' = Append(to_server, m)
        <5>1. InSeq(Append(to_server, m), k) = InSeq(to_server, k) + Carries(m, k)
          BY <1>0, InSeqAppend
        <5>2. InSeq(to_server, k) \in Nat
          BY <1>0, InSeqFacts
        <5> QED BY <3>1, <4>2, <5>1, <5>2
      <4> QED BY <1>5, <4>1, <4>2
    <3> QED BY <1>5, <3>2, PlacesSum
  <2> QED BY <1>5, <2>1, PiecesKept
<1>6. CASE Register
  <2>1. /\ to_server' = to_server \/ to_server' = Append(to_server, [t |-> "RegReq"])
        /\ UNCHANGED <<conn, issued, to_client, answered, unsent, proc_tx, cur>>
    BY <1>6 DEF Register, SendOk, SendFails, server
  <2>2. [t |-> "RegReq"] \in Msg /\ [t |-> "RegReq"].t = "RegReq"
    BY MsgMakes
  <2> QED BY <1>5, <2>1, <2>2
<1>7. CASE H2Send
  <2>1. /\ to_server' = to_server \/ to_server' = Append(to_server, MemReq(h2_req[1]))
        /\ UNCHANGED <<conn, issued, to_client, answered, unsent, proc_tx, cur>>
        /\ h2_req[1] \in Page
    BY <1>7, MsgUses DEF H2Send, SendOk, SendFails, server, tasks
  <2>2. MemReq(h2_req[1]) \in Msg /\ MemReq(h2_req[1]).t = "MemReq"
    BY <2>1, MsgMakes
  <2> QED BY <1>5, <2>1, <2>2
<1>8. CASE RecvCtrl
  <2> DEFINE m == Head(to_client)
  <2>1. /\ to_client # << >> /\ to_client' = Tail(to_client) /\ m.t # "MemRsp"
        /\ proc_tx' = IF m.t \in {"Init", "DataReq"} THEN Append(proc_tx, m) ELSE proc_tx
        /\ UNCHANGED <<conn, issued, to_server, answered, unsent, cur>>
    BY <1>8 DEF RecvCtrl, H1Ready, server, tasks
  <2>2. m \in Msg /\ m.t \in {"RegRsp", "Init", "DataReq", "MemRsp"}
    BY <2>1, MsgUses DEF ClientMsg
  <2> HIDE DEF m
  <2>3. ASSUME NEW k \in 1 .. MaxTasks  PROVE  Places(k)' = Places(k)
    <3>1. InSeq(to_client, k) = InSeq(to_client', k) + Carries(m, k)
      BY <1>0, <2>1, InSeqFacts DEF m
    <3>2. InSeq(proc_tx', k) = InSeq(proc_tx, k) + Carries(m, k)
      <4>1. CASE m.t \in {"Init", "DataReq"}
        BY <1>0, <2>1, <2>2, <4>1, InSeqFacts
      <4>2. CASE m.t \notin {"Init", "DataReq"}
        <5>1. Carries(m, k) = 0
          BY <2>2, <4>2 DEF Carries
        <5> QED BY <1>0, <2>1, <4>2, <5>1, InSeqFacts
      <4> QED BY <4>1, <4>2
    <3>3. Carries(m, k) \in {0, 1} /\ InSeq(to_client', k) \in Nat
      BY <1>0, <2>1, <2>2, CarriesMeans, InSeqFacts, TakeFirst
    <3> QED BY <2>1, <3>1, <3>2, <3>3, PlacesSum, PlacesNat, SMTT(40)
  <2> QED BY <2>1, <2>3, PiecesKept
<1>9. CASE RecvMemRsp
  <2>1. /\ to_client # << >> /\ to_client' = Tail(to_client) /\ Head(to_client).t = "MemRsp"
        /\ UNCHANGED <<conn, issued, to_server, answered, unsent, proc_tx, cur>>
    BY <1>9 DEF RecvMemRsp, H1Ready, server
  <2>2. ASSUME NEW k \in 1 .. MaxTasks  PROVE  Places(k)' = Places(k)
    <3>1. Carries(Head(to_client), k) = 0
      BY <2>1 DEF Carries
    <3>2. InSeq(to_client, k) = InSeq(to_client', k) + 0 /\ InSeq(to_client', k) \in Nat
      BY <1>0, <2>1, <3>1, InSeqFacts, TakeFirst
    <3> QED BY <2>1, <3>2, PlacesSum
  <2> QED BY <2>1, <2>2, PiecesKept
<1>10. CASE UnblockSend \/ RecvClosed \/ H2Start \/ H2Recv \/ H2Insert \/ H2End
  <2>1. UNCHANGED <<conn, issued, to_client, proc_tx, cur, to_server, answered, unsent>>
    BY <1>10 DEF UnblockSend, RecvClosed, H2Start, H2Recv, H2Insert, H2End, net, server, tasks
  <2> QED BY <2>1, PiecesAlone
<1>11. ASSUME NEW w \in Worker, Work(w)  PROVE  PieceInv'
  <2>1. CASE WorkerStart(w) \/ WorkerGot(w) \/ WorkerCache(w) \/ WorkerDecoded(w) \/ WorkerEnd(w)
    <3>1. UNCHANGED <<conn, issued, to_client, proc_tx, cur, to_server, answered, unsent>>
      BY <2>1 DEF WorkerStart, WorkerGot, WorkerCache, WorkerDecoded, WorkerEnd, net, server
    <3> QED BY <3>1, PiecesAlone
  <2>2. CASE WorkerRecv(w)
    <3> DEFINE m == Head(proc_tx)
    <3>1. /\ proc_tx # << >> /\ proc_tx' = Tail(proc_tx) /\ wrk[w] = "recv"
          /\ UNCHANGED <<conn, issued, to_client, to_server, answered, unsent>>
      BY <2>2 DEF WorkerRecv, net, server
    <3>2. \/ m.t = "Init" /\ cur' = cur
          \/ m.t = "DataReq" /\ cur' = [cur EXCEPT ![w] = m.task]
      BY <2>2, Zenon DEF WorkerRecv
    <3>3. m \in Msg
      BY <3>1, MsgUses
    <3>4. m.t = "DataReq" => m.task \in 1 .. MaxTasks
      BY <3>3, MsgShape
    <3>5. cur[w] = 0
      BY <3>1 DEF TaskInv
    <3> HIDE DEF m
    <3>6. ASSUME NEW k \in 1 .. MaxTasks  PROVE  Places(k)' = Places(k)
      <4>1. InSeq(proc_tx, k) = InSeq(proc_tx', k) + Carries(m, k)
        BY <1>0, <3>1, InSeqFacts DEF m
      <4>2. Carries(m, k) \in {0, 1} /\ InSeq(proc_tx', k) \in Nat
        BY <1>0, <3>1, <3>3, CarriesMeans, InSeqFacts, TakeFirst
      <4>3. AtWork(cur', k) = AtWork(cur, k) + Carries(m, k)
        <5>1. CASE m.t = "Init" /\ cur' = cur
          <6>1. Carries(m, k) = 0 /\ AtWork(cur, k) \in Nat
            BY <1>0, <5>1, AtWorkFacts DEF Carries
          <6> QED BY <5>1, <6>1
        <5>2. CASE m.t = "DataReq" /\ cur' = [cur EXCEPT ![w] = m.task]
          <6>1. m.task \in 1 .. MaxTasks /\ m.task \in 0 .. MaxTasks /\ cur[w] # k /\ k # 0
            BY <3>4, <3>5, <5>2, AgentAssumption
          <6>2. AtWork([cur EXCEPT ![w] = m.task], k) =
                  IF m.task = k THEN AtWork(cur, k) + 1 ELSE AtWork(cur, k)
            BY <1>0, <6>1, AtWorkSet
          <6>3. Carries(m, k) = IF m.task = k THEN 1 ELSE 0
            BY <5>2 DEF Carries
          <6>4. AtWork(cur, k) \in Nat
            BY <1>0, AtWorkFacts
          <6> QED BY <5>2, <6>2, <6>3, <6>4
        <5> QED BY <3>2, <5>1, <5>2
      <4> QED BY <3>1, <4>1, <4>2, <4>3, PlacesSum, PlacesNat, SMTT(40)
    <3> QED BY <3>1, <3>6, PiecesKept
  <2>3. ASSUME NEW p \in Page, ReadMem(w, p)  PROVE  PieceInv'
    <3>1. /\ UNCHANGED <<conn, issued, to_client, proc_tx, to_server, answered, unsent>>
          /\ wrk[w] = "decode"
      BY <2>3 DEF ReadMem, net, server
    <3>2. \/ cur' = cur
          \/ h2 = "end" /\ cur' = [cur EXCEPT ![w] = 0]
      BY <2>3, Zenon DEF ReadMem
    <3>3. CASE cur' = cur
      BY <3>1, <3>3, PiecesAlone
    <3>4. CASE h2 = "end" /\ cur' = [cur EXCEPT ![w] = 0]
      <4>1. conn = "closed" /\ conn' # "open"
        BY <3>1, <3>4 DEF TaskInv
      <4>2. ASSUME NEW k \in 1 .. MaxTasks  PROVE  Places(k)' \in Nat /\ Places(k)' <= Places(k)
        <5>1. 0 \in 0 .. MaxTasks /\ k # 0 /\ k \in Nat
          BY AgentAssumption
        <5>2. AtWork(cur', k) = IF cur[w] = k THEN AtWork(cur, k) - 1 ELSE AtWork(cur, k)
          BY <1>0, <3>4, <5>1, AtWorkSet
        <5>3. AtWork(cur, k) = 0 => cur[w] # k
          BY <1>0, AtWorkFacts
        <5> QED BY <3>1, <5>2, <5>3, PlacesSum, PlacesNat
      <4> QED BY <3>1, <4>1, <4>2, PiecesKept
    <3> QED BY <3>2, <3>3, <3>4
  <2>4. CASE WorkerRespond(w)
    <3>1. PICK j \in 0 .. MaxTasks : j = cur[w]
      BY <1>0
    <3>2. /\ wrk[w] = "rsp" /\ cur' = [cur EXCEPT ![w] = 0]
          /\ UNCHANGED <<conn, issued, to_client, proc_tx, answered>>
      BY <2>4 DEF WorkerRespond, ClearedCur
    <3>3. \/ conn = "open" /\ to_server' = Append(to_server, DataRsp(j)) /\ unsent' = unsent
          \/ conn # "open" /\ to_server' = to_server /\ unsent' = unsent
          \/ to_server' = to_server /\ unsent' = unsent \cup {j}
      BY <2>4, <3>1 DEF WorkerRespond, SendOk, SendFails
    <3>4. j \in 1 .. MaxTasks
      BY <3>1, <3>2, MsgUses
    <3>5. ASSUME NEW k \in 1 .. MaxTasks
          PROVE  /\ AtWork(cur, k) = AtWork(cur', k) + IF j = k THEN 1 ELSE 0
                 /\ AtWork(cur', k) \in Nat
      <4>1. 0 \in 0 .. MaxTasks /\ k # 0 /\ k \in Nat
        BY AgentAssumption
      <4>2. AtWork(cur', k) = IF j = k THEN AtWork(cur, k) - 1 ELSE AtWork(cur, k)
        BY <1>0, <3>1, <3>2, <4>1, AtWorkSet
      <4>3. AtWork(cur, k) \in Nat /\ (AtWork(cur, k) = 0 => j # k)
        BY <1>0, <3>1, AtWorkFacts
      <4> QED BY <4>2, <4>3
    <3>6. DataRsp(j) \in Msg /\ \A k \in 1 .. MaxTasks : Carries(DataRsp(j), k) = IF j = k THEN 1 ELSE 0
      BY <3>4, MsgMakes DEF Carries
    <3>7. CASE conn = "open" /\ to_server' = Append(to_server, DataRsp(j)) /\ unsent' = unsent
      <4>1. ASSUME NEW k \in 1 .. MaxTasks  PROVE  Places(k)' = Places(k)
        <5>1. InSeq(to_server', k) = InSeq(to_server, k) + IF j = k THEN 1 ELSE 0
          BY <1>0, <3>6, <3>7, InSeqFacts
        <5>2. PICK d \in {0, 1} : d = IF j = k THEN 1 ELSE 0
          OBVIOUS
        <5>3. /\ AtWork(cur, k) = AtWork(cur', k) + d /\ AtWork(cur', k) \in Nat
              /\ InSeq(to_server', k) = InSeq(to_server, k) + d
          BY <3>5, <5>1, <5>2
        <5>4. UNCHANGED <<to_client, proc_tx, answered, unsent>>
          BY <3>2, <3>7
        <5>5. /\ InSeq(to_client, k) \in Nat /\ InSeq(proc_tx, k) \in Nat /\ InSeq(to_server, k) \in Nat
              /\ InAnswers(answered, k) \in Nat /\ GivenUp(unsent, k) \in Nat
          BY PlacesNat
        <5> QED BY <5>3, <5>4, <5>5, PlacesSum
      <4> QED BY <3>2, <4>1, PiecesKept
    <3>8. CASE conn # "open" /\ to_server' = to_server /\ unsent' = unsent
      <4>1. ASSUME NEW k \in 1 .. MaxTasks  PROVE  Places(k)' \in Nat /\ Places(k)' <= Places(k)
        <5>1. AtWork(cur', k) <= AtWork(cur, k) /\ AtWork(cur', k) \in Nat
          BY <1>0, <3>5, AtWorkFacts
        <5>2. UNCHANGED <<to_client, to_server, proc_tx, answered, unsent>> /\ AtWork(cur, k) \in Nat
          BY <1>0, <3>2, <3>8, AtWorkFacts
        <5>3. /\ InSeq(to_client, k) \in Nat /\ InSeq(proc_tx, k) \in Nat /\ InSeq(to_server, k) \in Nat
              /\ InAnswers(answered, k) \in Nat /\ GivenUp(unsent, k) \in Nat
          BY PlacesNat
        <5> QED BY <5>1, <5>2, <5>3, PlacesSum
      <4> QED BY <3>2, <3>8, <4>1, PiecesKept
    <3>9. CASE to_server' = to_server /\ unsent' = unsent \cup {j}
      <4>1. j \notin unsent
        <5>1. Places(j) <= 1
          BY <1>0, <3>4 DEF PieceInv
        <5>2. AtWork(cur, j) >= 1
          BY <3>4, <3>5
        <5>3. GivenUp(unsent, j) = 0
          BY <3>4, <5>1, <5>2, PlacesSum, PlacesNat
        <5> QED BY <5>3, GivenUpFacts
      <4>2. ASSUME NEW k \in 1 .. MaxTasks  PROVE  Places(k)' = Places(k)
        <5>1. GivenUp(unsent', k) = GivenUp(unsent, k) + IF j = k THEN 1 ELSE 0
          BY <3>9, <4>1, GivenUpFacts
        <5>2. PICK d \in {0, 1} : d = IF j = k THEN 1 ELSE 0
          OBVIOUS
        <5>3. /\ AtWork(cur, k) = AtWork(cur', k) + d /\ AtWork(cur', k) \in Nat
              /\ GivenUp(unsent', k) = GivenUp(unsent, k) + d
          BY <3>5, <5>1, <5>2
        <5>4. UNCHANGED <<to_client, to_server, proc_tx, answered>>
          BY <3>2, <3>9
        <5>5. /\ InSeq(to_client, k) \in Nat /\ InSeq(proc_tx, k) \in Nat /\ InSeq(to_server, k) \in Nat
              /\ InAnswers(answered, k) \in Nat /\ GivenUp(unsent, k) \in Nat
          BY PlacesNat
        <5> QED BY <5>3, <5>4, <5>5, PlacesSum
      <4> QED BY <3>2, <4>2, PiecesKept
    <3> QED BY <3>3, <3>7, <3>8, <3>9
  <2> QED BY <1>11, <2>1, <2>2, <2>3, <2>4 DEF Work
<1> QED BY <1>1, <1>2, <1>3, <1>4, <1>6, <1>7, <1>8, <1>9, <1>10, <1>11 DEF Next, H1, H2

-----------------------------------------------------------------------------
(* The steps that leave the requests for memory alone.                     *)

\* The same requests for memory and answers to them are on the connection.
NetSame ==
  \A p \in Page :
    /\ Contains(to_server', MemReq(p)) <=> Contains(to_server, MemReq(p))
    /\ Contains(to_client', MemRsp(p)) <=> Contains(to_client, MemRsp(p))
    /\ Once(to_server, MemReq(p)) => Once(to_server', MemReq(p))
    /\ Once(to_client, MemRsp(p)) => Once(to_client', MemRsp(p))

LEMMA OtherAdded ==
  ASSUME NEW s \in Seq(Msg), NEW m \in Msg, NEW x, m # x
  PROVE  /\ Contains(Append(s, m), x) <=> Contains(s, x)
         /\ Once(s, x) => Once(Append(s, m), x)
BY ContainsAppend

LEMMA OtherTaken ==
  ASSUME NEW s \in Seq(Msg), s # << >>, NEW x, Head(s) # x
  PROVE  /\ Contains(Tail(s), x) <=> Contains(s, x)
         /\ Once(s, x) => Once(Tail(s), x)
BY ContainsTail

\* A message that is not about memory is sent or received.
LEMMA NetKept ==
  ASSUME AgentTypes,
         \/ to_client' = to_client
         \/ \E m \in Msg : m.t # "MemRsp" /\ to_client' = Append(to_client, m)
         \/ to_client # << >> /\ Head(to_client).t # "MemRsp" /\ to_client' = Tail(to_client),
         \/ to_server' = to_server
         \/ \E m \in Msg : m.t # "MemReq" /\ to_server' = Append(to_server, m)
  PROVE  NetSame
<1> SUFFICES ASSUME NEW p \in Page
             PROVE  /\ Contains(to_server', MemReq(p)) <=> Contains(to_server, MemReq(p))
                    /\ Contains(to_client', MemRsp(p)) <=> Contains(to_client, MemRsp(p))
                    /\ Once(to_server, MemReq(p)) => Once(to_server', MemReq(p))
                    /\ Once(to_client, MemRsp(p)) => Once(to_client', MemRsp(p))
  BY DEF NetSame
<1>1. to_client \in Seq(Msg) /\ to_server \in Seq(Msg)
  BY DEF AgentTypes
<1>2. \A m : (m.t # "MemRsp" => m # MemRsp(p)) /\ (m.t # "MemReq" => m # MemReq(p))
  BY MsgMakes
<1>3. /\ Contains(to_client', MemRsp(p)) <=> Contains(to_client, MemRsp(p))
      /\ Once(to_client, MemRsp(p)) => Once(to_client', MemRsp(p))
  <2>1. CASE \E m \in Msg : m.t # "MemRsp" /\ to_client' = Append(to_client, m)
    BY <1>1, <1>2, <2>1, OtherAdded
  <2>2. CASE to_client # << >> /\ Head(to_client).t # "MemRsp" /\ to_client' = Tail(to_client)
    BY <1>1, <1>2, <2>2, OtherTaken
  <2> QED BY <2>1, <2>2
<1>4. /\ Contains(to_server', MemReq(p)) <=> Contains(to_server, MemReq(p))
      /\ Once(to_server, MemReq(p)) => Once(to_server', MemReq(p))
  <2>1. CASE \E m \in Msg : m.t # "MemReq" /\ to_server' = Append(to_server, m)
    BY <1>1, <1>2, <2>1, OtherAdded
  <2> QED BY <2>1
<1> QED BY <1>3, <1>4

LEMMA QuietKeeps ==
  ASSUME AgentTypes, TaskInv, SenderInv, NoOrphanWait, TokenInv, Quiet,
         conn' = "open" => conn = "open" /\ NetSame,
         overlap' = overlap,
         \/ h1' = h1 /\ h1_addr' = h1_addr
         \/ h1 = "reg" /\ h1' = "recv"
         \/ h1' = "end" /\ conn' # "open"
  PROVE  SenderInv' /\ NoOrphanWait' /\ TokenInv'
<1>1. SenderInv'
  BY QuietSender
<1>2. NoOrphanWait'
  <2>1. CASE conn' # "open"
    BY <2>1 DEF NoOrphanWait
  <2>2. CASE conn' = "open"
    <3>1. /\ h1' # "end" => h1 # "end"
          /\ h1 = "send" => h1' \in {"send", "end"} /\ h1_addr' = h1_addr
      BY <2>2
    <3>2. \A p \in Page :
            /\ Contains(to_server, MemReq(p)) =>
                 Contains(to_server', MemReq(p)) \/ Contains(to_client', MemRsp(p))
            /\ Contains(to_client, MemRsp(p)) => Contains(to_client', MemRsp(p))
      BY <2>2 DEF NetSame
    <3> QED BY <2>2, <3>1, <3>2, QuietOrphan
  <2> QED BY <2>1, <2>2
<1>3. TokenInv'
  <2>1. CASE conn' # "open"
    BY <2>1 DEF TokenInv
  <2>2. CASE conn' = "open"
    <3>1. h1' \in {"send", "end"} => h1 \in {"send", "end"}
      BY <2>2
    <3>2. \A p \in Page :
            /\ Contains(to_server', MemReq(p)) => Contains(to_server, MemReq(p))
            /\ Contains(to_client', MemRsp(p)) => Contains(to_client, MemRsp(p))
            /\ Once(to_server, MemReq(p)) => Once(to_server', MemReq(p))
            /\ Once(to_client, MemRsp(p)) => Once(to_client', MemRsp(p))
      BY <2>2 DEF NetSame
    <3> QED BY <2>2, <3>1, <3>2, QuietToken
  <2> QED BY <2>1, <2>2
<1> QED BY <1>1, <1>2, <1>3

LEMMA QuietSteps ==
  ASSUME AgentTypes, MsgInv, TaskInv, SenderInv, NoOrphanWait, TokenInv,
         \/ ServerPublish \/ ServerInit \/ Break \/ Register \/ RecvCtrl \/ RecvClosed
         \/ H2Start \/ H2End
         \/ \E w \in Worker : \/ WorkerStart(w) \/ WorkerRecv(w) \/ WorkerDecoded(w)
                              \/ WorkerRespond(w) \/ WorkerEnd(w)
  PROVE  SenderInv' /\ NoOrphanWait' /\ TokenInv'
<1>0. wrk \in [Worker -> {"unborn", "ready", "recv", "decode", "wait", "got", "rsp", "end",
                          "panic"}]
  BY DEF AgentTypes
<1>1. CASE ServerPublish
  <2>1. issued + 1 \in 1 .. MaxTasks
    BY <1>1, AgentAssumption DEF ServerPublish, AgentTypes
  <2>2. DataReq(issued + 1) \in Msg /\ DataReq(issued + 1).t # "MemRsp"
    BY <2>1, MsgMakes
  <2>3. NetSame
    BY <1>1, <2>2, NetKept DEF ServerPublish
  <2>4. Quiet /\ conn' = conn /\ overlap' = overlap /\ h1' = h1 /\ h1_addr' = h1_addr
    BY <1>1 DEF ServerPublish, Quiet, tasks
  <2> QED BY <2>3, <2>4, QuietKeeps
<1>2. CASE ServerInit
  <2>1. NetSame
    BY <1>2, MsgMakes, NetKept DEF ServerInit
  <2>2. Quiet /\ conn' = conn /\ overlap' = overlap /\ h1' = h1 /\ h1_addr' = h1_addr
    BY <1>2 DEF ServerInit, Quiet, tasks
  <2> QED BY <2>1, <2>2, QuietKeeps
<1>3. CASE Break
  <2>1. Quiet /\ conn' # "open" /\ overlap' = overlap /\ h1' = h1 /\ h1_addr' = h1_addr
    BY <1>3 DEF Break, Quiet, tasks
  <2> QED BY <2>1, QuietKeeps
<1>4. CASE Register
  <2>1. NetSame
    BY <1>4, MsgMakes, NetKept DEF Register, SendOk, SendFails
  <2>2. /\ conn' = conn /\ overlap' = overlap /\ h1 = "reg"
        /\ h1' = "recv" \/ (h1' = "end" /\ conn' # "open")
    BY <1>4 DEF Register, SendFails
  <2>3. Quiet
    <3>1. /\ UNCHANGED <<want, reply, mem_req_tx, h2_req, mem_req_lst>>
          /\ h2' \in {"unborn", "ready"} /\ h2 = "unborn"
          /\ \A w \in Worker : wrk[w] = "unborn" /\ wrk'[w] \in {"unborn", "ready"}
      BY <1>4 DEF Register, TaskInv
    <3> QED BY <3>1 DEF Quiet
  <2> QED BY <2>1, <2>2, <2>3, QuietKeeps
<1>5. CASE RecvCtrl
  <2>1. NetSame
    BY <1>5, NetKept DEF RecvCtrl, H1Ready
  <2>2. Quiet /\ conn' = conn /\ overlap' = overlap /\ h1' = h1 /\ h1_addr' = h1_addr
    BY <1>5 DEF RecvCtrl, Quiet, tasks
  <2> QED BY <2>1, <2>2, QuietKeeps
<1>6. CASE RecvClosed
  <2>1. Quiet /\ conn' # "open" /\ overlap' = overlap /\ h1' = "end"
    BY <1>6 DEF RecvClosed, Quiet, tasks, net
  <2> QED BY <2>1, QuietKeeps
<1>7. CASE H2Start \/ H2End
  <2>1. NetSame
    BY <1>7, NetKept DEF H2Start, H2End, net
  <2>2. Quiet /\ conn' = conn /\ overlap' = overlap /\ h1' = h1 /\ h1_addr' = h1_addr
    BY <1>7 DEF H2Start, H2End, Quiet, tasks, net
  <2> QED BY <2>1, <2>2, QuietKeeps
<1>8. ASSUME NEW w \in Worker,
             \/ WorkerStart(w) \/ WorkerRecv(w) \/ WorkerDecoded(w)
             \/ WorkerRespond(w) \/ WorkerEnd(w)
      PROVE  SenderInv' /\ NoOrphanWait' /\ TokenInv'
  <2>1. NetSame
    <3>1. CASE WorkerRespond(w)
      <4>1. cur[w] \in 1 .. MaxTasks
        BY <3>1, MsgUses DEF WorkerRespond
      <4>2. DataRsp(cur[w]) \in Msg /\ DataRsp(cur[w]).t # "MemReq"
        BY <4>1, MsgMakes
      <4> QED BY <3>1, <4>2, NetKept DEF WorkerRespond, SendOk, SendFails
    <3>2. CASE WorkerStart(w) \/ WorkerRecv(w) \/ WorkerDecoded(w) \/ WorkerEnd(w)
      BY <3>2, NetKept DEF WorkerStart, WorkerRecv, WorkerDecoded, WorkerEnd, net
    <3> QED BY <1>8, <3>1, <3>2
  <2>2. /\ conn' = conn /\ overlap' = overlap /\ h1' = h1 /\ h1_addr' = h1_addr
        /\ UNCHANGED <<want, reply, mem_req_tx, h2_req, mem_req_lst, h2>>
    BY <1>8 DEF WorkerStart, WorkerRecv, WorkerDecoded, WorkerEnd, WorkerRespond, net
  <2>3. \/ wrk' = wrk
        \/ /\ wrk[w] \notin {"wait", "got"}
           /\ \E x \in {"recv", "decode", "rsp", "end"} : wrk' = [wrk EXCEPT ![w] = x]
    BY <1>8 DEF WorkerStart, WorkerRecv, WorkerDecoded, WorkerEnd, WorkerRespond
  <2>4. Quiet
    BY <1>0, <2>2, <2>3 DEF Quiet
  <2> QED BY <2>1, <2>2, <2>4, QuietKeeps
<1> QED BY <1>1, <1>2, <1>3, <1>4, <1>5, <1>6, <1>7, <1>8

-----------------------------------------------------------------------------
(* The steps of a request for memory.                                      *)

\* The request of w, or the answer to it, is on its way and will find w.
Served(w) ==
  \/ Contains(mem_req_tx, <<want[w], w>>)
  \/ h2 = "lock" /\ h2_req = <<want[w], w>>
  \/ /\ mem_req_lst[want[w]] = w
     /\ \/ h2 = "net" /\ h2_req[1] = want[w]
        \/ Contains(to_server, MemReq(want[w]))
        \/ Contains(to_client, MemRsp(want[w]))
        \/ h1 = "send" /\ h1_addr = want[w]

LEMMA OrphanMeans ==
  /\ NoOrphanWait <=>
       (conn = "open" /\ h1 # "end" =>
          \A w \in Worker : wrk[w] = "wait" /\ reply[w] # 1 /\ HasSender(w) => Served(w))
  /\ NoOrphanWait' <=>
       (conn' = "open" /\ h1' # "end" =>
          \A w \in Worker : wrk'[w] = "wait" /\ reply'[w] # 1 /\ HasSender(w)' => Served(w)')
BY DEF NoOrphanWait, Served

\* What the tokens of page p are.
TokenOf(p) ==
  /\ h2 = "net" /\ h2_req[1] = p =>
       Owed(p) /\ ~Contains(to_server, MemReq(p)) /\ ~Contains(to_client, MemRsp(p))
  /\ Contains(to_server, MemReq(p)) => Owed(p) /\ ~Contains(to_client, MemRsp(p))
  /\ Contains(to_client, MemRsp(p)) => Owed(p)
  /\ Once(to_server, MemReq(p)) /\ Once(to_client, MemRsp(p))

LEMMA TokenMeans ==
  /\ TokenInv /\ conn = "open" /\ ~overlap =>
       /\ h1 \notin {"send", "end"}
       /\ \A v, w \in Worker : wrk[v] = "wait" /\ wrk[w] = "wait" /\ want[v] = want[w] => v = w
       /\ \A p \in Page : TokenOf(p)
  /\ TokenInv' <=>
       (conn' = "open" /\ ~overlap' =>
          /\ h1' \notin {"send", "end"}
          /\ \A v, w \in Worker : wrk'[v] = "wait" /\ wrk'[w] = "wait" /\ want'[v] = want'[w] => v = w
          /\ \A p \in Page : TokenOf(p)')
BY DEF TokenInv, TokenOf

LEMMA MemServerRecv ==
  ASSUME AgentTypes, MsgInv, TaskInv, SenderInv, NoOrphanWait, TokenInv, ServerRecv
  PROVE  SenderInv' /\ NoOrphanWait' /\ TokenInv'
<1> DEFINE m == Head(to_server)
<1>1. /\ to_server # << >> /\ to_server' = Tail(to_server) /\ to_client' = to_client \o Answer(m)
      /\ UNCHANGED <<conn, h1, h1_addr, h2, h2_req, mem_req_tx, mem_req_lst, wrk, want, reply,
                     overlap>>
  BY DEF ServerRecv, tasks
<1>2. m \in ServerMsg /\ m \in Msg /\ m.t \in {"RegReq", "DataRsp", "MemReq"}
  BY <1>1, MsgUses DEF ServerMsg
<1>3. to_client' = IF m.t = "RegReq" THEN Append(to_client, [t |-> "RegRsp"])
                   ELSE IF m.t = "MemReq" THEN Append(to_client, MemRsp(m.addr))
                   ELSE to_client
  BY <1>1, <1>2, AnswerForms DEF MsgInv
<1>4. to_client \in Seq(Msg) /\ to_server \in Seq(Msg)
  BY DEF AgentTypes
<1>5. Quiet
  BY <1>1 DEF Quiet
<1>6. \A p \in Page : m # MemReq(p) =>
        /\ Contains(to_server', MemReq(p)) <=> Contains(to_server, MemReq(p))
        /\ Once(to_server, MemReq(p)) => Once(to_server', MemReq(p))
  BY <1>1, <1>4, OtherTaken
<1>7. \A p \in Page : m # MemReq(p) =>
        /\ Contains(to_client', MemRsp(p)) <=> Contains(to_client, MemRsp(p))
        /\ Once(to_client, MemRsp(p)) => Once(to_client', MemRsp(p))
  <2> SUFFICES ASSUME NEW p \in Page, m # MemReq(p)
               PROVE  /\ Contains(to_client', MemRsp(p)) <=> Contains(to_client, MemRsp(p))
                      /\ Once(to_client, MemRsp(p)) => Once(to_client', MemRsp(p))
    OBVIOUS
  <2>1. CASE m.t = "RegReq"
    <3>1. [t |-> "RegRsp"] \in Msg /\ [t |-> "RegRsp"] # MemRsp(p)
      BY MsgMakes
    <3> QED BY <1>3, <1>4, <2>1, <3>1, OtherAdded
  <2>2. CASE m.t = "MemReq"
    <3>1. m.addr \in Page /\ m = MemReq(m.addr)
      BY <1>2, <2>2, MsgShape
    <3>2. MemRsp(m.addr) \in Msg /\ MemRsp(m.addr) # MemRsp(p)
      BY <3>1, MsgMakes
    <3>3. to_client' = Append(to_client, MemRsp(m.addr))
      BY <1>3, <2>2
    <3> QED BY <1>4, <3>2, <3>3, OtherAdded
  <2>3. CASE m.t = "DataRsp"
    BY <1>3, <2>3
  <2> QED BY <1>2, <2>1, <2>2, <2>3
<1>8. \A p \in Page : m = MemReq(p) =>
        /\ Contains(to_server, MemReq(p))
        /\ Once(to_server, MemReq(p)) => Once(to_server', MemReq(p)) /\ ~Contains(to_server', MemReq(p))
        /\ Contains(to_client', MemRsp(p))
        /\ Once(to_client, MemRsp(p)) /\ ~Contains(to_client, MemRsp(p)) => Once(to_client', MemRsp(p))
  <2> SUFFICES ASSUME NEW p \in Page, m = MemReq(p)
               PROVE  /\ Contains(to_server, MemReq(p))
                      /\ Once(to_server, MemReq(p)) =>
                           Once(to_server', MemReq(p)) /\ ~Contains(to_server', MemReq(p))
                      /\ Contains(to_client', MemRsp(p))
                      /\ Once(to_client, MemRsp(p)) /\ ~Contains(to_client, MemRsp(p))
                           => Once(to_client', MemRsp(p))
    OBVIOUS
  <2>1. to_client' = Append(to_client, MemRsp(p)) /\ MemRsp(p) \in Msg
    BY <1>3, MsgMakes
  <2>2. /\ Contains(to_server, MemReq(p))
        /\ Once(to_server, MemReq(p)) =>
             Once(to_server', MemReq(p)) /\ ~Contains(to_server', MemReq(p))
    BY <1>1, <1>4, ContainsTail
  <2>3. /\ Contains(to_client', MemRsp(p))
        /\ Once(to_client, MemRsp(p)) /\ ~Contains(to_client, MemRsp(p))
             => Once(to_client', MemRsp(p))
    BY <1>4, <2>1, ContainsAppend
  <2> QED BY <2>2, <2>3
<1> HIDE DEF m
<1>9. \A p \in Page :
        /\ Contains(to_server, MemReq(p)) =>
             Contains(to_server', MemReq(p)) \/ Contains(to_client', MemRsp(p))
        /\ Contains(to_client, MemRsp(p)) => Contains(to_client', MemRsp(p))
  <2> SUFFICES ASSUME NEW p \in Page
               PROVE  /\ Contains(to_server, MemReq(p)) =>
                           Contains(to_server', MemReq(p)) \/ Contains(to_client', MemRsp(p))
                      /\ Contains(to_client, MemRsp(p)) => Contains(to_client', MemRsp(p))
    OBVIOUS
  <2> QED BY <1>6, <1>7, <1>8
<1>10. NoOrphanWait'
  BY <1>1, <1>5, <1>9, QuietOrphan
<1>11. SenderInv' /\ \A p : Owed(p)' <=> Owed(p)
  BY <1>5, QuietSender
<1>12. TokenInv'
  <2> SUFFICES ASSUME conn' = "open", ~overlap'
               PROVE  /\ h1' \notin {"send", "end"}
                      /\ \A v, w \in Worker :
                           wrk'[v] = "wait" /\ wrk'[w] = "wait" /\ want'[v] = want'[w] => v = w
                      /\ \A p \in Page : TokenOf(p)'
    BY TokenMeans
  <2>1. /\ h1 \notin {"send", "end"}
        /\ \A v, w \in Worker : wrk[v] = "wait" /\ wrk[w] = "wait" /\ want[v] = want[w] => v = w
        /\ \A p \in Page : TokenOf(p)
    BY <1>1, TokenMeans
  <2>2. ASSUME NEW p \in Page  PROVE  TokenOf(p)'
    <3>1. TokenOf(p)
      BY <2>1
    <3>2. Owed(p)' <=> Owed(p)
      BY <1>11
    <3>3. CASE m = MemReq(p)
      BY <1>1, <1>8, <3>1, <3>2, <3>3 DEF TokenOf
    <3>4. CASE m # MemReq(p)
      BY <1>1, <1>6, <1>7, <3>1, <3>2, <3>4 DEF TokenOf
    <3> QED BY <3>3, <3>4
  <2> QED BY <1>1, <2>1, <2>2
<1> QED BY <1>10, <1>11, <1>12

\* Giving w its answer disturbs no other worker.
LEMMA ReplySender ==
  ASSUME AgentTypes, TaskInv, SenderInv, NEW p0 \in Page, mem_req_lst[p0] # Stale,
         reply' = Replied(mem_req_lst[p0]),
         UNCHANGED <<h2, h2_req, mem_req_tx, mem_req_lst, wrk, want>>
  PROVE  SenderInv'
<1>1. /\ \A n \in 1 .. Len(mem_req_tx) : mem_req_tx[n][2] \in Worker
      /\ h2 = "lock" => h2_req[2] \in Worker
      /\ reply \in [Worker -> 0 .. 1]
  BY DEF AgentTypes, TaskInv
<1>2. \A w \in Worker : w # mem_req_lst[p0] => reply'[w] = reply[w]
  BY <1>1 DEF Replied
<1>3. \A p : \A w \in Worker : w # mem_req_lst[p0] => (Fresh(p, w)' <=> Fresh(p, w))
  BY <1>2 DEF Fresh
<1>4. \A n \in 1 .. Len(mem_req_tx) : mem_req_tx[n][2] # mem_req_lst[p0]
  BY <1>1 DEF SenderInv
<1>5. h2 = "lock" => h2_req[2] # mem_req_lst[p0]
  BY <1>1 DEF SenderInv
<1>6. \A n \in 1 .. Len(mem_req_tx') : Fresh(mem_req_tx[n][1], mem_req_tx[n][2])'
  BY <1>1, <1>3, <1>4 DEF SenderInv
<1>7. h2' = "lock" => Fresh(h2_req[1], h2_req[2])'
  BY <1>1, <1>3, <1>5 DEF SenderInv
<1>8. \A w \in Worker : reply'[w] = 1 => wrk'[w] \in {"wait", "got"}
  BY <1>2 DEF SenderInv
<1> QED BY <1>6, <1>7, <1>8 DEF SenderInv

LEMMA MemRecvMemRsp ==
  ASSUME AgentTypes, MsgInv, TaskInv, SenderInv, NoOrphanWait, TokenInv, RecvMemRsp
  PROVE  SenderInv' /\ NoOrphanWait' /\ TokenInv'
<1>1. PICK p0 \in Page : Head(to_client) = MemRsp(p0) /\ Head(to_client).addr = p0
  <2>1. Head(to_client) \in Msg /\ Head(to_client).t = "MemRsp"
    BY MsgUses DEF RecvMemRsp, H1Ready
  <2> QED BY <2>1, MsgShape
<1> DEFINE x == mem_req_lst[p0]
<1>2. /\ h1 = "recv" /\ to_client # << >> /\ to_client' = Tail(to_client)
      /\ UNCHANGED <<conn, to_server, h2, h2_req, mem_req_tx, mem_req_lst, wrk, want, overlap>>
  BY DEF RecvMemRsp, H1Ready
<1>3. \/ x = Stale /\ h1' = "end" /\ reply' = reply
      \/ /\ x \in Worker => reply[x] = 0
         /\ x # Stale /\ reply' = Replied(x) /\ h1' = h1
      \/ x \in Worker /\ reply[x] = 1 /\ h1' = "send" /\ reply' = reply
  BY <1>1 DEF RecvMemRsp, ReplyFull, AgentTypes
<1>4. /\ to_client \in Seq(Msg) /\ to_server \in Seq(Msg) /\ x \in Worker \cup {None, Stale}
      /\ reply \in [Worker -> 0 .. 1]
  BY DEF AgentTypes
<1>5. \A w \in Worker :
        \/ reply'[w] = reply[w]
        \/ w = x /\ reply[w] = 0 /\ reply'[w] = 1
  BY <1>3, <1>4 DEF Replied
<1>6. SenderInv'
  <2>1. CASE x # Stale /\ reply' = Replied(x)
    BY <1>2, <2>1, ReplySender
  <2>2. CASE reply' = reply
    <3>1. Quiet
      BY <1>2, <2>2 DEF Quiet
    <3> QED BY <3>1, QuietSender
  <2> QED BY <1>3, <2>1, <2>2
<1>7. /\ Contains(to_client, MemRsp(p0))
      /\ Once(to_client, MemRsp(p0)) =>
           Once(to_client', MemRsp(p0)) /\ ~Contains(to_client', MemRsp(p0))
  BY <1>1, <1>2, <1>4, ContainsTail
<1>8. \A p \in Page : p # p0 =>
        /\ Contains(to_client', MemRsp(p)) <=> Contains(to_client, MemRsp(p))
        /\ Once(to_client, MemRsp(p)) => Once(to_client', MemRsp(p))
  <2> SUFFICES ASSUME NEW p \in Page, p # p0
               PROVE  /\ Contains(to_client', MemRsp(p)) <=> Contains(to_client, MemRsp(p))
                      /\ Once(to_client, MemRsp(p)) => Once(to_client', MemRsp(p))
    OBVIOUS
  <2>1. Head(to_client) # MemRsp(p)
    BY <1>1, MsgMakes
  <2> QED BY <1>2, <1>4, <2>1, OtherTaken
<1>9. NoOrphanWait'
  <2> SUFFICES ASSUME conn' = "open", h1' # "end", NEW w \in Worker, wrk'[w] = "wait",
                      reply'[w] # 1, HasSender(w)'
               PROVE  Served(w)'
    BY OrphanMeans
  <2>1. /\ conn = "open" /\ wrk[w] = "wait" /\ want'[w] = want[w] /\ want[w] \in Page
        /\ reply[w] # 1 /\ reply'[w] = reply[w]
    BY <1>2, <1>5 DEF TaskInv
  <2>2. HasSender(w)
    BY <1>2 DEF HasSender
  <2>3. Served(w)
    BY <1>2, <2>1, <2>2, OrphanMeans
  <2>4. ~(want[w] = p0 /\ mem_req_lst[p0] = w)
    <3> SUFFICES ASSUME want[w] = p0, x = w  PROVE  FALSE
      OBVIOUS
    <3>1. w # Stale /\ w \in Worker
      BY AgentAssumption
    <3>2. x # Stale /\ reply' = Replied(x)
      BY <1>3, <2>1, <3>1
    <3>3. reply'[w] = reply[w] + 1
      BY <3>2 DEF Replied
    <3> QED BY <1>4, <2>1, <3>3
  <2> QED BY <1>2, <1>8, <2>1, <2>3, <2>4 DEF Served
<1>10. TokenInv'
  <2> SUFFICES ASSUME conn' = "open", ~overlap'
               PROVE  /\ h1' \notin {"send", "end"}
                      /\ \A v, w \in Worker :
                           wrk'[v] = "wait" /\ wrk'[w] = "wait" /\ want'[v] = want'[w] => v = w
                      /\ \A p \in Page : TokenOf(p)'
    BY TokenMeans
  <2>1. /\ h1 \notin {"send", "end"}
        /\ \A v, w \in Worker : wrk[v] = "wait" /\ wrk[w] = "wait" /\ want[v] = want[w] => v = w
        /\ \A p \in Page : TokenOf(p)
    BY <1>2, TokenMeans
  <2>2. PICK y \in Worker : x = y /\ Fresh(p0, y)
    BY <1>7, <2>1 DEF TokenOf, Owed
  <2>3. h1' = h1
    BY <1>3, <2>2, AgentAssumption DEF Fresh
  <2>4. ASSUME NEW p \in Page  PROVE  TokenOf(p)'
    <3>1. TokenOf(p)
      BY <2>1
    <3>2. CASE p = p0
      BY <1>2, <1>7, <3>1, <3>2 DEF TokenOf
    <3>3. CASE p # p0
      <4>1. Owed(p) => Owed(p)'
        <5> SUFFICES ASSUME NEW w \in Worker, mem_req_lst[p] = w, Fresh(p, w)  PROVE  Owed(p)'
          BY DEF Owed
        <5>1. w # y /\ reply'[w] = reply[w]
          BY <1>5, <2>2, <3>3 DEF Fresh
        <5>2. mem_req_lst'[p] = w /\ Fresh(p, w)'
          BY <1>2, <5>1 DEF Fresh
        <5> QED BY <5>2 DEF Owed
      <4> QED BY <1>2, <1>8, <3>1, <3>3, <4>1 DEF TokenOf
    <3> QED BY <3>2, <3>3
  <2> QED BY <1>2, <2>1, <2>3, <2>4
<1> QED BY <1>6, <1>9, <1>10

LEMMA MemUnblockSend ==
  ASSUME AgentTypes, TaskInv, SenderInv, NoOrphanWait, TokenInv, UnblockSend
  PROVE  SenderInv' /\ NoOrphanWait' /\ TokenInv'
<1>1. PICK p0 \in Page : p0 = h1_addr
  BY DEF UnblockSend, TaskInv
<1> DEFINE x == mem_req_lst[p0]
<1>2. /\ h1 = "send"
      /\ UNCHANGED <<conn, to_client, to_server, h2, h2_req, mem_req_tx, mem_req_lst, wrk, want,
                     overlap>>
  BY DEF UnblockSend, net
<1>3. \/ x = Stale /\ h1' = "end" /\ reply' = reply
      \/ x \in Worker /\ reply[x] = 0 /\ reply' = Replied(x) /\ h1' = "recv"
  BY <1>1 DEF UnblockSend, ReplyFull, AgentTypes
<1>4. reply \in [Worker -> 0 .. 1]
  BY DEF AgentTypes
<1>5. \A w \in Worker :
        \/ reply'[w] = reply[w]
        \/ w = x /\ reply[w] = 0 /\ reply'[w] = 1
  BY <1>3, <1>4 DEF Replied
<1>6. SenderInv'
  <2>1. CASE x \in Worker /\ reply' = Replied(x)
    BY <1>2, <2>1, ReplySender, AgentAssumption
  <2>2. CASE reply' = reply
    <3>1. Quiet
      BY <1>2, <2>2 DEF Quiet
    <3> QED BY <3>1, QuietSender
  <2> QED BY <1>3, <2>1, <2>2
<1>7. NoOrphanWait'
  <2> SUFFICES ASSUME conn' = "open", h1' # "end", NEW w \in Worker, wrk'[w] = "wait",
                      reply'[w] # 1, HasSender(w)'
               PROVE  Served(w)'
    BY OrphanMeans
  <2>1. /\ conn = "open" /\ wrk[w] = "wait" /\ want'[w] = want[w] /\ want[w] \in Page
        /\ reply[w] # 1 /\ reply'[w] = reply[w]
    BY <1>2, <1>5 DEF TaskInv
  <2>2. HasSender(w)
    BY <1>2 DEF HasSender
  <2>3. Served(w)
    BY <1>2, <2>1, <2>2, OrphanMeans
  <2>4. x # w
    <3> SUFFICES ASSUME x = w  PROVE  FALSE
      OBVIOUS
    <3>1. reply' = Replied(x)
      BY <1>3, AgentAssumption
    <3>2. reply'[w] = reply[w] + 1
      BY <3>1 DEF Replied
    <3> QED BY <1>4, <2>1, <3>2
  <2> QED BY <1>1, <1>2, <2>1, <2>3, <2>4 DEF Served
<1>8. TokenInv'
  BY <1>2, TokenMeans
<1> QED BY <1>6, <1>7, <1>8

LEMMA MemH2Recv ==
  ASSUME AgentTypes, TaskInv, SenderInv, NoOrphanWait, TokenInv, H2Recv
  PROVE  SenderInv' /\ NoOrphanWait' /\ TokenInv'
<1>1. /\ h2 = "recv" /\ mem_req_tx # << >> /\ h2' = "lock"
      /\ h2_req' = Head(mem_req_tx) /\ mem_req_tx' = Tail(mem_req_tx)
      /\ UNCHANGED <<conn, to_client, to_server, h1, h1_addr, mem_req_lst, wrk, want, reply,
                     overlap>>
  BY DEF H2Recv, net, tasks
<1>2. /\ Len(mem_req_tx) \in Nat /\ Len(mem_req_tx) >= 1
      /\ h2_req' = mem_req_tx[1] /\ h2_req' \in Page \X Worker
      /\ Len(mem_req_tx') = Len(mem_req_tx) - 1
      /\ \A i \in 1 .. Len(mem_req_tx) - 1 : mem_req_tx'[i] = mem_req_tx[i + 1]
  BY <1>1, TakeFirst DEF AgentTypes
<1>3. \A p, w : Fresh(p, w)' <=> Fresh(p, w)
  BY <1>1 DEF Fresh
<1>4. SenderInv'
  <2>1. \A n \in 1 .. Len(mem_req_tx') : n + 1 \in 1 .. Len(mem_req_tx)
    BY <1>2
  <2>2. \A n \in 1 .. Len(mem_req_tx') : Fresh(mem_req_tx[n][1], mem_req_tx[n][2])'
    BY <1>2, <1>3, <2>1 DEF SenderInv
  <2>3. \A m, n \in 1 .. Len(mem_req_tx') : mem_req_tx'[m][2] = mem_req_tx'[n][2] => m = n
    BY <1>2, <2>1 DEF SenderInv
  <2>4. Fresh(h2_req[1], h2_req[2])'
    BY <1>2, <1>3 DEF SenderInv
  <2>5. \A n \in 1 .. Len(mem_req_tx') : mem_req_tx'[n][2] # h2_req'[2]
    BY <1>2, <2>1 DEF SenderInv
  <2>6. ASSUME NEW p \in Page, NEW w \in Worker, mem_req_lst'[p] = w
        PROVE  /\ wrk'[w] \in {"wait", "got"} /\ want'[w] = p
               /\ \A n \in 1 .. Len(mem_req_tx') : mem_req_tx'[n][2] # w
               /\ h2' = "lock" => h2_req'[2] # w
    BY <1>1, <1>2, <2>1, <2>6 DEF SenderInv
  <2>7. \A w \in Worker : reply'[w] = 1 => wrk'[w] \in {"wait", "got"}
    BY <1>1 DEF SenderInv
  <2> QED BY <2>2, <2>3, <2>4, <2>5, <2>6, <2>7 DEF SenderInv
<1>5. NoOrphanWait'
  <2> SUFFICES ASSUME conn' = "open", h1' # "end", NEW w \in Worker, wrk'[w] = "wait",
                      reply'[w] # 1, HasSender(w)'
               PROVE  Served(w)'
    BY OrphanMeans
  <2>1. HasSender(w)
    <3>1. CASE \E n \in 1 .. Len(mem_req_tx') : mem_req_tx'[n][2] = w
      BY <1>2, <3>1 DEF HasSender
    <3>2. CASE h2_req'[2] = w
      BY <1>2, <3>2 DEF HasSender
    <3>3. CASE \E p \in Page : mem_req_lst'[p] = w
      BY <1>1, <3>3 DEF HasSender
    <3> QED BY <3>1, <3>2, <3>3 DEF HasSender
  <2>2. Served(w)
    BY <1>1, <2>1, OrphanMeans
  <2>3. Contains(mem_req_tx, <<want[w], w>>) =>
          Contains(mem_req_tx', <<want[w], w>>) \/ h2_req' = <<want[w], w>>
    BY <1>1, ContainsTail DEF AgentTypes
  <2> QED BY <1>1, <2>2, <2>3 DEF Served
<1>6. TokenInv'
  <2>1. \A p : Owed(p)' <=> Owed(p)
    BY <1>1, <1>3 DEF Owed
  <2> QED BY <1>1, <2>1, TokenMeans DEF TokenOf
<1> QED BY <1>4, <1>5, <1>6

LEMMA MemH2Insert ==
  ASSUME AgentTypes, TaskInv, SenderInv, NoOrphanWait, TokenInv, H2Insert
  PROVE  SenderInv' /\ NoOrphanWait' /\ TokenInv'
<1>1. PICK p0 \in Page, w0 \in Worker : h2_req = <<p0, w0>>
  BY DEF H2Insert, TaskInv
<1>2. /\ h2 = "lock" /\ h2' = "net" /\ h1 # "send"
      /\ mem_req_lst' = [mem_req_lst EXCEPT ![p0] = w0]
      /\ UNCHANGED <<conn, to_client, to_server, h1, h1_addr, h2_req, mem_req_tx, wrk, want,
                     reply, overlap>>
  BY <1>1 DEF H2Insert, Inserted, net, tasks
<1>3. \A p, w : Fresh(p, w)' <=> Fresh(p, w)
  BY <1>2 DEF Fresh
<1>4. /\ Fresh(p0, w0) /\ wrk[w0] = "wait" /\ want[w0] = p0
      /\ \A n \in 1 .. Len(mem_req_tx) : mem_req_tx[n][2] # w0
      /\ \A p \in Page : mem_req_lst[p] # w0
  BY <1>1, <1>2 DEF SenderInv, Fresh
<1>5. mem_req_lst'[p0] = w0 /\ \A p \in Page : p # p0 => mem_req_lst'[p] = mem_req_lst[p]
  BY <1>2 DEF AgentTypes
<1>6. SenderInv'
  <2>1. \A n \in 1 .. Len(mem_req_tx') : Fresh(mem_req_tx[n][1], mem_req_tx[n][2])'
    BY <1>2, <1>3 DEF SenderInv
  <2>2. ASSUME NEW p \in Page, NEW w \in Worker, mem_req_lst'[p] = w
        PROVE  /\ wrk'[w] \in {"wait", "got"} /\ want'[w] = p
               /\ \A n \in 1 .. Len(mem_req_tx') : mem_req_tx'[n][2] # w
    <3>1. CASE p = p0
      BY <1>2, <1>4, <1>5, <2>2, <3>1
    <3>2. CASE p # p0
      BY <1>2, <1>5, <2>2, <3>2 DEF SenderInv
    <3> QED BY <3>1, <3>2
  <2> QED BY <1>2, <2>1, <2>2 DEF SenderInv
<1>7. NoOrphanWait'
  <2> SUFFICES ASSUME conn' = "open", h1' # "end", NEW w \in Worker, wrk'[w] = "wait",
                      reply'[w] # 1, HasSender(w)'
               PROVE  Served(w)'
    BY OrphanMeans
  <2>1. CASE w = w0
    BY <1>1, <1>2, <1>4, <1>5, <2>1 DEF Served
  <2>2. CASE w # w0
    <3>1. \/ \E n \in 1 .. Len(mem_req_tx) : mem_req_tx[n][2] = w
          \/ \E p \in Page : p # p0 /\ mem_req_lst[p] = w
      BY <1>1, <1>2, <1>5, <2>2 DEF HasSender
    <3>2. HasSender(w)
      BY <1>2, <3>1 DEF HasSender
    <3>3. Served(w) /\ want[w] \in Page
      BY <1>2, <3>2, OrphanMeans DEF TaskInv
    <3>4. mem_req_lst[p0] # w
      BY <3>1 DEF SenderInv
    <3> QED BY <1>1, <1>2, <1>5, <2>2, <3>3, <3>4 DEF Served
  <2> QED BY <2>1, <2>2
<1>8. TokenInv'
  <2> SUFFICES ASSUME conn' = "open", ~overlap'
               PROVE  /\ h1' \notin {"send", "end"}
                      /\ \A v, w \in Worker :
                           wrk'[v] = "wait" /\ wrk'[w] = "wait" /\ want'[v] = want'[w] => v = w
                      /\ \A p \in Page : TokenOf(p)'
    BY TokenMeans
  <2>1. /\ h1 \notin {"send", "end"}
        /\ \A v, w \in Worker : wrk[v] = "wait" /\ wrk[w] = "wait" /\ want[v] = want[w] => v = w
        /\ \A p \in Page : TokenOf(p)
    BY <1>2, TokenMeans
  <2>2. ASSUME NEW p \in Page  PROVE  TokenOf(p)'
    <3>1. TokenOf(p)
      BY <2>1
    <3>2. CASE p = p0
      <4>1. ~Owed(p0)
        BY <1>4, <2>1 DEF Owed, Fresh
      <4>2. Owed(p0)'
        BY <1>3, <1>4, <1>5 DEF Owed
      <4> QED BY <1>2, <3>1, <3>2, <4>1, <4>2 DEF TokenOf
    <3>3. CASE p # p0
      <4>1. Owed(p)' <=> Owed(p)
        BY <1>3, <1>5, <3>3 DEF Owed
      <4> QED BY <1>1, <1>2, <3>1, <3>3, <4>1 DEF TokenOf
    <3> QED BY <3>2, <3>3
  <2> QED BY <1>2, <2>1, <2>2
<1> QED BY <1>6, <1>7, <1>8

LEMMA MemH2Send ==
  ASSUME AgentTypes, TaskInv, SenderInv, NoOrphanWait, TokenInv, H2Send
  PROVE  SenderInv' /\ NoOrphanWait' /\ TokenInv'
<1>1. PICK p0 \in Page, w0 \in Worker : h2_req = <<p0, w0>>
  BY DEF H2Send, TaskInv
<1>2. /\ h2 = "net" /\ h2' \in {"recv", "end"} /\ h2_req' = << >>
      /\ UNCHANGED <<conn, to_client, h1, h1_addr, mem_req_lst, wrk, want, reply, overlap>>
  BY DEF H2Send, tasks
<1>3. mem_req_tx' = mem_req_tx \/ mem_req_tx' = << >>
  BY DEF H2Send
<1>4. conn = "open" =>
        /\ to_server' = Append(to_server, MemReq(p0)) /\ h2' = "recv" /\ mem_req_tx' = mem_req_tx
  BY <1>1 DEF H2Send, SendOk, SendFails
<1>5. \A p, w : Fresh(p, w)' <=> Fresh(p, w)
  BY <1>2 DEF Fresh
<1>6. SenderInv'
  <2>1. \A n \in 1 .. Len(mem_req_tx') : n \in 1 .. Len(mem_req_tx) /\ mem_req_tx'[n] = mem_req_tx[n]
    BY <1>3
  <2>2. \A n \in 1 .. Len(mem_req_tx') : Fresh(mem_req_tx[n][1], mem_req_tx[n][2])'
    BY <1>5, <2>1 DEF SenderInv
  <2>3. \A m, n \in 1 .. Len(mem_req_tx') : mem_req_tx'[m][2] = mem_req_tx'[n][2] => m = n
    BY <2>1 DEF SenderInv
  <2>4. ASSUME NEW p \in Page, NEW w \in Worker, mem_req_lst'[p] = w
        PROVE  /\ wrk'[w] \in {"wait", "got"} /\ want'[w] = p
               /\ \A n \in 1 .. Len(mem_req_tx') : mem_req_tx'[n][2] # w
    BY <1>2, <2>1, <2>4 DEF SenderInv
  <2> QED BY <1>2, <2>2, <2>3, <2>4 DEF SenderInv
<1>7. to_server \in Seq(Msg) /\ MemReq(p0) \in Msg
  BY MsgMakes DEF AgentTypes
<1>8. conn = "open" => \A p \in Page :
        /\ Contains(to_server', MemReq(p)) <=> Contains(to_server, MemReq(p)) \/ p = p0
        /\ Once(to_server, MemReq(p)) /\ (p = p0 => ~Contains(to_server, MemReq(p)))
             => Once(to_server', MemReq(p))
  <2> SUFFICES ASSUME conn = "open", NEW p \in Page
               PROVE  /\ Contains(to_server', MemReq(p)) <=> Contains(to_server, MemReq(p)) \/ p = p0
                      /\ Once(to_server, MemReq(p)) /\ (p = p0 => ~Contains(to_server, MemReq(p)))
                           => Once(to_server', MemReq(p))
    OBVIOUS
  <2>1. MemReq(p0) = MemReq(p) <=> p = p0
    BY MsgMakes
  <2>2. \A x :
          /\ Contains(Append(to_server, MemReq(p0)), x) <=>
               Contains(to_server, x) \/ MemReq(p0) = x
          /\ Once(to_server, x) /\ (MemReq(p0) = x => ~Contains(to_server, x)) =>
               Once(Append(to_server, MemReq(p0)), x)
    BY <1>7, ContainsAppend
  <2>3. to_server' = Append(to_server, MemReq(p0))
    BY <1>4
  <2> QED BY <2>1, <2>2, <2>3
<1>9. NoOrphanWait'
  <2> SUFFICES ASSUME conn' = "open", h1' # "end", NEW w \in Worker, wrk'[w] = "wait",
                      reply'[w] # 1, HasSender(w)'
               PROVE  Served(w)'
    BY OrphanMeans
  <2>1. HasSender(w)
    BY <1>2, <1>4 DEF HasSender
  <2>2. Served(w) /\ want[w] \in Page
    BY <1>2, <2>1, OrphanMeans DEF TaskInv
  <2> QED BY <1>1, <1>2, <1>4, <1>8, <2>2 DEF Served
<1>10. TokenInv'
  <2> SUFFICES ASSUME conn' = "open", ~overlap'
               PROVE  /\ h1' \notin {"send", "end"}
                      /\ \A v, w \in Worker :
                           wrk'[v] = "wait" /\ wrk'[w] = "wait" /\ want'[v] = want'[w] => v = w
                      /\ \A p \in Page : TokenOf(p)'
    BY TokenMeans
  <2>1. /\ h1 \notin {"send", "end"}
        /\ \A v, w \in Worker : wrk[v] = "wait" /\ wrk[w] = "wait" /\ want[v] = want[w] => v = w
        /\ \A p \in Page : TokenOf(p)
    BY <1>2, TokenMeans
  <2>2. ASSUME NEW p \in Page  PROVE  TokenOf(p)'
    <3>1. TokenOf(p)
      BY <2>1
    <3>2. Owed(p)' <=> Owed(p)
      BY <1>2, <1>5 DEF Owed
    <3>3. h2_req[1] = p0 /\ h2' # "net"
      BY <1>1, <1>2
    <3> QED BY <1>2, <1>8, <3>1, <3>2, <3>3 DEF TokenOf
  <2> QED BY <1>2, <2>1, <2>2
<1> QED BY <1>6, <1>9, <1>10

LEMMA MemReadMem ==
  ASSUME AgentTypes, TaskInv, SenderInv, NoOrphanWait, TokenInv,
         NEW w0 \in Worker, NEW p0 \in Page, ReadMem(w0, p0)
  PROVE  SenderInv' /\ NoOrphanWait' /\ TokenInv'
<1>0. /\ wrk \in [Worker -> {"unborn", "ready", "recv", "decode", "wait", "got", "rsp", "end",
                             "panic"}]
      /\ want \in [Worker -> Page \cup {None}]
      /\ reply \in [Worker -> 0 .. 1]
      /\ mem_req_tx \in Seq(Page \X Worker)
  BY DEF AgentTypes
<1>1. /\ wrk[w0] = "decode"
      /\ UNCHANGED <<conn, to_client, to_server, h1, h1_addr, h2, h2_req, mem_req_lst, reply>>
  BY DEF ReadMem, net
<1>2. CASE h2 = "end"
  <2>1. wrk' = [wrk EXCEPT ![w0] = "panic"] /\ UNCHANGED <<want, mem_req_tx, overlap>>
    BY <1>2, Zenon DEF ReadMem
  <2>2. Quiet
    BY <1>0, <1>1, <2>1 DEF Quiet
  <2>3. NetSame
    BY <1>1, NetKept
  <2> QED BY <1>1, <2>1, <2>2, <2>3, QuietKeeps
<1>3. CASE h2 # "end"
  <2>1. /\ wrk' = [wrk EXCEPT ![w0] = "wait"] /\ want' = [want EXCEPT ![w0] = p0]
        /\ mem_req_tx' = Append(mem_req_tx, <<p0, w0>>)
    BY <1>3, Zenon DEF ReadMem
  <2>2. ~overlap' => ~overlap /\ \A v \in Worker \ {w0} : ~(wrk[v] = "wait" /\ want[v] = p0)
    BY <1>3, Zenon DEF ReadMem
  <2>3. /\ wrk'[w0] = "wait" /\ want'[w0] = p0 /\ reply[w0] = 0
        /\ \A v \in Worker : v # w0 => wrk'[v] = wrk[v] /\ want'[v] = want[v]
    BY <1>0, <1>1, <2>1 DEF SenderInv
  <2>4. /\ Len(mem_req_tx) \in Nat /\ Len(mem_req_tx') = Len(mem_req_tx) + 1
        /\ \A i \in 1 .. Len(mem_req_tx) : mem_req_tx'[i] = mem_req_tx[i]
        /\ mem_req_tx'[Len(mem_req_tx) + 1] = <<p0, w0>>
    <3>1. <<p0, w0>> \in Page \X Worker
      OBVIOUS
    <3> QED BY <1>0, <2>1, <3>1, PutLast
  <2>5. /\ \A n \in 1 .. Len(mem_req_tx) : mem_req_tx[n][2] \in Worker \ {w0}
        /\ h2 = "lock" => h2_req[2] \in Worker \ {w0}
        /\ \A p \in Page : mem_req_lst[p] # w0
    BY <1>0, <1>1 DEF SenderInv, Fresh, TaskInv
  <2>6. \A p : \A v \in Worker : v # w0 => (Fresh(p, v)' <=> Fresh(p, v))
    BY <1>1, <2>3 DEF Fresh
  <2>7. Fresh(p0, w0)'
    BY <1>1, <2>3 DEF Fresh
  <2>8. SenderInv'
    <3>1. \A n \in 1 .. Len(mem_req_tx') : Fresh(mem_req_tx[n][1], mem_req_tx[n][2])'
      <4> SUFFICES ASSUME NEW n \in 1 .. Len(mem_req_tx')
                   PROVE  Fresh(mem_req_tx[n][1], mem_req_tx[n][2])'
        OBVIOUS
      <4>1. CASE n = Len(mem_req_tx) + 1
        BY <2>4, <2>7, <4>1
      <4>2. CASE n \in 1 .. Len(mem_req_tx)
        BY <2>4, <2>5, <2>6, <4>2 DEF SenderInv
      <4> QED BY <2>4, <4>1, <4>2
    <3>2. \A m, n \in 1 .. Len(mem_req_tx') : mem_req_tx'[m][2] = mem_req_tx'[n][2] => m = n
      <4> SUFFICES ASSUME NEW m \in 1 .. Len(mem_req_tx'), NEW n \in 1 .. Len(mem_req_tx'),
                          mem_req_tx'[m][2] = mem_req_tx'[n][2]
                   PROVE  m = n
        OBVIOUS
      <4>1. \A i \in 1 .. Len(mem_req_tx') :
              \/ i \in 1 .. Len(mem_req_tx) /\ mem_req_tx'[i] = mem_req_tx[i]
              \/ i = Len(mem_req_tx) + 1 /\ mem_req_tx'[i][2] = w0
        BY <2>4
      <4> QED BY <2>5, <4>1 DEF SenderInv
    <3>3. h2' = "lock" => /\ Fresh(h2_req[1], h2_req[2])'
                          /\ \A n \in 1 .. Len(mem_req_tx') : mem_req_tx'[n][2] # h2_req'[2]
      BY <1>1, <2>4, <2>5, <2>6 DEF SenderInv
    <3>4. ASSUME NEW p \in Page, NEW w \in Worker, mem_req_lst'[p] = w
          PROVE  /\ wrk'[w] \in {"wait", "got"} /\ want'[w] = p
                 /\ \A n \in 1 .. Len(mem_req_tx') : mem_req_tx'[n][2] # w
                 /\ h2' = "lock" => h2_req'[2] # w
      BY <1>1, <2>3, <2>4, <2>5, <3>4 DEF SenderInv
    <3>5. \A w \in Worker : reply'[w] = 1 => wrk'[w] \in {"wait", "got"}
      BY <1>1, <2>3 DEF SenderInv
    <3> QED BY <3>1, <3>2, <3>3, <3>4, <3>5 DEF SenderInv
  <2>9. NoOrphanWait'
    <3> SUFFICES ASSUME conn' = "open", h1' # "end", NEW w \in Worker, wrk'[w] = "wait",
                        reply'[w] # 1, HasSender(w)'
                 PROVE  Served(w)'
      BY OrphanMeans
    <3>0. \A x : Contains(mem_req_tx, x) \/ x = <<p0, w0>> => Contains(mem_req_tx', x)
      <4>1. <<p0, w0>> \in Page \X Worker
        OBVIOUS
      <4> QED BY <1>0, <2>1, <4>1, ContainsAppend
    <3>1. CASE w = w0
      BY <2>3, <3>0, <3>1 DEF Served
    <3>2. CASE w # w0
      <4>1. HasSender(w)
        BY <1>1, <2>4, <3>2 DEF HasSender
      <4>2. Served(w)
        BY <1>1, <2>3, <3>2, <4>1, OrphanMeans
      <4> QED BY <1>1, <2>3, <3>0, <3>2, <4>2 DEF Served
    <3> QED BY <3>1, <3>2
  <2>10. TokenInv'
    <3> SUFFICES ASSUME conn' = "open", ~overlap'
                 PROVE  /\ h1' \notin {"send", "end"}
                        /\ \A v, w \in Worker :
                             wrk'[v] = "wait" /\ wrk'[w] = "wait" /\ want'[v] = want'[w] => v = w
                        /\ \A p \in Page : TokenOf(p)'
      BY TokenMeans
    <3>1. /\ h1 \notin {"send", "end"}
          /\ \A v, w \in Worker : wrk[v] = "wait" /\ wrk[w] = "wait" /\ want[v] = want[w] => v = w
          /\ \A p \in Page : TokenOf(p)
      BY <1>1, <2>2, TokenMeans
    <3>2. \A v, w \in Worker : wrk'[v] = "wait" /\ wrk'[w] = "wait" /\ want'[v] = want'[w] => v = w
      BY <2>2, <2>3, <3>1
    <3>3. ASSUME NEW p \in Page  PROVE  TokenOf(p)'
      <4>1. TokenOf(p)
        BY <3>1
      <4>2. Owed(p) => Owed(p)'
        BY <1>1, <2>5, <2>6 DEF Owed
      <4> QED BY <1>1, <4>1, <4>2 DEF TokenOf
    <3> QED BY <1>1, <3>1, <3>2, <3>3
  <2> QED BY <2>8, <2>9, <2>10
<1> QED BY <1>2, <1>3

LEMMA MemWorkerGot ==
  ASSUME AgentTypes, TaskInv, SenderInv, NoOrphanWait, TokenInv,
         NEW w0 \in Worker, WorkerGot(w0)
  PROVE  SenderInv' /\ NoOrphanWait' /\ TokenInv'
<1>1. /\ wrk[w0] = "wait" /\ (reply[w0] = 1 \/ ~HasSender(w0))
      /\ wrk' = [wrk EXCEPT ![w0] = "got"] /\ reply' = [reply EXCEPT ![w0] = 0]
      /\ UNCHANGED <<conn, to_client, to_server, h1, h1_addr, h2, h2_req, mem_req_tx, mem_req_lst,
                     want, overlap>>
  BY DEF WorkerGot, RecvReturns, net
<1>2. /\ wrk'[w0] = "got" /\ reply'[w0] = 0
      /\ \A v \in Worker : v # w0 => wrk'[v] = wrk[v] /\ reply'[v] = reply[v]
  BY <1>1 DEF AgentTypes
<1>3. \A p : \A v \in Worker : v # w0 => (Fresh(p, v)' <=> Fresh(p, v))
  BY <1>1, <1>2 DEF Fresh
<1>4. /\ \A n \in 1 .. Len(mem_req_tx) : mem_req_tx[n][2] \in Worker /\ mem_req_tx[n][2] # w0
      /\ h2 = "lock" => h2_req[2] \in Worker /\ h2_req[2] # w0
  <2>1. \A n \in 1 .. Len(mem_req_tx) : mem_req_tx[n][2] \in Worker /\ reply[mem_req_tx[n][2]] = 0
    BY DEF AgentTypes, SenderInv, Fresh
  <2>2. h2 = "lock" => /\ h2_req[2] \in Worker /\ reply[h2_req[2]] = 0 /\ h2_req # << >>
    BY DEF TaskInv, SenderInv, Fresh
  <2> QED BY <1>1, <2>1, <2>2 DEF HasSender
<1>5. SenderInv'
  <2>1. \A n \in 1 .. Len(mem_req_tx') : Fresh(mem_req_tx[n][1], mem_req_tx[n][2])'
    BY <1>1, <1>3, <1>4 DEF SenderInv
  <2>2. h2' = "lock" => Fresh(h2_req[1], h2_req[2])'
    BY <1>1, <1>3, <1>4 DEF SenderInv
  <2>3. \A v \in Worker : wrk[v] \in {"wait", "got"} => wrk'[v] \in {"wait", "got"}
    BY <1>2
  <2>4. \A v \in Worker : reply'[v] = 1 => wrk'[v] \in {"wait", "got"}
    BY <1>2, <2>3 DEF SenderInv
  <2> QED BY <1>1, <2>1, <2>2, <2>3, <2>4 DEF SenderInv
<1>6. NoOrphanWait'
  <2> SUFFICES ASSUME conn' = "open", h1' # "end", NEW w \in Worker, wrk'[w] = "wait",
                      reply'[w] # 1, HasSender(w)'
               PROVE  Served(w)'
    BY OrphanMeans
  <2>1. w # w0 /\ wrk[w] = "wait" /\ reply[w] # 1
    BY <1>2
  <2>2. HasSender(w)
    BY <1>1 DEF HasSender
  <2>3. Served(w)
    BY <1>1, <2>1, <2>2, OrphanMeans
  <2> QED BY <1>1, <2>3 DEF Served
<1>7. TokenInv'
  <2> SUFFICES ASSUME conn' = "open", ~overlap'
               PROVE  /\ h1' \notin {"send", "end"}
                      /\ \A v, w \in Worker :
                           wrk'[v] = "wait" /\ wrk'[w] = "wait" /\ want'[v] = want'[w] => v = w
                      /\ \A p \in Page : TokenOf(p)'
    BY TokenMeans
  <2>1. /\ h1 \notin {"send", "end"}
        /\ \A v, w \in Worker : wrk[v] = "wait" /\ wrk[w] = "wait" /\ want[v] = want[w] => v = w
        /\ \A p \in Page : TokenOf(p)
    BY <1>1, TokenMeans
  <2>2. \A v, w \in Worker : wrk'[v] = "wait" /\ wrk'[w] = "wait" /\ want'[v] = want'[w] => v = w
    BY <1>1, <1>2, <2>1
  <2>3. ASSUME NEW p \in Page  PROVE  TokenOf(p)'
    <3>1. TokenOf(p)
      BY <2>1
    <3>2. Owed(p) => Owed(p)'
      <4> SUFFICES ASSUME NEW v \in Worker, mem_req_lst[p] = v, Fresh(p, v)  PROVE  Owed(p)'
        BY DEF Owed
      <4>1. HasSender(v)
        BY <2>1 DEF HasSender
      <4>2. v # w0
        BY <1>1, <4>1 DEF Fresh
      <4> QED BY <1>1, <1>3, <4>2 DEF Owed
    <3> QED BY <1>1, <3>1, <3>2 DEF TokenOf
  <2> QED BY <1>1, <2>1, <2>2, <2>3
<1> QED BY <1>5, <1>6, <1>7

LEMMA MemWorkerCache ==
  ASSUME AgentTypes, TaskInv, SenderInv, NoOrphanWait, TokenInv,
         NEW w0 \in Worker, WorkerCache(w0)
  PROVE  SenderInv' /\ NoOrphanWait' /\ TokenInv'
<1>1. /\ wrk[w0] = "got" /\ wrk' = [wrk EXCEPT ![w0] = "decode"]
      /\ want' = [want EXCEPT ![w0] = None] /\ reply' = [reply EXCEPT ![w0] = 0]
      /\ mem_req_lst' = [p \in Page |-> IF mem_req_lst[p] = w0 THEN Stale ELSE mem_req_lst[p]]
      /\ UNCHANGED <<conn, to_client, to_server, h1, h1_addr, h2, h2_req, mem_req_tx, overlap>>
  BY DEF WorkerCache, net
<1>2. /\ wrk'[w0] = "decode" /\ reply'[w0] = 0
      /\ \A v \in Worker : v # w0 => wrk'[v] = wrk[v] /\ want'[v] = want[v] /\ reply'[v] = reply[v]
  BY <1>1 DEF AgentTypes
<1>3. \A p \in Page : \A v \in Worker : mem_req_lst'[p] = v <=> v # w0 /\ mem_req_lst[p] = v
  BY <1>1, AgentAssumption DEF AgentTypes
<1>4. \A p : \A v \in Worker : v # w0 => (Fresh(p, v)' <=> Fresh(p, v))
  BY <1>2 DEF Fresh
<1>5. /\ \A n \in 1 .. Len(mem_req_tx) : mem_req_tx[n][2] \in Worker /\ mem_req_tx[n][2] # w0
      /\ h2 = "lock" => h2_req[2] \in Worker /\ h2_req[2] # w0
  BY <1>1 DEF AgentTypes, TaskInv, SenderInv, Fresh
<1>6. SenderInv'
  <2>1. \A n \in 1 .. Len(mem_req_tx') : Fresh(mem_req_tx[n][1], mem_req_tx[n][2])'
    BY <1>1, <1>4, <1>5 DEF SenderInv
  <2>2. h2' = "lock" => Fresh(h2_req[1], h2_req[2])'
    BY <1>1, <1>4, <1>5 DEF SenderInv
  <2>3. ASSUME NEW p \in Page, NEW w \in Worker, mem_req_lst'[p] = w
        PROVE  /\ wrk'[w] \in {"wait", "got"} /\ want'[w] = p
               /\ \A n \in 1 .. Len(mem_req_tx') : mem_req_tx'[n][2] # w
               /\ h2' = "lock" => h2_req'[2] # w
    <3>1. w # w0 /\ mem_req_lst[p] = w
      BY <1>3, <2>3
    <3> QED BY <1>1, <1>2, <3>1 DEF SenderInv
  <2>4. \A v \in Worker : reply'[v] = 1 => wrk'[v] \in {"wait", "got"}
    BY <1>2 DEF SenderInv
  <2> QED BY <1>1, <2>1, <2>2, <2>3, <2>4 DEF SenderInv
<1>7. NoOrphanWait'
  <2> SUFFICES ASSUME conn' = "open", h1' # "end", NEW w \in Worker, wrk'[w] = "wait",
                      reply'[w] # 1, HasSender(w)'
               PROVE  Served(w)'
    BY OrphanMeans
  <2>1. w # w0 /\ wrk[w] = "wait" /\ reply[w] # 1 /\ want'[w] = want[w] /\ want[w] \in Page
    BY <1>2 DEF TaskInv
  <2>2. HasSender(w)
    BY <1>1, <1>3 DEF HasSender
  <2>3. Served(w)
    BY <1>1, <2>1, <2>2, OrphanMeans
  <2> QED BY <1>1, <1>3, <2>1, <2>3 DEF Served
<1>8. TokenInv'
  <2> SUFFICES ASSUME conn' = "open", ~overlap'
               PROVE  /\ h1' \notin {"send", "end"}
                      /\ \A v, w \in Worker :
                           wrk'[v] = "wait" /\ wrk'[w] = "wait" /\ want'[v] = want'[w] => v = w
                      /\ \A p \in Page : TokenOf(p)'
    BY TokenMeans
  <2>1. /\ h1 \notin {"send", "end"}
        /\ \A v, w \in Worker : wrk[v] = "wait" /\ wrk[w] = "wait" /\ want[v] = want[w] => v = w
        /\ \A p \in Page : TokenOf(p)
    BY <1>1, TokenMeans
  <2>2. \A v, w \in Worker : wrk'[v] = "wait" /\ wrk'[w] = "wait" /\ want'[v] = want'[w] => v = w
    BY <1>2, <2>1
  <2>3. ASSUME NEW p \in Page  PROVE  TokenOf(p)'
    <3>1. TokenOf(p)
      BY <2>1
    <3>2. Owed(p) => Owed(p)'
      <4> SUFFICES ASSUME NEW v \in Worker, mem_req_lst[p] = v, Fresh(p, v)  PROVE  Owed(p)'
        BY DEF Owed
      <4>1. v # w0
        BY <1>1 DEF Fresh
      <4> QED BY <1>3, <1>4, <4>1 DEF Owed
    <3> QED BY <1>1, <3>1, <3>2 DEF TokenOf
  <2> QED BY <1>1, <2>1, <2>2, <2>3
<1> QED BY <1>6, <1>7, <1>8

LEMMA MemStep ==
  ASSUME AgentTypes, MsgInv, TaskInv, SenderInv, NoOrphanWait, TokenInv, Next
  PROVE  SenderInv' /\ NoOrphanWait' /\ TokenInv'
<1>1. CASE ServerRecv
  BY <1>1, MemServerRecv
<1>2. CASE ServerPublish \/ ServerInit \/ Break
  BY <1>2, QuietSteps
<1>3. CASE H1
  BY <1>3, QuietSteps, MemRecvMemRsp, MemUnblockSend DEF H1
<1>4. CASE H2
  BY <1>4, QuietSteps, MemH2Recv, MemH2Insert, MemH2Send DEF H2
<1>5. ASSUME NEW w \in Worker, Work(w)  PROVE  SenderInv' /\ NoOrphanWait' /\ TokenInv'
  BY <1>5, QuietSteps, MemReadMem, MemWorkerGot, MemWorkerCache DEF Work
<1> QED BY <1>1, <1>2, <1>3, <1>4, <1>5 DEF Next

-----------------------------------------------------------------------------
(* The theorems.                                                           *)

LEMMA AgentInit ==
  Init => AgentInv
<1> SUFFICES ASSUME Init  PROVE  AgentInv
  OBVIOUS
<1>1. /\ to_client = << >> /\ to_server = << >> /\ proc_tx = << >> /\ mem_req_tx = << >>
      /\ answered = << >> /\ h2_req = << >> /\ h2 = "unborn" /\ h1 = "reg"
      /\ \A w \in Worker : cur[w] = 0 /\ wrk[w] = "unborn" /\ reply[w] = 0
      /\ \A p \in Page : mem_req_lst[p] = None
  BY DEF Init
<1>2. AgentTypes
  <2>1. 0 \in 0 .. MaxTasks /\ 0 \in 0 .. MaxInit
    BY AgentAssumption
  <2> QED BY <2>1 DEF Init, AgentTypes
<1>3. MsgInv
  BY <1>1 DEF MsgInv
<1>4. TaskInv
  BY <1>1 DEF TaskInv
<1>5. SenderInv
  BY <1>1, AgentAssumption DEF SenderInv
<1>6. NoOrphanWait
  BY <1>1 DEF NoOrphanWait
<1>7. TokenInv
  BY <1>1 DEF TokenInv, Contains, Once
<1>8. PieceInv
  <2> SUFFICES ASSUME NEW k \in 1 .. MaxTasks  PROVE  Places(k) = 0 /\ issued = 0 /\ k > 0
    BY DEF PieceInv
  <2>1. InSeq(to_client, k) = 0 /\ InSeq(to_server, k) = 0 /\ InSeq(proc_tx, k) = 0
    BY <1>1, PosEmpty DEF InSeq
  <2>2. InAnswers(answered, k) = 0
    BY <1>1, PosEmpty DEF InAnswers
  <2>3. AtWork(cur, k) = 0
    <3>1. {w \in Worker : cur[w] = k} = {}
      BY <1>1
    <3> QED BY <3>1, FS_EmptySet DEF AtWork
  <2>4. GivenUp(unsent, k) = 0
    BY GivenUpFacts DEF Init
  <2> QED BY <2>1, <2>2, <2>3, <2>4, PlacesSum DEF Init
<1> QED BY <1>2, <1>3, <1>4, <1>5, <1>6, <1>7, <1>8 DEF AgentInv

LEMMA AgentStep ==
  AgentInv /\ [Next]_vars => AgentInv'
<1> SUFFICES ASSUME AgentInv, [Next]_vars  PROVE  AgentInv'
  OBVIOUS
<1>1. AgentTypes /\ MsgInv /\ TaskInv /\ SenderInv /\ NoOrphanWait /\ TokenInv /\ PieceInv
  BY DEF AgentInv
<1>2. CASE Next
  BY <1>1, <1>2, TypesStep, MsgStep, TaskStep, MemStep, PieceStep DEF AgentInv
<1>3. CASE UNCHANGED vars
  <2>1. AgentTypes' /\ MsgInv' /\ TaskInv'
    BY <1>1, <1>3 DEF vars, AgentTypes, MsgInv, TaskInv
  <2>2. Quiet /\ NetSame
    BY <1>3 DEF vars, Quiet, NetSame
  <2>3. SenderInv' /\ NoOrphanWait' /\ TokenInv'
    BY <1>1, <1>3, <2>2, QuietKeeps DEF vars
  <2>4. PieceInv'
    BY <1>1, <1>3, PiecesAlone DEF vars
  <2> QED BY <2>1, <2>3, <2>4 DEF AgentInv
<1> QED BY <1>2, <1>3

\* The decoding client's inductive invariant: where its tasks are, that each reply
\* channel is in one place, that each request for memory has one token on its way, and
\* that each piece of trace is in one place.
THEOREM AgentInvariant == Spec => []AgentInv
BY AgentInit, AgentStep, PTL DEF Spec

\* Whatever the number of workers and the order of their steps, h1 and the workers
\* never decode or answer a piece twice, and lose none while the connection is up
\* except one whose DataRsp is too long for a frame (client_proc.rs, proc_data).
THEOREM PiecesInOnePlace == Spec => []PieceInOnePlace
<1>1. AgentInv => PieceInOnePlace
  <2> SUFFICES ASSUME AgentInv, NEW k \in 1 .. issued
               PROVE  Places(k) <= 1 /\ (conn = "open" => Places(k) = 1)
    BY DEF PieceInOnePlace
  <2>1. k \in 1 .. MaxTasks /\ k <= issued
    BY AgentAssumption DEF AgentInv, AgentTypes
  <2> QED BY <2>1 DEF AgentInv, PieceInv
<1> QED BY <1>1, AgentInvariant, PTL

\* A worker that waits in read_mem while the connection and h1 live is owed something:
\* its answer, or the error that its sender was dropped from mem_req_lst.
THEOREM NoWorkerOrphaned == Spec => []NoOrphanWait
<1>1. AgentInv => NoOrphanWait
  BY DEF AgentInv
<1> QED BY <1>1, AgentInvariant, PTL

\* h1 gives up a connection that works only after two workers waited for the same page
\* at once: the second insert into mem_req_lst dropped the first one's sender.
THEOREM OverlapOnlyDisconnects == Spec => []OnlyOverlapDisconnects
<1>1. AgentInv => OnlyOverlapDisconnects
  BY DEF AgentInv, TokenInv, OnlyOverlapDisconnects
<1> QED BY <1>1, AgentInvariant, PTL

\* The types, for every state of the client: a reply channel, bounded(1), never holds
\* more than one answer.
THEOREM AgentTypeCorrect == Spec => []TypeOK
<1> DEFINE FlagOK == overlap \in BOOLEAN
<1>1. Init => FlagOK
  BY Zenon DEF Init
<1>2. FlagOK /\ [Next]_vars => FlagOK'
  <2> SUFFICES ASSUME overlap \in BOOLEAN, [Next]_vars  PROVE  overlap' \in BOOLEAN
    OBVIOUS
  <2>1. CASE ServerRecv \/ ServerPublish \/ ServerInit \/ Break
    BY <2>1, Zenon DEF ServerRecv, ServerPublish, ServerInit, Break
  <2>2. CASE H1
    BY <2>2, Zenon DEF H1, Register, RecvCtrl, RecvMemRsp, UnblockSend, RecvClosed
  <2>3. CASE H2
    BY <2>3, Zenon DEF H2, H2Start, H2Recv, H2Insert, H2Send, H2End
  <2>4. ASSUME NEW w \in Worker, Work(w)  PROVE  overlap' \in BOOLEAN
    <3>1. ASSUME NEW p \in Page, ReadMem(w, p)  PROVE  overlap' \in BOOLEAN
      BY <3>1, Zenon DEF ReadMem
    <3>2. CASE WorkerStart(w) \/ WorkerRecv(w) \/ WorkerGot(w) \/ WorkerCache(w)
      BY <3>2, Zenon DEF WorkerStart, WorkerRecv, WorkerGot, WorkerCache
    <3>3. CASE WorkerDecoded(w) \/ WorkerRespond(w) \/ WorkerEnd(w)
      BY <3>3, Zenon DEF WorkerDecoded, WorkerRespond, WorkerEnd
    <3> QED BY <2>4, <3>1, <3>2, <3>3, Zenon DEF Work
  <2>5. CASE UNCHANGED vars
    BY <2>5, Zenon DEF vars
  <2> QED BY <2>1, <2>2, <2>3, <2>4, <2>5, Zenon DEF Next
<1>3. Spec => []FlagOK
  BY <1>1, <1>2, PTL DEF Spec
<1>4. AgentInv /\ FlagOK => TypeOK
  BY Zenon DEF AgentInv, AgentTypes, TypeOK
<1> HIDE DEF FlagOK
<1> QED BY <1>3, <1>4, AgentInvariant, PTL
=============================================================================
