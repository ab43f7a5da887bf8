-------------------------- MODULE ClientPoolProofs --------------------------
(***************************************************************************)
(* Proofs about ClientPool, for any number of clients, pieces and runtime  *)
(* threads and any length of the clients' queues.  The lemmas hold for     *)
(* whatever other states a user of the pool gives owner and listener, so   *)
(* that ServerProofs uses them too.                                        *)
(***************************************************************************)
EXTENDS ClientPool, FiniteSetTheorems, TLAPS

Message == {RegReq, MemReq} \cup {DataRsp(k) : k \in Task}

\* TypeOK without owner, listener and chosen.
PoolTypes ==
  /\ len \in 0 .. ClientLimit + 1
  /\ taken \subseteq 1 .. len
  /\ state \in [Client -> {"Connected", "Activate", "DisConnect"}]
  /\ h \in [Client -> {"unborn", "run", "end"}]
  /\ h2 \in [Client -> {"unborn", "ready", "recv", "send", "end"}]
  /\ sending \in [Client -> Task \cup {0}]
  /\ tx_proc_data \in [Client -> Seq(Task)]
  /\ \A c \in Client : Len(tx_proc_data[c]) <= Cap
  /\ rst_data \in [Client -> SUBSET Task]
  /\ idx \in Client /\ cur \in Task \cup {0}
  /\ started \in 0 .. MaxTasks
  /\ dropped \subseteq Task /\ refused \subseteq Task /\ fetched \subseteq Task
  /\ peer \in [Client -> {"absent", "open", "closed"}]
  /\ inbox \in [Client -> Seq(Message)]
  /\ held \in [Client -> SUBSET Task]

\* Where the tasks are: h2 sends a piece, decode holds one, decode and get_result are
\* at an entry of the list, the clients in the list have connected and only they have
\* tasks, and a pool that was stopped has no connection and gets none.
StepsInv ==
  /\ \A c \in Client : h2[c] = "send" <=> sending[c] # 0
  /\ owner \in {"scan", "publish"} <=> cur # 0
  /\ cur <= started
  /\ owner = "scan" => ~chosen
  /\ owner \in {"publish", "fetch", "reap"} => idx <= len
  /\ owner = "result" => len = 0 \/ idx <= len
  /\ \A c \in Client : h2[c] # "unborn" => c <= len
  /\ \A c \in Client : c <= len => peer[c] # "absent"
  /\ owner = "stopped" =>
       listener = "stopped" /\ \A c \in Client : c <= len => peer[c] = "closed"

\* A registration is a client's first message, and is handled once.
RegInv ==
  \A c \in Client :
    /\ \A n \in 1 .. Len(inbox[c]) : inbox[c][n] = RegReq => n = 1 /\ state[c] # "Activate"
    /\ peer[c] = "absent" => state[c] # "Activate" /\ inbox[c] = << >>

\* What is_full saw of the chosen client.
ChosenInv == owner = "publish" /\ chosen => state[idx] = "Activate" /\ Len(tx_proc_data[idx]) < Cap

\* An h2 task ends with its connection or over a refused frame.
LossInv == \A c \in Client : h2[c] = "end" => peer[c] = "closed" \/ refused # {}

\* PanicOnlyAfterLoss, of a pool that was started.
PanicInv == listener # "unborn" => PanicOnlyAfterLoss

PoolInv == PoolTypes /\ StepsInv /\ RegInv /\ ChosenInv /\ LossInv /\ PanicInv

\* The places a piece can be in: of a client, of decode (spot 0), or one of its ends.
Place == {"queue", "inbox", "sending", "held", "rst_data", "cur", "dropped", "fetched"}
Spot == Client \cup {0}

At(k, p, c) ==
  \/ p = "queue" /\ c \in Client /\ \E n \in 1 .. Len(tx_proc_data[c]) : tx_proc_data[c][n] = k
  \/ p = "inbox" /\ c \in Client /\ \E n \in 1 .. Len(inbox[c]) : inbox[c][n] = DataRsp(k)
  \/ p = "sending" /\ c \in Client /\ sending[c] = k
  \/ p = "held" /\ c \in Client /\ k \in held[c]
  \/ p = "rst_data" /\ c \in Client /\ k \in rst_data[c]
  \/ p = "cur" /\ c = 0 /\ cur = k
  \/ p = "dropped" /\ c = 0 /\ k \in dropped
  \/ p = "fetched" /\ c = 0 /\ k \in fetched

\* No queue and no connection holds anything twice.
Distinct ==
  \A c \in Client :
    /\ \A n, m \in 1 .. Len(tx_proc_data[c]) : tx_proc_data[c][n] = tx_proc_data[c][m] => n = m
    /\ \A n, m \in 1 .. Len(inbox[c]) : inbox[c][n] = inbox[c][m] => n = m

\* A piece is in one place.
Unique ==
  \A k \in Task : \A p, q \in Place : \A c, d \in Spot :
    At(k, p, c) /\ At(k, q, d) => p = q /\ c = d

\* A piece not handed to decode yet is nowhere, and a client that has not connected
\* has none.
Fresh ==
  \A k \in Task : \A p \in Place : \A c \in Spot :
    At(k, p, c) => k <= started /\ (c \in Client => peer[c] # "absent")

NoLoss == (\A c \in Client : peer[c] # "closed") /\ refused = {}

\* Without a loss every piece is somewhere.
Somewhere == NoLoss => \A k \in 1 .. started : \E p \in Place : \E c \in Spot : At(k, p, c)

FateInv == Distinct /\ Unique /\ Fresh /\ Somewhere

OwnerTypes ==
  /\ listener \in {"listen", "stopped"}
  /\ owner \in {"recv", "scan", "publish", "result", "fetch", "reap", "panic", "stopped"}

-----------------------------------------------------------------------------
LEMMA Messages ==
  /\ RegReq.t = "RegReq" /\ RegReq \in Message
  /\ MemReq.t = "MemReq" /\ MemReq \in Message /\ MemReq # RegReq
  /\ \A k : /\ DataRsp(k).t = "DataRsp" /\ DataRsp(k).task = k
            /\ DataRsp(k) # RegReq /\ DataRsp(k) # MemReq
  /\ \A k \in Task : DataRsp(k) \in Message
  /\ \A m \in Message : \/ m = RegReq \/ m = MemReq
                        \/ m.t = "DataRsp" /\ m.task \in Task /\ m = DataRsp(m.task)
<1>1. /\ RegReq.t = "RegReq" /\ RegReq \in Message
      /\ MemReq.t = "MemReq" /\ MemReq \in Message
  BY DEF Message, RegReq, MemReq
<1>2. \A k : DataRsp(k).t = "DataRsp" /\ DataRsp(k).task = k
  BY DEF DataRsp
<1>3. MemReq # RegReq /\ \A k : DataRsp(k) # RegReq /\ DataRsp(k) # MemReq
  BY <1>1, <1>2
<1>4. \A k \in Task : DataRsp(k) \in Message
  BY DEF Message
<1>5. ASSUME NEW m \in Message, m # RegReq, m # MemReq
      PROVE  m.t = "DataRsp" /\ m.task \in Task /\ m = DataRsp(m.task)
  <2>1. PICK k \in Task : m = DataRsp(k)
    BY <1>5 DEF Message
  <2> QED BY <2>1, <1>2
<1> QED BY <1>1, <1>2, <1>3, <1>4, <1>5

LEMMA TakeFirst ==
  ASSUME NEW S, NEW s \in Seq(S), s # << >>
  PROVE  /\ Len(s) \in Nat \ {0}
         /\ Head(s) = s[1] /\ Head(s) \in S
         /\ Tail(s) \in Seq(S)
         /\ Len(Tail(s)) = Len(s) - 1
         /\ \A i \in 1 .. Len(s) - 1 : Tail(s)[i] = s[i + 1]
OBVIOUS

LEMMA PutLast ==
  ASSUME NEW S, NEW s \in Seq(S), NEW e \in S
  PROVE  /\ Len(s) \in Nat
         /\ Append(s, e) \in Seq(S)
         /\ Len(Append(s, e)) = Len(s) + 1
         /\ \A i \in 1 .. Len(s) : Append(s, e)[i] = s[i]
         /\ Append(s, e)[Len(s) + 1] = e
OBVIOUS

LEMMA KeepPrefix ==
  ASSUME NEW S, NEW s \in Seq(S), NEW n \in 0 .. Len(s)
  PROVE  /\ SubSeq(s, 1, n) \in Seq(S)
         /\ Len(SubSeq(s, 1, n)) = n
         /\ \A i \in 1 .. n : SubSeq(s, 1, n)[i] = s[i]
OBVIOUS

-----------------------------------------------------------------------------
LEMMA EmptyPool ==
  ASSUME Empty, owner \notin {"scan", "publish", "fetch", "reap", "panic", "stopped"}
  PROVE  PoolInv
<1> USE PoolAssumption
<1>1. PoolTypes
  BY DEF Empty, PoolTypes, Client, Task
<1>2. StepsInv /\ RegInv /\ ChosenInv /\ LossInv /\ PanicInv
  BY DEF Empty, StepsInv, RegInv, ChosenInv, LossInv, PanicInv, PanicOnlyAfterLoss, Client
<1> QED BY <1>1, <1>2 DEF PoolInv

LEMMA PeerConnectKeeps ==
  ASSUME PoolInv, NEW c \in Client, PeerConnect(c)
  PROVE  PoolInv'
<1> USE DEF agents, pool, PoolInv
<1>1. << RegReq >> \in Seq(Message) /\ Len(<< RegReq >>) = 1 /\ << RegReq >>[1] = RegReq
  BY Messages
<1>2. /\ listener = "listen" /\ peer[c] = "absent" /\ peer' = [peer EXCEPT ![c] = "open"]
      /\ inbox' = [inbox EXCEPT ![c] = << RegReq >>]
      /\ UNCHANGED <<listener, len, taken, agents, pool, held>>
  BY DEF PeerConnect
<1>3. PoolTypes'
  BY <1>1, <1>2 DEF PoolTypes
<1>4. StepsInv' /\ ChosenInv' /\ LossInv' /\ PanicInv'
  BY <1>2 DEF PoolTypes, StepsInv, ChosenInv, LossInv, PanicInv, PanicOnlyAfterLoss, Client
<1>5. RegInv'
  BY <1>1, <1>2 DEF PoolTypes, RegInv
<1> QED BY <1>3, <1>4, <1>5

LEMMA PeerAnswerKeeps ==
  ASSUME PoolInv, NEW c \in Client, PeerAnswer(c)
  PROVE  PoolInv'
<1> USE DEF agents, pool, PoolInv
<1>1. PICK k \in held[c] : /\ held' = [held EXCEPT ![c] = @ \ {k}]
                           /\ inbox' = [inbox EXCEPT ![c] = Append(@, DataRsp(k))]
  BY DEF PeerAnswer
<1>2. peer[c] = "open" /\ UNCHANGED <<listener, len, taken, agents, pool, peer>>
  BY DEF PeerAnswer
<1>3. k \in Task /\ DataRsp(k) \in Message /\ DataRsp(k) # RegReq
  BY Messages DEF PoolTypes
<1>4. /\ Len(inbox[c]) \in Nat /\ Append(inbox[c], DataRsp(k)) \in Seq(Message)
      /\ Len(Append(inbox[c], DataRsp(k))) = Len(inbox[c]) + 1
      /\ \A i \in 1 .. Len(inbox[c]) : Append(inbox[c], DataRsp(k))[i] = inbox[c][i]
      /\ Append(inbox[c], DataRsp(k))[Len(inbox[c]) + 1] = DataRsp(k)
  BY <1>3, PutLast DEF PoolTypes
<1>5. PoolTypes'
  BY <1>1, <1>2, <1>4 DEF PoolTypes
<1>6. StepsInv' /\ ChosenInv' /\ LossInv' /\ PanicInv'
  BY <1>1, <1>2 DEF StepsInv, ChosenInv, LossInv, PanicInv, PanicOnlyAfterLoss
<1>7. RegInv'
  BY <1>1, <1>2, <1>3, <1>4 DEF PoolTypes, RegInv
<1> QED BY <1>5, <1>6, <1>7

LEMMA PeerAskKeeps ==
  ASSUME PoolInv, NEW c \in Client, PeerAsk(c)
  PROVE  PoolInv'
<1> USE DEF agents, pool, PoolInv
<1>1. << MemReq >> \in Seq(Message) /\ Len(<< MemReq >>) = 1 /\ << MemReq >>[1] # RegReq
  BY Messages
<1>2. /\ peer[c] = "open" /\ inbox' = [inbox EXCEPT ![c] = << MemReq >>]
      /\ UNCHANGED <<listener, len, taken, agents, pool, peer, held>>
  BY DEF PeerAsk
<1>3. PoolTypes'
  BY <1>1, <1>2 DEF PoolTypes
<1>4. StepsInv' /\ ChosenInv' /\ LossInv' /\ PanicInv'
  BY <1>2 DEF StepsInv, ChosenInv, LossInv, PanicInv, PanicOnlyAfterLoss
<1>5. RegInv'
  BY <1>1, <1>2 DEF PoolTypes, RegInv
<1> QED BY <1>3, <1>4, <1>5

LEMMA PeerCloseKeeps ==
  ASSUME PoolInv, NEW c \in Client, PeerClose(c)
  PROVE  PoolInv'
<1> USE DEF agents, pool, PoolInv
<1>1. PICK n \in 0 .. Len(inbox[c]) : inbox' = [inbox EXCEPT ![c] = SubSeq(@, 1, n)]
  BY DEF PeerClose
<1>2. /\ peer[c] = "open" /\ peer' = [peer EXCEPT ![c] = "closed"]
      /\ held' = [held EXCEPT ![c] = {}]
      /\ UNCHANGED <<listener, len, taken, agents, pool>>
  BY DEF PeerClose
<1>3. /\ SubSeq(inbox[c], 1, n) \in Seq(Message) /\ Len(SubSeq(inbox[c], 1, n)) = n
      /\ \A i \in 1 .. n : SubSeq(inbox[c], 1, n)[i] = inbox[c][i]
      /\ Len(inbox[c]) \in Nat
  BY KeepPrefix DEF PoolTypes
<1>4. PoolTypes'
  BY <1>1, <1>2, <1>3 DEF PoolTypes
<1>5. StepsInv' /\ ChosenInv' /\ LossInv' /\ PanicInv'
  BY <1>2 DEF PoolTypes, StepsInv, ChosenInv, LossInv, PanicInv, PanicOnlyAfterLoss, Client
<1>6. RegInv'
  BY <1>1, <1>2, <1>3 DEF PoolTypes, RegInv
<1> QED BY <1>4, <1>5, <1>6

LEMMA AcceptKeeps ==
  ASSUME PoolInv, Accept
  PROVE  PoolInv'
<1> USE PoolAssumption DEF pool, net, PoolInv, Accept, Locked
<1>1. len + 1 \in Client
  BY DEF PoolTypes, Client
<1>2. PoolTypes'
  BY <1>1 DEF PoolTypes, Client
<1>3. StepsInv'
  BY <1>1 DEF PoolTypes, StepsInv, Client
<1>4. RegInv' /\ ChosenInv' /\ LossInv'
  BY <1>1 DEF PoolTypes, RegInv, ChosenInv, LossInv
<1>5. PanicInv'
  BY <1>1 DEF PoolTypes, StepsInv, PanicInv, PanicOnlyAfterLoss, Client
<1> QED BY <1>2, <1>3, <1>4, <1>5

\* What once explains a panic explains it for good.
LEMMA LossLasts ==
  ASSUME PoolTypes, PanicInv, owner' = owner, len' = len, listener' = listener,
         \A c \in Client : h2[c] = "end" => h2'[c] = "end",
         \A c \in Client : peer[c] = "closed" => peer'[c] = "closed",
         refused \subseteq refused'
  PROVE  PanicInv'
<1> SUFFICES ASSUME owner = "panic", listener # "unborn" PROVE PanicInv'
  BY DEF PanicInv, PanicOnlyAfterLoss
<1>1. PICK c \in 1 .. len : h2[c] = "end" /\ (peer[c] = "closed" \/ refused # {})
  BY DEF PanicInv, PanicOnlyAfterLoss
<1>2. c \in Client
  BY <1>1, PoolAssumption DEF PoolTypes, Client
<1>3. h2'[c] = "end" /\ (peer'[c] = "closed" \/ refused' # {})
  BY <1>1, <1>2
<1> QED BY <1>1, <1>3 DEF PanicInv, PanicOnlyAfterLoss

LEMMA HRecvKeeps ==
  ASSUME PoolInv, NEW c \in Client, HRecv(c)
  PROVE  PoolInv'
<1> USE DEF PoolInv, pool
<1> DEFINE m == Head(inbox[c])
<1>1. /\ inbox[c] \in Seq(Message) /\ inbox[c] # << >>
      /\ inbox' = [inbox EXCEPT ![c] = Tail(@)]
      /\ UNCHANGED <<listener, len, taken, h, h2, sending, tx_proc_data, refused, pool, peer,
                     held>>
  BY DEF HRecv, PoolTypes
<1>2. /\ Len(inbox[c]) \in Nat \ {0} /\ m = inbox[c][1] /\ m \in Message
      /\ Tail(inbox[c]) \in Seq(Message) /\ Len(Tail(inbox[c])) = Len(inbox[c]) - 1
      /\ \A i \in 1 .. Len(inbox[c]) - 1 : Tail(inbox[c])[i] = inbox[c][i + 1]
  BY <1>1, TakeFirst
<1>3. \/ m.t = "RegReq" /\ state' = [state EXCEPT ![c] = "Activate"] /\ UNCHANGED rst_data
      \/ UNCHANGED <<state, rst_data>>
      \/ /\ m.t = "DataRsp" /\ rst_data' = [rst_data EXCEPT ![c] = @ \cup {m.task}]
         /\ m.task \in Task /\ UNCHANGED state
  BY <1>2, Messages DEF HRecv, Activated
<1>4. PoolTypes'
  <2>1. inbox' \in [Client -> Seq(Message)]
    BY <1>1, <1>2 DEF PoolTypes
  <2>2. state' \in [Client -> {"Connected", "Activate", "DisConnect"}]
    BY <1>3 DEF PoolTypes
  <2>3. rst_data' \in [Client -> SUBSET Task]
    <3> HIDE DEF m
    <3> DEFINE R == rst_data[c] \cup {m.task}
    <3>1. m.task \in Task => R \in SUBSET Task
      BY DEF PoolTypes
    <3>2. \/ UNCHANGED rst_data
          \/ m.task \in Task /\ rst_data' = [rst_data EXCEPT ![c] = R]
      BY <1>3
    <3> HIDE DEF R
    <3> QED BY <3>1, <3>2 DEF PoolTypes
  <2> QED BY <1>1, <2>1, <2>2, <2>3 DEF PoolTypes
<1>5. StepsInv' /\ LossInv' /\ PanicInv'
  BY <1>1 DEF StepsInv, LossInv, PanicInv, PanicOnlyAfterLoss
<1>6. ChosenInv'
  BY <1>1, <1>3 DEF ChosenInv, PoolTypes
<1>7. m.t = "RegReq" => m = RegReq /\ peer[c] # "absent"
  BY <1>1, <1>2, Messages DEF RegInv
<1>8. RegInv'
  BY <1>1, <1>2, <1>3, <1>7 DEF RegInv, PoolTypes
<1> QED BY <1>4, <1>5, <1>6, <1>8

LEMMA HEndKeeps ==
  ASSUME PoolInv, NEW c \in Client, HEnd(c)
  PROVE  PoolInv'
<1> USE DEF PoolInv, pool, net, HEnd, StateAtEnd
<1>1. PoolTypes'
  BY DEF PoolTypes
<1>2. StepsInv' /\ RegInv' /\ ChosenInv' /\ LossInv' /\ PanicInv'
  BY DEF StepsInv, RegInv, ChosenInv, LossInv, PanicInv, PanicOnlyAfterLoss
<1> QED BY <1>1, <1>2

LEMMA H2StartKeeps ==
  ASSUME PoolInv, NEW c \in Client, H2Start(c)
  PROVE  PoolInv'
<1> USE DEF PoolInv, pool, net, H2Start
<1>1. PoolTypes'
  BY DEF PoolTypes
<1>2. StepsInv' /\ RegInv' /\ ChosenInv' /\ LossInv' /\ PanicInv'
  BY DEF PoolTypes, StepsInv, RegInv, ChosenInv, LossInv, PanicInv, PanicOnlyAfterLoss, Client
<1> QED BY <1>1, <1>2

LEMMA H2RecvKeeps ==
  ASSUME PoolInv, NEW c \in Client, H2Recv(c)
  PROVE  PoolInv'
<1> USE PoolAssumption DEF PoolInv, pool, net
<1>1. /\ h2[c] = "recv" /\ h2' = [h2 EXCEPT ![c] = "send"]
      /\ sending' = [sending EXCEPT ![c] = Head(tx_proc_data[c])]
      /\ tx_proc_data' = [tx_proc_data EXCEPT ![c] = Tail(@)]
      /\ UNCHANGED <<listener, len, taken, state, h, rst_data, refused, pool, net>>
  BY DEF H2Recv, Popped
<1>2. /\ Head(tx_proc_data[c]) \in Task /\ Head(tx_proc_data[c]) # 0
      /\ Tail(tx_proc_data[c]) \in Seq(Task)
      /\ Len(Tail(tx_proc_data[c])) = Len(tx_proc_data[c]) - 1
      /\ Len(tx_proc_data[c]) \in Nat
  BY TakeFirst DEF H2Recv, PoolTypes, Task
<1>3. PoolTypes'
  BY <1>1, <1>2 DEF PoolTypes
<1>4. StepsInv'
  BY <1>1, <1>2 DEF PoolTypes, StepsInv
<1>5. RegInv' /\ ChosenInv' /\ LossInv'
  BY <1>1, <1>2 DEF PoolTypes, RegInv, ChosenInv, LossInv
<1>6. PanicInv'
  BY <1>1, LossLasts DEF PoolTypes
<1> QED BY <1>3, <1>4, <1>5, <1>6

LEMMA H2SendKeeps ==
  ASSUME PoolInv, NEW c \in Client, H2Send(c)
  PROVE  PoolInv'
<1> USE PoolAssumption DEF PoolInv, pool
<1>1. /\ h2[c] = "send" /\ sending[c] \in Task /\ sending' = [sending EXCEPT ![c] = 0]
      /\ UNCHANGED <<listener, len, taken, h, rst_data, pool, peer, inbox>>
  BY DEF H2Send, PoolTypes, StepsInv
<1>2. CASE /\ held' = [held EXCEPT ![c] = IF peer[c] = "open" THEN @ \cup {sending[c]} ELSE @]
           /\ h2' = [h2 EXCEPT ![c] = "recv"]
           /\ UNCHANGED <<tx_proc_data, state, refused>>
  <2>1. PoolTypes'
    BY <1>1, <1>2 DEF PoolTypes
  <2>2. StepsInv' /\ RegInv' /\ ChosenInv' /\ LossInv'
    BY <1>1, <1>2 DEF PoolTypes, StepsInv, RegInv, ChosenInv, LossInv
  <2>3. PanicInv'
    BY <1>1, <1>2, LossLasts DEF PoolTypes
  <2> QED BY <2>1, <2>2, <2>3
<1>3. CASE /\ peer[c] = "closed" \/ sending[c] \in MaybeTooLong
           /\ h2' = [h2 EXCEPT ![c] = "end"]
           /\ tx_proc_data' = [tx_proc_data EXCEPT ![c] = << >>]
           /\ state' = StateAtEnd(c)
           /\ refused' = refused \cup (MaybeTooLong \cap {sending[c]})
           /\ UNCHANGED held
  <2>1. PoolTypes'
    BY <1>1, <1>3 DEF PoolTypes, StateAtEnd
  <2>2. StepsInv' /\ RegInv' /\ ChosenInv'
    BY <1>1, <1>3 DEF PoolTypes, StepsInv, RegInv, ChosenInv, StateAtEnd
  <2>3. LossInv'
    BY <1>1, <1>3 DEF PoolTypes, LossInv
  <2>4. PanicInv'
    BY <1>1, <1>3 DEF PoolTypes, PanicInv, PanicOnlyAfterLoss, Client
  <2> QED BY <2>1, <2>2, <2>3, <2>4
<1> QED BY <1>2, <1>3 DEF H2Send

LEMMA DecodeKeeps ==
  ASSUME PoolInv, Decode
  PROVE  PoolInv'
<1> USE PoolAssumption DEF PoolInv, agents, net, Decode
<1>1. PoolTypes'
  BY DEF PoolTypes, Client, Task
<1>2. StepsInv'
  BY DEF PoolTypes, StepsInv
<1>3. RegInv' /\ ChosenInv' /\ LossInv' /\ PanicInv'
  BY DEF PoolTypes, RegInv, ChosenInv, LossInv, PanicInv, PanicOnlyAfterLoss
<1> QED BY <1>1, <1>2, <1>3

LEMMA ScanKeeps ==
  ASSUME PoolInv, Scan
  PROVE  PoolInv'
<1> USE PoolAssumption DEF PoolInv, agents, net
<1>1. owner = "scan" /\ cur \in Task /\ UNCHANGED <<listener, len, taken, agents, started, fetched, net>>
  BY DEF Scan, PoolTypes, StepsInv
<1>2. \/ /\ idx <= len /\ ~IsFull(idx) /\ owner' = "publish" /\ chosen' = TRUE
         /\ UNCHANGED <<idx, cur, dropped>>
      \/ /\ idx < len /\ idx' = idx + 1 /\ UNCHANGED <<owner, chosen, cur, dropped>>
      \/ /\ idx = len /\ owner' = "publish" /\ idx' = 1 /\ UNCHANGED <<chosen, cur, dropped>>
      \/ /\ owner' = "recv" /\ dropped' = dropped \cup {cur} /\ cur' = 0
         /\ UNCHANGED <<idx, chosen>>
  BY DEF Scan
<1>3. PoolTypes'
  BY <1>1, <1>2 DEF PoolTypes, Client
<1>4. StepsInv'
  BY <1>1, <1>2 DEF PoolTypes, StepsInv, Client, Task
<1>5. RegInv' /\ LossInv' /\ PanicInv'
  BY <1>1, <1>2 DEF RegInv, LossInv, PanicInv, PanicOnlyAfterLoss
<1>6. ChosenInv'
  <2>1. CASE idx <= len /\ ~IsFull(idx) /\ UNCHANGED idx
    BY <1>1, <2>1 DEF ChosenInv, IsFull, PoolTypes
  <2>2. CASE UNCHANGED chosen
    <3>1. ~chosen'
      BY <1>1, <2>2 DEF StepsInv
    <3> QED BY <3>1 DEF ChosenInv
  <2>3. CASE owner' = "recv"
    BY <2>3 DEF ChosenInv
  <2> QED BY <1>2, <2>1, <2>2, <2>3
<1> QED BY <1>3, <1>4, <1>5, <1>6

LEMMA PublishKeeps ==
  ASSUME PoolInv, Publish
  PROVE  PoolInv'
<1> USE PoolAssumption DEF PoolInv, net
<1>1. /\ owner = "publish" /\ cur \in Task /\ cur' = 0 /\ idx' = 1 /\ chosen' = FALSE
      /\ idx \in 1 .. len
      /\ UNCHANGED <<listener, len, taken, state, h, h2, sending, rst_data, refused, started,
                     dropped, fetched, net>>
  BY DEF Publish, PoolTypes, StepsInv, Client
<1>2. \/ h2[idx] = "end" /\ owner' = "panic" /\ UNCHANGED tx_proc_data
      \/ /\ Len(tx_proc_data[idx]) < Cap /\ owner' = "recv"
         /\ tx_proc_data' = [tx_proc_data EXCEPT ![idx] = Append(@, cur)]
  BY DEF Publish, SendFails, HasRoom
<1>3. /\ Append(tx_proc_data[idx], cur) \in Seq(Task)
      /\ Len(Append(tx_proc_data[idx], cur)) = Len(tx_proc_data[idx]) + 1
      /\ Len(tx_proc_data[idx]) \in Nat
  BY <1>1, PutLast DEF PoolTypes
<1>4. PoolTypes'
  <2>1. tx_proc_data' \in [Client -> Seq(Task)] /\ \A c \in Client : Len(tx_proc_data'[c]) <= Cap
    <3> DEFINE s == Append(tx_proc_data[idx], cur)
    <3>1. s \in Seq(Task) /\ (Len(tx_proc_data[idx]) < Cap => Len(s) <= Cap) /\ idx \in Client
      BY <1>3 DEF PoolTypes
    <3>2. \/ UNCHANGED tx_proc_data
          \/ Len(tx_proc_data[idx]) < Cap /\ tx_proc_data' = [tx_proc_data EXCEPT ![idx] = s]
      BY <1>2
    <3> HIDE DEF s
    <3> QED BY <3>1, <3>2 DEF PoolTypes
  <2> QED BY <1>1, <2>1 DEF PoolTypes, Client
<1>5. StepsInv' /\ RegInv' /\ ChosenInv' /\ LossInv'
  BY <1>1, <1>2 DEF PoolTypes, StepsInv, RegInv, ChosenInv, LossInv
<1>6. PanicInv'
  BY <1>1, <1>2 DEF PoolTypes, LossInv, PanicInv, PanicOnlyAfterLoss, Client
<1> QED BY <1>4, <1>5, <1>6

LEMMA CallGetResultKeeps ==
  ASSUME PoolInv, CallGetResult
  PROVE  PoolInv'
<1> USE PoolAssumption DEF PoolInv, agents, net, CallGetResult
<1>1. PoolTypes'
  BY DEF PoolTypes, Client
<1>2. StepsInv' /\ RegInv' /\ ChosenInv' /\ LossInv' /\ PanicInv'
  BY DEF PoolTypes, StepsInv, RegInv, ChosenInv, LossInv, PanicInv, PanicOnlyAfterLoss
<1> QED BY <1>1, <1>2

\* get_result goes on to an entry of the list, or returns.
LEMMA NextEntryIn ==
  ASSUME PoolTypes, StepsInv, NextEntry
  PROVE  /\ idx' \in Client
         /\ owner' = "recv" \/ (owner' = "result" /\ idx' <= len)
BY PoolAssumption DEF PoolTypes, NextEntry, Client

LEMMA AskHasResultKeeps ==
  ASSUME PoolInv, AskHasResult
  PROVE  PoolInv'
<1> USE DEF PoolInv, agents, net
<1>1. /\ owner = "result"
      /\ UNCHANGED <<listener, len, taken, agents, chosen, cur, started, dropped, fetched, net>>
  BY DEF AskHasResult
<1>2. /\ idx' \in Client
      /\ \/ owner' = "recv"
         \/ owner' \in {"result", "fetch", "reap"} /\ idx' <= len
  BY NextEntryIn, PoolAssumption DEF AskHasResult, PoolTypes, StepsInv
<1>3. PoolTypes'
  BY <1>1, <1>2 DEF PoolTypes
<1>4. StepsInv'
  BY <1>1, <1>2 DEF StepsInv
<1>5. RegInv' /\ ChosenInv' /\ LossInv' /\ PanicInv'
  BY <1>1, <1>2 DEF RegInv, ChosenInv, LossInv, PanicInv, PanicOnlyAfterLoss
<1> QED BY <1>3, <1>4, <1>5

LEMMA FetchResultKeeps ==
  ASSUME PoolInv, FetchResult
  PROVE  PoolInv'
<1> USE DEF PoolInv, net, FetchResult
<1>1. PoolTypes'
  BY DEF PoolTypes
<1>2. StepsInv' /\ RegInv' /\ ChosenInv' /\ LossInv' /\ PanicInv'
  BY DEF StepsInv, RegInv, ChosenInv, LossInv, PanicInv, PanicOnlyAfterLoss
<1> QED BY <1>1, <1>2

LEMMA ReapKeeps ==
  ASSUME PoolInv, Reap
  PROVE  PoolInv'
<1> USE DEF PoolInv, agents, net
<1>1. /\ owner = "reap" /\ taken' \in {taken, taken \cup {idx}}
      /\ UNCHANGED <<listener, len, agents, chosen, cur, started, dropped, fetched, net>>
  BY DEF Reap
<1>2. idx' \in Client /\ (owner' = "recv" \/ (owner' = "result" /\ idx' <= len))
  BY NextEntryIn DEF Reap
<1>3. taken' \subseteq 1 .. len
  BY <1>1 DEF PoolTypes, StepsInv, Client
<1>4. PoolTypes'
  BY <1>1, <1>2, <1>3 DEF PoolTypes
<1>5. StepsInv'
  BY <1>1, <1>2 DEF StepsInv
<1>6. RegInv' /\ ChosenInv' /\ LossInv' /\ PanicInv'
  BY <1>1, <1>2 DEF RegInv, ChosenInv, LossInv, PanicInv, PanicOnlyAfterLoss
<1> QED BY <1>4, <1>5, <1>6

LEMMA StopKeeps ==
  ASSUME PoolInv, Stop
  PROVE  PoolInv'
<1> USE PoolAssumption DEF PoolInv, Stop
<1>1. PoolTypes'
  BY DEF PoolTypes
<1>2. StepsInv' /\ RegInv' /\ ChosenInv'
  BY DEF PoolTypes, StepsInv, RegInv, ChosenInv
<1>3. LossInv' /\ PanicInv'
  BY DEF PoolTypes, StepsInv, LossInv, PanicInv, PanicOnlyAfterLoss
<1> QED BY <1>1, <1>2, <1>3

\* A pool that was stopped has lost its connections, so that the end of an h2 it left
\* behind needs no other cause.
LEMMA H2CancelKeeps ==
  ASSUME PoolInv, NEW c \in Client, H2Cancel(c)
  PROVE  PoolInv' /\ peer[c] = "closed"
<1> USE PoolAssumption DEF PoolInv, pool, net
<1>1. /\ owner = "stopped" /\ h2[c] \in {"send", "recv"}
      /\ h2' = [h2 EXCEPT ![c] = "end"] /\ sending' = [sending EXCEPT ![c] = 0]
      /\ tx_proc_data' = [tx_proc_data EXCEPT ![c] = << >>]
      /\ UNCHANGED <<listener, len, taken, state, h, rst_data, refused, pool, net>>
  BY DEF H2Cancel
<1>2. peer[c] = "closed"
  BY <1>1 DEF StepsInv
<1>3. PoolTypes'
  BY <1>1 DEF PoolTypes
<1>4. StepsInv'
  BY <1>1 DEF PoolTypes, StepsInv
<1>5. RegInv' /\ ChosenInv' /\ LossInv' /\ PanicInv'
  BY <1>1, <1>2 DEF PoolTypes, RegInv, ChosenInv, LossInv, PanicInv, PanicOnlyAfterLoss
<1> QED BY <1>2, <1>3, <1>4, <1>5

\* A step that leaves the pool's state alone, but for an owner that is not inside
\* decode or get_result.
LEMMA IdleKeeps ==
  ASSUME PoolInv,
         UNCHANGED <<len, taken, agents, idx, chosen, cur, started, dropped, fetched, net>>,
         \/ UNCHANGED <<owner, listener>>
         \/ /\ ~Locked /\ ~Locked' /\ owner' # "stopped"
            /\ owner' = "panic" => listener' = "unborn"
  PROVE  PoolInv'
<1> USE DEF PoolInv, agents, net
<1>1. PoolTypes'
  BY DEF PoolTypes
<1>2. StepsInv' /\ RegInv' /\ ChosenInv' /\ LossInv' /\ PanicInv'
  BY DEF Locked, StepsInv, RegInv, ChosenInv, LossInv, PanicInv, PanicOnlyAfterLoss
<1> QED BY <1>1, <1>2

\* The steps that move owner or listener or touch chosen.
LEMMA OwnerSteps ==
  ASSUME [Next]_vars
  PROVE  UNCHANGED <<listener, owner, chosen>> \/ Accept \/ Decode \/ CallGetResult \/ Stop \/ Owner
BY DEF Next, vars, pool, Peer, PeerConnect, PeerAnswer, PeerAsk, PeerClose, H, H2, HRecv,
   HEnd, H2Start, H2Recv, H2Send, H2Cancel

LEMMA OwnerTypesKept ==
  ASSUME OwnerTypes, [Next]_vars
  PROVE  OwnerTypes'
<1>1. CASE UNCHANGED <<listener, owner, chosen>>
  BY <1>1 DEF OwnerTypes
<1>2. CASE Accept \/ Decode \/ CallGetResult \/ Stop
  BY <1>2 DEF OwnerTypes, Accept, Decode, CallGetResult, Stop, pool
<1>3. CASE Owner
  BY <1>3 DEF OwnerTypes, Owner, Scan, Publish, GetResult, AskHasResult, FetchResult, Reap,
     NextEntry
<1> QED BY <1>1, <1>2, <1>3, OwnerSteps

LEMMA ChosenTypeKept ==
  ASSUME chosen \in BOOLEAN, [Next]_vars
  PROVE  chosen' \in BOOLEAN
<1>1. chosen' = chosen \/ chosen' = TRUE \/ chosen' = FALSE
  BY OwnerSteps DEF Accept, Decode, CallGetResult, Stop, Owner, Scan, Publish, GetResult,
     AskHasResult, FetchResult, Reap, pool
<1> QED BY <1>1, Zenon

\* The bookkeeping of the pool (PoolInv) is an invariant, whatever clients come, go,
\* answer or are too slow.
THEOREM PoolInvariant == Spec => []PoolInv
<1>1. Init => PoolInv
  BY EmptyPool DEF Init
<1>2. PoolInv /\ [Next]_vars => PoolInv'
  <2> SUFFICES ASSUME PoolInv, [Next]_vars
               PROVE  PoolInv'
    OBVIOUS
  <2>1. CASE UNCHANGED vars
    BY <2>1, IdleKeeps DEF vars, agents, net
  <2>2. CASE Next
    BY <2>2, PeerConnectKeeps, PeerAnswerKeeps, PeerAskKeeps, PeerCloseKeeps, AcceptKeeps,
       HRecvKeeps, HEndKeeps, H2StartKeeps, H2RecvKeeps, H2SendKeeps, H2CancelKeeps,
       DecodeKeeps, ScanKeeps, PublishKeeps, CallGetResultKeeps, AskHasResultKeeps,
       FetchResultKeeps, ReapKeeps, StopKeeps DEF Next, Peer, H, H2, Owner, GetResult
  <2> QED BY <2>1, <2>2
<1> QED BY <1>1, <1>2, PTL DEF Spec

\* Every index and queue of the pool stays within its bounds.
THEOREM PoolTypeCorrect == Spec => []TypeOK
<1> DEFINE Types == OwnerTypes /\ chosen \in BOOLEAN
<1>1. Init => Types
  BY Zenon DEF Init, Empty, OwnerTypes
<1>2. Types /\ [Next]_vars => Types'
  BY OwnerTypesKept, ChosenTypeKept
<1>3. Spec => []Types
  BY <1>1, <1>2, PTL DEF Spec
<1>4. PoolInv /\ Types => TypeOK
  BY DEF PoolInv, OwnerTypes, PoolTypes, TypeOK, Message
<1> QED BY <1>3, <1>4, PoolInvariant, PTL

\* A client that decode chose still has room, unless its h2 has ended, and has
\* registered, when the piece is published, however the clients' tasks interleave.
THEOREM ChosenClientUsable == Spec => []ChosenUsable
<1>1. PoolInv => ChosenUsable
  <2> SUFFICES ASSUME PoolInv, owner = "publish", chosen
               PROVE  Len(tx_proc_data[idx]) < Cap /\ RegReq \notin Range(inbox[idx])
    BY DEF ChosenUsable
  <2>1. state[idx] = "Activate" /\ Len(tx_proc_data[idx]) < Cap
    BY DEF PoolInv, ChosenInv
  <2>2. inbox[idx] \in Seq(Message) /\ idx \in Client
    BY DEF PoolInv, PoolTypes
  <2>3. \A n \in 1 .. Len(inbox[idx]) : inbox[idx][n] # RegReq
    BY <2>1, <2>2 DEF PoolInv, RegInv
  <2> QED BY <2>1, <2>2, <2>3 DEF Range
<1> QED BY <1>1, PoolInvariant, PTL

\* The unwrap in publish_task fails only after a client's connection was lost or a
\* frame refused.
THEOREM PoolPanicsOnlyAfterLoss == Spec => []PanicOnlyAfterLoss
<1>1. PoolInv /\ TypeOK => PanicOnlyAfterLoss
  BY DEF PoolInv, PanicInv, TypeOK
<1> QED BY <1>1, PoolInvariant, PoolTypeCorrect, PTL

-----------------------------------------------------------------------------
(* The fate of pieces: a step moves at most one piece, or loses some.      *)

\* Piece k0 moves to place p0 of c0, or enters there; the others stay or are lost.
LEMMA MoveFate ==
  ASSUME Unique, Fresh, Somewhere, started \in 0 .. MaxTasks, started' \in 0 .. MaxTasks,
         NEW k0 \in Task, NEW p0 \in Place, NEW c0 \in Spot,
         \A k \in Task : \A p \in Place : \A c \in Spot :
           At(k, p, c)' => At(k, p, c) \/ (k = k0 /\ p = p0 /\ c = c0),
         \A p \in Place : \A c \in Spot : At(k0, p, c) => ~At(k0, p, c)',
         NoLoss' => /\ NoLoss /\ At(k0, p0, c0)'
                    /\ \A k \in Task : \A p \in Place : \A c \in Spot :
                         k # k0 /\ At(k, p, c) => At(k, p, c)',
         \A k \in Nat : k <= started' => k <= started \/ k = k0,
         started <= started', k0 <= started',
         \A c \in Client : peer[c] # "absent" => peer'[c] # "absent",
         c0 \in Client => peer'[c0] # "absent"
  PROVE  Unique' /\ Fresh' /\ Somewhere'
<1>1. \A k \in Task : \A p \in Place : \A c \in Spot :
        At(k, p, c)' => \/ k # k0 /\ At(k, p, c)
                        \/ k = k0 /\ p = p0 /\ c = c0
  OBVIOUS
<1>2. Unique'
  BY <1>1 DEF Unique
<1>3. Fresh'
  BY <1>1 DEF Fresh, Task
<1>4. Somewhere'
  <2> SUFFICES ASSUME NoLoss', NEW k \in 1 .. started'
               PROVE  \E p \in Place : \E c \in Spot : At(k, p, c)'
    BY DEF Somewhere
  <2>1. CASE k = k0
    BY <2>1
  <2>2. CASE k # k0
    <3>1. k \in 1 .. started
      BY <2>2
    <3>2. PICK p \in Place, c \in Spot : At(k, p, c)
      BY <3>1 DEF Somewhere
    <3>3. k \in Task
      BY <3>1, PoolAssumption DEF Task
    <3> QED BY <2>2, <3>2, <3>3
  <2> QED BY <2>1, <2>2
<1> QED BY <1>2, <1>3, <1>4

\* Nothing moves; pieces may be lost.
LEMMA LoseFate ==
  ASSUME Unique, Fresh, Somewhere, started \in 0 .. MaxTasks, UNCHANGED started,
         \A k \in Task : \A p \in Place : \A c \in Spot : At(k, p, c)' => At(k, p, c),
         NoLoss' => /\ NoLoss
                    /\ \A k \in Task : \A p \in Place : \A c \in Spot : At(k, p, c) => At(k, p, c)',
         \A c \in Client : peer[c] # "absent" => peer'[c] # "absent"
  PROVE  Unique' /\ Fresh' /\ Somewhere'
<1>1. Unique' /\ Fresh'
  BY DEF Unique, Fresh
<1>2. \A k \in 1 .. started : k \in Task
  BY PoolAssumption DEF Task
<1>3. Somewhere'
  BY <1>2 DEF Somewhere
<1> QED BY <1>1, <1>3

\* A step that touches no place.
LEMMA SameFate ==
  ASSUME PoolInv, FateInv,
         UNCHANGED <<tx_proc_data, inbox, sending, held, rst_data, cur, dropped, fetched,
                     started, peer, refused>>
  PROVE  FateInv'
<1>1. \A k \in Task : \A p \in Place : \A c \in Spot : At(k, p, c)' <=> At(k, p, c)
  BY DEF At
<1>2. Distinct' /\ (NoLoss' <=> NoLoss)
  BY DEF FateInv, Distinct, NoLoss
<1>3. Unique' /\ Fresh' /\ Somewhere'
  BY <1>1, <1>2, LoseFate DEF FateInv, PoolInv, PoolTypes
<1> QED BY <1>2, <1>3 DEF FateInv

LEMMA InitFate == Empty => FateInv
<1> SUFFICES ASSUME Empty PROVE FateInv
  OBVIOUS
<1>1. \A k \in Task : \A p \in Place : \A c \in Spot : ~At(k, p, c)
  BY PoolAssumption DEF Empty, At, Task
<1>2. Distinct
  BY DEF Empty, Distinct
<1>3. 1 .. started = {}
  BY DEF Empty
<1> QED BY <1>1, <1>2, <1>3 DEF FateInv, Unique, Fresh, Somewhere

LEMMA PeerConnectFate ==
  ASSUME PoolInv, FateInv, NEW c \in Client, PeerConnect(c)
  PROVE  FateInv'
<1>1. << RegReq >> \in Seq(Message) /\ Len(<< RegReq >>) = 1 /\ << RegReq >>[1] = RegReq
      /\ \A k : DataRsp(k) # RegReq
  BY Messages
<1>2. /\ peer[c] = "absent" /\ peer' = [peer EXCEPT ![c] = "open"]
      /\ inbox' = [inbox EXCEPT ![c] = << RegReq >>] /\ inbox[c] = << >>
      /\ UNCHANGED <<sending, tx_proc_data, rst_data, refused, cur, started, dropped, fetched, held>>
  BY DEF PeerConnect, PoolInv, RegInv, agents, pool
<1>3. PoolTypes
  BY DEF PoolInv
<1>4. \A k \in Task : \A p \in Place : \A d \in Spot : At(k, p, d)' <=> At(k, p, d)
  BY <1>1, <1>2, <1>3 DEF At, PoolTypes
<1>5. Distinct'
  BY <1>1, <1>2, <1>3, SMTT(40) DEF FateInv, Distinct, PoolTypes
<1>6. Unique' /\ Fresh' /\ Somewhere'
  BY <1>2, <1>3, <1>4, LoseFate DEF FateInv, PoolTypes, NoLoss
<1> QED BY <1>5, <1>6 DEF FateInv

LEMMA PeerAnswerFate ==
  ASSUME PoolInv, FateInv, NEW c \in Client, PeerAnswer(c)
  PROVE  FateInv'
<1>1. PICK k0 \in held[c] : /\ held' = [held EXCEPT ![c] = @ \ {k0}]
                            /\ inbox' = [inbox EXCEPT ![c] = Append(@, DataRsp(k0))]
  BY DEF PeerAnswer
<1>2. /\ peer[c] = "open"
      /\ UNCHANGED <<sending, tx_proc_data, rst_data, refused, cur, started, dropped, fetched, peer>>
  BY DEF PeerAnswer, agents, pool
<1>3. PoolTypes /\ k0 \in Task
  BY DEF PoolInv, PoolTypes
<1>4. /\ Len(inbox[c]) \in Nat /\ Append(inbox[c], DataRsp(k0)) \in Seq(Message)
      /\ Len(Append(inbox[c], DataRsp(k0))) = Len(inbox[c]) + 1
      /\ \A i \in 1 .. Len(inbox[c]) : Append(inbox[c], DataRsp(k0))[i] = inbox[c][i]
      /\ Append(inbox[c], DataRsp(k0))[Len(inbox[c]) + 1] = DataRsp(k0)
  BY <1>3, PutLast, Messages DEF PoolTypes
<1>5. At(k0, "held", c) /\ ~At(k0, "held", c)' /\ At(k0, "inbox", c)'
  BY <1>1, <1>3, <1>4 DEF At, PoolTypes
<1>6. \A k \in Task : \A p \in Place : \A d \in Spot :
        At(k, p, d)' => At(k, p, d) \/ (k = k0 /\ p = "inbox" /\ d = c)
  <2>1. \A k : DataRsp(k) = DataRsp(k0) => k = k0
    BY Messages
  <2> QED BY <1>1, <1>2, <1>3, <1>4, <2>1 DEF At, PoolTypes
<1>7. \A k \in Task : \A p \in Place : \A d \in Spot : k # k0 /\ At(k, p, d) => At(k, p, d)'
  BY <1>1, <1>2, <1>3, <1>4 DEF At, PoolTypes
<1>8. \A p \in Place : \A d \in Spot : At(k0, p, d) => ~At(k0, p, d)'
  BY <1>3, <1>5 DEF FateInv, Unique, Place, Spot
<1>9. Distinct'
  <2>1. \A i \in 1 .. Len(inbox[c]) : inbox[c][i] # DataRsp(k0)
    BY <1>3, <1>5 DEF FateInv, Unique, Place, Spot, At
  <2> QED BY <1>1, <1>2, <1>3, <1>4, <2>1 DEF FateInv, Distinct, PoolTypes
<1>10. k0 <= started
  BY <1>3, <1>5 DEF FateInv, Fresh, Place, Spot
<1>11. /\ "inbox" \in Place /\ c \in Spot /\ started \in 0 .. MaxTasks
       /\ NoLoss' => NoLoss
       /\ UNCHANGED <<started, peer>> /\ peer[c] # "absent"
  BY <1>2, <1>3 DEF PoolTypes, NoLoss, Place, Spot
<1>12. Unique' /\ Fresh' /\ Somewhere'
  BY <1>3, <1>5, <1>6, <1>7, <1>8, <1>10, <1>11, MoveFate DEF FateInv
<1> QED BY <1>9, <1>12 DEF FateInv

LEMMA PeerAskFate ==
  ASSUME PoolInv, FateInv, NEW c \in Client, PeerAsk(c)
  PROVE  FateInv'
<1>1. << MemReq >> \in Seq(Message) /\ Len(<< MemReq >>) = 1 /\ << MemReq >>[1] = MemReq
      /\ \A k : DataRsp(k) # MemReq
  BY Messages
<1>2. /\ inbox' = [inbox EXCEPT ![c] = << MemReq >>] /\ inbox[c] = << >>
      /\ UNCHANGED <<sending, tx_proc_data, rst_data, refused, cur, started, dropped, fetched,
                     peer, held>>
  BY DEF PeerAsk, agents, pool
<1>3. PoolTypes
  BY DEF PoolInv
<1>4. \A k \in Task : \A p \in Place : \A d \in Spot : At(k, p, d)' <=> At(k, p, d)
  BY <1>1, <1>2, <1>3 DEF At, PoolTypes
<1>5. Distinct'
  BY <1>1, <1>2, <1>3, SMTT(40) DEF FateInv, Distinct, PoolTypes
<1>6. Unique' /\ Fresh' /\ Somewhere'
  BY <1>2, <1>3, <1>4, LoseFate DEF FateInv, PoolTypes, NoLoss
<1> QED BY <1>5, <1>6 DEF FateInv

LEMMA PeerCloseFate ==
  ASSUME PoolInv, FateInv, NEW c \in Client, PeerClose(c)
  PROVE  FateInv'
<1>1. PICK n \in 0 .. Len(inbox[c]) : inbox' = [inbox EXCEPT ![c] = SubSeq(@, 1, n)]
  BY DEF PeerClose
<1>2. /\ peer[c] = "open" /\ peer' = [peer EXCEPT ![c] = "closed"]
      /\ held' = [held EXCEPT ![c] = {}]
      /\ UNCHANGED <<sending, tx_proc_data, rst_data, refused, cur, started, dropped, fetched>>
  BY DEF PeerClose, agents, pool
<1>3. PoolTypes
  BY DEF PoolInv
<1>4. /\ SubSeq(inbox[c], 1, n) \in Seq(Message) /\ Len(SubSeq(inbox[c], 1, n)) = n
      /\ \A i \in 1 .. n : SubSeq(inbox[c], 1, n)[i] = inbox[c][i]
      /\ Len(inbox[c]) \in Nat
  BY <1>3, KeepPrefix DEF PoolTypes
<1>5. \A k \in Task : \A p \in Place : \A d \in Spot : At(k, p, d)' => At(k, p, d)
  BY <1>1, <1>2, <1>3, <1>4 DEF At, PoolTypes
<1>6. Distinct'
  BY <1>1, <1>2, <1>3, <1>4, SMTT(40) DEF FateInv, Distinct, PoolTypes
<1>7. ~NoLoss' /\ started \in 0 .. MaxTasks /\ UNCHANGED started
      /\ \A d \in Client : peer[d] # "absent" => peer'[d] # "absent"
  BY <1>2, <1>3 DEF NoLoss, PoolTypes
<1>8. Unique' /\ Fresh' /\ Somewhere'
  BY <1>5, <1>7, LoseFate DEF FateInv
<1> QED BY <1>6, <1>8 DEF FateInv

\* Taking the first of a queue without repetitions leaves the others, once each.
LEMMA Dequeued ==
  ASSUME NEW S, NEW s \in Seq(S), s # << >>,
         \A n, m \in 1 .. Len(s) : s[n] = s[m] => n = m
  PROVE  /\ Head(s) \in S /\ \E i \in 1 .. Len(s) : s[i] = Head(s)
         /\ Tail(s) \in Seq(S)
         /\ \A n, m \in 1 .. Len(Tail(s)) : Tail(s)[n] = Tail(s)[m] => n = m
         /\ \A e : (\E i \in 1 .. Len(Tail(s)) : Tail(s)[i] = e)
                   <=> e # Head(s) /\ \E i \in 1 .. Len(s) : s[i] = e
<1> DEFINE t == Tail(s)
           a == Head(s)
<1>1. /\ Len(s) \in Nat \ {0} /\ a = s[1] /\ a \in S /\ t \in Seq(S) /\ Len(t) = Len(s) - 1
      /\ \A i \in 1 .. Len(s) - 1 : t[i] = s[i + 1]
  BY TakeFirst
<1> HIDE DEF t, a
<1>2. 1 \in 1 .. Len(s)
  BY <1>1
<1>3. \A n, m \in 1 .. Len(t) : t[n] = t[m] => n = m
  <2> TAKE n, m \in 1 .. Len(t)
  <2>1. n + 1 \in 1 .. Len(s) /\ m + 1 \in 1 .. Len(s) /\ t[n] = s[n + 1] /\ t[m] = s[m + 1]
    BY <1>1
  <2>2. t[n] = t[m] => n + 1 = m + 1
    BY <2>1
  <2> QED BY <2>2
<1>4. ASSUME NEW e, NEW i \in 1 .. Len(t), t[i] = e
      PROVE  e # a /\ \E j \in 1 .. Len(s) : s[j] = e
  <2>1. i + 1 \in 1 .. Len(s) /\ s[i + 1] = e /\ i + 1 # 1
    BY <1>1, <1>4
  <2> QED BY <1>1, <1>2, <2>1
<1>5. ASSUME NEW e, e # a, NEW j \in 1 .. Len(s), s[j] = e
      PROVE  \E i \in 1 .. Len(t) : t[i] = e
  <2>1. j - 1 \in 1 .. Len(t) /\ t[j - 1] = e
    <3>1. j # 1
      BY <1>1, <1>5
    <3>2. j - 1 \in 1 .. Len(s) - 1 /\ (j - 1) + 1 = j
      BY <1>1, <3>1
    <3> QED BY <1>1, <1>5, <3>2
  <2> QED BY <2>1
<1>6. /\ a \in S /\ \E i \in 1 .. Len(s) : s[i] = a
      /\ t \in Seq(S)
      /\ \A e : (\E i \in 1 .. Len(t) : t[i] = e)
                <=> e # a /\ \E i \in 1 .. Len(s) : s[i] = e
  BY <1>1, <1>2, <1>4, <1>5
<1> QED BY <1>3, <1>6 DEF t, a

LEMMA HRecvFate ==
  ASSUME PoolInv, FateInv, NEW c \in Client, HRecv(c)
  PROVE  FateInv'
<1>1. /\ PoolTypes /\ inbox[c] \in Seq(Message) /\ inbox[c] # << >>
      /\ inbox' = [inbox EXCEPT ![c] = Tail(@)]
      /\ UNCHANGED <<sending, tx_proc_data, refused, cur, started, dropped, fetched, peer, held>>
  BY DEF HRecv, PoolInv, PoolTypes, pool
<1>2. \A n, j \in 1 .. Len(inbox[c]) : inbox[c][n] = inbox[c][j] => n = j
  BY DEF FateInv, Distinct
<1>3. PICK m \in Message : m = Head(inbox[c])
  BY <1>1, TakeFirst
<1>4. /\ inbox'[c] = Tail(inbox[c])
      /\ \A d \in Client : d # c => inbox'[d] = inbox[d]
  BY <1>1 DEF PoolTypes
<1>5. /\ \E i \in 1 .. Len(inbox[c]) : inbox[c][i] = m
      /\ \A n, j \in 1 .. Len(inbox'[c]) : inbox'[c][n] = inbox'[c][j] => n = j
      /\ \A e : (\E i \in 1 .. Len(inbox'[c]) : inbox'[c][i] = e)
                <=> e # m /\ \E i \in 1 .. Len(inbox[c]) : inbox[c][i] = e
  <2>1. /\ \E i \in 1 .. Len(inbox[c]) : inbox[c][i] = Head(inbox[c])
        /\ LET t == Tail(inbox[c]) IN
             /\ \A n, j \in 1 .. Len(t) : t[n] = t[j] => n = j
             /\ \A e : (\E i \in 1 .. Len(t) : t[i] = e)
                       <=> e # Head(inbox[c]) /\ \E i \in 1 .. Len(inbox[c]) : inbox[c][i] = e
    BY <1>1, <1>2, Dequeued
  <2> QED BY <1>3, <1>4, <2>1
<1>6. Distinct'
  <2>1. \A d \in Client : d # c =>
          \A n, j \in 1 .. Len(inbox'[d]) : inbox'[d][n] = inbox'[d][j] => n = j
    BY <1>4 DEF FateInv, Distinct
  <2> QED BY <1>1, <1>5, <2>1 DEF FateInv, Distinct
<1>7. started \in 0 .. MaxTasks /\ UNCHANGED <<started, peer>> /\ (NoLoss' => NoLoss)
  BY <1>1 DEF PoolTypes, NoLoss
<1>8. CASE m \in {RegReq, MemReq}
  <2>1. UNCHANGED rst_data
    BY <1>3, <1>8, Messages DEF HRecv
  <2>2. \A k : DataRsp(k) # m
    BY <1>8, Messages
  <2>3. \A k \in Task : \A p \in Place : \A d \in Spot : At(k, p, d)' <=> At(k, p, d)
    <3>1. \A k \in Task : \A d \in Client :
            (\E i \in 1 .. Len(inbox[d]) : inbox[d][i] = DataRsp(k))
            <=> \E i \in 1 .. Len(inbox'[d]) : inbox'[d][i] = DataRsp(k)
      <4>1. \A k \in Task : (\E i \in 1 .. Len(inbox[c]) : inbox[c][i] = DataRsp(k))
                            <=> \E i \in 1 .. Len(inbox'[c]) : inbox'[c][i] = DataRsp(k)
        BY <1>5, <2>2
      <4> QED BY <1>4, <4>1
    <3>2. ASSUME NEW k \in Task, NEW p \in Place, NEW d \in Spot
          PROVE  At(k, p, d)' <=> At(k, p, d)
      <4>1. CASE p = "inbox"
        BY <3>1, <4>1 DEF At
      <4>2. CASE p # "inbox"
        BY <1>1, <2>1, <4>2 DEF At
      <4> QED BY <4>1, <4>2
    <3> QED BY <3>2
  <2>4. Unique' /\ Fresh' /\ Somewhere'
    BY <1>7, <2>3, LoseFate DEF FateInv
  <2> QED BY <1>6, <2>4 DEF FateInv
<1>9. CASE m \notin {RegReq, MemReq}
  <2>1. PICK k0 \in Task : m = DataRsp(k0) /\ m.task = k0 /\ m.t = "DataRsp"
    BY <1>9, Messages
  <2>2. rst_data' = [rst_data EXCEPT ![c] = @ \cup {k0}]
    BY <1>3, <2>1 DEF HRecv
  <2>3. /\ rst_data'[c] = rst_data[c] \cup {k0}
        /\ \A d \in Client : d # c => rst_data'[d] = rst_data[d]
    BY <1>1, <2>2 DEF PoolTypes
  <2>4. \A k : DataRsp(k) = m <=> k = k0
    BY <2>1, Messages
  <2>5. At(k0, "inbox", c) /\ At(k0, "rst_data", c)' /\ ~At(k0, "inbox", c)'
    BY <1>5, <2>3, <2>4 DEF At
  <2>6. \A k \in Task : \A p \in Place : \A d \in Spot :
          At(k, p, d)' => At(k, p, d) \/ (k = k0 /\ p = "rst_data" /\ d = c)
    BY <1>1, <1>4, <1>5, <2>3 DEF At
  <2>7. \A k \in Task : \A p \in Place : \A d \in Spot : k # k0 /\ At(k, p, d) => At(k, p, d)'
    <3>1. \A k \in Task : \A d \in Client :
            k # k0 /\ (\E i \in 1 .. Len(inbox[d]) : inbox[d][i] = DataRsp(k))
            => \E i \in 1 .. Len(inbox'[d]) : inbox'[d][i] = DataRsp(k)
      <4>1. \A k \in Task : k # k0 /\ (\E i \in 1 .. Len(inbox[c]) : inbox[c][i] = DataRsp(k))
                            => \E i \in 1 .. Len(inbox'[c]) : inbox'[c][i] = DataRsp(k)
        BY <1>5, <2>4
      <4> QED BY <1>4, <4>1
    <3>2. ASSUME NEW k \in Task, NEW p \in Place, NEW d \in Spot
          PROVE  k # k0 /\ At(k, p, d) => At(k, p, d)'
      <4>1. CASE p = "inbox"
        BY <3>1, <4>1 DEF At
      <4>2. CASE p # "inbox"
        BY <1>1, <2>3, <4>2 DEF At
      <4> QED BY <4>1, <4>2
    <3> QED BY <3>2
  <2>8. \A p \in Place : \A d \in Spot : At(k0, p, d) => ~At(k0, p, d)'
    BY <2>5 DEF FateInv, Unique, Place, Spot
  <2>9. k0 <= started /\ peer[c] # "absent" /\ "rst_data" \in Place /\ c \in Spot
    BY <2>5 DEF FateInv, Fresh, Place, Spot
  <2>10. Unique' /\ Fresh' /\ Somewhere'
    BY <1>7, <2>5, <2>6, <2>7, <2>8, <2>9, MoveFate DEF FateInv
  <2> QED BY <1>6, <2>10 DEF FateInv
<1> QED BY <1>8, <1>9

LEMMA H2RecvFate ==
  ASSUME PoolInv, FateInv, NEW c \in Client, H2Recv(c)
  PROVE  FateInv'
<1>1. /\ PoolTypes /\ tx_proc_data[c] \in Seq(Task) /\ tx_proc_data[c] # << >>
      /\ sending' = [sending EXCEPT ![c] = Head(tx_proc_data[c])] /\ sending[c] = 0
      /\ tx_proc_data' = [tx_proc_data EXCEPT ![c] = Tail(@)]
      /\ UNCHANGED <<rst_data, refused, cur, started, dropped, fetched, peer, inbox, held>>
  BY DEF H2Recv, Popped, PoolInv, PoolTypes, StepsInv, pool, net
<1>2. \A n, j \in 1 .. Len(tx_proc_data[c]) : tx_proc_data[c][n] = tx_proc_data[c][j] => n = j
  BY DEF FateInv, Distinct
<1>3. PICK k0 \in Task : k0 = Head(tx_proc_data[c])
  BY <1>1, TakeFirst
<1>4. /\ tx_proc_data'[c] = Tail(tx_proc_data[c]) /\ sending'[c] = k0
      /\ \A d \in Client : d # c => tx_proc_data'[d] = tx_proc_data[d] /\ sending'[d] = sending[d]
  BY <1>1, <1>3 DEF PoolTypes
<1>5. /\ \E i \in 1 .. Len(tx_proc_data[c]) : tx_proc_data[c][i] = k0
      /\ \A n, j \in 1 .. Len(tx_proc_data'[c]) : tx_proc_data'[c][n] = tx_proc_data'[c][j] => n = j
      /\ \A e : (\E i \in 1 .. Len(tx_proc_data'[c]) : tx_proc_data'[c][i] = e)
                <=> e # k0 /\ \E i \in 1 .. Len(tx_proc_data[c]) : tx_proc_data[c][i] = e
  <2>1. /\ \E i \in 1 .. Len(tx_proc_data[c]) : tx_proc_data[c][i] = Head(tx_proc_data[c])
        /\ LET t == Tail(tx_proc_data[c]) IN
             /\ \A n, j \in 1 .. Len(t) : t[n] = t[j] => n = j
             /\ \A e : (\E i \in 1 .. Len(t) : t[i] = e)
                       <=> /\ e # Head(tx_proc_data[c])
                           /\ \E i \in 1 .. Len(tx_proc_data[c]) : tx_proc_data[c][i] = e
    <3> DEFINE s == tx_proc_data[c]
    <3>1. s \in Seq(Task) /\ s # << >> /\ \A n, j \in 1 .. Len(s) : s[n] = s[j] => n = j
      BY <1>1, <1>2
    <3> HIDE DEF s
    <3>2. /\ \E i \in 1 .. Len(s) : s[i] = Head(s)
          /\ \A n, j \in 1 .. Len(Tail(s)) : Tail(s)[n] = Tail(s)[j] => n = j
          /\ \A e : (\E i \in 1 .. Len(Tail(s)) : Tail(s)[i] = e)
                    <=> e # Head(s) /\ \E i \in 1 .. Len(s) : s[i] = e
      BY <3>1, Dequeued
    <3> QED BY <3>2 DEF s
  <2> QED BY <1>3, <1>4, <2>1, ZenonT(60)
<1>6. Distinct'
  <2>1. \A d \in Client : d # c =>
          \A n, j \in 1 .. Len(tx_proc_data'[d]) : tx_proc_data'[d][n] = tx_proc_data'[d][j] => n = j
    BY <1>4 DEF FateInv, Distinct
  <2> QED BY <1>1, <1>5, <2>1 DEF FateInv, Distinct
<1>7. At(k0, "queue", c) /\ At(k0, "sending", c)' /\ ~At(k0, "queue", c)'
  BY <1>4, <1>5 DEF At
<1>8. \A k \in Task : \A p \in Place : \A d \in Spot :
        At(k, p, d)' => At(k, p, d) \/ (k = k0 /\ p = "sending" /\ d = c)
  BY <1>1, <1>4, <1>5 DEF At
<1>9. \A k \in Task : \A p \in Place : \A d \in Spot : k # k0 /\ At(k, p, d) => At(k, p, d)'
  <2>1. 0 \notin Task
    BY DEF Task
  <2>2. \A k \in Task : \A d \in Client :
          k # k0 /\ (\E i \in 1 .. Len(tx_proc_data[d]) : tx_proc_data[d][i] = k)
          => \E i \in 1 .. Len(tx_proc_data'[d]) : tx_proc_data'[d][i] = k
    <3>1. \A k \in Task : k # k0 /\ (\E i \in 1 .. Len(tx_proc_data[c]) : tx_proc_data[c][i] = k)
                          => \E i \in 1 .. Len(tx_proc_data'[c]) : tx_proc_data'[c][i] = k
      BY <1>5
    <3> QED BY <1>4, <3>1
  <2> QED BY <1>1, <1>4, <2>1, <2>2 DEF At
<1>10. \A p \in Place : \A d \in Spot : At(k0, p, d) => ~At(k0, p, d)'
  BY <1>7 DEF FateInv, Unique, Place, Spot
<1>11. /\ k0 <= started /\ peer[c] # "absent" /\ "sending" \in Place /\ c \in Spot
       /\ started \in 0 .. MaxTasks /\ UNCHANGED <<started, peer>> /\ (NoLoss' => NoLoss)
  BY <1>1, <1>7 DEF FateInv, Fresh, Place, Spot, PoolTypes, NoLoss
<1>12. Unique' /\ Fresh' /\ Somewhere'
  BY <1>7, <1>8, <1>9, <1>10, <1>11, MoveFate DEF FateInv
<1> QED BY <1>6, <1>12 DEF FateInv

LEMMA H2SendFate ==
  ASSUME PoolInv, FateInv, NEW c \in Client, H2Send(c)
  PROVE  FateInv'
<1>1. /\ PoolTypes /\ h2[c] = "send" /\ sending' = [sending EXCEPT ![c] = 0]
      /\ UNCHANGED <<rst_data, cur, started, dropped, fetched, peer, inbox>>
  BY DEF H2Send, PoolInv, pool
<1>2. PICK k0 \in Task : k0 = sending[c]
  BY <1>1 DEF PoolInv, PoolTypes, StepsInv
<1>3. /\ peer[c] \in {"open", "closed"} /\ 0 \notin Task
      /\ started \in 0 .. MaxTasks /\ UNCHANGED <<started, peer>>
      /\ sending'[c] = 0 /\ \A d \in Client : d # c => sending'[d] = sending[d]
  BY <1>1 DEF PoolInv, PoolTypes, StepsInv, Task
<1>4. CASE /\ peer[c] = "open" /\ UNCHANGED <<tx_proc_data, refused>>
           /\ held' = [held EXCEPT ![c] = @ \cup {k0}]
  <2>1. /\ held'[c] = held[c] \cup {k0}
        /\ \A d \in Client : d # c => held'[d] = held[d]
    BY <1>1, <1>4 DEF PoolTypes
  <2>2. At(k0, "sending", c) /\ At(k0, "held", c)' /\ ~At(k0, "sending", c)'
    BY <1>2, <1>3, <2>1 DEF At
  <2>3. \A k \in Task : \A p \in Place : \A d \in Spot :
          At(k, p, d)' => At(k, p, d) \/ (k = k0 /\ p = "held" /\ d = c)
    BY <1>1, <1>3, <1>4, <2>1 DEF At
  <2>4. \A k \in Task : \A p \in Place : \A d \in Spot : k # k0 /\ At(k, p, d) => At(k, p, d)'
    BY <1>1, <1>2, <1>3, <1>4, <2>1 DEF At
  <2>5. \A p \in Place : \A d \in Spot : At(k0, p, d) => ~At(k0, p, d)'
    BY <2>2 DEF FateInv, Unique, Place, Spot
  <2>6. /\ k0 <= started /\ peer[c] # "absent" /\ "held" \in Place /\ c \in Spot
        /\ NoLoss' => NoLoss
    BY <1>1, <1>4, <2>2 DEF FateInv, Fresh, Place, Spot, NoLoss
  <2>7. Unique' /\ Fresh' /\ Somewhere'
    BY <1>3, <2>2, <2>3, <2>4, <2>5, <2>6, MoveFate DEF FateInv
  <2>8. Distinct'
    BY <1>1, <1>4 DEF FateInv, Distinct
  <2> QED BY <2>7, <2>8 DEF FateInv
<1>5. CASE /\ peer[c] = "closed" /\ UNCHANGED <<tx_proc_data, refused, held>>
  <2>1. \A k \in Task : \A p \in Place : \A d \in Spot : At(k, p, d)' => At(k, p, d)
    BY <1>1, <1>3, <1>5 DEF At
  <2>2. ~NoLoss'
    BY <1>1, <1>5 DEF NoLoss
  <2>3. Unique' /\ Fresh' /\ Somewhere'
    BY <1>3, <2>1, <2>2, LoseFate DEF FateInv
  <2>4. Distinct'
    BY <1>1, <1>5 DEF FateInv, Distinct
  <2> QED BY <2>3, <2>4 DEF FateInv
<1>6. CASE /\ peer[c] = "closed" \/ k0 \in MaybeTooLong
           /\ tx_proc_data' = [tx_proc_data EXCEPT ![c] = << >>]
           /\ refused' = refused \cup (MaybeTooLong \cap {k0})
           /\ UNCHANGED held
  <2>1. /\ tx_proc_data'[c] = << >>
        /\ \A d \in Client : d # c => tx_proc_data'[d] = tx_proc_data[d]
    BY <1>1, <1>6 DEF PoolTypes
  <2>2. \A k \in Task : \A p \in Place : \A d \in Spot : At(k, p, d)' => At(k, p, d)
    BY <1>1, <1>3, <1>6, <2>1 DEF At
  <2>3. ~NoLoss'
    BY <1>1, <1>6 DEF NoLoss
  <2>4. Unique' /\ Fresh' /\ Somewhere'
    BY <1>3, <2>2, <2>3, LoseFate DEF FateInv
  <2>5. Distinct'
    BY <1>1, <2>1 DEF FateInv, Distinct
  <2> QED BY <2>4, <2>5 DEF FateInv
<1>7. \/ /\ peer[c] = "open" /\ UNCHANGED <<tx_proc_data, refused>>
         /\ held' = [held EXCEPT ![c] = @ \cup {k0}]
      \/ /\ peer[c] = "closed" /\ UNCHANGED <<tx_proc_data, refused, held>>
      \/ /\ peer[c] = "closed" \/ k0 \in MaybeTooLong
         /\ tx_proc_data' = [tx_proc_data EXCEPT ![c] = << >>]
         /\ refused' = refused \cup (MaybeTooLong \cap {k0})
         /\ UNCHANGED held
  <2>1. CASE /\ held' = [held EXCEPT ![c] = IF peer[c] = "open" THEN @ \cup {sending[c]} ELSE @]
             /\ UNCHANGED <<tx_proc_data, refused>>
    <3>1. CASE peer[c] = "open"
      BY <1>2, <2>1, <3>1
    <3>2. CASE peer[c] = "closed"
      BY <1>1, <2>1, <3>2 DEF PoolTypes
    <3> QED BY <1>3, <3>1, <3>2
  <2>2. CASE ~UNCHANGED refused \/ ~UNCHANGED tx_proc_data
             \/ held' # [held EXCEPT ![c] = IF peer[c] = "open" THEN @ \cup {sending[c]} ELSE @]
    BY <1>2, <2>2 DEF H2Send
  <2> QED BY <2>1, <2>2
<1> QED BY <1>4, <1>5, <1>6, <1>7

LEMMA DecodeFate ==
  ASSUME PoolInv, FateInv, Decode
  PROVE  FateInv'
<1>1. /\ PoolTypes /\ cur = 0 /\ started < MaxTasks
      /\ started' = started + 1 /\ cur' = started + 1
      /\ UNCHANGED <<sending, tx_proc_data, rst_data, refused, dropped, fetched, peer, inbox, held>>
  BY DEF Decode, PoolInv, StepsInv, agents, net
<1>2. PICK k0 \in Task : k0 = started + 1
  BY <1>1, PoolAssumption DEF PoolTypes, Task
<1>3. \A p \in Place : \A d \in Spot : ~At(k0, p, d)
  BY <1>1, <1>2 DEF FateInv, Fresh, PoolTypes
<1>4. At(k0, "cur", 0)'
  BY <1>1, <1>2 DEF At
<1>5. \A k \in Task : \A p \in Place : \A d \in Spot :
        At(k, p, d)' => At(k, p, d) \/ (k = k0 /\ p = "cur" /\ d = 0)
  BY <1>1, <1>2 DEF At
<1>6. \A k \in Task : \A p \in Place : \A d \in Spot : At(k, p, d) => At(k, p, d)'
  BY <1>1 DEF At, Task
<1>7. /\ started \in 0 .. MaxTasks /\ started' \in 0 .. MaxTasks
      /\ \A k \in Nat : k <= started' => k <= started \/ k = k0
      /\ started <= started' /\ k0 <= started' /\ UNCHANGED peer
      /\ "cur" \in Place /\ 0 \in Spot /\ 0 \notin Client /\ (NoLoss' => NoLoss)
  BY <1>1, <1>2, PoolAssumption DEF PoolTypes, Place, Spot, Client, NoLoss
<1>8. Unique' /\ Fresh' /\ Somewhere'
  BY <1>3, <1>4, <1>5, <1>6, <1>7, MoveFate DEF FateInv
<1>9. Distinct'
  BY <1>1 DEF FateInv, Distinct
<1> QED BY <1>8, <1>9 DEF FateInv

LEMMA ScanFate ==
  ASSUME PoolInv, FateInv, Scan
  PROVE  FateInv'
<1>1. CASE UNCHANGED <<cur, dropped>>
  BY <1>1, SameFate DEF Scan, agents, net
<1>2. CASE dropped' = dropped \cup {cur} /\ cur' = 0
  <2>1. /\ PoolTypes /\ 0 \notin Task
        /\ UNCHANGED <<sending, tx_proc_data, rst_data, refused, started, fetched, peer, inbox, held>>
    BY DEF Scan, PoolInv, agents, net, Task
  <2>2. PICK k0 \in Task : k0 = cur
    BY <2>1 DEF Scan, PoolInv, PoolTypes, StepsInv
  <2>3. At(k0, "cur", 0) /\ At(k0, "dropped", 0)' /\ ~At(k0, "cur", 0)'
    BY <1>2, <2>1, <2>2 DEF At
  <2>4. \A k \in Task : \A p \in Place : \A d \in Spot :
          At(k, p, d)' => At(k, p, d) \/ (k = k0 /\ p = "dropped" /\ d = 0)
    BY <1>2, <2>1, <2>2 DEF At
  <2>5. \A k \in Task : \A p \in Place : \A d \in Spot : k # k0 /\ At(k, p, d) => At(k, p, d)'
    BY <1>2, <2>1, <2>2 DEF At
  <2>6. "cur" \in Place /\ "dropped" \in Place /\ 0 \in Spot /\ 0 \notin Client
    BY DEF Place, Spot, Client
  <2>7. \A p \in Place : \A d \in Spot : At(k0, p, d) => ~At(k0, p, d)'
    BY <2>3, <2>6, Zenon DEF FateInv, Unique
  <2>8. /\ k0 <= started /\ (NoLoss' => NoLoss)
        /\ started \in 0 .. MaxTasks /\ UNCHANGED <<started, peer>>
    BY <2>1, <2>3, <2>6 DEF FateInv, Fresh, PoolTypes, NoLoss
  <2>9. Unique' /\ Fresh' /\ Somewhere'
    BY <2>3, <2>4, <2>5, <2>6, <2>7, <2>8, MoveFate DEF FateInv
  <2>10. Distinct'
    BY <2>1 DEF FateInv, Distinct
  <2> QED BY <2>9, <2>10 DEF FateInv
<1> QED BY <1>1, <1>2 DEF Scan

LEMMA PublishFate ==
  ASSUME PoolInv, FateInv, Publish
  PROVE  FateInv'
<1>1. /\ PoolTypes /\ 0 \notin Task /\ idx \in Client /\ cur' = 0
      /\ UNCHANGED <<sending, rst_data, refused, started, dropped, fetched, peer, inbox, held>>
  BY DEF Publish, PoolInv, PoolTypes, net, Task
<1>2. PICK k0 \in Task : k0 = cur
  BY <1>1 DEF Publish, PoolInv, PoolTypes, StepsInv
<1>3. PICK c \in Client : c = idx
  BY <1>1
<1>4. "cur" \in Place /\ "queue" \in Place /\ 0 \in Spot /\ c \in Spot
  BY DEF Place, Spot
<1>5. At(k0, "cur", 0) /\ ~At(k0, "cur", 0)'
  BY <1>1, <1>2 DEF At
<1>6. /\ k0 <= started /\ (NoLoss' => NoLoss)
      /\ started \in 0 .. MaxTasks /\ UNCHANGED <<started, peer>>
  BY <1>1, <1>4, <1>5 DEF FateInv, Fresh, PoolTypes, NoLoss
<1>7. CASE SendFails(idx) /\ UNCHANGED tx_proc_data
  <2>1. ~NoLoss
    BY <1>1, <1>7 DEF SendFails, PoolInv, LossInv, NoLoss
  <2>2. \A k \in Task : \A p \in Place : \A d \in Spot : At(k, p, d)' => At(k, p, d)
    BY <1>1, <1>7 DEF At
  <2>3. Unique' /\ Fresh' /\ Somewhere'
    BY <1>6, <2>1, <2>2, LoseFate DEF FateInv
  <2>4. Distinct'
    BY <1>1, <1>7 DEF FateInv, Distinct
  <2> QED BY <2>3, <2>4 DEF FateInv
<1>8. CASE tx_proc_data' = [tx_proc_data EXCEPT ![idx] = Append(@, cur)]
  <2>1. /\ tx_proc_data'[c] = Append(tx_proc_data[c], k0) /\ tx_proc_data[c] \in Seq(Task)
        /\ \A d \in Client : d # c => tx_proc_data'[d] = tx_proc_data[d]
    BY <1>1, <1>2, <1>3, <1>8 DEF PoolTypes
  <2>2. /\ Len(tx_proc_data[c]) \in Nat /\ Len(tx_proc_data'[c]) = Len(tx_proc_data[c]) + 1
        /\ \A i \in 1 .. Len(tx_proc_data[c]) : tx_proc_data'[c][i] = tx_proc_data[c][i]
        /\ tx_proc_data'[c][Len(tx_proc_data[c]) + 1] = k0
    BY <2>1, PutLast
  <2>3. \A k : (\E i \in 1 .. Len(tx_proc_data'[c]) : tx_proc_data'[c][i] = k)
               <=> k = k0 \/ \E i \in 1 .. Len(tx_proc_data[c]) : tx_proc_data[c][i] = k
    BY <2>2
  <2>4. At(k0, "queue", c)'
    BY <2>3 DEF At
  <2>5. \A k \in Task : \A p \in Place : \A d \in Spot :
          At(k, p, d)' => At(k, p, d) \/ (k = k0 /\ p = "queue" /\ d = c)
    BY <1>1, <2>1, <2>3, SMTT(40) DEF At
  <2>6. \A k \in Task : \A p \in Place : \A d \in Spot : k # k0 /\ At(k, p, d) => At(k, p, d)'
    BY <1>1, <1>2, <2>1, <2>3 DEF At
  <2>7. \A p \in Place : \A d \in Spot : At(k0, p, d) => ~At(k0, p, d)'
    BY <1>4, <1>5, Zenon DEF FateInv, Unique
  <2>8. peer[c] # "absent"
    BY <1>1, <1>3 DEF Publish, PoolInv, StepsInv
  <2>9. Unique' /\ Fresh' /\ Somewhere'
    BY <1>4, <1>6, <2>4, <2>5, <2>6, <2>7, <2>8, MoveFate DEF FateInv
  <2>10. Distinct'
    <3>1. \A i \in 1 .. Len(tx_proc_data[c]) : tx_proc_data[c][i] # k0
      <4>1. ~At(k0, "queue", c)
        BY <1>4, <1>5, "cur" # "queue" DEF FateInv, Unique
      <4> QED BY <4>1 DEF At
    <3>2. \A n, m \in 1 .. Len(tx_proc_data'[c]) : tx_proc_data'[c][n] = tx_proc_data'[c][m] => n = m
      BY <2>2, <3>1, SMTT(40) DEF FateInv, Distinct
    <3>3. \A d \in Client : d # c =>
            \A n, m \in 1 .. Len(tx_proc_data'[d]) : tx_proc_data'[d][n] = tx_proc_data'[d][m] => n = m
      BY <2>1 DEF FateInv, Distinct
    <3> QED BY <1>1, <3>2, <3>3 DEF FateInv, Distinct
  <2> QED BY <2>9, <2>10 DEF FateInv
<1> QED BY <1>7, <1>8 DEF Publish

\* A late h2 takes its queue with it.
LEMMA H2CancelFate ==
  ASSUME PoolInv, FateInv, NEW c \in Client, H2Cancel(c)
  PROVE  FateInv'
<1>1. /\ PoolTypes /\ 0 \notin Task
      /\ sending' = [sending EXCEPT ![c] = 0]
      /\ tx_proc_data' = [tx_proc_data EXCEPT ![c] = << >>]
      /\ UNCHANGED <<rst_data, refused, cur, started, dropped, fetched, peer, inbox, held>>
  BY DEF H2Cancel, PoolInv, pool, net, Task
<1>2. /\ tx_proc_data'[c] = << >> /\ sending'[c] = 0
      /\ \A d \in Client : d # c => tx_proc_data'[d] = tx_proc_data[d] /\ sending'[d] = sending[d]
  BY <1>1 DEF PoolTypes
<1>3. \A k \in Task : \A p \in Place : \A d \in Spot : At(k, p, d)' => At(k, p, d)
  BY <1>1, <1>2 DEF At
<1>4. ~NoLoss' /\ started \in 0 .. MaxTasks
  BY <1>1, H2CancelKeeps DEF NoLoss, PoolTypes
<1>5. Unique' /\ Fresh' /\ Somewhere'
  BY <1>1, <1>3, <1>4, LoseFate DEF FateInv
<1>6. Distinct'
  BY <1>1, <1>2 DEF FateInv, Distinct
<1> QED BY <1>5, <1>6 DEF FateInv

\* fetch_result moves everything an agent has merged, at once.
LEMMA FetchResultFate ==
  ASSUME PoolInv, FateInv, FetchResult
  PROVE  FateInv'
<1>1. /\ PoolTypes /\ fetched' = fetched \cup rst_data[idx]
      /\ rst_data' = [rst_data EXCEPT ![idx] = {}]
      /\ UNCHANGED <<tx_proc_data, sending, refused, cur, started, dropped, peer, inbox, held>>
  BY DEF FetchResult, PoolInv, net
<1>2. PICK c \in Client : c = idx
  BY <1>1 DEF PoolTypes
<1>3. PICK K \in SUBSET Task : K = rst_data[c]
  BY <1>1, <1>2 DEF PoolTypes
<1>4. /\ fetched' = fetched \cup K /\ rst_data'[c] = {}
      /\ \A d \in Client : d # c => rst_data'[d] = rst_data[d]
  BY <1>1, <1>2, <1>3 DEF PoolTypes
<1>5. \A k \in Task : \A p \in Place : \A d \in Spot :
        At(k, p, d)' => \/ At(k, p, d) /\ ~(p = "rst_data" /\ d = c)
                        \/ k \in K /\ p = "fetched" /\ d = 0
  BY <1>1, <1>4 DEF At
<1>6. \A k \in Task \ K : \A p \in Place : \A d \in Spot : At(k, p, d) => At(k, p, d)'
  BY <1>1, <1>3, <1>4 DEF At
<1>7. \A k \in K : At(k, "rst_data", c) /\ At(k, "fetched", 0)'
  BY <1>3, <1>4 DEF At
<1>8. "rst_data" \in Place /\ "fetched" \in Place /\ 0 \in Spot /\ c \in Spot /\ 0 \notin Client
  BY DEF Place, Spot, Client
<1>9. \A k \in K : \A p \in Place : \A d \in Spot : At(k, p, d)' => p = "fetched" /\ d = 0
  BY <1>5, <1>7, <1>8 DEF FateInv, Unique
<1>10. \A k \in Task \ K : \A p \in Place : \A d \in Spot : At(k, p, d)' => At(k, p, d)
  BY <1>5
<1>11. Unique'
  BY <1>9, <1>10 DEF FateInv, Unique
<1>12. \A k \in K : k <= started
  BY <1>7, <1>8 DEF FateInv, Fresh
<1>13. Fresh'
  BY <1>1, <1>8, <1>9, <1>10, <1>12 DEF FateInv, Fresh
<1>14. Somewhere'
  <2>1. \A k \in 1 .. started : k \in Task
    BY <1>1, PoolAssumption DEF PoolTypes, Task
  <2>2. NoLoss' => NoLoss
    BY <1>1 DEF NoLoss
  <2> QED BY <1>1, <1>6, <1>7, <1>8, <2>1, <2>2 DEF FateInv, Somewhere
<1>15. Distinct'
  BY <1>1 DEF FateInv, Distinct
<1> QED BY <1>11, <1>13, <1>14, <1>15 DEF FateInv

LEMMA StopFate ==
  ASSUME PoolInv, FateInv, Stop
  PROVE  FateInv'
<1>1. /\ PoolTypes /\ 0 \notin Task /\ 0 \notin Client /\ started \in 0 .. MaxTasks
      /\ \A c \in Client : /\ sending'[c] = 0 /\ rst_data'[c] = {}
                           /\ tx_proc_data'[c] = tx_proc_data[c] \/ tx_proc_data'[c] = << >>
                           /\ inbox'[c] = << >> /\ held'[c] = {}
                           /\ peer'[c] = IF peer[c] = "open" THEN "closed" ELSE peer[c]
      /\ UNCHANGED <<refused, cur, started, dropped, fetched>>
  BY DEF Stop, PoolInv, PoolTypes, Task, Client
<1>2. \A k \in Task : \A p \in Place : \A d \in Spot : At(k, p, d)' => At(k, p, d)
  BY <1>1 DEF At
<1>3. ASSUME NoLoss'
      PROVE  NoLoss /\ \A k \in Task : \A p \in Place : \A d \in Spot : At(k, p, d) => At(k, p, d)'
  <2>1. NoLoss /\ \A c \in Client : peer[c] = "absent"
    BY <1>1, <1>3 DEF NoLoss, PoolTypes
  <2>2. \A k \in Task : \A p \in Place : \A d \in Spot : At(k, p, d) => d \notin Client
    BY <2>1 DEF FateInv, Fresh
  <2> QED BY <1>1, <2>1, <2>2 DEF At
<1>4. \A c \in Client : peer[c] # "absent" => peer'[c] # "absent"
  BY <1>1
<1>5. Unique' /\ Fresh' /\ Somewhere'
  BY <1>1, <1>2, <1>3, <1>4, LoseFate DEF FateInv
<1>6. Distinct'
  BY <1>1 DEF FateInv, Distinct
<1> QED BY <1>5, <1>6 DEF FateInv

\* Every step keeps the pieces apart.
LEMMA FateInvariant == Spec => [](PoolInv /\ FateInv)
<1>1. Init => FateInv
  BY InitFate DEF Init
<1>2. PoolInv /\ FateInv /\ [Next]_vars => FateInv'
  <2> SUFFICES ASSUME PoolInv, FateInv, [Next]_vars PROVE FateInv'
    OBVIOUS
  <2>1. CASE \/ UNCHANGED vars \/ Accept \/ CallGetResult \/ AskHasResult \/ Reap
             \/ \E c \in Client : HEnd(c) \/ H2Start(c)
    <3>1. UNCHANGED <<tx_proc_data, inbox, sending, held, rst_data, cur, dropped, fetched,
                      started, peer, refused>>
      BY <2>1 DEF vars, Accept, CallGetResult, AskHasResult, Reap, HEnd, H2Start, agents, pool,
         net
    <3> QED BY <3>1, SameFate
  <2> QED BY <2>1, PeerConnectFate, PeerAnswerFate, PeerAskFate, PeerCloseFate, HRecvFate,
             H2RecvFate, H2SendFate, H2CancelFate, DecodeFate, ScanFate, PublishFate,
             FetchResultFate, StopFate DEF Next, Peer, H, H2, Owner, GetResult
<1> QED BY <1>1, <1>2, PoolInvariant, PTL DEF Spec

\* A set of indices, or of places, that the invariants reduce to at most one member.
LEMMA AtMostOne ==
  ASSUME NEW S, \A x, y \in S : x = y
  PROVE  /\ S = {} => Cardinality(S) = 0
         /\ S # {} => Cardinality(S) = 1
<1>1. S # {} => \E x \in S : S = {x}
  OBVIOUS
<1> QED BY <1>1, FS_EmptySet, FS_Singleton

LEMMA CountAt ==
  ASSUME PoolInv, FateInv, NEW c \in Client, NEW k \in Task
  PROVE  /\ PlacesAt(c, k) \in Nat
         /\ PlacesAt(c, k) > 0 <=> \E p \in Place : At(k, p, c)
         /\ PlacesAt(c, k) <= 1
<1> DEFINE q == {n \in 1 .. Len(tx_proc_data[c]) : tx_proc_data[c][n] = k}
           i == {n \in 1 .. Len(inbox[c]) : inbox[c][n] = DataRsp(k)}
           s == {r \in {"sending"} : sending[c] = k}
           d == {r \in {"held"} : k \in held[c]}
           t == {r \in {"rst_data"} : k \in rst_data[c]}
<1>1. /\ \A x, y \in q : x = y
      /\ \A x, y \in i : x = y
      /\ \A x, y \in s : x = y
      /\ \A x, y \in d : x = y
      /\ \A x, y \in t : x = y
  BY DEF FateInv, Distinct
<1>2. PlacesAt(c, k) = Cardinality(q) + Cardinality(i) + Cardinality(s) + Cardinality(d)
                         + Cardinality(t)
  BY DEF PlacesAt
<1>3. /\ q # {} <=> At(k, "queue", c)
      /\ i # {} <=> At(k, "inbox", c)
      /\ s # {} <=> At(k, "sending", c)
      /\ d # {} <=> At(k, "held", c)
      /\ t # {} <=> At(k, "rst_data", c)
  BY DEF At
<1>4. c # 0 /\ c \in Spot
  BY DEF Client, Spot
<1>5. \A p \in Place : At(k, p, c) => p \in {"queue", "inbox", "sending", "held", "rst_data"}
  BY <1>4 DEF At
<1>6. \A p, r \in Place : At(k, p, c) /\ At(k, r, c) => p = r
  BY <1>4 DEF FateInv, Unique
<1>7. /\ "queue" \in Place /\ "inbox" \in Place /\ "sending" \in Place /\ "held" \in Place
      /\ "rst_data" \in Place
  BY DEF Place
<1> HIDE DEF q, i, s, d, t
<1>8. /\ Cardinality(q) = IF At(k, "queue", c) THEN 1 ELSE 0
      /\ Cardinality(i) = IF At(k, "inbox", c) THEN 1 ELSE 0
      /\ Cardinality(s) = IF At(k, "sending", c) THEN 1 ELSE 0
      /\ Cardinality(d) = IF At(k, "held", c) THEN 1 ELSE 0
      /\ Cardinality(t) = IF At(k, "rst_data", c) THEN 1 ELSE 0
  BY <1>1, <1>3, AtMostOne
<1>9. PlacesAt(c, k) > 0 <=> \E p \in Place : At(k, p, c)
  BY <1>2, <1>5, <1>7, <1>8
<1>10. PlacesAt(c, k) \in Nat /\ PlacesAt(c, k) <= 1
  BY <1>2, <1>6, <1>7, <1>8
<1> QED BY <1>9, <1>10

\* Every piece handed to decode has one fate, for any number of clients and pieces:
\* it is in one place only, and as long as no connection was lost, no frame
\* refused and the pool runs, it is in one.
THEOREM PieceHasOneFate == Spec => []OneFate
<1>1. PoolInv /\ FateInv => OneFate
  <2> SUFFICES ASSUME PoolInv, FateInv, NEW k \in 1 .. started
               PROVE  LET at == {c \in Client : PlacesAt(c, k) > 0}
                          elsewhere == Cardinality({r \in {"cur"} : cur = k})
                                         + Cardinality({k} \cap dropped)
                                         + Cardinality({k} \cap fetched)
                      IN  /\ Cardinality(at) + elsewhere <= 1
                          /\ \A c \in at : PlacesAt(c, k) = 1
                          /\ (\A c \in Client : peer[c] # "closed") /\ refused = {}
                               => Cardinality(at) + elsewhere = 1
    BY DEF OneFate
  <2> DEFINE at == {c \in Client : PlacesAt(c, k) > 0}
             u == {r \in {"cur"} : cur = k}
             dr == {k} \cap dropped
             fe == {k} \cap fetched
  <2>1. k \in Task
    BY PoolAssumption DEF PoolInv, PoolTypes, Task
  <2>2. \A c \in Client : c \in at <=> \E p \in Place : At(k, p, c)
    BY <2>1, CountAt
  <2>3. \A c \in at : PlacesAt(c, k) = 1
    <3> TAKE c \in at
    <3>1. PlacesAt(c, k) \in Nat /\ PlacesAt(c, k) > 0 /\ PlacesAt(c, k) <= 1
      BY <2>1, CountAt
    <3> QED BY <3>1
  <2>4. /\ u # {} <=> At(k, "cur", 0)
        /\ dr # {} <=> At(k, "dropped", 0)
        /\ fe # {} <=> At(k, "fetched", 0)
    BY DEF At
  <2>5. /\ \A x, y \in u : x = y
        /\ \A x, y \in dr : x = y
        /\ \A x, y \in fe : x = y
    OBVIOUS
  <2>6. at \subseteq Client /\ 0 \notin Client /\ 0 \in Spot /\ Client \subseteq Spot
    BY DEF Client, Spot
  <2>7. \A p, q \in Place : \A c, d \in Spot : At(k, p, c) /\ At(k, q, d) => p = q /\ c = d
    BY <2>1 DEF FateInv, Unique
  <2>8. \A p \in Place : At(k, p, 0) => p \in {"cur", "dropped", "fetched"}
    BY <2>6 DEF At
  <2>9. "cur" \in Place /\ "dropped" \in Place /\ "fetched" \in Place
    BY DEF Place
  <2> HIDE DEF at, u, dr, fe
  <2>10. \A x, y \in at : x = y
    BY <2>2, <2>6, <2>7
  <2>11. /\ Cardinality(u) = IF At(k, "cur", 0) THEN 1 ELSE 0
         /\ Cardinality(dr) = IF At(k, "dropped", 0) THEN 1 ELSE 0
         /\ Cardinality(fe) = IF At(k, "fetched", 0) THEN 1 ELSE 0
    BY <2>4, <2>5, AtMostOne
  <2>12. Cardinality(at) = IF at = {} THEN 0 ELSE 1
    BY <2>10, AtMostOne
  <2>13. at # {} => ~At(k, "cur", 0) /\ ~At(k, "dropped", 0) /\ ~At(k, "fetched", 0)
    BY <2>2, <2>6, <2>7, <2>9
  <2>14. /\ ~(At(k, "cur", 0) /\ At(k, "dropped", 0))
         /\ ~(At(k, "cur", 0) /\ At(k, "fetched", 0))
         /\ ~(At(k, "dropped", 0) /\ At(k, "fetched", 0))
    BY <2>6, <2>7, <2>9, "cur" # "dropped", "cur" # "fetched", "dropped" # "fetched"
  <2>15. NoLoss => \/ at # {}
                   \/ At(k, "cur", 0) \/ At(k, "dropped", 0) \/ At(k, "fetched", 0)
    BY <2>2, <2>6, <2>8 DEF FateInv, Somewhere, Spot
  <2>16. Cardinality(at) + (Cardinality(u) + Cardinality(dr) + Cardinality(fe)) <= 1
    BY <2>11, <2>12, <2>13, <2>14
  <2>17. NoLoss => Cardinality(at) + (Cardinality(u) + Cardinality(dr) + Cardinality(fe)) = 1
    BY <2>11, <2>12, <2>13, <2>14, <2>15
  <2> QED BY <2>3, <2>16, <2>17 DEF NoLoss, at, u, dr, fe
<1> QED BY <1>1, FateInvariant, PTL
=============================================================================
