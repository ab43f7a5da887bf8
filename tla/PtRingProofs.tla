---------------------------- MODULE PtRingProofs ----------------------------
(***************************************************************************)
(* Proofs about PtRing, for every ring length, chunk length, window and    *)
(* byte set.  RingInv is inductive; CapturedInOrder and TypeOK follow, and *)
(* so does that the ring implements TraceCapture.                          *)
(***************************************************************************)
EXTENDS PtRing, TLAPS

-----------------------------------------------------------------------------
(* Arithmetic modulo the ring length.                                      *)

\* A natural number is a multiple of n plus its remainder, which is below n.
LEMMA ModDecompose ==
  ASSUME NEW n \in Nat \ {0}, NEW a \in Nat
  PROVE  /\ a % n \in 0 .. n - 1
         /\ \E k \in Nat : a = n * k + (a % n)
<1>1. a = n * (a \div n) + (a % n) /\ a % n \in 0 .. n - 1
  OBVIOUS
<1>2. a \div n \in Nat
  OBVIOUS
<1> QED BY <1>1, <1>2

\* The remainder is the only number below n that does so.
LEMMA ModUnique ==
  ASSUME NEW n \in Nat \ {0}, NEW a \in Nat, NEW k \in Nat,
         NEW s \in 0 .. n - 1, a = n * k + s
  PROVE  a % n = s
  OBVIOUS

\* Going once around the ring comes back to the same slot.
LEMMA ModPeriod ==
  ASSUME NEW n \in Nat \ {0}, NEW a \in Nat
  PROVE  (a + n) % n = a % n
<1>1. PICK k \in Nat : a = n * k + (a % n)
  BY ModDecompose
<1>2. a + n = n * (k + 1) + (a % n)
  BY <1>1, ModDecompose
<1>3. a + n \in Nat /\ k + 1 \in Nat /\ a % n \in 0 .. n - 1
  BY ModDecompose
<1> QED BY <1>2, <1>3, ModUnique, Zenon

\* fetch_data reduces (pos + i + j) where pos is already reduced: the slot is
\* the one the unreduced position would have.
LEMMA ModAdd ==
  ASSUME NEW n \in Nat \ {0}, NEW a \in Nat, NEW b \in Nat
  PROVE  ((a % n) + b) % n = (a + b) % n
<1>1. PICK k \in Nat : a = n * k + (a % n)
  BY ModDecompose
<1>2. (a % n) + b \in Nat
  BY ModDecompose
<1>3. PICK m \in Nat : (a % n) + b = n * m + (((a % n) + b) % n)
  BY <1>2, ModDecompose
<1>4. ((a % n) + b) % n \in 0 .. n - 1
  BY <1>2, ModDecompose
<1>5. a + b = n * (k + m) + (((a % n) + b) % n)
  <2> DEFINE r == a % n
             t == ((a % n) + b) % n
             nk == n * k
             nm == n * m
  <2>3. r \in Int /\ t \in Int /\ nk \in Int /\ nm \in Int
    BY <1>4, ModDecompose
  <2>4. a = nk + r /\ r + b = nm + t
    BY <1>1, <1>3
  <2> HIDE DEF r, t, nk, nm
  <2>5. a + b = nk + nm + t
    BY <2>3, <2>4
  <2>1. a + b = n * k + n * m + (((a % n) + b) % n)
    BY <2>5 DEF nk, nm, t
  <2>2. n * (k + m) = n * k + n * m
    OBVIOUS
  <2> QED BY <2>1, <2>2
<1>6. a + b \in Nat /\ k + m \in Nat
  OBVIOUS
<1>7. (a + b) % n = ((a % n) + b) % n
  BY <1>4, <1>5, <1>6, ModUnique, Zenon
<1> QED BY <1>7

\* Two positions less than a ring apart that share a slot are equal.
LEMMA ModInjective ==
  ASSUME NEW n \in Nat \ {0}, NEW a \in Nat, NEW b \in Nat,
         a <= b, b < a + n, a % n = b % n
  PROVE  a = b
<1>1. PICK k \in Nat : a = n * k + (a % n)
  BY ModDecompose
<1>2. PICK m \in Nat : b = n * m + (b % n)
  BY ModDecompose
<1>3. n * k <= n * m /\ n * m < n * k + n
  <2> DEFINE r == a % n
             nk == n * k
             nm == n * m
  <2>1. r \in Int /\ nk \in Int /\ nm \in Int
    BY ModDecompose
  <2>2. a = nk + r /\ b = nm + r
    BY <1>1, <1>2
  <2> HIDE DEF r, nk, nm
  <2>3. nk <= nm /\ nm < nk + n
    BY <2>1, <2>2
  <2> QED BY <2>3 DEF nk, nm
<1>4. CASE m < k
  <2>1. n * m < n * k
    BY <1>4
  <2> QED BY <2>1, <1>3
<1>5. CASE m > k
  <2>1. n * m >= n * (k + 1)
    BY <1>5
  <2>2. n * (k + 1) = n * k + n
    OBVIOUS
  <2> QED BY <2>1, <2>2, <1>3
<1>6. CASE m = k
  BY <1>6, <1>1, <1>2, ModDecompose
<1> QED BY <1>4, <1>5, <1>6

\* Any n consecutive positions meet every slot.
LEMMA ModSurjective ==
  ASSUME NEW n \in Nat \ {0}, NEW a \in Nat, NEW s \in 0 .. n - 1
  PROVE  \E q \in a .. a + n - 1 : q % n = s
<1>1. PICK k \in Nat : a = n * k + (a % n)
  BY ModDecompose
<1>2. a % n \in 0 .. n - 1
  BY ModDecompose
<1>3. CASE s >= a % n
  <2> DEFINE q == n * k + s
  <2>1. q \in a .. a + n - 1
    BY <1>1, <1>2, <1>3
  <2>2. q % n = s
    BY ModUnique
  <2> QED BY <2>1, <2>2
<1>4. CASE s < a % n
  <2> DEFINE q == n * (k + 1) + s
  <2>1. n * (k + 1) = n * k + n
    OBVIOUS
  <2>2. q \in a .. a + n - 1
    BY <1>1, <1>2, <1>4, <2>1
  <2>3. q % n = s
    BY ModUnique
  <2> QED BY <2>2, <2>3
<1> QED BY <1>2, <1>3, <1>4

\* Copying one more byte of the chunk extends everything captured by it.
LEMMA ConcatAppend ==
  ASSUME NEW S, NEW s \in Seq(S), NEW t \in Seq(S), NEW e \in S
  PROVE  s \o Append(t, e) = Append(s \o t, e)
  OBVIOUS

-----------------------------------------------------------------------------
\* Every offset fetch_data computes lies inside the ring.
LEMMA SlotInRing ==
  ASSUME NEW a \in Nat
  PROVE  Slot(a) \in 0 .. BuffLen - 1
BY RingAssumption, ModDecompose DEF Slot

\* The offset fetch_data computes from read_pos, i and j is the slot of the
\* (Taken + j)-th byte of the trace.
LEMMA NextSlot ==
  ASSUME TypeOK, read_pos = Slot(Len(delivered)), NEW b \in Nat
  PROVE  Slot(read_pos + i + b) = Slot(Taken + b)
<1>1. Len(delivered) \in Nat /\ i \in Nat /\ i + b \in Nat
  BY RingAssumption DEF TypeOK
<1>2. Slot(read_pos + (i + b)) = Slot(Len(delivered) + (i + b))
  BY <1>1, RingAssumption, ModAdd DEF Slot
<1>3. read_pos + (i + b) = read_pos + i + b
  BY <1>1, RingAssumption DEF TypeOK
<1>4. Len(delivered) + (i + b) = Taken + b
  BY <1>1 DEF Taken
<1> QED BY <1>2, <1>3, <1>4

\* The ring filled with 0xFF and nothing written satisfies RingInv.
LEMMA InitInv == Init => RingInv
<1> SUFFICES ASSUME Init PROVE RingInv
  OBVIOUS
<1>1. TypeOK
  <2>1. lapped \in BOOLEAN
    BY Zenon DEF Init
  <2>2. buff \in [0 .. BuffLen - 1 -> Byte]
    BY RingAssumption DEF Init
  <2> QED BY <2>1, <2>2, RingAssumption DEF Init, TypeOK
<1>2. Slot(0) = 0
  BY RingAssumption, ModUnique DEF Slot
<1>3. Taken = 0 /\ Len(written) = 0 /\ Captured = << >>
  BY DEF Init, Taken, Captured
<1>4. Cells
  BY <1>3, SlotInRing, RingAssumption DEF Init, Cells
<1>5. CapturedInOrder
  BY <1>3 DEF CapturedInOrder
<1> QED BY <1>1, <1>2, <1>3, <1>4, <1>5, RingAssumption DEF Init, RingInv

\* Every step of the hardware and of the polling thread keeps the types; the
\* bound on i needs the part of RingInv that says when the chunk is full.
LEMMA TypeStep == RingInv /\ [Next]_vars => TypeOK'
<1> SUFFICES ASSUME RingInv, [Next]_vars PROVE TypeOK'
  OBVIOUS
<1>t. TypeOK /\ (i = OutLen => pc = "return")
  BY DEF RingInv
<1>s. Slot(read_pos + i) \in 0 .. BuffLen - 1
  <2>1. read_pos + i \in Nat
    BY <1>t, RingAssumption DEF TypeOK
  <2> QED BY <2>1, SlotInRing
<1>b. Slot(read_pos + i) \in DOMAIN buff
  BY <1>t, <1>s DEF TypeOK
<1>1. ASSUME NEW b \in Byte, HwWrite(b) PROVE TypeOK'
  <2>1. lapped' \in BOOLEAN
    BY <1>1, Zenon DEF HwWrite
  <2>2. buff' \in [0 .. BuffLen - 1 -> Byte]
    BY <1>1, <1>t DEF HwWrite, TypeOK
  <2>3. written' \in Seq(Byte)
    BY <1>1, <1>t DEF HwWrite, TypeOK
  <2> QED BY <1>1, <1>t, <2>1, <2>2, <2>3 DEF HwWrite, TypeOK
<1>2. CASE CallFetch
  BY <1>2, <1>t, RingAssumption DEF CallFetch, ring, TypeOK
<1>3. CASE ScanByte
  BY <1>3, <1>t, RingAssumption DEF ScanByte, LastLook, ring, TypeOK
<1>4. CASE CopyByte
  BY <1>4, <1>t, <1>b DEF CopyByte, ring, TypeOK
<1>5. CASE ClearByte
  <2>1. buff' \in [0 .. BuffLen - 1 -> Byte]
    BY <1>5, <1>t, RingAssumption DEF ClearByte, Erased, TypeOK
  <2>2. i' \in 0 .. OutLen /\ j' \in 0 .. Window - 1
    BY <1>5, <1>t, RingAssumption DEF ClearByte, TypeOK
  <2>3. pc' \in {"scan", "return"}
    BY <1>5 DEF ClearByte
  <2> QED BY <1>5, <1>t, <2>1, <2>2, <2>3 DEF ClearByte, TypeOK
<1>6. CASE ReturnFetch
  BY <1>6, <1>t, <1>s, RingAssumption DEF ReturnFetch, NextPos, ring, TypeOK
<1>7. CASE UNCHANGED vars
  BY <1>7, <1>t DEF vars, TypeOK
<1> QED BY <1>1, <1>2, <1>3, <1>4, <1>5, <1>6, <1>7 DEF Next, Reader

\* A byte written by the hardware lands in a slot that holds 0xFF, or laps the
\* reader.
LEMMA HwStep ==
  ASSUME RingInv, TypeOK', NEW b \in Byte, HwWrite(b)
  PROVE  RingInv'
<1>t. /\ TypeOK
      /\ read_pos = Slot(Len(delivered))
  BY DEF RingInv
<1>l. /\ Len(written) \in Nat /\ Len(delivered) \in Nat /\ i \in Nat
      /\ Taken \in Nat
  BY <1>t DEF TypeOK, Taken
<1>u. /\ UNCHANGED <<read_pos, pc, i, j, out_buff, delivered>>
      /\ Taken' = Taken /\ Captured' = Captured
  BY DEF HwWrite, Taken, Captured
<1>w. /\ Len(written') = Len(written) + 1
      /\ \A n \in 1 .. Len(written) : written'[n] = written[n]
      /\ written'[Len(written) + 1] = b
  BY <1>t DEF HwWrite, TypeOK
<1>1. ASSUME ~lapped'
      PROVE  ~lapped /\ Len(written) < Taken + BuffLen
  <2>1. ~lapped /\ ~(Len(written) - Taken >= BuffLen)
    BY <1>1, Zenon DEF HwWrite
  <2> QED BY <2>1, <1>l, RingAssumption
<1>2. ASSUME ~lapped' PROVE Cells'
  <2>1. /\ Taken <= Len(written)
        /\ Len(written) < Taken + BuffLen
        /\ Cells
    BY <1>1, <1>2 DEF RingInv
  <2>2. SUFFICES ASSUME NEW q \in Taken .. Taken + BuffLen - 1
                 PROVE  buff'[Slot(q)] = IF q < Len(written') THEN written'[q + 1] ELSE FF
    BY <1>u DEF Cells, Slot
  <2>3. q \in Nat /\ Slot(q) \in 0 .. BuffLen - 1 /\ Slot(Len(written)) \in 0 .. BuffLen - 1
    BY <1>l, SlotInRing, RingAssumption, SMTT(40)
  <2>4. buff[Slot(q)] = IF q < Len(written) THEN written[q + 1] ELSE FF
    BY <2>1 DEF Cells
  <2>5. CASE q = Len(written)
    <3>1. buff'[Slot(q)] = b
      BY <2>3, <2>5, <1>t DEF HwWrite, TypeOK
    <3> QED BY <3>1, <2>5, <1>w, <1>l
  <2>6. CASE q # Len(written)
    <3>1. Slot(q) # Slot(Len(written))
      <4>1. CASE q < Len(written)
        <5>1. q <= Len(written) /\ Len(written) < q + BuffLen
          BY <4>1, <2>1, <2>3, <1>l, RingAssumption
        <5> QED BY <5>1, <2>3, <2>6, <1>l, RingAssumption, ModInjective, Zenon DEF Slot
      <4>2. CASE Len(written) < q
        <5>1. Len(written) <= q /\ q < Len(written) + BuffLen
          BY <4>2, <2>1, <2>3, <1>l, RingAssumption
        <5> QED BY <5>1, <2>3, <2>6, <1>l, RingAssumption, ModInjective, Zenon DEF Slot
      <4> QED BY <4>1, <4>2, <2>3, <2>6, <1>l
    <3>2. buff'[Slot(q)] = buff[Slot(q)]
      BY <3>1, <2>3, <1>t DEF HwWrite, TypeOK
    <3> QED BY <3>2, <2>4, <2>3, <2>6, <1>w, <1>l
  <2> QED BY <2>5, <2>6
<1>3. ASSUME ~lapped'
      PROVE  /\ Len(Captured) <= Len(written')
             /\ \A n \in 1 .. Len(Captured) : Captured[n] = written'[n]
  <2>1. CapturedInOrder
    BY DEF RingInv
  <2>2. Captured \in Seq(Byte)
    BY <1>t DEF TypeOK, Captured
  <2>3. /\ Len(Captured) \in Nat
        /\ Len(Captured) <= Len(written)
        /\ \A n \in 1 .. Len(Captured) : Captured[n] = written[n]
    BY <2>1, <2>2, <1>1, <1>3 DEF CapturedInOrder
  <2> QED BY <2>3, <1>w, <1>l
<1>4. CapturedInOrder'
  BY <1>3, <1>u DEF CapturedInOrder
<1>5. ASSUME ~lapped'
      PROVE  /\ Taken' <= Len(written')
             /\ Len(written') <= Taken' + BuffLen
             /\ pc' \in {"copy", "clear"} => Taken' < Len(written')
  BY <1>5, <1>1, <1>u, <1>w, <1>l, RingAssumption DEF RingInv
<1>6. read_pos' = Slot(Len(delivered))'
  BY <1>u, <1>t DEF Slot
<1> QED BY <1>2, <1>4, <1>5, <1>6, <1>u DEF RingInv

\* Starting a fetch_data changes nothing RingInv speaks of.
LEMMA CallStep ==
  ASSUME RingInv, TypeOK', CallFetch
  PROVE  RingInv'
<1>1. i = 0 /\ i' = 0 /\ out_buff = << >> /\ out_buff' = << >>
  <2>1. i = 0 /\ Len(out_buff) = 0 /\ out_buff \in Seq(Byte)
    BY DEF CallFetch, RingInv, TypeOK
  <2> QED BY <2>1 DEF CallFetch
<1>2. /\ UNCHANGED <<buff, written, lapped, read_pos, delivered>>
      /\ pc' = "scan"
  BY DEF CallFetch, ring
<1>3. Taken' = Taken /\ Captured' = Captured
  BY <1>1, <1>2 DEF Taken, Captured
<1>4. CapturedInOrder'
  BY <1>2, <1>3 DEF CapturedInOrder, RingInv
<1>5. Cells => Cells'
  BY <1>2, <1>3 DEF Cells, Slot
<1> QED BY <1>1, <1>2, <1>3, <1>4, <1>5, RingAssumption DEF RingInv, Slot

\* A byte other than 0xFF seen anywhere in the window was written and not taken
\* yet, so the byte at the front of the window was written too.
LEMMA ScanStep ==
  ASSUME RingInv, TypeOK', ScanByte
  PROVE  RingInv'
<1>t. /\ TypeOK
      /\ read_pos = Slot(Len(delivered))
  BY DEF RingInv
<1>l. Len(written) \in Nat /\ Taken \in Nat /\ j \in Nat
  BY <1>t DEF TypeOK, Taken
<1>u. /\ UNCHANGED <<buff, written, lapped, read_pos, i, out_buff, delivered>>
      /\ Taken' = Taken /\ Captured' = Captured
  BY DEF ScanByte, ring, Taken, Captured
<1>1. ASSUME ~lapped, buff[Slot(read_pos + i + j)] # FF
      PROVE  Taken < Len(written)
  <2>1. Slot(read_pos + i + j) = Slot(Taken + j)
    BY <1>t, <1>l, NextSlot
  <2>2. Slot(Taken + j) \in 0 .. BuffLen - 1
    BY <1>l, SlotInRing
  <2>3. PICK q \in Taken .. Taken + BuffLen - 1 : Slot(q) = Slot(Taken + j)
    BY <2>2, <1>l, RingAssumption, ModSurjective, Zenon DEF Slot
  <2>4. buff[Slot(q)] = IF q < Len(written) THEN written[q + 1] ELSE FF
    BY <1>1 DEF RingInv, Cells
  <2>5. q < Len(written)
    BY <2>4, <2>3, <2>1, <1>1
  <2> QED BY <2>5, <1>l, RingAssumption
<1>2. pc = "scan" /\ pc' \in {"scan", "copy", "return"}
  BY <1>t DEF ScanByte
<1>3. pc' = "copy" => buff[Slot(read_pos + i + j)] # FF
  BY DEF ScanByte
<1>4. CapturedInOrder'
  BY <1>u DEF CapturedInOrder, RingInv
<1>5. Cells => Cells'
  BY <1>u DEF Cells, Slot
<1>6. i # OutLen
  BY <1>2 DEF RingInv
<1>7. ASSUME ~lapped'
      PROVE  /\ Taken' <= Len(written')
             /\ Len(written') <= Taken' + BuffLen
             /\ pc' \in {"copy", "clear"} => Taken' < Len(written')
             /\ Cells'
  BY <1>7, <1>1, <1>2, <1>3, <1>5, <1>u DEF RingInv
<1>8. /\ Len(out_buff)' = IF pc' = "clear" THEN i' + 1 ELSE i'
      /\ pc' = "poll" => i' = 0
      /\ i' = OutLen => pc' = "return"
  BY <1>2, <1>6, <1>u DEF RingInv
<1>9. read_pos' = Slot(Len(delivered))'
  BY <1>u, <1>t DEF Slot
<1> QED BY <1>4, <1>7, <1>8, <1>9 DEF RingInv

\* The byte copied is the next one the hardware wrote.
LEMMA CopiedByte ==
  ASSUME RingInv, CopyByte
  PROVE  LET c == buff[Slot(read_pos + i)] IN
         /\ c \in Byte
         /\ Len(out_buff') = i + 1
         /\ Captured \in Seq(Byte)
         /\ Captured' = Append(Captured, c)
         /\ Len(Captured) = Taken
         /\ ~lapped => Taken < Len(written) /\ c = written[Taken + 1]
<1>t. /\ TypeOK
      /\ read_pos = Slot(Len(delivered))
  BY DEF RingInv
<1>l. /\ Len(written) \in Nat /\ Len(delivered) \in Nat /\ i \in Nat /\ read_pos \in Nat
      /\ Taken \in Nat
  BY <1>t DEF TypeOK, Taken
<1>u. /\ UNCHANGED <<buff, written, lapped, read_pos, i, delivered>>
      /\ pc = "copy" /\ pc' = "clear"
  BY DEF CopyByte, ring
<1>a. out_buff' = Append(out_buff, buff[Slot(read_pos + i)])
  BY DEF CopyByte
<1>1. Slot(read_pos + i) = Slot(Taken)
  <2>1. Slot(read_pos + i + 0) = Slot(Taken + 0)
    BY <1>t, NextSlot
  <2> QED BY <2>1, <1>l
<1>2. buff[Slot(read_pos + i)] \in Byte
  BY <1>1, <1>l, <1>t, SlotInRing DEF TypeOK
<1>3. /\ Len(out_buff) = i
      /\ Len(out_buff') = i + 1
  BY <1>2, <1>a, <1>u, <1>t DEF RingInv, TypeOK
<1>4. /\ Captured \in Seq(Byte)
      /\ Captured' = Append(Captured, buff[Slot(read_pos + i)])
      /\ Len(Captured) = Taken
  <2>1. delivered \in Seq(Byte) /\ out_buff \in Seq(Byte)
    BY <1>t DEF TypeOK
  <2>2. Captured' = delivered \o Append(out_buff, buff[Slot(read_pos + i)])
    BY <1>a, <1>u DEF Captured
  <2>3. delivered \o out_buff \in Seq(Byte) /\ Len(delivered \o out_buff) = Len(delivered) + Len(out_buff)
    BY <2>1
  <2>4. delivered \o Append(out_buff, buff[Slot(read_pos + i)])
          = Append(delivered \o out_buff, buff[Slot(read_pos + i)])
    BY <2>1, <1>2, ConcatAppend
  <2> QED BY <2>2, <2>3, <2>4, <1>3 DEF Captured, Taken
<1>5. ASSUME ~lapped
      PROVE  /\ Taken < Len(written)
             /\ buff[Slot(read_pos + i)] = written[Taken + 1]
  <2>1. Taken < Len(written) /\ Cells
    BY <1>5, <1>u DEF RingInv
  <2>2. Taken \in Taken .. Taken + BuffLen - 1
    BY <1>l, RingAssumption
  <2>3. buff[Slot(Taken)] = IF Taken < Len(written) THEN written[Taken + 1] ELSE FF
    BY <2>1, <2>2 DEF Cells
  <2> QED BY <2>1, <2>3, <1>1
<1> QED BY <1>2, <1>3, <1>4, <1>5

\* Copying a byte keeps RingInv.
LEMMA CopyStep ==
  ASSUME RingInv, TypeOK', CopyByte
  PROVE  RingInv'
<1>t. /\ TypeOK
      /\ read_pos = Slot(Len(delivered))
  BY DEF RingInv
<1>l. Len(written) \in Nat /\ Taken \in Nat
  BY <1>t DEF TypeOK, Taken
<1>u. /\ UNCHANGED <<buff, written, lapped, read_pos, i, delivered>>
      /\ pc = "copy" /\ pc' = "clear"
      /\ Taken' = Taken
  BY DEF CopyByte, ring, Taken
<1>2. buff[Slot(read_pos + i)] \in Byte
  BY CopiedByte
<1>3. Len(out_buff') = i + 1
  BY CopiedByte
<1>4. /\ Captured \in Seq(Byte)
      /\ Captured' = Append(Captured, buff[Slot(read_pos + i)])
      /\ Len(Captured) = Taken
  BY CopiedByte
<1>5. ASSUME ~lapped
      PROVE  /\ Taken < Len(written)
             /\ buff[Slot(read_pos + i)] = written[Taken + 1]
  BY <1>5, CopiedByte
<1>6. CapturedInOrder'
  <2> SUFFICES ASSUME ~lapped
               PROVE  /\ Len(Captured') <= Len(written)
                      /\ \A n \in 1 .. Len(Captured') : Captured'[n] = written[n]
    BY <1>u DEF CapturedInOrder
  <2>1. \A n \in 1 .. Len(Captured) : Captured[n] = written[n]
    BY DEF RingInv, CapturedInOrder
  <2>2. Len(Captured') = Taken + 1
    BY <1>4, <1>2
  <2>3. \A n \in 1 .. Taken + 1 :
          Captured'[n] = IF n = Taken + 1 THEN buff[Slot(read_pos + i)] ELSE Captured[n]
    BY <1>4, <1>2, <1>l
  <2> QED BY <2>1, <2>2, <2>3, <1>4, <1>5, <1>l
<1>7. Cells => Cells'
  BY <1>u DEF Cells, Slot
<1>8. ASSUME ~lapped'
      PROVE  /\ Taken' <= Len(written')
             /\ Len(written') <= Taken' + BuffLen
             /\ pc' \in {"copy", "clear"} => Taken' < Len(written')
             /\ Cells'
  BY <1>8, <1>7, <1>u DEF RingInv
<1>9. /\ Len(out_buff)' = IF pc' = "clear" THEN i' + 1 ELSE i'
      /\ pc' = "poll" => i' = 0
      /\ i' = OutLen => pc' = "return"
  BY <1>3, <1>u DEF RingInv
<1>10. read_pos' = Slot(Len(delivered))'
  BY <1>u, <1>t DEF Slot
<1> QED BY <1>6, <1>8, <1>9, <1>10 DEF RingInv

\* The slot just emptied is the one the hardware fills a whole ring later: it
\* holds 0xFF, and no other unread slot is touched.
LEMMA ClearStep ==
  ASSUME RingInv, TypeOK', ClearByte
  PROVE  RingInv'
<1>t. /\ TypeOK
      /\ read_pos = Slot(Len(delivered))
  BY DEF RingInv
<1>l. /\ Len(written) \in Nat /\ Len(delivered) \in Nat /\ i \in Nat /\ read_pos \in Nat
      /\ Taken \in Nat
  BY <1>t DEF TypeOK, Taken
<1>u. /\ UNCHANGED <<written, lapped, read_pos, out_buff, delivered>>
      /\ pc = "clear" /\ i' = i + 1
      /\ Taken' = Taken + 1 /\ Captured' = Captured
  <2>1. /\ UNCHANGED <<written, lapped, read_pos, out_buff, delivered>>
        /\ pc = "clear" /\ i' = i + 1
    BY DEF ClearByte
  <2> QED BY <2>1, <1>l DEF Taken, Captured
<1>1. Slot(read_pos + i) = Slot(Taken)
  <2>1. Slot(read_pos + i + 0) = Slot(Taken + 0)
    BY <1>t, NextSlot
  <2> QED BY <2>1, <1>l
<1>2. buff' = [buff EXCEPT ![Slot(Taken)] = FF]
  BY <1>1 DEF ClearByte, Erased
<1>3. ASSUME ~lapped PROVE Cells'
  <2>1. /\ Taken < Len(written)
        /\ Len(written) <= Taken + BuffLen
        /\ Cells
    BY <1>3, <1>u DEF RingInv
  <2>2. SUFFICES ASSUME NEW q \in Taken + 1 .. Taken + 1 + BuffLen - 1
                 PROVE  buff'[Slot(q)] = IF q < Len(written) THEN written[q + 1] ELSE FF
    BY <1>u DEF Cells, Slot
  <2>3. q \in Nat /\ Slot(q) \in 0 .. BuffLen - 1 /\ Slot(Taken) \in 0 .. BuffLen - 1
    BY <1>l, SlotInRing, RingAssumption, SMTT(40)
  <2>4. CASE q = Taken + BuffLen
    <3>1. Slot(q) = Slot(Taken)
      BY <2>4, <1>l, RingAssumption, ModPeriod DEF Slot
    <3>2. buff'[Slot(q)] = FF
      BY <3>1, <2>3, <1>2, <1>t DEF TypeOK
    <3> QED BY <3>2, <2>4, <2>1, <1>l, RingAssumption
  <2>5. CASE q # Taken + BuffLen
    <3>1. q \in Taken .. Taken + BuffLen - 1 /\ Taken <= q /\ q < Taken + BuffLen /\ q # Taken
      BY <2>5, <1>l, RingAssumption
    <3>2. Slot(q) # Slot(Taken)
      BY <3>1, <2>3, <1>l, RingAssumption, ModInjective, Zenon DEF Slot
    <3>3. buff'[Slot(q)] = buff[Slot(q)]
      BY <3>2, <2>3, <1>2, <1>t DEF TypeOK
    <3>4. buff[Slot(q)] = IF q < Len(written) THEN written[q + 1] ELSE FF
      BY <3>1, <2>1 DEF Cells
    <3> QED BY <3>3, <3>4
  <2> QED BY <2>4, <2>5
<1>4. ASSUME ~lapped'
      PROVE  /\ Taken' <= Len(written')
             /\ Len(written') <= Taken' + BuffLen
             /\ pc' \in {"copy", "clear"} => Taken' < Len(written')
             /\ Cells'
  <2>1. /\ Taken < Len(written)
        /\ Len(written) <= Taken + BuffLen
    BY <1>4, <1>u DEF RingInv
  <2>2. pc' \in {"scan", "return"}
    BY DEF ClearByte
  <2> QED BY <2>1, <2>2, <1>3, <1>4, <1>u, <1>l, RingAssumption
<1>5. CapturedInOrder'
  BY <1>u DEF CapturedInOrder, RingInv
<1>6. /\ Len(out_buff)' = IF pc' = "clear" THEN i' + 1 ELSE i'
      /\ pc' = "poll" => i' = 0
      /\ i' = OutLen => pc' = "return"
  <2>1. Len(out_buff) = i + 1
    BY <1>u DEF RingInv
  <2>2. pc' = IF i + 1 < OutLen THEN "scan" ELSE "return"
    BY DEF ClearByte
  <2> QED BY <2>1, <2>2, <1>u, <1>l, RingAssumption
<1>7. read_pos' = Slot(Len(delivered))'
  BY <1>u, <1>t DEF Slot
<1> QED BY <1>4, <1>5, <1>6, <1>7 DEF RingInv

\* read_pos moves to the slot of the first byte not taken, and the chunk joins
\* what was delivered.
LEMMA ReturnStep ==
  ASSUME RingInv, TypeOK', ReturnFetch
  PROVE  RingInv'
<1>t. /\ TypeOK
      /\ read_pos = Slot(Len(delivered))
      /\ pc = "return"
  BY DEF RingInv, ReturnFetch
<1>l. /\ Len(written) \in Nat /\ Len(delivered) \in Nat /\ i \in Nat /\ read_pos \in Nat
      /\ Taken \in Nat
  BY <1>t DEF TypeOK, Taken
<1>u. /\ UNCHANGED <<buff, written, lapped>>
      /\ pc' = "poll" /\ i' = 0 /\ out_buff' = << >>
      /\ delivered' = delivered \o out_buff
  BY DEF ReturnFetch, ring
<1>1. Len(out_buff) = i /\ Len(delivered') = Taken
  <2>1. Len(out_buff) = i
    BY <1>t DEF RingInv
  <2>2. delivered \in Seq(Byte) /\ out_buff \in Seq(Byte)
    BY <1>t DEF TypeOK
  <2>3. Len(delivered \o out_buff) = Len(delivered) + Len(out_buff)
    BY <2>2
  <2> QED BY <2>1, <2>3, <1>u DEF Taken
<1>2. Taken' = Taken
  BY <1>1, <1>u, <1>l DEF Taken
<1>3. Captured' = Captured
  <2>1. delivered' \in Seq(Byte)
    BY DEF TypeOK
  <2> QED BY <2>1, <1>u DEF Captured
<1>4. read_pos' = Slot(Len(delivered))'
  <2>1. Slot(read_pos + i + 0) = Slot(Taken + 0)
    BY <1>t, NextSlot
  <2>2. Slot(read_pos + i) = Slot(Taken)
    BY <2>1, <1>l
  <2> QED BY <2>2, <1>1 DEF ReturnFetch, NextPos, Slot
<1>5. CapturedInOrder'
  BY <1>u, <1>3 DEF CapturedInOrder, RingInv
<1>6. Cells => Cells'
  BY <1>u, <1>2 DEF Cells, Slot
<1>7. ASSUME ~lapped'
      PROVE  /\ Taken' <= Len(written')
             /\ Len(written') <= Taken' + BuffLen
             /\ pc' \in {"copy", "clear"} => Taken' < Len(written')
             /\ Cells'
  BY <1>7, <1>6, <1>2, <1>u DEF RingInv
<1>8. /\ Len(out_buff)' = IF pc' = "clear" THEN i' + 1 ELSE i'
      /\ pc' = "poll" => i' = 0
      /\ i' = OutLen => pc' = "return"
  BY <1>u, RingAssumption
<1> QED BY <1>4, <1>5, <1>7, <1>8 DEF RingInv

\* RingInv is inductive.
LEMMA StepInv == RingInv /\ [Next]_vars => RingInv'
<1> SUFFICES ASSUME RingInv, [Next]_vars PROVE RingInv'
  OBVIOUS
<1>t. TypeOK'
  BY TypeStep
<1>1. ASSUME NEW b \in Byte, HwWrite(b) PROVE RingInv'
  BY <1>1, <1>t, HwStep
<1>2. CASE CallFetch
  BY <1>2, <1>t, CallStep
<1>3. CASE ScanByte
  BY <1>3, <1>t, ScanStep
<1>4. CASE CopyByte
  BY <1>4, <1>t, CopyStep
<1>5. CASE ClearByte
  BY <1>5, <1>t, ClearStep
<1>6. CASE ReturnFetch
  BY <1>6, <1>t, ReturnStep
<1>7. CASE UNCHANGED vars
  BY <1>7 DEF vars, RingInv, TypeOK, Taken, Slot, Cells, Captured, CapturedInOrder
<1> QED BY <1>1, <1>2, <1>3, <1>4, <1>5, <1>6, <1>7 DEF Next, Reader

\* RingInv holds in every reachable state, whatever the lengths.
THEOREM RingInvariant == Spec => []RingInv
BY InitInv, StepInv, PTL DEF Spec

\* fetch_data and setup_pt_no_pmi keep every counter and offset in its range:
\* i never passes the chunk, read_pos and every offset stay inside the ring.
THEOREM TypeCorrect == Spec => []TypeOK
<1>1. RingInv => TypeOK
  BY DEF RingInv
<1> QED BY <1>1, RingInvariant, PTL

\* Unless the hardware laps the reader, the bytes fetch_data takes out of the
\* ring are the bytes the hardware wrote, each once and in order, however the two
\* interleave and however many times the ring wraps.
THEOREM CaptureOrder == Spec => []CapturedInOrder
<1>1. RingInv => CapturedInOrder
  BY DEF RingInv
<1> QED BY <1>1, RingInvariant, PTL

-----------------------------------------------------------------------------
(* The ring implements TraceCapture.                                       *)

\* A write of the hardware is a Write of the abstract trace: it can lap the
\* reader only when all but at most one byte of the ring are unread.
LEMMA HwIsWrite ==
  ASSUME RingInv, NEW b \in Byte, HwWrite(b)
  PROVE  Abstract!Write(b)
<1>t. TypeOK
  BY DEF RingInv
<1>l. Len(written) \in Nat /\ Taken \in Nat /\ BuffLen \in Nat
  BY <1>t, RingAssumption DEF TypeOK, Taken
<1>c. Len(Captured) \in {Taken, Taken + 1}
  <2>1. Len(Captured) = Len(delivered) + Len(out_buff)
    BY <1>t DEF TypeOK, Captured
  <2>2. Len(out_buff) \in {i, i + 1} /\ i \in Int
    BY <1>t DEF RingInv, TypeOK
  <2>3. Len(delivered) \in Nat /\ Taken = Len(delivered) + i
    BY <1>t DEF Taken, TypeOK
  <2> QED BY <2>1, <2>2, <2>3
<1>1. lapped' = (lapped \/ Len(written) - Taken >= BuffLen)
  BY DEF HwWrite
<1>2. lapped' \in BOOLEAN /\ (lapped => lapped')
  BY <1>1, Zenon
<1>3. lapped' => lapped \/ Len(written) - Len(Captured) >= BuffLen - 1
  <2>1. CASE Len(written) - Taken >= BuffLen
    BY <2>1, <1>l, <1>c
  <2>2. CASE ~(Len(written) - Taken >= BuffLen)
    BY <2>2, <1>1, Zenon
  <2> QED BY <2>1, <2>2
<1>4. written' = Append(written, b) /\ Captured' = Captured
  BY DEF HwWrite, Captured
<1> QED BY <1>2, <1>3, <1>4 DEF Abstract!Write, Abstract!Unread

\* Copying a byte is a Take, or after a lap a TakeAny.
LEMMA CopyIsTake ==
  ASSUME RingInv, CopyByte
  PROVE  Abstract!Take \/ \E b \in Byte : Abstract!TakeAny(b)
<1>l. Len(written) \in Nat /\ Taken \in Nat
  BY DEF RingInv, TypeOK, Taken
<1>u. UNCHANGED <<written, lapped>>
  BY DEF CopyByte, ring
<1>1. CASE lapped
  BY <1>1, <1>u, CopiedByte DEF Abstract!TakeAny
<1>2. CASE ~lapped
  <2>1. /\ Captured' = Append(Captured, written[Len(Captured) + 1])
        /\ Len(written) - Len(Captured) > 0
    BY <1>2, <1>l, CopiedByte
  <2> QED BY <2>1, <1>2, <1>u DEF Abstract!Take, Abstract!Unread
<1> QED BY <1>1, <1>2

\* The other steps of the polling thread leave the abstract trace alone.
LEMMA ReaderStutters ==
  ASSUME RingInv, CallFetch \/ ScanByte \/ ClearByte \/ ReturnFetch
  PROVE  UNCHANGED <<written, Captured, lapped>>
<1>t. delivered \in Seq(Byte) /\ out_buff \in Seq(Byte)
  BY DEF RingInv, TypeOK
<1>1. CASE CallFetch
  <2>1. Len(out_buff) = 0
    BY <1>1 DEF CallFetch, RingInv
  <2>2. out_buff = << >>
    BY <2>1, <1>t
  <2> QED BY <1>1, <2>2 DEF CallFetch, ring, Captured
<1>2. CASE ScanByte
  BY <1>2 DEF ScanByte, ring, Captured
<1>3. CASE ClearByte
  BY <1>3 DEF ClearByte, Captured
<1>4. CASE ReturnFetch
  <2>1. Captured' = (delivered \o out_buff) \o << >>
    BY <1>4 DEF ReturnFetch, Captured
  <2>2. Captured' = Captured
    BY <2>1, <1>t DEF Captured
  <2> QED BY <1>4, <2>2 DEF ReturnFetch, ring
<1> QED BY <1>1, <1>2, <1>3, <1>4

\* The polled ring implements the abstract capture of a trace for every ring
\* length, chunk length and window: fetch_data takes each byte once and in order
\* until a write meets a ring full of unread bytes.
THEOREM RingRefinesTrace == Spec => CapturesTrace
<1>1. Init => Abstract!Init
  BY DEF Init, Abstract!Init, Captured
<1>2. RingInv /\ [Next]_vars => [Abstract!Next]_(Abstract!vars)
  <2> SUFFICES ASSUME RingInv, [Next]_vars
               PROVE  Abstract!Next \/ UNCHANGED <<written, Captured, lapped>>
    BY DEF Abstract!vars
  <2>1. ASSUME NEW b \in Byte, HwWrite(b) PROVE Abstract!Next
    BY <2>1, HwIsWrite DEF Abstract!Next
  <2>2. CASE CopyByte
    BY <2>2, CopyIsTake DEF Abstract!Next
  <2>3. CASE CallFetch \/ ScanByte \/ ClearByte \/ ReturnFetch
    BY <2>3, ReaderStutters
  <2>4. CASE UNCHANGED vars
    BY <2>4 DEF vars, Captured
  <2> QED BY <2>1, <2>2, <2>3, <2>4 DEF Next, Reader
<1> QED BY <1>1, <1>2, RingInvariant, PTL DEF Spec, CapturesTrace, Abstract!Spec
=============================================================================
