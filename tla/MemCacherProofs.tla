-------------------------- MODULE MemCacherProofs ---------------------------
(***************************************************************************)
(* Proofs about MemCacher, for any page size, any number of pages and any  *)
(* number of changes of the memory, and for requests of any length up to a *)
(* page.                                                                   *)
(***************************************************************************)
EXTENDS MemCacher, TLAPS

\* TypeOK without f, and with what the parts of a request say about where it is.
CacherTypes ==
  /\ version \in 0 .. MaxVersion
  /\ cache_lst \in [CachePage -> -1 .. version]
  /\ last_content \in -1 .. Pages
  /\ last_content # -1 => cache_lst[last_content] # -1
  /\ pc \in {"idle", "first", "second", "crashed"}
  /\ addr \in 0 .. Pages * PageSize - 1 /\ len \in 0 .. MaxLen
  /\ DOMAIN rst = 1 .. len
  /\ parts \in Seq(BOOLEAN)

\* The parts of the request done so far.
PartsInv ==
  /\ pc = "first" => len > 0 /\ Len(parts) = 0
  /\ pc = "second" => len > 0 /\ Len(parts) = 1 /\ ~OnePage
  /\ Len(parts) <= IF len = 0 THEN 0 ELSE IF OnePage THEN 1 ELSE 2

\* The n-th part was read.
Got(n) == n <= Len(parts) /\ parts[n] = TRUE

\* read_size counts the parts that were read.
SizeInv ==
  read_size = (IF Got(1) THEN FirstSize ELSE 0) + (IF Got(2) THEN len - FirstSize ELSE 0)

\* The k-th byte of the buffer is the one asked for, in the version of the cache if
\* its page is there.
Good(k) ==
  \E v \in 0 .. version :
    /\ rst[k] = <<addr + k - 1, v>>
    /\ cache_lst[Page(addr + k - 1)] \in {-1, v}

\* Every byte of a part that was read is good.
BytesInv ==
  Page(addr) # 0 =>
    /\ Got(1) => \A k \in 1 .. FirstSize : Good(k)
    /\ Got(2) => \A k \in FirstSize + 1 .. len : Good(k)

CacherInv == CacherTypes /\ PartsInv /\ SizeInv /\ BytesInv /\ CrashOnlyInPageZero

-----------------------------------------------------------------------------
(* Addresses and pages.                                                    *)

LEMMA PageOffset ==
  ASSUME NEW a \in Nat
  PROVE  /\ Page(a) \in Nat /\ Offset(a) \in 0 .. PageSize - 1
         /\ a = Page(a) * PageSize + Offset(a)
BY CacherAssumption DEF Page, Offset

LEMMA PageUnique ==
  ASSUME NEW q \in Nat, NEW r \in 0 .. PageSize - 1
  PROVE  Page(q * PageSize + r) = q /\ Offset(q * PageSize + r) = r
<1> DEFINE a == q * PageSize + r
<1>1. a \in Nat /\ PageSize \in Nat \ {0} /\ q * PageSize \in Nat
  BY CacherAssumption
<1> DEFINE p == Page(a)
           o == Offset(a)
<1>2. p \in Nat /\ o \in 0 .. PageSize - 1 /\ a = p * PageSize + o
  BY <1>1, PageOffset
<1> HIDE DEF p, o
<1>3. ~(p < q)
  <2> SUFFICES ASSUME p < q PROVE FALSE
    OBVIOUS
  <2>1. (p + 1) * PageSize <= q * PageSize
    BY <1>1, <1>2
  <2>2. (p + 1) * PageSize = p * PageSize + PageSize
    BY <1>1, <1>2
  <2> QED BY <1>1, <1>2, <2>1, <2>2
<1>4. ~(q < p)
  <2> SUFFICES ASSUME q < p PROVE FALSE
    OBVIOUS
  <2>1. (q + 1) * PageSize <= p * PageSize
    BY <1>1, <1>2
  <2>2. (q + 1) * PageSize = q * PageSize + PageSize
    BY <1>1, <1>2
  <2> QED BY <1>1, <1>2, <2>1, <2>2
<1>5. p = q
  BY <1>2, <1>3, <1>4
<1> QED BY <1>1, <1>2, <1>5 DEF p, o

\* How get_content cuts a request: the first part ends with its page, the second
\* begins with the next and lies in it.
LEMMA Cut ==
  ASSUME addr \in 0 .. Pages * PageSize - 1, len \in 1 .. MaxLen
  PROVE  /\ FirstSize \in 1 .. len /\ (OnePage => FirstSize = len)
         /\ Page(addr) \in 0 .. Pages - 1
         /\ Offset(addr) + FirstSize <= PageSize
         /\ ~OnePage => /\ Page(addr + FirstSize) = Page(addr) + 1
                        /\ Offset(addr + FirstSize) = 0
         /\ \A k \in 1 .. FirstSize : Page(addr + k - 1) = Page(addr)
         /\ \A k \in FirstSize + 1 .. len : Page(addr + k - 1) = Page(addr) + 1
<1> DEFINE q == Page(addr)
           o == Offset(addr)
           b == q * PageSize
           e == Page(addr + len)
           c == e * PageSize
<1>1. /\ PageSize \in Nat \ {0} /\ Pages \in Nat \ {0} /\ addr \in Nat /\ len \in Nat \ {0}
      /\ len <= PageSize /\ Pages * PageSize \in Nat
  BY CacherAssumption
<1>2. q \in Nat /\ o \in 0 .. PageSize - 1 /\ addr = b + o /\ b \in Nat
  <2>1. q \in Nat /\ o \in 0 .. PageSize - 1 /\ addr = b + o
    BY <1>1, PageOffset
  <2> HIDE DEF q, o
  <2> QED BY <1>1, <2>1
<1>3. e \in Nat
  <2>1. addr + len \in Nat
    BY <1>1
  <2> QED BY <2>1, PageOffset
<1> HIDE DEF b, c, q, o, e
<1>4. /\ \A k \in 0 .. PageSize - 1 : Page(b + k) = q
      /\ \A k \in 0 .. PageSize - 1 : Page(b + PageSize + k) = q + 1 /\ Offset(b + PageSize + k) = k
  <2>1. (q + 1) * PageSize = b + PageSize
    BY <1>1, <1>2 DEF b
  <2>2. \A k \in 0 .. PageSize - 1 : Page(q * PageSize + k) = q
    BY <1>2, PageUnique
  <2>3. \A k \in 0 .. PageSize - 1 : /\ Page((q + 1) * PageSize + k) = q + 1
                                     /\ Offset((q + 1) * PageSize + k) = k
    <3>1. q + 1 \in Nat
      BY <1>2
    <3> QED BY <3>1, PageUnique
  <2> QED BY <2>1, <2>2, <2>3 DEF b
<1>5. q <= Pages - 1
  <2> SUFFICES ASSUME q >= Pages PROVE FALSE
    BY <1>1, <1>2
  <2>1. b >= Pages * PageSize
    BY <1>1, <1>2 DEF b
  <2> QED BY <1>1, <1>2, <2>1
<1>6. CASE o + len < PageSize
  <2>1. addr + len = b + (o + len) /\ o + len \in 0 .. PageSize - 1
    BY <1>1, <1>2, <1>6
  <2>2. e = q
    BY <1>4, <2>1 DEF e
  <2>3. OnePage /\ FirstSize = len
    BY <2>2 DEF OnePage, FirstSize, e, q
  <2>4. ASSUME NEW k \in 1 .. len
        PROVE  Page(addr + k - 1) = q
    <3>1. addr + k - 1 = b + (o + k - 1) /\ o + k - 1 \in 0 .. PageSize - 1
      BY <1>1, <1>2, <1>6
    <3> QED BY <1>4, <3>1
  <2>5. FirstSize \in 1 .. len /\ q \in 0 .. Pages - 1 /\ o + FirstSize <= PageSize
        /\ FirstSize + 1 .. len = {}
    BY <1>1, <1>2, <1>5, <1>6, <2>3
  <2> QED BY <2>3, <2>4, <2>5 DEF q, o
<1>7. CASE o + len >= PageSize
  <2>1. addr + len = b + PageSize + (o + len - PageSize) /\ o + len - PageSize \in 0 .. PageSize - 1
    BY <1>1, <1>2, <1>7
  <2>2. e = q + 1
    BY <1>4, <2>1 DEF e
  <2>3. ~OnePage
    BY <1>2, <2>2 DEF OnePage, e, q
  <2>4. c = b + PageSize
    BY <1>1, <1>2, <2>2 DEF b, c
  <2>5. FirstSize = PageSize - o
    <3>1. FirstSize = c - addr
      BY <2>3 DEF FirstSize, c, e
    <3> QED BY <1>1, <1>2, <2>4, <3>1
  <2>6. addr + FirstSize = b + PageSize + 0 /\ 0 \in 0 .. PageSize - 1
    BY <1>1, <1>2, <2>5
  <2>7. Page(addr + FirstSize) = q + 1 /\ Offset(addr + FirstSize) = 0
    BY <1>4, <2>6
  <2>8. ASSUME NEW k \in 1 .. FirstSize
        PROVE  Page(addr + k - 1) = q
    <3>1. addr + k - 1 = b + (o + k - 1) /\ o + k - 1 \in 0 .. PageSize - 1
      BY <1>1, <1>2, <2>5
    <3> QED BY <1>4, <3>1
  <2>9. ASSUME NEW k \in FirstSize + 1 .. len
        PROVE  Page(addr + k - 1) = q + 1
    <3>1. /\ addr + k - 1 = b + PageSize + (o + k - 1 - PageSize)
          /\ o + k - 1 - PageSize \in 0 .. PageSize - 1
      BY <1>1, <1>2, <2>5
    <3> QED BY <1>4, <3>1
  <2>10. FirstSize \in 1 .. len /\ q \in 0 .. Pages - 1 /\ o + FirstSize <= PageSize
    BY <1>1, <1>2, <1>5, <1>7, <2>5
  <2> QED BY <2>3, <2>7, <2>8, <2>9, <2>10 DEF q, o
<1> QED BY <1>1, <1>2, <1>6, <1>7

LEMMA PartPlace ==
  ASSUME CacherInv, InPart
  PROVE  /\ addr \in 0 .. Pages * PageSize - 1 /\ len \in 1 .. MaxLen /\ FirstSize \in 1 .. len
         /\ pc = "first" => PartAt = addr /\ PartLen = FirstSize
         /\ pc = "second" => PartAt = addr + FirstSize /\ PartLen = len - FirstSize
         /\ Page(PartAt) = IF pc = "first" THEN Page(addr) ELSE Page(addr) + 1
         /\ Page(addr) \in 0 .. Pages - 1 /\ Page(PartAt) \in CachePage
         /\ Offset(PartAt) \in Nat
         /\ InPage
         /\ LastPageHit <=> pc = "first" /\ Page(addr) = 0
<1>1. /\ addr \in 0 .. Pages * PageSize - 1 /\ len \in 1 .. MaxLen
      /\ pc \in {"first", "second"} /\ (pc = "second" => ~OnePage)
  BY CacherAssumption DEF CacherInv, CacherTypes, PartsInv, InPart
<1>2. /\ pc = "first" => PartAt = addr /\ PartLen = FirstSize
      /\ pc = "second" => PartAt = addr + FirstSize /\ PartLen = len - FirstSize
  BY DEF PartAt, PartLen
<1>3. /\ FirstSize \in 1 .. len /\ Page(addr) \in 0 .. Pages - 1
      /\ Offset(addr) + FirstSize <= PageSize
      /\ ~OnePage => Page(addr + FirstSize) = Page(addr) + 1 /\ Offset(addr + FirstSize) = 0
  BY <1>1, Cut
<1>4. Page(PartAt) = IF pc = "first" THEN Page(addr) ELSE Page(addr) + 1
  BY <1>1, <1>2, <1>3
<1>5. Page(PartAt) \in CachePage
  BY <1>1, <1>3, <1>4, CacherAssumption DEF CachePage
<1>6. PartAt \in Nat
  <2>1. addr \in Nat /\ FirstSize \in Nat
    BY <1>1, <1>3, CacherAssumption
  <2> QED BY <1>1, <1>2, <2>1
<1>7. Offset(PartAt) \in Nat
  BY <1>6, PageOffset, CacherAssumption
<1>8. InPage
  <2>1. CASE pc = "first"
    BY <1>2, <1>3, <2>1 DEF InPage
  <2>2. CASE pc = "second"
    <3>1. 0 + (len - FirstSize) <= PageSize
      BY <1>1, <1>3, CacherAssumption
    <3> QED BY <1>1, <1>2, <1>3, <2>2, <3>1 DEF InPage
  <2> QED BY <1>1, <2>1, <2>2
<1>9. LastPageHit <=> pc = "first" /\ Page(addr) = 0
  BY <1>1, <1>3, <1>4 DEF LastPageHit
<1> QED BY <1>1, <1>2, <1>3, <1>4, <1>5, <1>7, <1>8, <1>9

LEMMA PutLast ==
  ASSUME NEW S, NEW s \in Seq(S), NEW e \in S
  PROVE  /\ Len(s) \in Nat
         /\ Append(s, e) \in Seq(S)
         /\ Len(Append(s, e)) = Len(s) + 1
         /\ \A i \in 1 .. Len(s) : Append(s, e)[i] = s[i]
         /\ Append(s, e)[Len(s) + 1] = e
OBVIOUS

\* The end of a part keeps the invariant, when what was read is the part in a version
\* that the cache agrees with and the cache changes at most in the part's page.
LEMMA EndPartKeeps ==
  ASSUME CacherInv, InPart, NEW ok \in BOOLEAN, NEW d, EndPart(ok, d),
         UNCHANGED <<version, addr, len>>,
         cache_lst' \in [CachePage -> -1 .. version], last_content' \in -1 .. Pages,
         last_content' # -1 => cache_lst'[last_content'] # -1,
         \A p \in CachePage : p # Page(PartAt) => cache_lst'[p] = cache_lst[p],
         Page(addr) # 0 => \E v \in 0 .. version : /\ d = Read(PartAt, PartLen, v)
                                                   /\ cache_lst'[Page(PartAt)] \in {-1, v}
  PROVE  CacherInv'
<1> USE CacherAssumption
<1>1. CacherTypes /\ PartsInv /\ SizeInv /\ BytesInv
  BY DEF CacherInv
<1> DEFINE F == FirstSize
           A == Page(addr)
<1>2. /\ addr \in Nat /\ len \in 1 .. MaxLen /\ F \in 1 .. len
      /\ pc = "first" => PartAt = addr /\ PartLen = F
      /\ pc = "second" => PartAt = addr + F /\ PartLen = len - F
      /\ Page(PartAt) = IF pc = "first" THEN A ELSE A + 1
      /\ A \in 0 .. Pages - 1
      /\ pc \in {"first", "second"}
  BY PartPlace DEF InPart
<1>3. /\ F' = F /\ A' = A /\ (OnePage' <=> OnePage)
      /\ OnePage => F = len
      /\ \A k \in 1 .. F : Page(addr + k - 1) = A
      /\ \A k \in F + 1 .. len : Page(addr + k - 1) = A + 1
  BY <1>1, <1>2, Cut DEF FirstSize, OnePage, CacherTypes
<1>4. /\ parts \in Seq(BOOLEAN) /\ parts' = Append(parts, ok)
      /\ pc' = IF pc = "first" /\ ~OnePage THEN "second" ELSE "idle"
      /\ read_size' = read_size + IF ok THEN PartLen ELSE 0
  BY <1>1 DEF EndPart, CacherTypes
<1>5. /\ Len(parts) \in Nat /\ parts' \in Seq(BOOLEAN) /\ Len(parts') = Len(parts) + 1
      /\ \A i \in 1 .. Len(parts) : parts'[i] = parts[i]
      /\ parts'[Len(parts) + 1] = ok
  BY <1>4, PutLast
<1>6. /\ pc = "first" => Len(parts) = 0
      /\ pc = "second" => Len(parts) = 1 /\ ~OnePage
  BY <1>1 DEF PartsInv
<1>7. DOMAIN rst' = 1 .. len
  BY <1>1 DEF EndPart, CacherTypes
<1>8. CacherTypes'
  <2>1. pc' \in {"idle", "second"}
    BY <1>4
  <2> QED BY <1>1, <1>5, <1>7, <2>1 DEF CacherTypes
<1>9. PartsInv'
  <2>1. len' = len /\ len > 0
    BY <1>2
  <2>2. CASE pc = "first"
    <3>1. Len(parts') = 1 /\ pc' = IF OnePage THEN "idle" ELSE "second"
      BY <1>4, <1>5, <1>6, <2>2
    <3> QED BY <1>3, <2>1, <3>1 DEF PartsInv
  <2>3. CASE pc = "second"
    <3>1. Len(parts) = 1 /\ ~OnePage
      BY <1>6, <2>3
    <3>2. Len(parts') = 1 + 1
      BY <1>5, <3>1
    <3>3. Len(parts') = 2 /\ pc' = "idle"
      BY <1>4, <2>3, <3>2
    <3> QED BY <1>3, <2>1, <3>1, <3>3 DEF PartsInv
  <2> QED BY <1>2, <2>2, <2>3
<1>10. /\ pc = "first" => /\ ~Got(1) /\ ~Got(2) /\ ~Got(2)' /\ (Got(1)' <=> ok = TRUE)
       /\ pc = "second" => /\ ~Got(2) /\ (Got(2)' <=> ok = TRUE) /\ (Got(1)' <=> Got(1))
  <2>1. CASE pc = "first"
    <3>1. Len(parts) = 0 /\ Len(parts') = 1 /\ parts'[1] = ok
      BY <1>5, <1>6, <2>1
    <3> QED BY <2>1, <3>1 DEF Got
  <2>2. CASE pc = "second"
    <3>1. Len(parts) = 1
      BY <1>6, <2>2
    <3>2. Len(parts') = 1 + 1 /\ parts'[1 + 1] = ok /\ \A i \in 1 .. 1 : parts'[i] = parts[i]
      BY <1>5, <3>1
    <3>3. Len(parts') = 2 /\ parts'[2] = ok /\ parts'[1] = parts[1]
      BY <3>2
    <3> QED BY <2>2, <3>1, <3>3 DEF Got
  <2> QED BY <1>2, <2>1, <2>2
<1>11. SizeInv'
  <2>1. read_size = (IF Got(1) THEN F ELSE 0) + (IF Got(2) THEN len - F ELSE 0)
    BY <1>1 DEF SizeInv
  <2>2. read_size' = (IF Got(1)' THEN F ELSE 0) + (IF Got(2)' THEN len - F ELSE 0)
    <3> HIDE DEF F
    <3>1. CASE ok = TRUE
      BY <1>2, <1>4, <1>10, <2>1, <3>1
    <3>2. CASE ok = FALSE
      BY <1>2, <1>4, <1>10, <2>1, <3>2
    <3> QED BY <3>1, <3>2
  <2> QED BY <1>3, <2>2 DEF SizeInv
<1>12. CrashOnlyInPageZero'
  BY <1>4 DEF CrashOnlyInPageZero
<1>13. BytesInv'
  <2> SUFFICES ASSUME A # 0
               PROVE  /\ Got(1)' => \A k \in 1 .. F : Good(k)'
                      /\ Got(2)' => \A k \in F + 1 .. len : Good(k)'
    BY <1>3 DEF BytesInv
  <2>1. PICK v \in 0 .. version : /\ d = Read(PartAt, PartLen, v)
                                  /\ cache_lst'[Page(PartAt)] \in {-1, v}
    OBVIOUS
  <2>2. rst' = IF ok THEN [k \in 1 .. len |->
                             IF k \in PartAt - addr + 1 .. PartAt - addr + PartLen
                             THEN d[k - (PartAt - addr)] ELSE rst[k]]
               ELSE rst
    BY DEF EndPart
  <2>3. ASSUME ok = TRUE, pc = "first"
        PROVE  \A k \in 1 .. F : Good(k)'
    <3> TAKE k \in 1 .. F
    <3> HIDE DEF F, A
    <3>1. k \in 1 .. len /\ PartAt - addr = 0 /\ k - 0 = k /\ k \in 0 + 1 .. 0 + F
      BY <1>2, <2>3
    <3>2. rst'[k] = d[k]
      BY <1>2, <2>2, <2>3, <3>1
    <3>3. d[k] = <<addr + k - 1, v>>
      BY <1>2, <2>1, <2>3 DEF Read
    <3>4. cache_lst'[Page(addr + k - 1)] \in {-1, v}
      BY <1>2, <1>3, <2>1, <2>3
    <3> QED BY <3>2, <3>3, <3>4 DEF Good
  <2>4. ASSUME ok = TRUE, pc = "second"
        PROVE  \A k \in F + 1 .. len : Good(k)'
    <3> TAKE k \in F + 1 .. len
    <3> HIDE DEF F, A
    <3>1. k \in 1 .. len /\ PartAt - addr = F /\ k \in F + 1 .. F + PartLen /\ k - F \in 1 .. PartLen
      BY <1>2, <2>4
    <3>2. rst'[k] = d[k - F]
      BY <2>2, <2>4, <3>1
    <3>3. d[k - F] = <<addr + k - 1, v>>
      <4>1. d[k - F] = <<addr + F + (k - F) - 1, v>>
        BY <1>2, <2>1, <2>4, <3>1 DEF Read
      <4>2. addr + F + (k - F) - 1 = addr + k - 1
        BY <1>2
      <4> QED BY <4>1, <4>2
    <3>4. cache_lst'[Page(addr + k - 1)] \in {-1, v}
      BY <1>2, <1>3, <2>1, <2>4
    <3> QED BY <3>2, <3>3, <3>4 DEF Good
  <2>5. ASSUME Got(1), pc = "second"
        PROVE  \A k \in 1 .. F : Good(k)'
    <3> TAKE k \in 1 .. F
    <3>1. Good(k)
      BY <1>1, <2>5 DEF BytesInv
    <3> HIDE DEF F, A
    <3>2. /\ k \in 1 .. len /\ PartAt - addr = F /\ k \notin F + 1 .. F + PartLen
      BY <1>2, <2>5
    <3>3. rst'[k] = rst[k]
      BY <2>2, <3>2
    <3>4. cache_lst'[Page(addr + k - 1)] = cache_lst[Page(addr + k - 1)]
      <4>1. Page(addr + k - 1) = A /\ A \in CachePage /\ A # Page(PartAt)
        BY <1>2, <1>3, <2>5 DEF CachePage
      <4> QED BY <4>1
    <3> QED BY <3>1, <3>3, <3>4 DEF Good
  <2> HIDE DEF F
  <2> QED BY <1>2, <1>10, <2>3, <2>4, <2>5
<1> QED BY <1>8, <1>9, <1>11, <1>12, <1>13 DEF CacherInv

\* A step inside a request that leaves it where it is, or ends the program in it.
LEMMA CrashKeeps ==
  ASSUME CacherInv, pc' = "crashed", Page(addr) = 0, last_content = -1,
         UNCHANGED <<version, cache_lst, last_content, addr, len, rst, read_size, parts>>
  PROVE  CacherInv'
<1>1. CacherTypes'
  BY DEF CacherInv, CacherTypes
<1>2. PartsInv' /\ SizeInv'
  BY DEF CacherInv, PartsInv, SizeInv, OnePage, Got, FirstSize
<1>3. BytesInv' /\ CrashOnlyInPageZero'
  BY DEF BytesInv, CrashOnlyInPageZero
<1> QED BY <1>1, <1>2, <1>3 DEF CacherInv

LEMMA FromLastKeeps ==
  ASSUME CacherInv, FromLast
  PROVE  CacherInv'
<1>1. InPart /\ LastPageHit /\ UNCHANGED <<version, cache_lst, last_content, addr, len>>
  BY DEF FromLast, cache, request
<1>2. Page(addr) = 0 /\ InPage
  BY <1>1, PartPlace
<1>3. CASE last_content = -1 /\ pc' = "crashed" /\ UNCHANGED <<rst, read_size, parts>>
  BY <1>1, <1>2, <1>3, CrashKeeps
<1>4. ASSUME NEW d, EndPart(TRUE, d)
      PROVE  CacherInv'
  <2>1. /\ cache_lst' \in [CachePage -> -1 .. version] /\ last_content' \in -1 .. Pages
        /\ last_content' # -1 => cache_lst'[last_content'] # -1
    BY <1>1 DEF CacherInv, CacherTypes
  <2>2. TRUE \in BOOLEAN
    OBVIOUS
  <2> QED BY <1>1, <1>2, <1>4, <2>1, <2>2, EndPartKeeps
<1> QED BY <1>2, <1>3, <1>4 DEF FromLast

LEMMA FromCacheKeeps ==
  ASSUME CacherInv, FromCache
  PROVE  CacherInv'
<1> DEFINE d == Read(PartAt, PartLen, CachedVersion)
<1>1. /\ InPart /\ cache_lst[Page(PartAt)] # -1
      /\ UNCHANGED <<version, cache_lst, last_content, addr, len>>
  BY DEF FromCache, cache, request
<1>2. InPage /\ Page(PartAt) \in CachePage
  BY <1>1, PartPlace
<1>3. EndPart(TRUE, d)
  BY <1>2 DEF FromCache
<1>4. /\ cache_lst' \in [CachePage -> -1 .. version] /\ last_content' \in -1 .. Pages
      /\ last_content' # -1 => cache_lst'[last_content'] # -1
  BY <1>1 DEF CacherInv, CacherTypes
<1>5. \E v \in 0 .. version : /\ d = Read(PartAt, PartLen, v)
                              /\ cache_lst'[Page(PartAt)] \in {-1, v}
  <2>1. CachedVersion \in 0 .. version /\ cache_lst'[Page(PartAt)] = CachedVersion
    BY <1>1, <1>2, <1>4, CacherAssumption DEF CachedVersion, CacherInv, CacherTypes
  <2> QED BY <2>1
<1> HIDE DEF d
<1>6. TRUE \in BOOLEAN
  OBVIOUS
<1> QED BY <1>1, <1>3, <1>4, <1>5, <1>6, EndPartKeeps

LEMMA FetchPageKeeps ==
  ASSUME CacherInv, FetchPage
  PROVE  CacherInv'
<1> DEFINE d == Read(PartAt, PartLen, version)
<1>1. InPart /\ UNCHANGED <<version, addr, len>>
  BY DEF FetchPage, request
<1>2. InPage /\ Page(PartAt) \in CachePage
  BY <1>1, PartPlace
<1>3. /\ EndPart(TRUE, d) /\ cache_lst' = [cache_lst EXCEPT ![Page(PartAt)] = version]
      /\ last_content' = Page(PartAt)
  BY <1>2 DEF FetchPage
<1>4. version \in 0 .. MaxVersion /\ cache_lst \in [CachePage -> -1 .. version]
  BY DEF CacherInv, CacherTypes
<1>5. /\ cache_lst' \in [CachePage -> -1 .. version] /\ last_content' \in -1 .. Pages
      /\ cache_lst'[last_content'] = version /\ version # -1
      /\ \A p \in CachePage : p # Page(PartAt) => cache_lst'[p] = cache_lst[p]
  BY <1>2, <1>3, <1>4, CacherAssumption DEF CachePage
<1>6. \E v \in 0 .. version : /\ d = Read(PartAt, PartLen, v)
                              /\ cache_lst'[Page(PartAt)] \in {-1, v}
  <2>1. version \in 0 .. version /\ cache_lst'[Page(PartAt)] = version
    BY <1>2, <1>3, <1>4, CacherAssumption
  <2> QED BY <2>1
<1> HIDE DEF d
<1>7. TRUE \in BOOLEAN
  OBVIOUS
<1> QED BY <1>1, <1>3, <1>5, <1>6, <1>7, EndPartKeeps

LEMMA ReadDirectKeeps ==
  ASSUME CacherInv, NEW ok \in BOOLEAN, ReadDirect(ok)
  PROVE  CacherInv'
<1> DEFINE d == Read(PartAt, PartLen, version)
<1>1. /\ InPart /\ cache_lst[Page(PartAt)] = -1 /\ EndPart(ok, d)
      /\ UNCHANGED <<version, cache_lst, last_content, addr, len>>
  BY DEF ReadDirect, cache, request
<1>2. /\ cache_lst' \in [CachePage -> -1 .. version] /\ last_content' \in -1 .. Pages
      /\ last_content' # -1 => cache_lst'[last_content'] # -1
      /\ version \in 0 .. version
  BY <1>1, CacherAssumption DEF CacherInv, CacherTypes
<1>3. \E v \in 0 .. version : /\ d = Read(PartAt, PartLen, v)
                              /\ cache_lst'[Page(PartAt)] \in {-1, v}
  BY <1>1, <1>2
<1> HIDE DEF d
<1> QED BY <1>1, <1>2, <1>3, EndPartKeeps

\* A step between two requests that may change the memory, or empties the cache.
LEMMA IdleKeeps ==
  ASSUME CacherInv, UNCHANGED <<pc, addr, len, rst, read_size, parts>>,
         version' \in {version, version + 1}, version' \in 0 .. MaxVersion,
         \/ UNCHANGED <<cache_lst, last_content>>
         \/ /\ cache_lst' = [p \in CachePage |-> -1] /\ last_content' = -1
            /\ pc # "crashed"
  PROVE  CacherInv'
<1>1. CacherTypes /\ PartsInv /\ SizeInv /\ BytesInv /\ version \in Nat
  BY CacherAssumption DEF CacherInv, CacherTypes
<1>2. 0 .. version \subseteq 0 .. version' /\ -1 .. version \subseteq -1 .. version' /\ -1 \in -1 .. version'
  BY <1>1
<1>3. CacherTypes'
  <2>1. cache_lst' \in [CachePage -> -1 .. version']
    BY <1>1, <1>2 DEF CacherTypes
  <2>2. /\ last_content' \in -1 .. Pages
        /\ last_content' # -1 => cache_lst'[last_content'] # -1
    BY <1>1, CacherAssumption DEF CacherTypes
  <2> QED BY <1>1, <2>1, <2>2 DEF CacherTypes
<1>4. PartsInv' /\ SizeInv' /\ CrashOnlyInPageZero'
  BY <1>1 DEF CacherInv, PartsInv, SizeInv, OnePage, Got, FirstSize, CrashOnlyInPageZero
<1>5. /\ FirstSize' = FirstSize /\ (Got(1)' <=> Got(1)) /\ (Got(2)' <=> Got(2))
  BY DEF FirstSize, OnePage, Got
<1>6. BytesInv'
  <2> SUFFICES ASSUME Page(addr) # 0
               PROVE  /\ Got(1) => \A k \in 1 .. FirstSize : Good(k)'
                      /\ Got(2) => \A k \in FirstSize + 1 .. len : Good(k)'
    BY <1>5 DEF BytesInv
  <2>1. CASE UNCHANGED cache_lst
    <3>1. \A k : Good(k) => Good(k)'
      BY <1>2, <2>1 DEF Good
    <3> QED BY <1>1, <3>1 DEF BytesInv
  <2>2. CASE cache_lst' = [p \in CachePage |-> -1]
    <3>1. CASE Got(1) \/ Got(2)
      <4>1. len \in 1 .. MaxLen /\ addr \in 0 .. Pages * PageSize - 1 /\ addr \in Nat
        BY <1>1, <3>1, CacherAssumption DEF CacherTypes, PartsInv, Got
      <4>2. \A k \in 1 .. len : Page(addr + k - 1) \in CachePage
        <5>1. \A k \in 1 .. len : k \in 1 .. FirstSize \/ k \in FirstSize + 1 .. len
          BY <4>1, Cut
        <5>2. Page(addr) \in CachePage /\ Page(addr) + 1 \in CachePage
          BY <4>1, Cut, CacherAssumption DEF CachePage
        <5> QED BY <4>1, <5>1, <5>2, Cut
      <4>3. \A k \in 1 .. len : Good(k) => Good(k)'
        BY <1>2, <2>2, <4>2 DEF Good
      <4>4. 1 .. FirstSize \subseteq 1 .. len /\ FirstSize + 1 .. len \subseteq 1 .. len
        BY <4>1, Cut
      <4> QED BY <1>1, <4>3, <4>4 DEF BytesInv
    <3>2. CASE ~Got(1) /\ ~Got(2)
      BY <3>2
    <3> QED BY <3>1, <3>2
  <2> QED BY <2>1, <2>2
<1> QED BY <1>3, <1>4, <1>6 DEF CacherInv

LEMMA CallKeeps ==
  ASSUME CacherInv, NEW a \in 0 .. Pages * PageSize - 1, NEW n \in 1 .. MaxLen, Call(a, n)
  PROVE  CacherInv'
<1>1. /\ pc' = "first" /\ addr' = a /\ len' = n /\ rst' = Unread(n) /\ read_size' = 0
      /\ parts' = << >> /\ UNCHANGED <<version, cache_lst, last_content>>
  BY DEF Call, cache
<1>2. << >> \in Seq(BOOLEAN) /\ Len(<< >>) = 0 /\ n \in Nat /\ n > 0 /\ n \in 0 .. MaxLen
  BY CacherAssumption
<1>3. CacherTypes'
  BY <1>1, <1>2 DEF CacherInv, CacherTypes, Unread
<1>4. PartsInv' /\ ~Got(1)' /\ ~Got(2)'
  BY <1>1, <1>2 DEF PartsInv, Got
<1>5. SizeInv' /\ BytesInv' /\ CrashOnlyInPageZero'
  BY <1>1, <1>4 DEF SizeInv, BytesInv, CrashOnlyInPageZero
<1> QED BY <1>3, <1>4, <1>5 DEF CacherInv

\* read_size and the buffer agree with the parts that were read, and the buffer with
\* the cache (CacherInv).
THEOREM CacherInvariant == Spec => []CacherInv
<1>1. Init => CacherInv
  <2> SUFFICES ASSUME Init PROVE CacherInv
    OBVIOUS
  <2> USE CacherAssumption
  <2>1. << >> \in Seq(BOOLEAN) /\ Len(<< >>) = 0 /\ Pages * PageSize - 1 \in Nat
    OBVIOUS
  <2>2. CacherTypes
    BY <2>1 DEF Init, CacherTypes
  <2>3. PartsInv /\ ~Got(1) /\ ~Got(2)
    BY <2>1 DEF Init, PartsInv, Got
  <2>4. SizeInv /\ BytesInv /\ CrashOnlyInPageZero
    BY <2>3 DEF Init, SizeInv, BytesInv, CrashOnlyInPageZero
  <2> QED BY <2>2, <2>3, <2>4 DEF CacherInv
<1>2. CacherInv /\ [Next]_vars => CacherInv'
  <2> SUFFICES ASSUME CacherInv, [Next]_vars PROVE CacherInv'
    OBVIOUS
  <2>1. CASE Modify \/ ClearData \/ SetF \/ Terminated \/ UNCHANGED vars
    <3>1. /\ UNCHANGED <<pc, addr, len, rst, read_size, parts>>
          /\ version' \in {version, version + 1} /\ version' \in 0 .. MaxVersion
          /\ \/ UNCHANGED <<cache_lst, last_content>>
             \/ /\ cache_lst' = [p \in CachePage |-> -1] /\ last_content' = -1
                /\ pc # "crashed"
      BY <2>1, CacherAssumption DEF Modify, ClearData, SetF, Terminated, vars, cache, request, CacherInv,
         CacherTypes
    <3> QED BY <3>1, IdleKeeps
  <2> QED BY <2>1, CallKeeps, FromLastKeeps, FromCacheKeeps, FetchPageKeeps, ReadDirectKeeps
          DEF Next, GetContent
<1> QED BY <1>1, <1>2, PTL DEF Spec

\* A sequence of at most two truth values is determined by its length and members.
LEMMA TwoParts ==
  ASSUME NEW s \in Seq(BOOLEAN), Len(s) = 2, s[1] # TRUE, s[2] = TRUE
  PROVE  s = <<FALSE, TRUE>>
<1>1. s[1] \in BOOLEAN
  OBVIOUS
<1>2. s[1] = FALSE
  BY <1>1
<1>3. s = <<s[1], s[2]>>
  OBVIOUS
<1> QED BY <1>2, <1>3

\* What read_size counts was read.
LEMMA CountedIsGood ==
  ASSUME CacherInv, Page(addr) # 0, ~HeadMissing, NEW k \in 1 .. read_size
  PROVE  Good(k)
<1>1. CacherTypes /\ PartsInv /\ SizeInv /\ BytesInv
  BY DEF CacherInv
<1>2. read_size = (IF Got(1) THEN FirstSize ELSE 0) + (IF Got(2) THEN len - FirstSize ELSE 0)
  BY <1>1 DEF SizeInv
<1>3. Got(1) \/ Got(2)
  BY <1>2
<1>4. parts \in Seq(BOOLEAN) /\ Len(parts) \in Nat /\ Len(parts) <= 2 /\ Len(parts) # 0
  BY <1>1, <1>3 DEF CacherTypes, PartsInv, Got
<1>5. len \in 1 .. MaxLen /\ addr \in 0 .. Pages * PageSize - 1
  BY <1>1, <1>4, CacherAssumption DEF CacherTypes, PartsInv
<1>6. FirstSize \in 1 .. len
  BY <1>5, Cut
<1>7. CASE Got(1)
  <2>1. k \in 1 .. FirstSize \/ (Got(2) /\ k \in FirstSize + 1 .. len)
    BY <1>2, <1>5, <1>6, <1>7, CacherAssumption
  <2> QED BY <1>1, <1>7, <2>1 DEF BytesInv
<1>8. CASE Got(2) /\ ~Got(1)
  <2>1. Len(parts) = 2 /\ parts[2] = TRUE /\ parts[1] # TRUE
    <3>1. 2 <= Len(parts) /\ parts[2] = TRUE
      BY <1>8, Zenon DEF Got
    <3>2. ~(1 <= Len(parts) /\ parts[1] = TRUE)
      BY <1>8, Zenon DEF Got
    <3>3. \A n \in Nat : n <= 2 /\ 2 <= n => n = 2 /\ 1 <= n
      OBVIOUS
    <3>4. Len(parts) = 2 /\ 1 <= Len(parts)
      BY <1>4, <3>1, <3>3, Zenon
    <3> QED BY <3>1, <3>2, <3>4, Zenon
  <2>2. parts = <<FALSE, TRUE>>
    BY <1>4, <2>1, TwoParts
  <2> QED BY <2>2 DEF HeadMissing
<1> QED BY <1>3, <1>7, <1>8

\* The number get_content returns says how much of the buffer is good, for any page
\* size, request and state of the cache.
THEOREM CountIsGoodPrefix == Spec => []PrefixRead
<1>1. CacherInv => PrefixRead
  <2> SUFFICES ASSUME CacherInv, Page(addr) # 0, ~HeadMissing, NEW k \in 1 .. read_size
               PROVE  Valid(k)
    BY DEF PrefixRead
  <2>1. Good(k)
    BY CountedIsGood
  <2> QED BY <2>1 DEF Good, Valid
<1> QED BY <1>1, CacherInvariant, PTL

\* A byte of a cached page is returned as it was when the page was cached, although
\* the process has changed since.
THEOREM ReadsRepeatable == Spec => []Repeatable
<1>1. CacherInv => Repeatable
  <2> SUFFICES ASSUME CacherInv, Page(addr) # 0, ~HeadMissing, NEW k \in 1 .. read_size,
                      cache_lst[Page(addr + k - 1)] # -1
               PROVE  rst[k] = <<addr + k - 1, cache_lst[Page(addr + k - 1)]>>
    BY DEF Repeatable
  <2>1. Good(k)
    BY CountedIsGood
  <2> QED BY <2>1 DEF Good
<1> QED BY <1>1, CacherInvariant, PTL

\* No slice leaves its page, wherever a request begins and ends: get_content fails
\* only in page 0, before the first page is cached.
THEOREM SlicesStayInPage == Spec => []CrashOnlyInPageZero
<1>1. CacherInv => CrashOnlyInPageZero
  BY DEF CacherInv
<1> QED BY <1>1, CacherInvariant, PTL

\* The cache, the request and the buffer stay within their bounds.
THEOREM CacherTypeCorrect == Spec => []TypeOK
<1> DEFINE FlagOK == f \in BOOLEAN
<1>1. Init => FlagOK
  BY Zenon DEF Init
<1>2. FlagOK /\ [Next]_vars => FlagOK'
  <2> SUFFICES ASSUME f \in BOOLEAN, [Next]_vars PROVE f' \in BOOLEAN
    OBVIOUS
  <2>1. f' = f \/ f' = TRUE \/ f' = FALSE
    BY DEF Next, Modify, ClearData, SetF, Call, GetContent, FromLast, FromCache, FetchPage,
       ReadDirect, Terminated, vars, cache
  <2> QED BY <2>1, Zenon
<1>3. Spec => []FlagOK
  BY <1>1, <1>2, PTL DEF Spec
<1>4. CacherInv => read_size \in 0 .. len /\ Len(parts) <= 2
  <2> SUFFICES ASSUME CacherInv PROVE read_size \in 0 .. len /\ Len(parts) <= 2
    OBVIOUS
  <2>1. /\ len \in Nat /\ Len(parts) \in Nat /\ addr \in 0 .. Pages * PageSize - 1
        /\ len \in 0 .. MaxLen
        /\ Len(parts) <= IF len = 0 THEN 0 ELSE IF OnePage THEN 1 ELSE 2
        /\ read_size = (IF Got(1) THEN FirstSize ELSE 0) + (IF Got(2) THEN len - FirstSize ELSE 0)
    BY CacherAssumption DEF CacherInv, CacherTypes, PartsInv, SizeInv
  <2>2. CASE len = 0
    <3>1. ~Got(1) /\ ~Got(2)
      BY <2>1, <2>2 DEF Got
    <3> QED BY <2>1, <2>2, <3>1
  <2>3. CASE len # 0
    <3>1. FirstSize \in 1 .. len
      BY <2>1, <2>3, Cut, CacherAssumption
    <3> QED BY <2>1, <3>1
  <2> QED BY <2>2, <2>3
<1>5. CacherInv /\ FlagOK => TypeOK
  <2> SUFFICES ASSUME CacherInv, f \in BOOLEAN PROVE TypeOK
    OBVIOUS
  <2>1. CacherTypes
    BY DEF CacherInv
  <2> QED BY <1>4, <2>1, Zenon DEF CacherTypes, TypeOK
<1> QED BY <1>3, <1>5, CacherInvariant, PTL
=============================================================================
