----------------------------- MODULE MemCacher ------------------------------
(***************************************************************************)
(* The page cache through which a decoder reads the code of the traced     *)
(* process, src/mem_cacher/mod.rs.  libipt asks for the len bytes at an    *)
(* address; get_content cuts the request at the page boundary and serves   *)
(* each part from the cache, from a page it fetches now, or, when the page *)
(* cannot be fetched, from a direct read of the part.                      *)
(*                                                                         *)
(* The memory of the process is external: it changes while it is read, and *)
(* any read of it may fail.  A byte is <<address, version>>, where version *)
(* counts the changes, so that a byte tells where and when it was read.    *)
(***************************************************************************)
EXTENDS Integers, Sequences

CONSTANTS
  PageSize,    \* 4096
  Pages,       \* bound on the addresses: requests begin in the first Pages pages
  MaxLen,      \* the longest request (an instruction has at most 15 bytes)
  MaxVersion   \* bound on the changes of the memory

ASSUME CacherAssumption ==
  /\ PageSize \in Nat \ {0}
  /\ Pages \in Nat \ {0}
  /\ MaxLen \in 1 .. PageSize
  /\ MaxVersion \in Nat

VARIABLES
  version,       \* of the memory of the process
  cache_lst,     \* the version in which each cached page was read; -1: not cached
  last_content,  \* the page last_content points to; -1: null
  f,             \* the closure that reads the process is set
  pc,            \* where get_content is
  addr, len,     \* its arguments
  rst,           \* its buffer
  read_size,     \* what it has counted so far; its result in the end
  parts          \* history: whether each part was read

cache == <<cache_lst, last_content, f>>
request == <<addr, len>>
vars == <<version, cache_lst, last_content, f, pc, addr, len, rst, read_size, parts>>

Page(a) == a \div PageSize
Offset(a) == a % PageSize
CachePage == 0 .. Pages

\* The bytes of a part: n bytes from a on, as they were in version v.
Read(a, n, v) == [k \in 1 .. n |-> <<a + k - 1, v>>]

\* What the buffer holds where nothing was written.
Unread(n) == [k \in 1 .. n |-> <<-1, 0>>]

Init ==
  /\ version = 0
  /\ cache_lst = [p \in CachePage |-> -1]
  /\ last_content = -1
  /\ f = FALSE
  /\ pc = "idle"
  /\ addr = 0 /\ len = 0 /\ rst = << >> /\ read_size = 0 /\ parts = << >>

\* The traced process changes its memory.
Modify ==
  /\ version < MaxVersion
  /\ version' = version + 1
  /\ UNCHANGED <<cache, pc, request, rst, read_size, parts>>

-----------------------------------------------------------------------------
(* The decoder.                                                            *)

\* clear_data, between two pieces.
ClearData ==
  /\ pc = "idle"
  /\ cache_lst' = [p \in CachePage |-> -1]
  /\ last_content' = -1
  /\ f' = FALSE
  /\ UNCHANGED <<version, pc, request, rst, read_size, parts>>

\* decode sets cacher.f before it hands get_content to libipt.
SetF ==
  /\ pc = "idle"
  /\ f' = TRUE
  /\ UNCHANGED <<version, cache_lst, last_content, pc, request, rst, read_size, parts>>

\* get_content is called.
Call(a, n) ==
  /\ pc = "idle" /\ f
  /\ pc' = "first"
  /\ addr' = a /\ len' = n /\ rst' = Unread(n) /\ read_size' = 0 /\ parts' = << >>
  /\ UNCHANGED <<version, cache>>

\* The request ends in the page it begins in.  One that ends with its page does not:
\* its second part is empty.
OnePage == Page(addr) = Page(addr + len)

\* The length of the first part.
FirstSizeWhole == len
FirstSize == IF OnePage THEN len ELSE Page(addr + len) * PageSize - addr

\* Where the part in hand begins and how long it is.
PartAtUnmoved == addr
PartAt == IF pc = "first" THEN addr ELSE addr + FirstSize
PartLenWhole == len
PartLen == IF pc = "first" THEN FirstSize ELSE len - FirstSize

\* get_content_in_cache_item takes the part out of a page; the slice must lie in it.
InPage == Offset(PartAt) + PartLen <= PageSize

\* A part of get_content ends: d was put into the buffer, or nothing (failure).
EndPart(ok, d) ==
  LET skip == PartAt - addr IN
  /\ rst' = IF ok THEN [k \in 1 .. len |-> IF k \in skip + 1 .. skip + PartLen
                                           THEN d[k - skip] ELSE rst[k]]
                  ELSE rst
  /\ read_size' = read_size + IF ok THEN PartLen ELSE 0
  /\ parts' = Append(parts, ok)
  /\ pc' = IF pc = "first" /\ ~OnePage THEN "second" ELSE "idle"

InPart == pc \in {"first", "second"}

\* last_page is never assigned: it is 0, and 0 is the page it is compared with.
LastPageHit == Page(PartAt) = 0

\* The part lies in page 0: it is copied from where last_content points, which is
\* the page inserted last, or nowhere.
FromLast ==
  /\ InPart /\ LastPageHit
  /\ \/ /\ last_content = -1 \/ ~InPage
        /\ pc' = "crashed"
        /\ UNCHANGED <<rst, read_size, parts>>
     \/ /\ last_content # -1 /\ InPage
        /\ EndPart(TRUE, Read(last_content * PageSize + Offset(PartAt), PartLen,
                              cache_lst[last_content]))
  /\ UNCHANGED <<version, cache, request>>

\* The version the part is taken from when its page is in the cache.
CachedVersionNow == version
CachedVersion == cache_lst[Page(PartAt)]

\* The page is in the cache.
FromCache ==
  /\ InPart /\ ~LastPageHit
  /\ cache_lst[Page(PartAt)] # -1
  /\ \/ ~InPage /\ pc' = "crashed" /\ UNCHANGED <<rst, read_size, parts>>
     \/ InPage /\ EndPart(TRUE, Read(PartAt, PartLen, CachedVersion))
  /\ UNCHANGED <<version, cache, request>>

\* f reads the whole page, which is then kept.
FetchPage ==
  /\ InPart /\ ~LastPageHit
  /\ cache_lst[Page(PartAt)] = -1
  /\ \/ ~InPage /\ pc' = "crashed" /\ UNCHANGED <<cache, rst, read_size, parts>>
     \/ /\ InPage
        /\ EndPart(TRUE, Read(PartAt, PartLen, version))
        /\ cache_lst' = [cache_lst EXCEPT ![Page(PartAt)] = version]
        /\ last_content' = Page(PartAt)
        /\ UNCHANGED f
  /\ UNCHANGED <<version, request>>

\* f cannot read the whole page, and is asked for the part itself.
ReadDirect(ok) ==
  /\ InPart /\ ~LastPageHit
  /\ cache_lst[Page(PartAt)] = -1
  /\ EndPart(ok, Read(PartAt, PartLen, version))
  /\ UNCHANGED <<version, cache, request>>

GetContent == FromLast \/ FromCache \/ FetchPage \/ \E ok \in BOOLEAN : ReadDirect(ok)

Terminated == pc = "crashed" /\ UNCHANGED vars

Next ==
  \/ pc # "crashed" /\ Modify
  \/ ClearData \/ SetF
  \/ \E a \in 0 .. Pages * PageSize - 1, n \in 1 .. MaxLen : Call(a, n)
  \/ GetContent
  \/ Terminated

Spec == Init /\ [][Next]_vars

-----------------------------------------------------------------------------
TypeOK ==
  /\ version \in 0 .. MaxVersion
  /\ cache_lst \in [CachePage -> -1 .. version]
  /\ last_content \in -1 .. Pages
  /\ last_content # -1 => cache_lst[last_content] # -1
  /\ f \in BOOLEAN
  /\ pc \in {"idle", "first", "second", "crashed"}
  /\ addr \in 0 .. Pages * PageSize - 1 /\ len \in 0 .. MaxLen
  /\ DOMAIN rst = 1 .. len
  /\ read_size \in 0 .. len
  /\ parts \in Seq(BOOLEAN) /\ Len(parts) <= 2

\* The k-th byte of the buffer was in the process at the address asked for.
Valid(k) == rst[k][1] = addr + k - 1 /\ rst[k][2] \in 0 .. version

\* The first part could not be read, but the second could.
HeadMissing == parts = <<FALSE, TRUE>>

\* The number get_content returns says how much of the buffer is good: that many
\* bytes from its beginning were in the process at the address asked for, on
\* whichever pages they lie and in whatever state the cache is, unless the request
\* begins in page 0 or only its second part could be read.
PrefixRead ==
  pc = "idle" /\ len > 0 /\ Page(addr) # 0 /\ ~HeadMissing =>
    \A k \in 1 .. read_size : Valid(k)

\* Reads are repeatable: a byte of a page that is in the cache is returned as it
\* was when the page was cached, although the process has changed since and other
\* pages were read directly; the pieces of one trace see one version of the code.
Repeatable ==
  pc = "idle" /\ Page(addr) # 0 /\ ~HeadMissing =>
    \A k \in 1 .. read_size :
      LET p == Page(addr + k - 1)
      IN  cache_lst[p] # -1 => rst[k] = <<addr + k - 1, cache_lst[p]>>

\* get_content fails in no other way than by a read in page 0 before the first page
\* was cached: no slice leaves its page, wherever the request begins and ends.
CrashOnlyInPageZero ==
  pc = "crashed" => Page(addr) = 0 /\ last_content = -1
=============================================================================
