------------------------------- MODULE PtRing -------------------------------
(***************************************************************************)
(* One Processor Trace output ring, polled byte by byte by fetch_data of   *)
(* src/pt_ctrl/mod.rs while the trace hardware keeps writing into it.      *)
(*                                                                         *)
(* There is no write cursor in shared memory and no flow control.  The     *)
(* reader recognises trace by its bytes: a byte is taken when it, or one   *)
(* of the Window - 1 bytes after it, differs from 0xFF, and every byte     *)
(* taken is overwritten by 0xFF.  The writer may therefore be in the       *)
(* middle of a window the reader is scanning, may wrap around onto bytes   *)
(* not read yet (lapped), and may emit 0xFF bytes as trace.                *)
(*                                                                         *)
(* Each action is one memory access of one side, so that the two sides     *)
(* interleave wherever they really do.                                     *)
(***************************************************************************)
EXTENDS Integers, Sequences

CONSTANTS
  Byte,        \* the byte values
  FF,          \* 0xFF, the value that stands for "nothing here"
  BuffLen,     \* out_buffer_len: bytes in the ring
  OutLen,      \* tmp_buff.len(): the most one fetch_data returns (800 KiB)
  Window,      \* bytes looked at before giving up (10 in the source)
  MaxWritten   \* bound on the bytes the hardware writes

ASSUME RingAssumption ==
  /\ FF \in Byte
  /\ BuffLen \in Nat \ {0}
  /\ OutLen \in Nat \ {0}
  /\ Window \in Nat \ {0}
  /\ MaxWritten \in Nat

VARIABLES
  buff,       \* the ring itself, shared with the hardware
  written,    \* history: every byte the hardware wrote, in order
  lapped,     \* history: the hardware wrote over a byte not taken yet
  read_pos,   \* read_pos[cpu]: where the next fetch_data starts
  pc,         \* where the polling thread is
  i, j,       \* fetch_data's loop counters; i is also rst_size
  out_buff,   \* the bytes copied by the fetch_data in progress
  delivered   \* history: every byte handed to the processor callback

ring == <<buff, written, lapped>>
vars == <<buff, written, lapped, read_pos, pc, i, j, out_buff, delivered>>

Slot(n) == n % BuffLen

\* How many bytes the reader has taken out of the ring since the start.
Taken == Len(delivered) + i

Init ==
  /\ buff = [s \in 0 .. BuffLen - 1 |-> FF]
  /\ written = << >>
  /\ lapped = FALSE
  /\ read_pos = 0
  /\ pc = "poll"
  /\ i = 0
  /\ j = 0
  /\ out_buff = << >>
  /\ delivered = << >>

-----------------------------------------------------------------------------
(* The trace hardware (not in this repository): it appends to the ring and *)
(* wraps around, whether or not the reader has kept up.                    *)

HwWrite(b) ==
  /\ Len(written) < MaxWritten
  /\ buff' = [buff EXCEPT ![Slot(Len(written))] = b]
  /\ written' = Append(written, b)
  /\ lapped' = (lapped \/ Len(written) - Taken >= BuffLen)
  /\ UNCHANGED <<read_pos, pc, i, j, out_buff, delivered>>

-----------------------------------------------------------------------------
(* The polling thread.                                                     *)

\* The loop over j ends here: Window bytes in a row were 0xFF.
LastLookEarly == j + 2 >= Window
LastLook == j + 1 >= Window

\* The ring once the byte just copied has been replaced by 0xFF.
ErasedNothing == buff
Erased == [buff EXCEPT ![Slot(read_pos + i)] = FF]

\* Where the next fetch_data starts.
NextPosUnwrapped == read_pos + i
NextPos == Slot(read_pos + i)

\* setup_pt_no_pmi calls fetch_data for this ring.
CallFetch ==
  /\ pc = "poll"
  /\ pc' = "scan"
  /\ i' = 0
  /\ j' = 0
  /\ out_buff' = << >>
  /\ UNCHANGED <<ring, read_pos, delivered>>

\* One turn of the loop over j: stop at the first byte that is not 0xFF, and
\* leave the loop over i when a whole window held nothing else.
ScanByte ==
  LET cur == buff[Slot(read_pos + i + j)] IN
  /\ pc = "scan"
  /\ \/ cur # FF /\ pc' = "copy" /\ UNCHANGED j
     \/ cur = FF /\ ~LastLook /\ j' = j + 1 /\ UNCHANGED pc
     \/ cur = FF /\ LastLook /\ pc' = "return" /\ UNCHANGED j
  /\ UNCHANGED <<ring, read_pos, i, out_buff, delivered>>

\* out_buff[i] = the byte at offset.
CopyByte ==
  /\ pc = "copy"
  /\ pc' = "clear"
  /\ out_buff' = Append(out_buff, buff[Slot(read_pos + i)])
  /\ UNCHANGED <<ring, read_pos, i, j, delivered>>

\* Put 0xFF back, count the byte, and go on unless out_buff is full.
ClearByte ==
  /\ pc = "clear"
  /\ buff' = Erased
  /\ i' = i + 1
  /\ j' = 0
  /\ pc' = IF i + 1 < OutLen THEN "scan" ELSE "return"
  /\ UNCHANGED <<written, lapped, read_pos, out_buff, delivered>>

\* fetch_data returns rst_size; setup_pt_no_pmi moves read_pos and hands the
\* bytes to the processor callback.
ReturnFetch ==
  /\ pc = "return"
  /\ pc' = "poll"
  /\ read_pos' = NextPos
  /\ delivered' = delivered \o out_buff
  /\ i' = 0
  /\ out_buff' = << >>
  /\ UNCHANGED <<ring, j>>

Reader == CallFetch \/ ScanByte \/ CopyByte \/ ClearByte \/ ReturnFetch

Next == Reader \/ \E b \in Byte : HwWrite(b)

\* The polling thread is a busy loop that waits for nobody.
Spec == Init /\ [][Next]_vars /\ WF_vars(Reader)

-----------------------------------------------------------------------------
TypeOK ==
  /\ buff \in [0 .. BuffLen - 1 -> Byte]
  /\ written \in Seq(Byte)
  /\ lapped \in BOOLEAN
  /\ read_pos \in 0 .. BuffLen - 1
  /\ pc \in {"poll", "scan", "copy", "clear", "return"}
  /\ i \in 0 .. OutLen
  /\ j \in 0 .. Window - 1
  /\ out_buff \in Seq(Byte)
  /\ delivered \in Seq(Byte)

\* What left the ring so far: the chunks delivered and the one in progress.
Captured == delivered \o out_buff

\* As long as the hardware never lapped the reader, the bytes fetch_data takes
\* are the bytes the hardware wrote, each once and in order: the sentinel scheme
\* neither invents a byte in the part of the ring not written yet, nor repeats
\* one after the ring wraps, nor skips one that is written during the scan.
CapturedInOrder ==
  ~lapped =>
    /\ Len(Captured) <= Len(written)
    /\ \A n \in 1 .. Len(Captured) : Captured[n] = written[n]

\* The ring as TraceCapture sees it.
Abstract == INSTANCE TraceCapture
              WITH Capacity <- BuffLen, taken <- Captured, overrun <- lapped

\* The polled ring implements TraceCapture: every copy of fetch_data takes the
\* next byte written, no other step of either side adds or drops one, and the
\* promise ends only when a write meets a ring full of unread bytes.
CapturesTrace == Abstract!Spec

\* While the reader has not been lapped, the BuffLen bytes from the next one to be
\* taken on are: those written and not taken, then 0xFF.
Cells ==
  \A q \in Taken .. Taken + BuffLen - 1 :
    buff[Slot(q)] = IF q < Len(written) THEN written[q + 1] ELSE FF

\* The inductive strengthening of CapturedInOrder: read_pos and the loop counter
\* locate the next byte, only a byte that was written is ever copied, and every
\* slot outside the unread part of the ring holds 0xFF.
RingInv ==
  /\ TypeOK
  /\ read_pos = Slot(Len(delivered))
  /\ Len(out_buff) = IF pc = "clear" THEN i + 1 ELSE i
  /\ pc = "poll" => i = 0
  /\ i = OutLen => pc = "return"
  /\ ~lapped =>
       /\ Taken <= Len(written)
       /\ Len(written) <= Taken + BuffLen
       /\ pc \in {"copy", "clear"} => Taken < Len(written)
       /\ Cells
  /\ CapturedInOrder

\* Window consecutive 0xFF bytes in the trace: fetch_data takes them for the end
\* of the data and stays in front of them.
Stalling ==
  \E n \in 1 .. Len(written) - Window + 1 :
    \A k \in n .. n + Window - 1 : written[k] = FF

\* A byte of trace that is not 0xFF is eventually handed to the processor,
\* unless the hardware lapped the reader or wrote a full window of 0xFF.
TraceDelivered ==
  \A n \in 1 .. MaxWritten :
    (Len(written) >= n /\ written[n] # FF)
      ~> (Len(delivered) >= n \/ lapped \/ Stalling)
=============================================================================
