---------------------------- MODULE TraceCapture ----------------------------
(***************************************************************************)
(* What polling a trace ring promises to the code that splits and decodes  *)
(* the trace: the bytes taken are the bytes written, each once and in      *)
(* order, until the hardware overruns the reader; an overrun needs as many *)
(* unread bytes as the ring holds, but for the one the reader is copying.  *)
(* After an overrun nothing is promised.  PtRing implements this with      *)
(* shared memory, a sentinel byte and no write cursor.                     *)
(***************************************************************************)
EXTENDS Integers, Sequences

CONSTANTS
  Byte,      \* the byte values
  Capacity   \* the bytes the ring holds

VARIABLES
  written,   \* every byte the hardware wrote, in order
  taken,     \* every byte the reader took out, in order
  overrun    \* the hardware wrote over a byte not taken yet

vars == <<written, taken, overrun>>

Unread == Len(written) - Len(taken)

Init ==
  /\ written = << >>
  /\ taken = << >>
  /\ overrun = FALSE

Write(b) ==
  /\ written' = Append(written, b)
  /\ overrun' \in BOOLEAN
  /\ overrun => overrun'
  /\ overrun' => overrun \/ Unread >= Capacity - 1
  /\ UNCHANGED taken

\* The next byte of the trace.
Take ==
  /\ ~overrun
  /\ Unread > 0
  /\ taken' = Append(taken, written[Len(taken) + 1])
  /\ UNCHANGED <<written, overrun>>

\* After an overrun, whatever the ring holds.
TakeAny(b) ==
  /\ overrun
  /\ taken' = Append(taken, b)
  /\ UNCHANGED <<written, overrun>>

Next ==
  \/ Take
  \/ \E b \in Byte : Write(b) \/ TakeAny(b)

Spec == Init /\ [][Next]_vars
=============================================================================
