---------------------------- MODULE MCOnlineProc ----------------------------
(* Small machines for OnlineProc: three processors (two workers), the third  *)
(* one idle, and a single processor (no worker).                             *)
EXTENDS OnlineProc

\* Data before the first synchronisation point, then a complete piece, then one
\* that the capture may or may not complete; little on the second ring.
MCStreams ==
  { [c \in 0 .. 2 |-> CASE c = 0 -> <<"b", "psb", "end", "c", "psb", "end">>
                        [] c = 1 -> <<"b">>
                        [] c = 2 -> << >>],
    [c \in 0 .. 2 |-> CASE c = 0 -> <<"psb", "end", "a", "psb", "end", "b", "psb", "end">>
                        [] OTHER -> << >>],
    [c \in {0} |-> <<"b", "psb", "end", "a", "psb", "end", "b", "psb", "end">>] }

\* "a" is the end of one module and the start of the next, which is listed first;
\* "b" is in the page before it, "c" in no module.
MCWhere == [a \in {"a", "b", "c"} |-> CASE a = "a" -> 4 [] a = "b" -> 2 [] a = "c" -> 10]
MCModules == << [name |-> "hi", base |-> 4, size |-> 4], [name |-> "lo", base |-> 0, size |-> 4] >>
=============================================================================
