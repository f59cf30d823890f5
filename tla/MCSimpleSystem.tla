--------------------------- MODULE MCSimpleSystem ---------------------------
(***************************************************************************)
(* The instance of SimpleSystem that TLC checks: words so small that mtime *)
(* carries into its high half, and the counters into theirs, while they    *)
(* are read, written or counting.                                          *)
(***************************************************************************)
EXTENDS SimpleSystem

\* Shorter than the handler, shorter than a word, longer than a word.
MCIncrements == {5, 9, 18}
MCBootTimes  == 0 .. B
=============================================================================
