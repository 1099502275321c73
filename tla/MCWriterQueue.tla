--------------------------- MODULE MCWriterQueue ---------------------------
(***************************************************************************)
(* Three callers against one queue, with two attempts per task, stopped    *)
(* and started again.                                                      *)
(***************************************************************************)
EXTENDS WriterQueue

CONSTANTS t1, t2, t3
MCTasks == {t1, t2, t3}
=============================================================================
