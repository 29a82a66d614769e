--------------------------- MODULE MCSevenDayWorker ---------------------------
(***************************************************************************)
(* TLC instances of SevenDayWorker.                                        *)
(***************************************************************************)
EXTENDS SevenDayWorker

\* What a CLI backfill asks for: a full window, and one that starts later, as
\* --from-block allows.
CLIRequests == {[from |-> 1, to |-> 3], [from |-> 2, to |-> 3]}
===============================================================================
