------------------------------ MODULE MCIngestion ------------------------------
(***************************************************************************)
(* TLC instances of Ingestion.                                             *)
(***************************************************************************)
EXTENDS Ingestion

\* A full window, one that starts later, as a CLI --from-block may, one that final
\* blocks allow early, and an empty one, which is refused.
FinalityWindows ==
  {[from |-> 1, to |-> 4], [from |-> 2, to |-> 3], [from |-> 1, to |-> 2], [from |-> 3, to |-> 2]}
================================================================================
