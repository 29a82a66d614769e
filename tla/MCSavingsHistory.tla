--------------------------- MODULE MCSavingsHistory ---------------------------
(***************************************************************************)
(* TLC instances of SavingsHistory: one chain of three blocks.             *)
(***************************************************************************)
EXTENDS SavingsHistory, TLC

CONSTANTS a, b   \* the lanes

E(at, log, role, name, amount, who, usdp) ==
  [at |-> at, log |-> log, role |-> role, name |-> name, amount |-> amount,
   who |-> who, usdp |-> usdp]

\* A deposit in front of an accrual, an issue beside a withdrawal, interest in
\* each block, and a rate change.
ThreeBlocks ==
  {E(1, 0, "susdp-savings", "Accrued", 4, "vault", "neither"),
   E(1, 1, "susdp-savings", "Deposit", 5, "p", "neither"),
   E(2, 0, "susdp-savings", "Accrued", 2, "vault", "neither"),
   E(2, 1, "susdp-savings", "Withdraw", 3, "p", "neither"),
   E(2, 2, "usdp-parallelizer", "Swap", 7, "q", "out"),
   E(3, 0, "susdp-savings", "Deposit", 5, "q", "neither"),
   E(3, 1, "susdp-savings", "RateUpdated", 9, "q", "neither")}

PendingYield == <<3, 1, 2>>

TwoWindows == {[from |-> 1, to |-> 2], [from |-> 1, to |-> 3]}

Providers2 == <<2, 1>>

Request(command, from, to) == [command |-> command, range |-> [from |-> from, to |-> to]]

\* A lane that scans beside one that copies, each with overlapping ranges.
ScanAndCopy ==
  (a :> {Request("worker", 1, 3), Request("flows", 1, 2)}) @@
  (b :> {Request("align", 1, 2), Request("lifetime", 1, 3)})

\* The history worker and derive-flows on one range.
ScanAndFlows == (a :> {Request("worker", 1, 2)}) @@ (b :> {Request("flows", 1, 2)})
===============================================================================
