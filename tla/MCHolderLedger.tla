---------------------------- MODULE MCHolderLedger ----------------------------
(***************************************************************************)
(* TLC instances of HolderLedger, Verification and Publication, on one     *)
(* history of four blocks.  A behaviour has either several lanes and       *)
(* commands, or one lane and a verification beside it, or a lane and a     *)
(* command in turn and a page of the dashboard beside them.                *)
(***************************************************************************)
EXTENDS Verification, Publication

CONSTANTS a, b, l1, r1

VARIABLE subject   \* which of the three (constant)

T(at, log, from, to, value) ==
  [at |-> at, log |-> log, from |-> from, to |-> to, value |-> value]

\* The vault a mints, gives all to b, gets some of it back, and more; b burns what
\* is left.  Block 3: a plain payment beside a deposit.  Block 4: one beside no
\* event, and interest.
Mint       == T(1, 0, Zero, a, 2)
Withdrawn  == T(2, 0, a, b, 2)
Deposited  == T(3, 0, b, a, 1)
Beside     == T(3, 1, b, a, 1)
SecondMint == T(3, 2, Zero, b, 2)
Paid       == T(4, 0, b, a, 1)
Interest   == T(4, 1, Zero, a, 1)
Burn       == T(4, 2, b, Zero, 1)
FourBlocks == {Mint, Withdrawn, SecondMint, Deposited, Beside, Paid, Interest, Burn}

Hashes ==
  [e \in FourBlocks |->
     CASE e = Withdrawn              -> "withdrawal"
       [] e \in {Deposited, Beside} -> "deposit"
       [] e = Interest               -> "accrual"
       [] OTHER                      -> "other"]

V(at, log, tx, name, value) ==
  [at |-> at, log |-> log, tx |-> tx, name |-> name, value |-> value]

TheVaultSays ==
  {V(2, 1, "withdrawal", "Withdraw", 2), V(3, 3, "deposit", "Deposit", 1),
   V(4, 3, "accrual", "Accrued", 1)}

\* Up to the cap, over the block with the payment beside the deposit, and up to
\* the block that an uncapped lane reaches.
AskedRanges == {[from |-> n, to |-> n + 1] : n \in 1 .. 3}

\* All evidence at hand; hardly any; bad evidence of each kind.
AllWell == [boundaries |-> TRUE, state |-> TRUE, whole |-> TRUE, ypo |-> "pass", price |-> "pass",
            decoding |-> "pass", implementation |-> "same", stale |-> FALSE,
            failures |-> FALSE, retries |-> FALSE]
Situations ==
  {AllWell,
   [AllWell EXCEPT !.boundaries = FALSE, !.ypo = "warn", !.price = "warn"],
   [AllWell EXCEPT !.state = FALSE, !.price = "fail", !.stale = TRUE, !.failures = TRUE],
   [AllWell EXCEPT !.whole = FALSE, !.implementation = "unknown", !.retries = TRUE]}

MCInit ==
  /\ Init /\ VerifyInit /\ PageInit
  /\ subject \in {"commands", "verification", "dashboard"}
  /\ subject # "commands" => head = MaxBlock

\* Processes that take no part stay idle.
Only(ps) == \A p \in Processes \ ps : job'[p] = Idle

MCNext ==
  /\ UNCHANGED subject
  /\ CASE subject = "commands" -> Next /\ UNCHANGED <<verifyVars, page>>
       [] subject = "verification" ->
            /\ VerifyNext /\ UNCHANGED page
            /\ Only({l1})
            /\ report # Unverified => verify'.pc = "idle"   \* bound: one verdict
       [] subject = "dashboard" ->
            /\ PublishNext /\ UNCHANGED verifyVars
            /\ Only({l1, r1})
            /\ Cardinality({p \in Processes : job'[p] # Idle}) <= 1   \* bound: one at a time

MCSpec == MCInit /\ [][MCNext]_<<subject, vars, verifyVars, page>>
===============================================================================
