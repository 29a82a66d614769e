------------------------------ MODULE SavingsMath ------------------------------
(***************************************************************************)
(* src/protocol/savings-math.ts: what the savings vault owes after some    *)
(* seconds at a rate, in the integer arithmetic of the contract, and the   *)
(* yield of an interval.  The unit of the rate is Base: 10^27 in the code, *)
(* small in an instance, where rounding is all the coarser.                *)
(***************************************************************************)
EXTENDS Integers

CONSTANTS Base   \* one whole unit of the rate

AtLeastZero(n) == IF n > 0 THEN n ELSE 0

\* Powers of the rate, rounded half up.
Squared(rate) == (rate * rate + Base \div 2) \div Base
Cubed(rate)   == (Squared(rate) * rate + Base \div 2) \div Base

\* computeUpdatedAssets: three terms of the binomial series, rounded down.
UpdatedAssets(balance, rate, elapsed) ==
  LET second == (elapsed * (elapsed - 1) * Squared(rate)) \div 2
      third  == (elapsed * (elapsed - 1) * AtLeastZero(elapsed - 2) * Cubed(rate)) \div 6
  IN  IF elapsed = 0 \/ rate = 0 THEN balance
      ELSE (balance * (Base + rate * elapsed + second + third)) \div Base

\* calculatePendingYield, which throws when the balance exceeds the total.
PendingYield(total, actual) == total - actual

\* calculateNativeYpo, which throws when the result is negative.
NativeYpo(accrued, pendingAtStart, pendingAtEnd) == accrued + pendingAtEnd - pendingAtStart
================================================================================
