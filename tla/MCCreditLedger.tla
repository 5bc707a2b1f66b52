--------------------------- MODULE MCCreditLedger ---------------------------
(***************************************************************************)
(* A small instance of CreditLedger for TLC: two direct grants and one     *)
(* cycle boundary over two reservations.                                   *)
(***************************************************************************)
EXTENDS CreditLedger

\* A capped plan of one allowance, and a plan that keeps nothing.
MCCycleInputs ==
  {[policy |-> "capped", capBasisPoints |-> 10000, allowance |-> 1],
   [policy |-> "none",   capBasisPoints |-> 0,     allowance |-> 2]}

\* What an operator may enter: only additions, or deductions too.
Gifts == {1}
Deductions == {-1}

LedgerView == <<wallet, buckets, reservations, now, {<<row.key, row.amount>> : row \in ledger}>>
=============================================================================
