---------------------------- MODULE CreditAccount ---------------------------
(***************************************************************************)
(* What the credit ledger promises the code that spends from it, without   *)
(* buckets, dates or ledger rows: a balance, part of which is held for     *)
(* requests in flight.  A hold is taken only from what is not held, ends   *)
(* once, and is charged at most what it held; whatever else moves the      *)
(* balance (grants, expiry, the cycle reset) leaves every hold covered.    *)
(*                                                                         *)
(* CreditLedger implements this module; AiGateway uses it in its place.    *)
(*                                                                         *)
(* Source: the interface of packages/entitlements/src/credit-ledger.ts.    *)
(***************************************************************************)
EXTENDS Integers

CONSTANTS HoldIds,   \* the reservations
          Balances   \* every balance the account may have

VARIABLES balance,   \* credits of the workspace, held ones included
          held,      \* how much of it is held
          holds      \* each reservation: its status, amount and charge

accountVars == <<balance, held, holds>>

HoldStatuses == {"NONE", "OPEN", "SETTLED", "RELEASED", "EXPIRED"}

Hold == [status : HoldStatuses, amount : Nat, charged : Nat]

NoHold == [status |-> "NONE", amount |-> 0, charged |-> 0]

AccountInit ==
  /\ balance = 0
  /\ held = 0
  /\ holds = [r \in HoldIds |-> NoHold]

\* reserve
HoldCredits(r, n) ==
  /\ holds[r].status = "NONE"
  /\ n <= balance - held
  /\ held' = held + n
  /\ holds' = [holds EXCEPT ![r] = [status |-> "OPEN", amount |-> n, charged |-> 0]]
  /\ UNCHANGED balance

\* settle
ChargeHold(r, n) ==
  /\ holds[r].status = "OPEN"
  /\ n <= holds[r].amount
  /\ balance' = balance - n
  /\ held' = held - holds[r].amount
  /\ holds' = [holds EXCEPT ![r].status = "SETTLED", ![r].charged = n]

\* release, by the caller or by the sweep
EndHold(r, status) ==
  /\ holds[r].status = "OPEN"
  /\ held' = held - holds[r].amount
  /\ holds' = [holds EXCEPT ![r].status = status]
  /\ UNCHANGED balance

\* A grant, an expiry pass or a cycle reset.
MoveBalance ==
  /\ balance' \in Balances
  /\ balance' >= held
  /\ UNCHANGED <<held, holds>>

AccountNext ==
  \/ \E r \in HoldIds :
       \/ \E n \in 1..(balance - held) : HoldCredits(r, n)
       \/ \E n \in 0..holds[r].amount : ChargeHold(r, n)
       \/ \E status \in {"RELEASED", "EXPIRED"} : EndHold(r, status)
  \/ MoveBalance

AccountSpec == AccountInit /\ [][AccountNext]_accountVars
=============================================================================
