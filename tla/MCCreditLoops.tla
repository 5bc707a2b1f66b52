---------------------------- MODULE MCCreditLoops ---------------------------
(* The two loops over rows of the ledger, one behaviour for either: the      *)
(* allocation of every amount from every assignment of dates and credits to  *)
(* three buckets; and the sweep over five reservations, two of which can     *)
(* never be released, in any order of deadlines, releasing at most two and   *)
(* attempting at most three at a time.                                       *)
EXTENDS SpendingLoop, ReservationSweep

MCExpiries == {Never, 1, 2}

VARIABLE loop   \* the one that runs; the other rests

LoopsInit ==
  /\ LoopInit
  /\ Init
  /\ loop \in {"allocate", "sweep"}
  /\ loop = "allocate" => \A r \in Rows : expiresAt[r] = 0
  /\ loop = "sweep" =>
       /\ amount = 0
       /\ \A i \in Ids : spendable[i] = 0 /\ bs[i] = [expiresAt |-> Never, grantedAt |-> 1]

Allocating == loop = "allocate" /\ UNCHANGED <<vars, loop>>
Sweeping == loop = "sweep" /\ UNCHANGED <<loopVars, loop>>

LoopsNext ==
  \/ Skip /\ Allocating
  \/ Take /\ Allocating
  \/ Begin /\ Sweeping
  \/ ReadBatch /\ Sweeping
  \/ Attempt /\ Sweeping
  \/ Stop /\ Sweeping
  \/ (\E r \in Rows : CallerCloses(r)) /\ Sweeping
  \/ Tick /\ Sweeping

loopsVars == <<loopVars, vars, loop>>

LoopsSpec ==
  /\ LoopsInit
  /\ [][LoopsNext]_loopsVars
  /\ WF_loopsVars(Sweep /\ Sweeping)
  /\ WF_loopsVars(Tick /\ Sweeping)
=============================================================================
