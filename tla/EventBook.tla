------------------------------ MODULE EventBook ------------------------------
(***************************************************************************)
(* What the inbox of billing events promises, however often, late or out   *)
(* of order the provider delivers them and whoever handles them:           *)
(*                                                                         *)
(*   - a purchase, or a failed attempt at a payment, is entered in the     *)
(*     books once, for one event, and never entered again;                 *)
(*   - an event is decided once: "done" is said of an event that is in the *)
(*     books, "void" of one that found its purchase closed, by a payment   *)
(*     or by a cancellation (what became of the money is not said here),   *)
(*     "refused" of one whose amount is wrong; only an operator opens a    *)
(*     refused or a parked event again, and nothing opens the others.      *)
(*                                                                         *)
(* BillingInbox is shown to implement this.                                *)
(***************************************************************************)
CONSTANTS Events, Targets, Target, Wrong, None

VARIABLES book,      \* for each target the event entered for it, or None
          verdict    \* what has been decided of each event

vars == <<book, verdict>>

Verdicts == {"open", "done", "void", "refused", "parked"}

Init == /\ book = [t \in Targets |-> None]
        /\ verdict = [e \in Events |-> "open"]

\* The effects of an event are committed.
Enter(e) ==
  /\ Target[e] \in Targets
  /\ book[Target[e]] = None
  /\ e \notin Wrong
  /\ book' = [book EXCEPT ![Target[e]] = e]
  /\ UNCHANGED verdict

\* Events without a target change no purchase: done and void are free.
May(e, v) ==
  CASE v = "done"    -> Target[e] \in Targets => book[Target[e]] = e
    [] v = "void"    -> Target[e] \in Targets => book[Target[e]] # None
    [] v = "refused" -> e \in Wrong
    [] v = "parked"  -> TRUE
    [] OTHER         -> FALSE

Decide(e) ==
  /\ verdict[e] = "open"
  /\ \E v \in Verdicts : May(e, v) /\ verdict' = [verdict EXCEPT ![e] = v]
  /\ UNCHANGED book

Reopen(e) ==
  /\ verdict[e] \in {"refused", "parked"}
  /\ verdict' = [verdict EXCEPT ![e] = "open"]
  /\ UNCHANGED book

Next == \E e \in Events : Enter(e) \/ Decide(e) \/ Reopen(e)

Spec == Init /\ [][Next]_vars
=============================================================================
