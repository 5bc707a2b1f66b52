---------------------------- MODULE MCBillingInbox ----------------------------
(* Two requests at a time and a checkout s1 of a plan, s2 of a credit pack.   *)
(* The provider sends one of the stories: two events about one purchase, a    *)
(* failed payment beside what cures it, events late and of unknown customers. *)
EXTENDS BillingInbox, TLC

CONSTANTS paid1, paid2, wrong1, gone1, pack1, fail1, fail2, inv1, upd1, end1, ref1

MCKind == paid1 :> "completed" @@ paid2 :> "completed" @@ wrong1 :> "completed"
          @@ pack1 :> "completed" @@ gone1 :> "cancelled" @@ inv1 :> "paid"
          @@ fail1 :> "failed" @@ fail2 :> "failed" @@ upd1 :> "updated"
          @@ end1 :> "ended" @@ ref1 :> "refunded"

MCTarget == paid1 :> "s1" @@ paid2 :> "s1" @@ wrong1 :> "s1" @@ gone1 :> "s1"
            @@ pack1 :> "s2" @@ fail1 :> fail1 @@ fail2 :> fail2
            @@ inv1 :> None @@ upd1 :> None @@ end1 :> None @@ ref1 :> None

MCAt == [e \in Events |-> CASE e \in {fail1, upd1, wrong1} -> 1
                            [] e \in {fail2, end1} -> 2
                            [] OTHER -> 3]

Story(copies, nfaults, npasses) ==
  [sends |-> [e \in Events |-> IF e \in DOMAIN copies THEN copies[e] ELSE 0],
   faults |-> nfaults, passes |-> npasses]

MCStories ==
  {Story(copies, 2, 0) : copies \in {paid1 :> 2, pack1 :> 2, fail1 :> 2, upd1 :> 2}}
  \cup
  {Story(copies, 1, 0) : copies \in
     {paid1 :> 1 @@ paid2 :> 1, paid1 :> 1 @@ gone1 :> 1,
      wrong1 :> 1 @@ paid1 :> 1, ref1 :> 1 @@ inv1 :> 1}}
  \cup
  {Story(upd1 :> 1 @@ end1 :> 1, 0, 0), Story(fail1 :> 1 @@ fail2 :> 1, 0, 1),
   Story(fail2 :> 1 @@ end1 :> 1, 0, 1), Story(fail1 :> 1 @@ paid1 :> 1, 0, 2)}
=============================================================================
