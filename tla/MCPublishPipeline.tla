-------------------------- MODULE MCPublishPipeline -------------------------
(***************************************************************************)
(* One item, one slot and two connections: c1, connected from the start,   *)
(* whose posts can be looked up, and c2, which people connect, refresh,    *)
(* check and disconnect and whose failures they answer.  A user reviews,   *)
(* edits with a tool, schedules and unschedules the item meanwhile, and    *)
(* two schedulers materialise the slot.                                    *)
(***************************************************************************)
EXTENDS PublishPipeline, TLC

CONSTANTS c1, c2

MCAnswers == c1 :> {"TIMEOUT"} @@ c2 :> {"TIMEOUT", "UNKNOWN"}
MCMaxPosts == c1 :> 1 @@ c2 :> 2

Symmetric ==
  Permutations(Clicks) \cup Permutations(Words) \cup Permutations(Sweepers)
=============================================================================
