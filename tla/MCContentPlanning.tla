-------------------------- MODULE MCContentPlanning -------------------------
(* Two users work on one item, each with one request open at a time, while    *)
(* the tools, the undo, retention and the policy act beside them; two slots,  *)
(* two months, a plan of one post a month.                                    *)
EXTENDS ContentPlanning, TLC

Symmetric == Permutations(Users) \cup Permutations(Words)
=============================================================================
