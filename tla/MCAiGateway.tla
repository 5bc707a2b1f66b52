---------------------------- MODULE MCAiGateway -----------------------------
(* Small instances of AiGateway. *)
EXTENDS AiGateway, TLC

CONSTANTS e1, e2, e3, k1, k2

\* Three callers race on one key, or two of them beside a third on its own key.
\* Every other way to call three executions renames these two or has no race.
MCCalls == {[e \in Executions |-> k1],
            [e \in Executions |-> IF e = e3 THEN k2 ELSE k1]}

\* One key, called and called again.
OneKey == {[e \in Executions |-> k1]}
=============================================================================
