-------------------------- MODULE MCAutomationRun --------------------------
(* Five workspaces: one watches a metric with two schedulers, one has a rule   *)
(* for every hour, one a rule that acts and one a rule that proposes on an     *)
(* event, one both.  Two deliveries and two people at a time.                  *)
EXTENDS AutomationRun

CONSTANTS watch, hourly, propose, notify

RuleSet == {watch, hourly, propose, notify}
MCStories == {[new |-> {watch}, faults |-> MaxFaults],
              [new |-> {hourly}, faults |-> MaxFaults - 1],
              [new |-> {notify}, faults |-> 0],
              [new |-> {propose}, faults |-> MaxFaults - 1],
              [new |-> {propose, notify}, faults |-> MaxFaults]}
=============================================================================
