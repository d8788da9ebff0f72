-------------------------- MODULE MCPollScheduler --------------------------
(* Gives each bound of PollScheduler a constant of its own. *)
EXTENDS PollScheduler

CONSTANTS Clicks, Resizes, Controls, Faults

MCBudget == [k \in Disturbance |->
    CASE k = "click" -> Clicks [] k = "resize" -> Resizes
      [] k = "control" -> Controls [] k = "fault" -> Faults]
=============================================================================
