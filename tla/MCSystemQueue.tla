--------------------------- MODULE MCSystemQueue ---------------------------
(* Gives each bound of SystemQueue a constant of its own; no condition is  *)
(* treated unlike another.                                                 *)
EXTENDS SystemQueue, TLC

CONSTANTS Flips, Faults, Crashes, RuleEdits, Resolves

MCBudget == [k \in Disturbance |->
    CASE k = "flip" -> Flips [] k = "fault" -> Faults [] k = "crash" -> Crashes
      [] k = "rule" -> RuleEdits [] k = "resolve" -> Resolves]

Alike == Permutations(Condition)
=============================================================================
