-------------------------- MODULE MCThresholdDirty --------------------------
(* Limits two apart from the lowest value, so that every value is a breach, *)
(* a recovery or within the hysteresis band under one of them.              *)
EXTENDS ThresholdDirty

CONSTANTS Edits, Resolves, Absorbs, Windows, Gates, Crashes, Faults

MCBudget == [k \in Disturbance |->
    CASE k = "edit" -> Edits [] k = "resolve" -> Resolves
      [] k = "absorb" -> Absorbs [] k = "window" -> Windows
      [] k = "gate" -> Gates [] k = "crash" -> Crashes
      [] k = "fault" -> Faults]
=============================================================================
