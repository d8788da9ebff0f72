--------------------------- MODULE MCAlertOutage ---------------------------
(* An access device behind a core device, or beside it: the smallest set of *)
(* topologies with both ends of every roll-up.                              *)
EXTENDS AlertOutage, TLC

CONSTANTS core, access, Transitions, Samples, Resolves, Mutes, Rewires, Crashes, Faults

MCAbove == (core :> {}) @@ (access :> {core})
MCTopology == {MCAbove, (core :> {}) @@ (access :> {})}
MCBudget == [k \in Disturbance |->
    CASE k = "transition" -> Transitions [] k = "sample" -> Samples
      [] k = "resolve" -> Resolves [] k = "mute" -> Mutes
      [] k = "rewire" -> Rewires [] k = "crash" -> Crashes [] k = "fault" -> Faults]
=============================================================================
