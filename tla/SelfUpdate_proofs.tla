------------------------- MODULE SelfUpdate_proofs -------------------------
(***************************************************************************)
(* Theorems about SelfUpdate, for any number of versions, presses, failing *)
(* calls and kills: the types, and the four safety properties. Each rests  *)
(* on where in the install the job is, so the invariants below say what    *)
(* the disk, the markers and the restart are at each of its steps.         *)
(***************************************************************************)
EXTENDS SelfUpdate, TLAPS

\* The types of what holds a version, a number, a state or a set of threads,
\* and of what is true or false.
Values ==
    /\ tip \in Version /\ release \in 0..Versions
    /\ package \in -1..Versions /\ backup \in -1..Versions
    /\ commitMark \in 0..Versions /\ tagMark \in 0..Versions
    /\ running \in 0..Versions /\ service \in {"up", "closing"} \cup Ended
    /\ job \in {"idle", "check", "markCommit", "markTag", "hook", "closing", "sweep",
                "away", "move", "restore", "schedule", "ending"}
    /\ target \in [tag : 0..Versions, sha : 0..Versions]
    /\ was \in [tag : 0..Versions, sha : 0..Versions]
    /\ sleeping \in Nat /\ spawned \in Nat
    /\ closer \in {"no", "stop", "stopping", "look", "waiting", "yielded", "exit"}
    /\ watched \subseteq {"job", "restart"}
    /\ presses \in 0..Presses /\ faults \in 0..Faults /\ crashes \in 0..Crashes

Flags ==
    /\ hookRun \in BOOLEAN /\ scheduled \in BOOLEAN /\ known \in BOOLEAN
    /\ pressed \in BOOLEAN /\ desktop \in BOOLEAN
    /\ abandoned \in BOOLEAN /\ broken \in BOOLEAN /\ early \in BOOLEAN
    /\ raised \in BOOLEAN /\ late \in BOOLEAN /\ killed \in BOOLEAN

\* The markers, the package, the threads and the closing keep their types.
LEMMA ValuesHold == Spec => []Values
<1>1. Init => Values
  BY BoundAssumption DEF Init, Values, NoTarget, None, Version
<1>2. Values /\ [Next]_vars => Values'
  <2> SUFFICES ASSUME Values, [Next]_vars
               PROVE  Values'
    OBVIOUS
  <2> USE BoundAssumption
      DEF Values, Ended, MoreTrouble, NoTarget, None, Part, Version,
         vars, repoVars, diskVars, markVars, jobVars, restartVars, closeVars,
         bounds, ghosts
  <2>1. CASE Publish
    BY <2>1 DEF Publish
  <2>2. CASE Press
    BY <2>2 DEF Press
  <2>3. CASE StartJob
    BY <2>3 DEF StartJob
  <2>4. CASE Fetch
    BY <2>4 DEF Fetch, jobOnly, Targets
  <2>5. CASE NothingToInstall
    BY <2>5 DEF NothingToInstall, jobOnly
  <2>6. CASE MarkCommit
    BY <2>6 DEF MarkCommit, jobOnly
  <2>7. CASE MarkTag
    BY <2>7 DEF MarkTag, jobOnly
  <2>8. CASE MarkFails
    BY <2>8 DEF MarkFails, jobOnly, Faulty
  <2>9. CASE RunHook
    BY <2>9 DEF RunHook, AfterHook, Quiesces
  <2>37. CASE HookRaises
    BY <2>37 DEF HookRaises, Faulty
  <2>38. CASE StragglerEnds
    BY <2>38 DEF StragglerEnds
  <2>10. CASE HookDone
    BY <2>10 DEF HookDone, jobOnly, Ended
  <2>11. CASE Sweep
    BY <2>11 DEF Sweep, Goes, jobOnly
  <2>12. CASE SwapEscapes
    BY <2>12 DEF SwapEscapes, Goes, jobOnly, Faulty
  <2>13. CASE RenameAway
    BY <2>13 DEF RenameAway, Goes, jobOnly, Saved
  <2>14. CASE RenameFails
    BY <2>14 DEF RenameFails, Goes, jobOnly, Faulty
  <2>15. CASE MoveIn
    BY <2>15 DEF MoveIn, Goes, jobOnly
  <2>16. CASE MoveFails
    BY <2>16 DEF MoveFails, Goes, jobOnly, Faulty
  <2>17. CASE MoveFailsInPart
    BY <2>17 DEF MoveFailsInPart, Goes, jobOnly, Faulty
  <2>18. CASE Restore
    BY <2>18 DEF Restore, Goes, jobOnly, Restored
  <2>19. CASE RestoreGivesUp
    BY <2>19 DEF RestoreGivesUp, Goes, jobOnly, Faulty, Restored
  <2>20. CASE Schedule
    BY <2>20 DEF Schedule, jobOnly, ScheduleRestart, MaySchedule
  <2>21. CASE JobEnds
    BY <2>21 DEF JobEnds, Owed, ScheduleRestart, MaySchedule
  <2>22. CASE Relaunch
    BY <2>22 DEF Relaunch
  <2>23. CASE TakesOver
    BY <2>23 DEF TakesOver, Fresh, CutsShort, Installing
  <2>24. CASE SpawnFails
    BY <2>24 DEF SpawnFails, Dies, Fresh, CutsShort, Installing, Faulty
  <2>25. CASE ExecFails
    BY <2>25 DEF ExecFails, Faulty
  <2>26. CASE Close
    BY <2>26 DEF Close, closeOnly
  <2>27. CASE StopService
    BY <2>27 DEF StopService, closeOnly, AfterStop
  <2>28. CASE StopDone
    BY <2>28 DEF StopDone, closeOnly, AfterStop
  <2>29. CASE Look
    BY <2>29 DEF Look, closeOnly, Alive, AfterWait
  <2>30. CASE WaitEnds
    BY <2>30 DEF WaitEnds, closeOnly, AfterWait
  <2>31. CASE WaitTimesOut
    BY <2>31 DEF WaitTimesOut, closeOnly
  <2>32. CASE ForceQuit
    BY <2>32 DEF ForceQuit, closeOnly, Alive
  <2>33. CASE Exit
    BY <2>33 DEF Exit, Dies, Fresh, CutsShort, Installing
  <2>34. CASE Crash
    BY <2>34 DEF Crash, Dies, Fresh, CutsShort, Installing
  <2>35. CASE Start
    BY <2>35 DEF Start
  <2>36. CASE UNCHANGED vars
    BY <2>36
  <2> QED
    BY <2>1, <2>2, <2>3, <2>4, <2>5, <2>6, <2>7, <2>8, <2>9, <2>10, <2>11,
       <2>12, <2>13, <2>14, <2>15, <2>16, <2>17, <2>18, <2>19, <2>20, <2>21,
       <2>22, <2>23, <2>24, <2>25, <2>26, <2>27, <2>28, <2>29, <2>30, <2>31,
       <2>32, <2>33, <2>34, <2>35, <2>36, <2>37, <2>38
    DEF Next, Prepares, Swaps, Restarts, Closes
<1> QED
  BY <1>1, <1>2, PTL DEF Spec

\* The flags of the module, of the process and of the history are flags.
LEMMA FlagsHold == Spec => []Flags
<1>1. Init => Flags
  BY DEF Init, Flags
<1>2. Flags /\ [Next]_vars => Flags'
  <2> SUFFICES ASSUME Flags, [Next]_vars
               PROVE  Flags'
    OBVIOUS
  <2> USE DEF Flags,
         vars, repoVars, diskVars, markVars, jobVars, restartVars, closeVars,
         bounds, ghosts
  <2>1. CASE Press
    BY <2>1 DEF Press
  <2>2. CASE StartJob
    BY <2>2 DEF StartJob
  <2>3. CASE MarkFails
    BY <2>3 DEF MarkFails, jobOnly, Faulty
  <2>4. CASE RunHook
    BY <2>4 DEF RunHook, AfterHook, Quiesces
  <2>18. CASE HookRaises
    BY <2>18 DEF HookRaises, Faulty
  <2>19. CASE StragglerEnds
    BY <2>19 DEF StragglerEnds
  <2>5. CASE SwapEscapes
    BY <2>5 DEF SwapEscapes, Goes, jobOnly, Faulty
  <2>6. CASE MoveIn
    BY <2>6 DEF MoveIn, Goes, jobOnly
  <2>7. CASE MoveFailsInPart
    BY <2>7 DEF MoveFailsInPart, Goes, jobOnly, Faulty
  <2>8. CASE RestoreGivesUp
    BY <2>8 DEF RestoreGivesUp, Goes, jobOnly, Faulty, Restored
  <2>9. CASE Schedule
    BY <2>9 DEF Schedule, jobOnly, ScheduleRestart, MaySchedule
  <2>10. CASE JobEnds
    BY <2>10 DEF JobEnds, Owed, ScheduleRestart, MaySchedule
  <2>11. CASE TakesOver
    BY <2>11 DEF TakesOver, Fresh, CutsShort, Installing
  <2>12. CASE SpawnFails
    BY <2>12 DEF SpawnFails, Dies, Fresh, CutsShort, Installing, Faulty
  <2>13. CASE ExecFails
    BY <2>13 DEF ExecFails, Faulty
  <2>14. CASE Exit
    BY <2>14 DEF Exit, Dies, Fresh, CutsShort, Installing
  <2>15. CASE Crash
    BY <2>15 DEF Crash, Dies, Fresh, CutsShort, Installing
  <2>16. CASE Start
    BY <2>16 DEF Start
  <2>17. CASE Publish \/ Fetch \/ NothingToInstall \/ MarkCommit \/ MarkTag \/
           HookDone \/ Sweep \/ RenameAway \/ RenameFails \/ MoveFails \/
           Restore \/ Relaunch \/ Close \/ StopService \/ StopDone \/ Look \/
           WaitEnds \/ WaitTimesOut \/ ForceQuit \/ UNCHANGED vars
    BY <2>17 DEF Publish, Fetch, jobOnly, Targets, NothingToInstall,
      MarkCommit, MarkTag, HookDone, Sweep, Goes, RenameAway, Saved,
      RenameFails, Faulty, MoveFails, Restore, Restored, Relaunch, Close,
      closeOnly, StopService, AfterStop, StopDone, Look, Alive, AfterWait,
      WaitEnds, WaitTimesOut, ForceQuit
  <2> QED
    BY <2>1, <2>2, <2>3, <2>4, <2>5, <2>6, <2>7, <2>8, <2>9, <2>10, <2>11,
       <2>12, <2>13, <2>14, <2>15, <2>16, <2>17, <2>18, <2>19
    DEF Next, Prepares, Swaps, Restarts, Closes
<1> QED
  BY <1>1, <1>2, PTL DEF Spec

\* Every variable keeps its type, whatever fails and whenever the process ends.
THEOREM TypeCorrect == Spec => []TypeOK
<1>1. Values /\ Flags => TypeOK
  BY DEF Values, Flags, TypeOK
<1> QED
  BY <1>1, ValuesHold, FlagsHold, PTL

-----------------------------------------------------------------------------
\* The steps of a job up to the hook, and those after it.
Before == {"check", "markCommit", "markTag", "hook"}
After  == {"closing", "sweep", "away", "move", "restore", "schedule"}

\* A job that is past the hook has run it; one that has yet to reach the hook
\* of a process that is torn down was started too late (start_job).
Stages ==
    /\ running = None => job = "idle" /\ ~pressed
    /\ job \in After => hookRun
    /\ job \in Before /\ hookRun => late

\* The stages of a job and the hook go together in every reachable state.
LEMMA StagesHold == Spec => []Stages
<1>1. Init => Stages
  BY DEF Init, Stages, Before, After, None
<1>2. TypeOK /\ Stages /\ [Next]_vars => Stages'
  <2> SUFFICES ASSUME TypeOK, Stages, [Next]_vars
               PROVE  Stages'
    OBVIOUS
  <2> USE DEF Stages, Before, After, None,
         vars, repoVars, diskVars, markVars, jobVars, restartVars, closeVars,
         bounds, ghosts
  <2>1. CASE Press
    BY <2>1 DEF Press
  <2>2. CASE StartJob
    BY <2>2 DEF StartJob
  <2>3. CASE Fetch
    BY <2>3 DEF Fetch, jobOnly, Targets
  <2>4. CASE NothingToInstall
    BY <2>4 DEF NothingToInstall, jobOnly
  <2>5. CASE MarkCommit
    BY <2>5 DEF MarkCommit, jobOnly
  <2>6. CASE MarkTag
    BY <2>6 DEF MarkTag, jobOnly
  <2>7. CASE MarkFails
    BY <2>7 DEF MarkFails, jobOnly, Faulty
  <2>8. CASE RunHook
    BY <2>8 DEF RunHook, AfterHook, Quiesces
  <2>27. CASE HookRaises
    BY <2>27 DEF HookRaises, Faulty
  <2>28. CASE StragglerEnds
    BY <2>28 DEF StragglerEnds
  <2>9. CASE HookDone
    BY <2>9 DEF HookDone, jobOnly, Ended
  <2>10. CASE Sweep
    BY <2>10 DEF Sweep, Goes, jobOnly
  <2>11. CASE SwapEscapes
    BY <2>11 DEF SwapEscapes, Goes, jobOnly, Faulty
  <2>12. CASE RenameAway
    BY <2>12 DEF RenameAway, Goes, jobOnly, Saved
  <2>13. CASE RenameFails
    BY <2>13 DEF RenameFails, Goes, jobOnly, Faulty
  <2>14. CASE MoveIn
    BY <2>14 DEF MoveIn, Goes, jobOnly
  <2>15. CASE MoveFails
    BY <2>15 DEF MoveFails, Goes, jobOnly, Faulty
  <2>16. CASE MoveFailsInPart
    BY <2>16 DEF MoveFailsInPart, Goes, jobOnly, Faulty
  <2>17. CASE Restore
    BY <2>17 DEF Restore, Goes, jobOnly, Restored
  <2>18. CASE RestoreGivesUp
    BY <2>18 DEF RestoreGivesUp, Goes, jobOnly, Faulty, Restored
  <2>19. CASE Schedule
    BY <2>19 DEF Schedule, jobOnly, ScheduleRestart, MaySchedule
  <2>20. CASE JobEnds
    BY <2>20 DEF JobEnds, Owed, ScheduleRestart, MaySchedule
  <2>21. CASE TakesOver
    BY <2>21 DEF TakesOver, Fresh, CutsShort, Installing
  <2>22. CASE SpawnFails
    BY <2>22 DEF SpawnFails, Dies, Fresh, CutsShort, Installing, Faulty
  <2>23. CASE Exit
    BY <2>23 DEF Exit, Dies, Fresh, CutsShort, Installing
  <2>24. CASE Crash
    BY <2>24 DEF Crash, Dies, Fresh, CutsShort, Installing
  <2>25. CASE Start
    BY <2>25 DEF Start
  <2>26. CASE Publish \/ Relaunch \/ ExecFails \/ Close \/ StopService \/
           StopDone \/ Look \/ WaitEnds \/ WaitTimesOut \/ ForceQuit \/
           UNCHANGED vars
    BY <2>26 DEF Publish, Relaunch, ExecFails, Faulty, Close, closeOnly,
      StopService, StopDone, Look, WaitEnds, WaitTimesOut, ForceQuit
  <2> QED
    BY <2>1, <2>2, <2>3, <2>4, <2>5, <2>6, <2>7, <2>8, <2>9, <2>10, <2>11,
       <2>12, <2>13, <2>14, <2>15, <2>16, <2>17, <2>18, <2>19, <2>20, <2>21,
       <2>22, <2>23, <2>24, <2>25, <2>26, <2>27, <2>28
    DEF Next, Prepares, Swaps, Restarts, Closes
<1> QED
  BY <1>1, <1>2, TypeCorrect, PTL DEF Spec

-----------------------------------------------------------------------------
\* From the hook to the end of the swap the shutdown is over, unless another
\* thread was in it when the hook ran, or the hook raised: only then can a service
\* be up that the hook was to shut down.
TornDown ==
    /\ job \in {"sweep", "away", "move"} => service \in Ended \/ early \/ raised
    /\ hookRun /\ service = "up" => raised

\* The files change only after a shutdown that was asked for and has come to its
\* end, or where the hook raised or met another thread in shutdown(), for any
\* number of presses and closings: a service that has ended stays so until the
\* process does (apply, _run_before_restart).
THEOREM SwapIsQuiet == Spec => []QuietSwap
<1>1. Init => TornDown
  BY DEF Init, TornDown
<1>2. TypeOK /\ TornDown /\ [Next]_vars => TornDown'
  <2> SUFFICES ASSUME TypeOK, TornDown, [Next]_vars
               PROVE  TornDown'
    OBVIOUS
  <2> USE DEF TypeOK, TornDown, Ended,
         vars, repoVars, diskVars, markVars, jobVars, restartVars, closeVars,
         bounds, ghosts
  <2>1. CASE Fetch
    BY <2>1 DEF Fetch, jobOnly, Targets
  <2>2. CASE NothingToInstall
    BY <2>2 DEF NothingToInstall, jobOnly
  <2>3. CASE MarkCommit
    BY <2>3 DEF MarkCommit, jobOnly
  <2>4. CASE MarkTag
    BY <2>4 DEF MarkTag, jobOnly
  <2>5. CASE MarkFails
    BY <2>5 DEF MarkFails, jobOnly, Faulty
  <2>6. CASE RunHook
    BY <2>6 DEF RunHook, AfterHook, Quiesces
  <2>26. CASE HookRaises
    BY <2>26 DEF HookRaises, Faulty
  <2>27. CASE StragglerEnds
    BY <2>27 DEF StragglerEnds
  <2>7. CASE HookDone
    BY <2>7 DEF HookDone, jobOnly, Ended
  <2>8. CASE Sweep
    BY <2>8 DEF Sweep, Goes, jobOnly
  <2>9. CASE SwapEscapes
    BY <2>9 DEF SwapEscapes, Goes, jobOnly, Faulty
  <2>10. CASE RenameAway
    BY <2>10 DEF RenameAway, Goes, jobOnly, Saved
  <2>11. CASE RenameFails
    BY <2>11 DEF RenameFails, Goes, jobOnly, Faulty
  <2>12. CASE MoveIn
    BY <2>12 DEF MoveIn, Goes, jobOnly
  <2>13. CASE MoveFails
    BY <2>13 DEF MoveFails, Goes, jobOnly, Faulty
  <2>14. CASE MoveFailsInPart
    BY <2>14 DEF MoveFailsInPart, Goes, jobOnly, Faulty
  <2>15. CASE Restore
    BY <2>15 DEF Restore, Goes, jobOnly, Restored
  <2>16. CASE RestoreGivesUp
    BY <2>16 DEF RestoreGivesUp, Goes, jobOnly, Faulty, Restored
  <2>17. CASE Schedule
    BY <2>17 DEF Schedule, jobOnly, ScheduleRestart, MaySchedule
  <2>18. CASE JobEnds
    BY <2>18 DEF JobEnds, Owed, ScheduleRestart, MaySchedule
  <2>19. CASE TakesOver
    BY <2>19 DEF TakesOver, Fresh, CutsShort, Installing
  <2>20. CASE SpawnFails
    BY <2>20 DEF SpawnFails, Dies, Fresh, CutsShort, Installing, Faulty
  <2>21. CASE StopService
    BY <2>21 DEF StopService, closeOnly
  <2>22. CASE StopDone
    BY <2>22 DEF StopDone, closeOnly
  <2>23. CASE Exit
    BY <2>23 DEF Exit, Dies, Fresh, CutsShort, Installing
  <2>24. CASE Crash
    BY <2>24 DEF Crash, Dies, Fresh, CutsShort, Installing
  <2>25. CASE Publish \/ Press \/ StartJob \/ Relaunch \/ ExecFails \/ Close
           \/ Look \/ WaitEnds \/ WaitTimesOut \/ ForceQuit \/ Start \/
           UNCHANGED vars
    BY <2>25 DEF Publish, Press, StartJob, Relaunch, ExecFails, Faulty, Close,
      closeOnly, Look, WaitEnds, WaitTimesOut, ForceQuit, Start
  <2> QED
    BY <2>1, <2>2, <2>3, <2>4, <2>5, <2>6, <2>7, <2>8, <2>9, <2>10, <2>11,
       <2>12, <2>13, <2>14, <2>15, <2>16, <2>17, <2>18, <2>19, <2>20, <2>21,
       <2>22, <2>23, <2>24, <2>25, <2>26, <2>27
    DEF Next, Prepares, Swaps, Restarts, Closes
<1>3. TornDown => QuietSwap
  BY DEF TornDown, QuietSwap
<1> QED
  BY <1>1, <1>2, <1>3, TypeCorrect, PTL DEF Spec

-----------------------------------------------------------------------------
\* A restart is on its way only if it is the one that is scheduled, in a process
\* that is torn down (schedule_restart: "exactly-once").
OneScheduled ==
    /\ scheduled => hookRun
    /\ late \/ sleeping + spawned = 0 \/ (scheduled /\ sleeping + spawned = 1)

\* Two replacements are never on their way at once, unless a request outlived
\* the teardown and start_job took the flag away.
THEOREM ReplacedOnce == Spec => []OneReplacement
<1>1. Init => OneScheduled
  BY DEF Init, OneScheduled
<1>2. TypeOK /\ Stages /\ OneScheduled /\ [Next]_vars => OneScheduled'
  <2> SUFFICES ASSUME TypeOK, Stages, OneScheduled, [Next]_vars
               PROVE  OneScheduled'
    OBVIOUS
  <2> USE DEF TypeOK, Stages, After, OneScheduled,
         vars, repoVars, diskVars, markVars, jobVars, restartVars, closeVars,
         bounds, ghosts
  <2>1. CASE StartJob
    BY <2>1 DEF StartJob
  <2>2. CASE RunHook
    BY <2>2 DEF RunHook, AfterHook, Quiesces
  <2>12. CASE HookRaises
    BY <2>12 DEF HookRaises, Faulty
  <2>13. CASE StragglerEnds
    BY <2>13 DEF StragglerEnds
  <2>3. CASE Schedule
    BY <2>3 DEF Schedule, jobOnly, ScheduleRestart, MaySchedule
  <2>4. CASE JobEnds
    BY <2>4 DEF JobEnds, Owed, ScheduleRestart, MaySchedule
  <2>5. CASE Relaunch
    BY <2>5 DEF Relaunch
  <2>6. CASE TakesOver
    BY <2>6 DEF TakesOver, Fresh, CutsShort, Installing
  <2>7. CASE SpawnFails
    BY <2>7 DEF SpawnFails, Dies, Fresh, CutsShort, Installing, Faulty
  <2>8. CASE ExecFails
    BY <2>8 DEF ExecFails, Faulty
  <2>9. CASE Exit
    BY <2>9 DEF Exit, Dies, Fresh, CutsShort, Installing
  <2>10. CASE Crash
    BY <2>10 DEF Crash, Dies, Fresh, CutsShort, Installing
  <2>11. CASE Publish \/ Press \/ Fetch \/ NothingToInstall \/ MarkCommit \/
           MarkTag \/ MarkFails \/ HookDone \/ Sweep \/ SwapEscapes \/
           RenameAway \/ RenameFails \/ MoveIn \/ MoveFails \/ MoveFailsInPart
           \/ Restore \/ RestoreGivesUp \/ Close \/ StopService \/ StopDone \/
           Look \/ WaitEnds \/ WaitTimesOut \/ ForceQuit \/ Start \/ UNCHANGED
           vars
    BY <2>11 DEF Publish, Press, Fetch, jobOnly, Targets, NothingToInstall,
      MarkCommit, MarkTag, MarkFails, Faulty, HookDone, Sweep, Goes,
      SwapEscapes, RenameAway, Saved, RenameFails, MoveIn, MoveFails,
      MoveFailsInPart, Restore, Restored, RestoreGivesUp, Close, closeOnly,
      StopService, StopDone, Look, WaitEnds, WaitTimesOut, ForceQuit, Start
  <2> QED
    BY <2>1, <2>2, <2>3, <2>4, <2>5, <2>6, <2>7, <2>8, <2>9, <2>10, <2>11, <2>12, <2>13
    DEF Next, Prepares, Swaps, Restarts, Closes
<1>3. TypeOK /\ OneScheduled => OneReplacement
  BY DEF TypeOK, OneScheduled, OneReplacement
<1> QED
  BY <1>1, <1>2, <1>3, TypeCorrect, StagesHold, PTL DEF Spec

-----------------------------------------------------------------------------
\* What is installed is a version, and its tag, if it has one, names it; it is
\* what the markers say from the moment each is written (_resolve_target, apply).
Written ==
    /\ job \in {"markCommit", "markTag", "hook", "closing", "sweep", "away", "move"}
       => target.sha \in Version /\ target.tag \in {None, target.sha}
    /\ job \in {"markTag", "hook", "closing", "sweep", "away", "move"}
       => commitMark = target.sha
    /\ job \in {"hook", "closing", "sweep", "away", "move"} => tagMark = target.tag

\* The target of a job that has one is whole, and the markers name it.
LEMMA WrittenHolds == Spec => []Written
<1>1. Init => Written
  BY DEF Init, Written
<1>2. TypeOK /\ Written /\ [Next]_vars => Written'
  <2> SUFFICES ASSUME TypeOK, Written, [Next]_vars
               PROVE  Written'
    OBVIOUS
  <2> USE BoundAssumption
      DEF TypeOK, Written, Version, None, NoTarget,
         vars, repoVars, diskVars, markVars, jobVars, restartVars, closeVars,
         bounds, ghosts
  <2>1. CASE StartJob
    BY <2>1 DEF StartJob
  <2>2. CASE Fetch
    BY <2>2 DEF Fetch, jobOnly, Targets
  <2>3. CASE NothingToInstall
    BY <2>3 DEF NothingToInstall, jobOnly
  <2>4. CASE MarkCommit
    BY <2>4 DEF MarkCommit, jobOnly
  <2>5. CASE MarkTag
    BY <2>5 DEF MarkTag, jobOnly
  <2>6. CASE MarkFails
    BY <2>6 DEF MarkFails, jobOnly, Faulty
  <2>7. CASE RunHook
    BY <2>7 DEF RunHook, AfterHook, Quiesces
  <2>25. CASE HookRaises
    BY <2>25 DEF HookRaises, Faulty
  <2>26. CASE StragglerEnds
    BY <2>26 DEF StragglerEnds
  <2>8. CASE HookDone
    BY <2>8 DEF HookDone, jobOnly, Ended
  <2>9. CASE Sweep
    BY <2>9 DEF Sweep, Goes, jobOnly
  <2>10. CASE SwapEscapes
    BY <2>10 DEF SwapEscapes, Goes, jobOnly, Faulty
  <2>11. CASE RenameAway
    BY <2>11 DEF RenameAway, Goes, jobOnly, Saved
  <2>12. CASE RenameFails
    BY <2>12 DEF RenameFails, Goes, jobOnly, Faulty
  <2>13. CASE MoveIn
    BY <2>13 DEF MoveIn, Goes, jobOnly
  <2>14. CASE MoveFails
    BY <2>14 DEF MoveFails, Goes, jobOnly, Faulty
  <2>15. CASE MoveFailsInPart
    BY <2>15 DEF MoveFailsInPart, Goes, jobOnly, Faulty
  <2>16. CASE Restore
    BY <2>16 DEF Restore, Goes, jobOnly, Restored
  <2>17. CASE RestoreGivesUp
    BY <2>17 DEF RestoreGivesUp, Goes, jobOnly, Faulty, Restored
  <2>18. CASE Schedule
    BY <2>18 DEF Schedule, jobOnly, ScheduleRestart, MaySchedule
  <2>19. CASE JobEnds
    BY <2>19 DEF JobEnds, Owed, ScheduleRestart, MaySchedule
  <2>20. CASE TakesOver
    BY <2>20 DEF TakesOver, Fresh, CutsShort, Installing
  <2>21. CASE SpawnFails
    BY <2>21 DEF SpawnFails, Dies, Fresh, CutsShort, Installing, Faulty
  <2>22. CASE Exit
    BY <2>22 DEF Exit, Dies, Fresh, CutsShort, Installing
  <2>23. CASE Crash
    BY <2>23 DEF Crash, Dies, Fresh, CutsShort, Installing
  <2>24. CASE Publish \/ Press \/ Relaunch \/ ExecFails \/ Close \/
           StopService \/ StopDone \/ Look \/ WaitEnds \/ WaitTimesOut \/
           ForceQuit \/ Start \/ UNCHANGED vars
    BY <2>24 DEF Publish, Press, Relaunch, ExecFails, Faulty, Close,
      closeOnly, StopService, StopDone, Look, WaitEnds, WaitTimesOut,
      ForceQuit, Start
  <2> QED
    BY <2>1, <2>2, <2>3, <2>4, <2>5, <2>6, <2>7, <2>8, <2>9, <2>10, <2>11,
       <2>12, <2>13, <2>14, <2>15, <2>16, <2>17, <2>18, <2>19, <2>20, <2>21,
       <2>22, <2>23, <2>24, <2>25, <2>26
    DEF Next, Prepares, Swaps, Restarts, Closes
<1> QED
  BY <1>1, <1>2, TypeCorrect, PTL DEF Spec

-----------------------------------------------------------------------------
\* Where a whole version is, at each step of the swap (_swap_in). A job that was
\* started too late may find the package in part and make that its backup.
Whole ==
    /\ running # None /\ ~hookRun => package \in Version
    /\ package \in Version \/ job = "move" \/ broken
    /\ package \in Version \/ backup \in Version \/ late
    /\ job \in {"closing", "sweep", "away"} => package \in Version \/ late
    /\ job = "move" => backup \in Version \/ (late /\ broken)

\* The package is a whole version or the backup is, whenever the process ends.
LEMMA WholeHolds == Spec => []Whole
<1>1. Init => Whole
  BY BoundAssumption DEF Init, Whole, Version
<1>2. TypeOK /\ Stages /\ Written /\ Whole /\ [Next]_vars => Whole'
  <2> SUFFICES ASSUME TypeOK, Stages, Written, Whole, [Next]_vars
               PROVE  Whole'
    OBVIOUS
  <2> USE DEF Stages, Before, After, Written, Whole, None,
         vars, repoVars, diskVars, markVars, jobVars, restartVars, closeVars,
         bounds, ghosts
  <2>1. CASE StartJob
    BY <2>1 DEF StartJob
  <2>2. CASE Fetch
    BY <2>2 DEF Fetch, jobOnly, Targets
  <2>3. CASE NothingToInstall
    BY <2>3 DEF NothingToInstall, jobOnly
  <2>4. CASE MarkCommit
    BY <2>4 DEF MarkCommit, jobOnly
  <2>5. CASE MarkTag
    BY <2>5 DEF MarkTag, jobOnly
  <2>6. CASE MarkFails
    BY <2>6 DEF MarkFails, jobOnly, Faulty
  <2>7. CASE RunHook
    BY <2>7 DEF RunHook, AfterHook, Quiesces
  <2>26. CASE HookRaises
    BY <2>26 DEF HookRaises, Faulty
  <2>27. CASE StragglerEnds
    BY <2>27 DEF StragglerEnds
  <2>8. CASE HookDone
    BY <2>8 DEF HookDone, jobOnly, Ended
  <2>9. CASE Sweep
    BY <2>9 DEF Sweep, Goes, jobOnly
  <2>10. CASE SwapEscapes
    BY <2>10 DEF SwapEscapes, Goes, jobOnly, Faulty
  <2>11. CASE RenameAway
    BY <2>11 DEF RenameAway, Goes, jobOnly, Saved
  <2>12. CASE RenameFails
    BY <2>12 DEF RenameFails, Goes, jobOnly, Faulty
  <2>13. CASE MoveIn
    BY <2>13 DEF MoveIn, Goes, jobOnly
  <2>14. CASE MoveFails
    BY <2>14 DEF MoveFails, Goes, jobOnly, Faulty
  <2>15. CASE MoveFailsInPart
    BY <2>15 DEF MoveFailsInPart, Goes, jobOnly, Faulty
  <2>16. CASE Restore
    BY <2>16 DEF Restore, Goes, jobOnly, Restored
  <2>17. CASE RestoreGivesUp
    BY <2>17 DEF RestoreGivesUp, Goes, jobOnly, Faulty, Restored
  <2>18. CASE Schedule
    BY <2>18 DEF Schedule, jobOnly, ScheduleRestart, MaySchedule
  <2>19. CASE JobEnds
    BY <2>19 DEF JobEnds, Owed, ScheduleRestart, MaySchedule
  <2>20. CASE TakesOver
    BY <2>20 DEF TakesOver, Fresh, CutsShort, Installing
  <2>21. CASE SpawnFails
    BY <2>21 DEF SpawnFails, Dies, Fresh, CutsShort, Installing, Faulty
  <2>22. CASE Exit
    BY <2>22 DEF Exit, Dies, Fresh, CutsShort, Installing
  <2>23. CASE Crash
    BY <2>23 DEF Crash, Dies, Fresh, CutsShort, Installing
  <2>24. CASE Start
    BY <2>24 DEF Start
  <2>25. CASE Publish \/ Press \/ Relaunch \/ ExecFails \/ Close \/
           StopService \/ StopDone \/ Look \/ WaitEnds \/ WaitTimesOut \/
           ForceQuit \/ UNCHANGED vars
    BY <2>25 DEF Publish, Press, Relaunch, ExecFails, Faulty, Close,
      closeOnly, StopService, StopDone, Look, WaitEnds, WaitTimesOut,
      ForceQuit
  <2> QED
    BY <2>1, <2>2, <2>3, <2>4, <2>5, <2>6, <2>7, <2>8, <2>9, <2>10, <2>11,
       <2>12, <2>13, <2>14, <2>15, <2>16, <2>17, <2>18, <2>19, <2>20, <2>21,
       <2>22, <2>23, <2>24, <2>25, <2>26, <2>27
    DEF Next, Prepares, Swaps, Restarts, Closes
<1> QED
  BY <1>1, <1>2, TypeCorrect, StagesHold, WrittenHolds, PTL DEF Spec

\* Old or new: the directory holds a whole version except between the renames,
\* and one is always on the disk.
THEOREM AWholeVersionStays == Spec => []OldOrNew
<1>1. Whole => OldOrNew
  BY DEF Whole, OldOrNew
<1> QED
  BY <1>1, WholeHolds, PTL

-----------------------------------------------------------------------------
\* The directory that is there again if the swap fails.
Kept == IF job = "move" THEN backup ELSE package

\* What the markers were before this install names the version it replaces.
Remembered ==
    Installing => \/ abandoned \/ broken
                  \/ was.sha \in {None, Kept} /\ was.tag \in {None, Kept}

\* Outside an install the markers name the package that is there, or nothing:
\* also after a swap that failed and was taken back, and after a kill, unless an
\* install was abandoned with its markers written.
THEOREM MarkersAreTrue == Spec => []MarkersTell
<1>1. Init => MarkersTell /\ Remembered
  BY DEF Init, MarkersTell, Remembered, Installing, None
<1>2. TypeOK /\ Written /\ MarkersTell /\ Remembered /\ [Next]_vars
      => MarkersTell' /\ Remembered'
  <2> SUFFICES ASSUME TypeOK, Written, MarkersTell, Remembered, [Next]_vars
               PROVE  MarkersTell' /\ Remembered'
    OBVIOUS
  <2> USE DEF Written, MarkersTell, Remembered, Kept, Installing,
         vars, repoVars, diskVars, markVars, jobVars, restartVars, closeVars,
         bounds, ghosts
  <2>1. CASE StartJob
    BY <2>1 DEF StartJob
  <2>2. CASE Fetch
    BY <2>2 DEF Fetch, jobOnly, Targets
  <2>3. CASE NothingToInstall
    BY <2>3 DEF NothingToInstall, jobOnly
  <2>4. CASE MarkCommit
    BY <2>4 DEF MarkCommit, jobOnly
  <2>5. CASE MarkTag
    BY <2>5 DEF MarkTag, jobOnly
  <2>6. CASE MarkFails
    BY <2>6 DEF MarkFails, jobOnly, Faulty
  <2>7. CASE RunHook
    BY <2>7 DEF RunHook, AfterHook, Quiesces
  <2>25. CASE HookRaises
    BY <2>25 DEF HookRaises, Faulty
  <2>26. CASE StragglerEnds
    BY <2>26 DEF StragglerEnds
  <2>8. CASE HookDone
    BY <2>8 DEF HookDone, jobOnly, Ended
  <2>9. CASE Sweep
    BY <2>9 DEF Sweep, Goes, jobOnly
  <2>10. CASE SwapEscapes
    BY <2>10 DEF SwapEscapes, Goes, jobOnly, Faulty
  <2>11. CASE RenameAway
    BY <2>11 DEF RenameAway, Goes, jobOnly, Saved
  <2>12. CASE RenameFails
    BY <2>12 DEF RenameFails, Goes, jobOnly, Faulty
  <2>13. CASE MoveIn
    BY <2>13 DEF MoveIn, Goes, jobOnly
  <2>14. CASE MoveFails
    BY <2>14 DEF MoveFails, Goes, jobOnly, Faulty
  <2>15. CASE MoveFailsInPart
    BY <2>15 DEF MoveFailsInPart, Goes, jobOnly, Faulty
  <2>16. CASE Restore
    BY <2>16 DEF Restore, Goes, jobOnly, Restored
  <2>17. CASE RestoreGivesUp
    BY <2>17 DEF RestoreGivesUp, Goes, jobOnly, Faulty, Restored
  <2>18. CASE Schedule
    BY <2>18 DEF Schedule, jobOnly, ScheduleRestart, MaySchedule
  <2>19. CASE JobEnds
    BY <2>19 DEF JobEnds, Owed, ScheduleRestart, MaySchedule
  <2>20. CASE TakesOver
    BY <2>20 DEF TakesOver, Fresh, CutsShort, Installing
  <2>21. CASE SpawnFails
    BY <2>21 DEF SpawnFails, Dies, Fresh, CutsShort, Installing, Faulty
  <2>22. CASE Exit
    BY <2>22 DEF Exit, Dies, Fresh, CutsShort, Installing
  <2>23. CASE Crash
    BY <2>23 DEF Crash, Dies, Fresh, CutsShort, Installing
  <2>24. CASE Publish \/ Press \/ Relaunch \/ ExecFails \/ Close \/
           StopService \/ StopDone \/ Look \/ WaitEnds \/ WaitTimesOut \/
           ForceQuit \/ Start \/ UNCHANGED vars
    BY <2>24 DEF Publish, Press, Relaunch, ExecFails, Faulty, Close,
      closeOnly, StopService, StopDone, Look, WaitEnds, WaitTimesOut,
      ForceQuit, Start
  <2> QED
    BY <2>1, <2>2, <2>3, <2>4, <2>5, <2>6, <2>7, <2>8, <2>9, <2>10, <2>11,
       <2>12, <2>13, <2>14, <2>15, <2>16, <2>17, <2>18, <2>19, <2>20, <2>21,
       <2>22, <2>23, <2>24, <2>25, <2>26
    DEF Next, Prepares, Swaps, Restarts, Closes
<1> QED
  BY <1>1, <1>2, TypeCorrect, WrittenHolds, PTL DEF Spec
=============================================================================
