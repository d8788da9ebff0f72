------------------------------ MODULE SelfUpdate ------------------------------
(***************************************************************************)
(* The application replacing its own code (netpath/selfupdate.py), against *)
(* the two ways the process is closed from outside (netpath/__main__.py,   *)
(* netpath/console.py).                                                    *)
(*                                                                         *)
(* A job thread resolves what to install, writes it down in app.db, tears  *)
(* the service down, swaps the package directory and has a second thread   *)
(* restart the process. The directory and the markers outlive the process; *)
(* everything else is gone with it, whenever it ends.                      *)
(*                                                                         *)
(* A version stands for a commit; a release is a commit with a tag and a   *)
(* published digest. What is downloaded and checked before anything on the *)
(* host changes is one step, which works or does not.                      *)
(***************************************************************************)
EXTENDS Integers

CONSTANTS
    Versions,  \* bound: how many versions are published
    Presses,   \* bound: how often the button is pressed
    Faults,    \* bound: calls that fail and kills of the process, together
    Crashes    \* bound: how often it is killed

ASSUME BoundAssumption ==
    Versions \in Nat \ {0} /\ Presses \in Nat /\ Faults \in Nat /\ Crashes \in Nat

Version == 1..Versions
None    == 0
Part    == -1   \* a directory that was copied in part

VARIABLES
    (* the repository *)
    tip,        \* the newest commit of the branch
    release,    \* the newest release, or None
    (* the disk *)
    package,    \* what netpath/ holds: a version, None or Part
    backup,     \* what netpath.bak-* holds
    commitMark, \* meta: update_installed_commit
    tagMark,    \* meta: update_installed_tag
    (* the process *)
    running,    \* the version it runs, or None
    service,    \* "up", "closing" in shutdown(), "overrun": its stores are closed
                \* and something still runs, or "closed"
    job,        \* the step of the job thread, or "idle"
    target, was, \* the job's: what it installs; the markers as they were
    hookRun,    \* _before_restart_done
    scheduled,  \* _restart_scheduled
    sleeping,   \* restart threads in their delay
    spawned,    \* replacements started and not yet taken over
    known,      \* _restart_thread is set
    pressed,    \* a request that was let through and has not called start_job
    (* who closes it *)
    desktop,    \* run by the console window, or headless
    closer,     \* how far the closing is
    watched,    \* the threads that wait_for_job looked up
    (* bounds *)
    presses, faults, crashes,
    (* history, read by no action *)
    abandoned,  \* the markers were left naming what was not installed
    broken,     \* the package was left missing or in part
    early,      \* the hook returned while another thread was in shutdown()
    raised,     \* the hook raised, and the service was not or not wholly stopped
    late,       \* a job was started in a process that has been torn down
    killed      \* the process ended, or could not exec, without a replacement

repoVars   == <<tip, release>>
diskVars   == <<package, backup>>
markVars   == <<commitMark, tagMark>>
jobVars    == <<target, was, hookRun>>
restartVars == <<scheduled, sleeping, spawned, known>>
closeVars  == <<desktop, closer, watched>>
bounds     == <<presses, faults, crashes>>
ghosts     == <<abandoned, broken, early, raised, late, killed>>
vars == <<repoVars, diskVars, markVars, running, service, job, jobVars,
          restartVars, pressed, closeVars, bounds, ghosts>>

NoTarget == [tag |-> None, sha |-> None]

\* A process that has just started, or that is gone.
Fresh ==
    /\ service' = "up" /\ job' = "idle" /\ target' = NoTarget /\ was' = NoTarget
    /\ hookRun' = FALSE /\ scheduled' = FALSE /\ sleeping' = 0 /\ spawned' = 0
    /\ known' = FALSE /\ pressed' = FALSE /\ closer' = "no" /\ watched' = {}
    /\ early' = FALSE /\ raised' = FALSE

Init ==
    /\ tip = 1 /\ release = None
    /\ package = 1 /\ backup = None /\ commitMark = None /\ tagMark = None
    /\ running = 1 /\ service = "up" /\ job = "idle"
    /\ target = NoTarget /\ was = NoTarget
    /\ hookRun = FALSE /\ scheduled = FALSE /\ sleeping = 0 /\ spawned = 0
    /\ known = FALSE /\ pressed = FALSE
    /\ desktop \in BOOLEAN /\ closer = "no" /\ watched = {}
    /\ presses = 0 /\ faults = 0 /\ crashes = 0
    /\ abandoned = FALSE /\ broken = FALSE /\ early = FALSE /\ raised = FALSE
    /\ late = FALSE /\ killed = FALSE

\* A commit is pushed, and tagged or not. Only a check looks at the repository:
\* what is pushed at other times counts as pushed when the next one looks.
Publish ==
    /\ job = "check" /\ tip < Versions /\ tip' = tip + 1
    /\ release' \in {release, tip + 1}
    /\ UNCHANGED <<diskVars, markVars, running, service, job, jobVars, restartVars,
                   pressed, closeVars, bounds, ghosts>>

\* What shutdown() returns to: everything has stopped, or a worker, a sweep or a
\* request outlived its deadline. The stores are closed either way.
Ended == {"closed", "overrun"}

\* The bound on what goes wrong.
MoreTrouble == faults + crashes < Faults
Faulty == MoreTrouble /\ faults' = faults + 1

-----------------------------------------------------------------------------
(* The request and the job, up to the teardown.                            *)

\* post_update: the setting is read from app.db, so only while it is open.
Press ==
    /\ running # None /\ service \notin Ended /\ ~pressed
    /\ presses < Presses /\ presses' = presses + 1
    /\ pressed' = TRUE
    /\ UNCHANGED <<repoVars, diskVars, markVars, running, service, job, jobVars,
                   restartVars, closeVars, faults, crashes, ghosts>>

\* start_job. One that is alive is left alone, and the press is answered.
StartJob ==
    /\ pressed /\ pressed' = FALSE
    /\ IF job = "idle"
       THEN /\ job' = "check" /\ scheduled' = FALSE /\ known' = FALSE
            /\ late' = (late \/ hookRun)
       ELSE UNCHANGED <<job, scheduled, known, late>>
    /\ UNCHANGED <<repoVars, diskVars, markVars, running, service, jobVars, sleeping,
                   spawned, closeVars, bounds, abandoned, broken, early, raised,
                   killed>>

\* _resolve_target: a release that is newer, or the tip of the branch, also
\* when the tags could not be read.
Targets ==
    {[tag |-> None, sha |-> tip]}
    \cup {t \in {[tag |-> release, sha |-> release]} : release > running}

\* Already up to date, by the markers.
Current(t) == IF t.tag = None THEN commitMark = t.sha ELSE tagMark = t.tag

jobOnly == <<repoVars, running, pressed, closeVars, presses, crashes,
             early, raised, late, killed>>

\* The target is resolved and not current; it is downloaded, checked and
\* unpacked beside the install.
Fetch ==
    /\ job = "check" /\ service \notin Ended
    /\ \E t \in Targets : ~Current(t) /\ target' = t
    /\ job' = "markCommit"
    /\ UNCHANGED <<jobOnly, diskVars, markVars, service, was, hookRun, restartVars,
                   faults, abandoned, broken>>

\* Up to date, refused, not reached, not downloaded, not as published: the
\* job ends with nothing on this host changed.
NothingToInstall ==
    /\ job = "check" /\ job' = "ending"
    /\ UNCHANGED <<jobOnly, diskVars, markVars, service, jobVars, restartVars, faults,
                   abandoned, broken>>

MarkCommit ==
    /\ job = "markCommit" /\ service \notin Ended
    /\ was' = [tag |-> tagMark, sha |-> commitMark]
    /\ commitMark' = target.sha
    /\ job' = "markTag"
    /\ UNCHANGED <<jobOnly, diskVars, tagMark, service, target, hookRun, restartVars,
                   faults, abandoned, broken>>

MarkTag ==
    /\ job = "markTag" /\ service \notin Ended
    /\ tagMark' = target.tag
    /\ job' = "hook"
    /\ UNCHANGED <<jobOnly, diskVars, commitMark, service, jobVars, restartVars,
                   faults, abandoned, broken>>

\* A marker cannot be written. The first one is not taken back when the next fails.
MarkFails ==
    /\ job \in {"markCommit", "markTag"}
    /\ IF service \in Ended THEN UNCHANGED faults ELSE Faulty
    /\ abandoned' = (abandoned \/ job = "markTag")
    /\ job' = "ending"
    /\ UNCHANGED <<jobOnly, diskVars, markVars, service, jobVars, restartVars, broken>>

-----------------------------------------------------------------------------
(* The teardown and the swap.                                              *)

\* Mutant: the shutdown is left to a thread of its own.
SwapAtOnce == "sweep"

\* The hook runs once in a process, and its shutdown() returns at once if
\* another thread has begun one.
Quiesces == ~hookRun /\ service = "up"

AfterHook == IF Quiesces THEN "closing" ELSE "sweep"

\* _run_before_restart: the server is stopped and the service shut down.
RunHook ==
    /\ job = "hook" /\ job' = AfterHook
    /\ hookRun' = TRUE
    /\ service' = IF Quiesces THEN "closing" ELSE service
    /\ early' = (early \/ service = "closing")
    /\ UNCHANGED <<repoVars, diskVars, markVars, running, target, was, restartVars,
                   pressed, closeVars, bounds, abandoned, broken, raised, late,
                   killed>>

HookDone ==
    /\ job = "closing" /\ job' = "sweep"
    /\ service' \in Ended
    /\ UNCHANGED <<jobOnly, diskVars, markVars, jobVars, restartVars, faults,
                   abandoned, broken>>

\* server.stop() raises, and shutdown() is never called, or shutdown() itself
\* does: logged, and the swap goes on.
HookRaises ==
    /\ job = "closing" \/ (job = "hook" /\ ~hookRun)
    /\ Faulty
    /\ job' = "sweep" /\ hookRun' = TRUE /\ raised' = TRUE
    /\ UNCHANGED <<repoVars, diskVars, markVars, running, service, target, was,
                   restartVars, pressed, closeVars, presses, crashes, abandoned,
                   broken, early, late, killed>>

\* What outlived the shutdown comes to its end.
StragglerEnds ==
    /\ service = "overrun" /\ service' = "closed"
    /\ UNCHANGED <<repoVars, diskVars, markVars, running, job, jobVars, restartVars,
                   pressed, closeVars, bounds, ghosts>>

Goes(from, to) ==
    /\ job = from /\ job' = to
    /\ UNCHANGED <<jobOnly, service, jobVars, restartVars>>

\* _swap_in: "any earlier .bak is removed first".
Sweep ==
    /\ Goes("sweep", "away")
    /\ backup' = None
    /\ UNCHANGED <<package, markVars, faults, abandoned, broken>>

\* Something apply() does not catch ends the job.
SwapEscapes ==
    /\ Goes("sweep", "ending") /\ Faulty
    /\ abandoned' = TRUE
    /\ UNCHANGED <<diskVars, markVars, broken>>

\* Mutant: the sweep comes after the rename, and takes this backup with it.
SweptAway == None

Saved == package

RenameAway ==
    /\ Goes("away", "move")
    /\ backup' = Saved /\ package' = None
    /\ UNCHANGED <<markVars, faults, abandoned, broken>>

RenameFails ==
    /\ Goes("away", "restore") /\ Faulty
    /\ UNCHANGED <<diskVars, markVars, abandoned, broken>>

MoveIn ==
    /\ Goes("move", "schedule")
    /\ package' = target.sha
    /\ abandoned' = FALSE
    /\ UNCHANGED <<backup, markVars, faults, broken>>

\* "put it back rather than leave nothing"
MoveFails ==
    /\ Goes("move", "restore") /\ Faulty
    /\ package' = backup /\ backup' = None
    /\ UNCHANGED <<markVars, abandoned, broken>>

\* The move had to copy, and failed half way: the backup cannot be renamed to
\* a directory that exists.
MoveFailsInPart ==
    /\ Goes("move", "restore") /\ Faulty
    /\ package' = Part /\ broken' = TRUE
    /\ UNCHANGED <<backup, markVars, abandoned>>

\* Mutant: the markers are left as the job wrote them.
AsWritten == [tag |-> tagMark, sha |-> commitMark]

Restored == was

\* _restore_meta, through connections of its own.
Restore ==
    /\ Goes("restore", "schedule")
    /\ tagMark' = Restored.tag /\ commitMark' = Restored.sha
    /\ UNCHANGED <<diskVars, faults, abandoned, broken>>

\* "GAVE UP restoring" one of them, after ten tries.
RestoreGivesUp ==
    /\ Goes("restore", "schedule") /\ Faulty
    /\ \/ tagMark' = Restored.tag /\ UNCHANGED commitMark
       \/ commitMark' = Restored.sha /\ UNCHANGED tagMark
       \/ UNCHANGED markVars
    /\ abandoned' = TRUE
    /\ UNCHANGED <<diskVars, broken>>

-----------------------------------------------------------------------------
(* The restart.                                                            *)

\* Mutant: a second restart is scheduled next to the first.
AnyTime == TRUE

MaySchedule == ~scheduled

\* schedule_restart: "exactly-once".
ScheduleRestart ==
    IF MaySchedule
    THEN scheduled' = TRUE /\ sleeping' = sleeping + 1 /\ known' = TRUE
    ELSE UNCHANGED <<scheduled, sleeping, known>>

Schedule ==
    /\ job = "schedule" /\ job' = "ending"
    /\ ScheduleRestart
    /\ UNCHANGED <<jobOnly, diskVars, markVars, service, jobVars, spawned, faults,
                   abandoned, broken>>

\* Mutant: what apply() has not scheduled is not made good.
NothingOwed == FALSE

\* The guarantor, in the job's finally.
Owed == hookRun /\ MaySchedule

JobEnds ==
    /\ job = "ending" /\ job' = "idle"
    /\ IF Owed THEN ScheduleRestart ELSE UNCHANGED <<scheduled, sleeping, known>>
    /\ target' = NoTarget /\ was' = NoTarget
    /\ watched' = watched \ {"job"}
    /\ UNCHANGED <<repoVars, diskVars, markVars, running, service, hookRun, spawned,
                   pressed, desktop, closer, bounds, ghosts>>

\* _restart_windows starts the replacement and ends half a second later;
\* execv is the same with nothing between the two.
Relaunch ==
    /\ sleeping > 0 /\ sleeping' = sleeping - 1
    /\ spawned' = spawned + 1
    /\ UNCHANGED <<repoVars, diskVars, markVars, running, service, job, jobVars,
                   scheduled, known, pressed, closeVars, bounds, ghosts>>

\* Between the first marker and the swap, or what undoes it.
Installing ==
    job \in {"markTag", "hook", "closing", "sweep", "away", "move", "restore"}

\* History: the process ends where its job is.
CutsShort ==
    /\ abandoned' = (abandoned \/ Installing)
    /\ broken' = (broken \/ job = "move")

\* The replacement runs what the package directory holds, if it can.
TakesOver ==
    /\ spawned > 0
    /\ running' = IF package \in Version THEN package ELSE None
    /\ Fresh /\ CutsShort
    /\ killed' = FALSE
    /\ UNCHANGED <<repoVars, diskVars, markVars, desktop, bounds, late>>

\* The process ends, wherever its job is, and leaves no replacement.
Dies ==
    /\ running # None /\ running' = None /\ spawned = 0
    /\ Fresh /\ CutsShort
    /\ killed' = TRUE
    /\ UNCHANGED <<repoVars, diskVars, markVars, desktop, presses, late>>

\* The spawn fails, and the process ends all the same.
SpawnFails == sleeping > 0 /\ Faulty /\ Dies /\ UNCHANGED crashes

\* The exec fails, and the process is left as it is.
ExecFails ==
    /\ sleeping > 0 /\ sleeping' = sleeping - 1 /\ Faulty
    /\ killed' = TRUE
    /\ UNCHANGED <<repoVars, diskVars, markVars, running, service, job, jobVars,
                   scheduled, spawned, known, pressed, closeVars, presses, crashes,
                   abandoned, broken, early, raised, late>>

Crash ==
    /\ MoreTrouble /\ crashes < Crashes
    /\ crashes' = crashes + 1 /\ Dies /\ UNCHANGED faults

\* A service manager, or the operator.
Start ==
    /\ running = None /\ package \in Version
    /\ running' = package /\ killed' = FALSE
    /\ UNCHANGED <<repoVars, diskVars, markVars, service, job, jobVars, restartVars,
                   pressed, closeVars, bounds, abandoned, broken, early, raised,
                   late>>

-----------------------------------------------------------------------------
(* The process is asked to end: a signal when headless, the window closed. *)

closeOnly == <<repoVars, diskVars, markVars, running, job, jobVars, restartVars,
               pressed, desktop, bounds, ghosts>>

\* The threads of an update that is_alive() finds.
Alive == {x \in {"job", "restart"} :
             IF x = "job" THEN job # "idle" ELSE known /\ sleeping + spawned > 0}

\* run_teardown waits and then stops, run_headless and main the reverse.
AfterStop == IF desktop THEN "exit" ELSE "look"
AfterWait == IF desktop THEN "stop" ELSE "exit"

Close ==
    /\ running # None /\ closer = "no"
    /\ closer' = IF desktop THEN "look" ELSE "stop"
    /\ UNCHANGED <<closeOnly, service, watched>>

\* shutdown() returns at once if another thread has begun it.
StopService ==
    /\ closer = "stop"
    /\ IF service = "up"
       THEN service' = "closing" /\ closer' = "stopping"
       ELSE closer' = AfterStop /\ UNCHANGED service
    /\ UNCHANGED <<closeOnly, watched>>

StopDone ==
    /\ closer = "stopping" /\ closer' = AfterStop
    /\ service' \in Ended
    /\ UNCHANGED <<closeOnly, watched>>

\* wait_for_job looks both threads up before it joins the first.
Look ==
    /\ closer = "look"
    /\ closer' = IF Alive = {} THEN AfterWait ELSE "waiting"
    /\ watched' = Alive
    /\ UNCHANGED <<closeOnly, service>>

WaitEnds ==
    /\ closer = "waiting" /\ watched = {}
    /\ closer' = AfterWait
    /\ UNCHANGED <<closeOnly, service, watched>>

\* main exits all the same, the console leaves it to the update.
WaitTimesOut ==
    /\ closer = "waiting"
    /\ closer' = IF desktop THEN "yielded" ELSE "exit"
    /\ UNCHANGED <<closeOnly, service, watched>>

\* _force_quit, when the console's teardown has overrun.
ForceQuit ==
    /\ desktop /\ closer \in {"waiting", "yielded", "stop", "stopping"} /\ Alive = {}
    /\ closer' = "exit"
    /\ UNCHANGED <<closeOnly, service, watched>>

Exit == closer = "exit" /\ Dies /\ UNCHANGED <<faults, crashes>>

-----------------------------------------------------------------------------
Prepares == Fetch \/ NothingToInstall \/ MarkCommit \/ MarkTag \/ MarkFails
Swaps ==
    \/ RunHook \/ HookDone \/ HookRaises
    \/ Sweep \/ SwapEscapes \/ RenameAway \/ RenameFails
    \/ MoveIn \/ MoveFails \/ MoveFailsInPart \/ Restore \/ RestoreGivesUp
Restarts == Schedule \/ JobEnds \/ Relaunch \/ TakesOver \/ SpawnFails \/ ExecFails
Closes ==
    \/ Close \/ StopService \/ StopDone \/ Look \/ WaitEnds \/ WaitTimesOut
    \/ ForceQuit \/ Exit

Next ==
    \/ Publish \/ Press \/ StartJob \/ Prepares \/ Swaps \/ Restarts
    \/ StragglerEnds \/ Closes \/ Crash \/ Start

\* The job's thread and the restart's go on: every download has a timeout and
\* so has the shutdown. Nobody has to press, publish, close or start anything.
Fairness ==
    /\ WF_vars(Prepares) /\ WF_vars(Swaps)
    /\ WF_vars(Schedule) /\ WF_vars(JobEnds) /\ WF_vars(Relaunch) /\ WF_vars(TakesOver)

Spec == Init /\ [][Next]_vars /\ Fairness

-----------------------------------------------------------------------------
TypeOK ==
    /\ tip \in Version /\ release \in 0..Versions
    /\ package \in -1..Versions /\ backup \in -1..Versions
    /\ commitMark \in 0..Versions /\ tagMark \in 0..Versions
    /\ running \in 0..Versions /\ service \in {"up", "closing"} \cup Ended
    /\ job \in {"idle", "check", "markCommit", "markTag", "hook", "closing", "sweep",
                "away", "move", "restore", "schedule", "ending"}
    /\ target \in [tag : 0..Versions, sha : 0..Versions]
    /\ was \in [tag : 0..Versions, sha : 0..Versions]
    /\ hookRun \in BOOLEAN /\ scheduled \in BOOLEAN /\ known \in BOOLEAN
    /\ sleeping \in Nat /\ spawned \in Nat
    /\ pressed \in BOOLEAN /\ desktop \in BOOLEAN
    /\ closer \in {"no", "stop", "stopping", "look", "waiting", "yielded", "exit"}
    /\ watched \subseteq {"job", "restart"}
    /\ presses \in 0..Presses /\ faults \in 0..Faults /\ crashes \in 0..Crashes
    /\ abandoned \in BOOLEAN /\ broken \in BOOLEAN /\ early \in BOOLEAN
    /\ raised \in BOOLEAN /\ late \in BOOLEAN /\ killed \in BOOLEAN

\* "the version that boots must not read as the one that never installed"
\* (INTERNALS, Self-update): outside an install, and whatever ended it, the
\* markers name the package that is there, or nothing; else a later check would
\* answer "already up to date" over other code. Excepted is an install that was
\* abandoned with its markers written.
MarkersTell ==
    \/ Installing \/ abandoned \/ broken
    \/ commitMark \in {None, package} /\ tagMark \in {None, package}

\* Old or new: the directory holds a whole version except between the two
\* renames, and after an update that ended there or copied in part; and
\* whatever happens, whenever the process is killed, a whole version is on the
\* disk (_swap_in).
OldOrNew ==
    /\ package \in Version \/ job = "move" \/ broken
    /\ package \in Version \/ backup \in Version \/ late

\* "Nothing of ours runs while the files change: the listener is down and every
\* worker has stopped" (apply): the shutdown has been asked for and is over. It
\* need not have stopped everything: what outlived its deadline may still run,
\* and so may all of it where the process was being closed when the hook ran, or
\* where the hook raised.
QuietSwap == job \in {"away", "move"} => service \in Ended \/ early \/ raised

\* "two calls would mean two replacement processes racing for the port and the
\* databases" (_restart_scheduled), unless a request outlived the teardown.
OneReplacement == sleeping + spawned <= 1 \/ late

\* "a failure that returns without a restart leaves a process serving nothing"
\* (_run_job): a process that was torn down for an update is replaced by one
\* that runs, unless it is ended from outside, the relaunch itself fails, or
\* there is nothing whole to run.
ComesBack == hookRun ~> (killed \/ (~hookRun /\ (running # None \/ broken)))

\* "Whether the update - the job thread AND any restart it scheduled - finished"
\* (wait_for_job): who has waited for the job does not end the process under a
\* restart that the job has scheduled.
WaitCoversRestart == [][WaitEnds => Alive = {}]_vars
=============================================================================
