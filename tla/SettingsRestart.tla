--------------------------- MODULE SettingsRestart ---------------------------
(***************************************************************************)
(* A settings save and what it does to the worker behind it, up to the end *)
(* of the service (netpath/web/service.py, netpath/worker.py).             *)
(*                                                                         *)
(* Request threads save a scope's settings (apply_settings), which merges  *)
(* them into the module's live dict, writes them to the module's database, *)
(* reads them back and queues a restart of the worker on a pool of one     *)
(* thread.  The wireless scope is the one modelled: its strip (web/api/    *)
(* wireless.py, post_wireless_collector) starts and stops the worker on    *)
(* the request thread instead.  shutdown() ends it all inside a deadline   *)
(* and closes the store (netpath/sqlitebase.py), whoever may still be      *)
(* inside it.                                                              *)
(*                                                                         *)
(* The settings are two switches: enabled, and one more.  Stop and start   *)
(* take several steps, on whichever thread makes the call.                 *)
(***************************************************************************)
EXTENDS Integers, FiniteSets

CONSTANTS
    Handler,   \* the request threads
    Requests,  \* bound: how many requests are made
    Loops      \* bound: threads in the worker's loop at the same time

ASSUME HandlerAssumption == IsFiniteSet(Handler) /\ "pool" \notin Handler
ASSUME BoundAssumption == Requests \in Nat /\ Loops \in Nat \ {0}

Loop   == 1..Loops
Caller == Handler \cup {"pool"}
Key    == {"enabled", "other"}
None   == 0

VARIABLES
    live,      \* the module's settings dict, shared by all threads
    stored,    \* what its database holds
    save,      \* per handler: where apply_settings is
    copy,      \* per handler: what it read back from the database
    requests,  \* how many were made so far
    (* the restart pool *)
    closed,    \* _restarts_closed
    pending,   \* _restarts_pending
    (* the worker *)
    stopping,  \* _stop
    attached,  \* _thread, or None
    alive,     \* the threads in its _loop
    call,      \* per caller: the step of the stop() or start() it is in
    goal,      \* per caller: "stop", "start" or "restart"
    joining,   \* per caller: the thread _join took
    (* shutdown() *)
    teardown, waitsFor,
    (* history, read by no action *)
    asked,     \* per key: the value last asked for
    gaveUp,    \* a call's join ended by its timeout
    overran,   \* shutdown() went on without a restart that was running
    crossed,   \* two handlers were saving the scope at once
    collided   \* a handler called the worker while another call was under way

saveVars   == <<live, stored, save, copy, requests>>
poolVars   == <<closed, pending>>
workerVars == <<stopping, attached, alive>>
callVars   == <<call, goal, joining>>
downVars   == <<teardown, waitsFor>>
ghosts     == <<asked, gaveUp, overran, crossed, collided>>
vars == <<saveVars, poolVars, workerVars, callVars, downVars, ghosts>>

Unread == [k \in Key |-> TRUE]

Init ==
    /\ live = [k \in Key |-> TRUE] /\ stored = live
    /\ save = [h \in Handler |-> "idle"]
    /\ copy = [h \in Handler |-> Unread] /\ requests = 0
    /\ closed = FALSE /\ pending = 0
    /\ stopping = FALSE /\ attached = 1 /\ alive = {1}
    /\ call = [c \in Caller |-> "idle"] /\ goal = [c \in Caller |-> "stop"]
    /\ joining = [c \in Caller |-> None]
    /\ teardown = "up" /\ waitsFor = None
    /\ asked = live /\ gaveUp = FALSE /\ overran = FALSE
    /\ crossed = FALSE /\ collided = FALSE

Busy(c) == call[c] # "idle"

\* History: the call the handler is about to make meets another one.
Collides(h) ==
    collided' = (collided \/ teardown # "up" \/ \E c \in Caller \ {h} : Busy(c))

-----------------------------------------------------------------------------
(* apply_settings, on a request thread.                                    *)

Request(h) ==
    /\ save[h] = "idle" /\ ~Busy(h)
    /\ requests < Requests /\ requests' = requests + 1

Step(h, at) == save' = [save EXCEPT ![h] = at]

\* The live dict is updated before anything is stored.
Turn(k, v) ==
    /\ live' = [live EXCEPT ![k] = v]
    /\ asked' = [asked EXCEPT ![k] = v]

\* History: another request is between its merge and its read.
Crosses(h) == crossed' = (crossed \/ \E g \in Handler \ {h} : save[g] # "idle")

Merge(h) ==
    /\ Request(h)
    /\ \E k \in Key, v \in BOOLEAN : Turn(k, v)
    /\ Step(h, "persist")
    /\ Crosses(h)
    /\ UNCHANGED <<stored, copy, poolVars, workerVars, callVars, downVars,
                   gaveUp, overran, collided>>

\* Mutant: one of the keys is not written.
AllButOne == [stored EXCEPT !["enabled"] = live["enabled"]]

\* save_settings is handed the whole live dict.
Saved == live

\* The store lock: one transaction at a time, and nobody reads inside it.
Locked == \E h \in Handler : save[h] \in {"write", "stripWrite"}

TakeLock(h) ==
    /\ save[h] \in {"persist", "strip"} /\ ~Locked /\ teardown # "down"
    /\ Step(h, IF save[h] = "persist" THEN "write" ELSE "stripWrite")
    /\ UNCHANGED <<live, stored, copy, requests, poolVars, workerVars,
                   callVars, downVars, ghosts>>

\* Until the commit the store may close under the transaction, and what it
\* held is rolled back.
Commit(h) ==
    /\ save[h] = "write" /\ teardown # "down"
    /\ stored' = Saved
    /\ Step(h, "read")
    /\ UNCHANGED <<live, copy, requests, poolVars, workerVars, callVars,
                   downVars, ghosts>>

\* A statement on a closed store raises, and the request is not answered 200:
\* nothing was asked for in the end.
SaveFails(h) ==
    /\ save[h] \in {"persist", "write", "read", "strip", "stripWrite"}
    /\ teardown = "down"
    /\ Step(h, "idle")
    /\ asked' = stored
    /\ UNCHANGED <<live, stored, copy, requests, poolVars, workerVars,
                   callVars, downVars, gaveUp, overran, crossed, collided>>

Read(h) ==
    /\ save[h] = "read" /\ ~Locked /\ teardown # "down"
    /\ copy' = [copy EXCEPT ![h] = stored]
    /\ Step(h, "update")
    /\ UNCHANGED <<live, stored, requests, poolVars, workerVars, callVars,
                   downVars, ghosts>>

Update(h) ==
    /\ save[h] = "update"
    /\ live' = copy[h]
    /\ copy' = [copy EXCEPT ![h] = Unread]
    /\ Step(h, "queue")
    /\ UNCHANGED <<stored, requests, poolVars, workerVars, callVars,
                   downVars, ghosts>>

\* Mutant: a restart is dropped when there is one that has not ended.
IfNoneWaits == IF pending = 0 THEN 1 ELSE pending

OneMore == pending + 1

\* _queue_restart
Queue(h) ==
    /\ save[h] = "queue" /\ ~closed
    /\ pending' = OneMore
    /\ Step(h, "idle")
    /\ UNCHANGED <<live, stored, copy, requests, closed, workerVars,
                   callVars, downVars, ghosts>>

Begins(c, what) ==
    /\ call' = [call EXCEPT ![c] = "set"]
    /\ goal' = [goal EXCEPT ![c] = what]

\* Dropping the effect "would silently ignore a save, so it runs inline".
RestartInline(h) ==
    /\ save[h] = "queue" /\ closed
    /\ Step(h, "idle")
    /\ Begins(h, "restart") /\ Collides(h)
    /\ UNCHANGED <<live, stored, copy, requests, poolVars, workerVars,
                   joining, downVars, asked, gaveUp, overran, crossed>>

\* post_wireless_collector: the strip's buttons set the one key in the live
\* dict and in the database, and call the worker themselves.
StripTurns(h) ==
    /\ Request(h)
    /\ \E v \in BOOLEAN :
          /\ Turn("enabled", v)
          /\ goal' = [goal EXCEPT ![h] = IF v THEN "start" ELSE "stop"]
    /\ Step(h, "strip")
    /\ Crosses(h)
    /\ UNCHANGED <<stored, copy, poolVars, workerVars, call, joining, downVars,
                   gaveUp, overran, collided>>

StripCalls(h) ==
    /\ save[h] = "stripWrite" /\ teardown # "down"
    /\ stored' = [stored EXCEPT !["enabled"] = (goal[h] = "start")]
    /\ Step(h, "idle")
    /\ Begins(h, goal[h]) /\ Collides(h)
    /\ UNCHANGED <<live, copy, requests, poolVars, workerVars, joining, downVars,
                   asked, gaveUp, overran, crossed>>

-----------------------------------------------------------------------------
(* _run_restart on the pool's one thread.                                  *)

Restart ==
    /\ pending > 0 /\ ~Busy("pool")
    /\ Begins("pool", "restart")
    /\ collided' = (collided \/ \E h \in Handler : Busy(h))
    /\ UNCHANGED <<saveVars, poolVars, workerVars, joining, downVars, asked, gaveUp, overran, crossed>>

-----------------------------------------------------------------------------
(* stop(), start() and _restart(), which is the one and then the other.    *)

callOnly == <<saveVars, closed, downVars, asked, overran, crossed, collided>>

Moves(c, at) == call' = [call EXCEPT ![c] = at]

Returns(c) ==
    /\ Moves(c, "idle")
    /\ goal' = [goal EXCEPT ![c] = "stop"]
    /\ pending' = IF c = "pool" THEN pending - 1 ELSE pending

\* begin_stop
SetStop(c) ==
    /\ call[c] = "set"
    /\ stopping' = TRUE
    /\ Moves(c, "take")
    /\ UNCHANGED <<callOnly, pending, attached, alive, goal, joining, gaveUp>>

\* Mutant: stop() forgets the thread before it has ended.
Forgotten == None

ThreadToJoin == attached

TakeThread(c) ==
    /\ call[c] = "take"
    /\ joining' = [joining EXCEPT ![c] = ThreadToJoin]
    /\ Moves(c, "join")
    /\ UNCHANGED <<callOnly, pending, workerVars, goal, gaveUp>>

\* Where the call goes on once _join has returned.
AfterJoin(c) ==
    CASE goal[c] = "stop"    -> Returns(c)
      [] goal[c] = "start"   -> Moves(c, "clear") /\ UNCHANGED <<pending, goal>>
      [] goal[c] = "restart" -> Moves(c, "decide") /\ UNCHANGED <<pending, goal>>

\* The thread ended in time, or there was none.
Joined(c) ==
    /\ call[c] = "join" /\ joining[c] \notin alive
    /\ attached' = None
    /\ joining' = [joining EXCEPT ![c] = None]
    /\ AfterJoin(c)
    /\ UNCHANGED <<callOnly, stopping, alive, gaveUp>>

\* "A thread that outlives the timeout stays attached"
JoinTimesOut(c) ==
    /\ call[c] = "join" /\ joining[c] \in alive
    /\ gaveUp' = TRUE
    /\ joining' = [joining EXCEPT ![c] = None]
    /\ AfterJoin(c)
    /\ UNCHANGED <<callOnly, workerVars>>

\* _restart reads the live dict after the stop, not when it was queued.
Decide(c) ==
    /\ call[c] = "decide"
    /\ IF live["enabled"]
       THEN Begins(c, "start") /\ UNCHANGED pending
       ELSE Returns(c)
    /\ UNCHANGED <<callOnly, workerVars, joining, gaveUp>>

ClearStop(c) ==
    /\ call[c] = "clear"
    /\ stopping' = FALSE
    /\ Moves(c, "spawn")
    /\ UNCHANGED <<callOnly, pending, attached, alive, goal, joining, gaveUp>>

Spawn(c) ==
    /\ call[c] = "spawn"
    /\ \E t \in Loop \ (alive \cup {joining[b] : b \in Caller} \cup {waitsFor}) :
          /\ attached' = t /\ alive' = alive \cup {t}
    /\ Returns(c)
    /\ UNCHANGED <<callOnly, stopping, joining, gaveUp>>

\* The loop sees _stop, at the latest when what it is doing has ended.
LoopEnds(t) ==
    /\ t \in alive /\ stopping
    /\ alive' = alive \ {t}
    /\ UNCHANGED <<saveVars, poolVars, stopping, attached, callVars, downVars, ghosts>>

-----------------------------------------------------------------------------
(* shutdown().                                                             *)

Comes(from, to) == teardown = from /\ teardown' = to

CloseRestarts ==
    /\ Comes("up", "signal")
    /\ closed' = TRUE
    /\ collided' = (collided \/ \E h \in Handler : Busy(h))
    /\ UNCHANGED <<saveVars, pending, workerVars, callVars, waitsFor, asked, gaveUp, overran, crossed>>

SignalStop ==
    /\ Comes("signal", "await")
    /\ stopping' = TRUE
    /\ UNCHANGED <<saveVars, poolVars, attached, alive, callVars, waitsFor, ghosts>>

AwaitRestarts ==
    /\ Comes("await", "again") /\ pending = 0
    /\ UNCHANGED <<saveVars, poolVars, workerVars, callVars, waitsFor, ghosts>>

\* Mutant: the running restart is taken for cancelled, too.
NothingLeft == 0

Uncancelled == IF Busy("pool") THEN 1 ELSE 0

\* _cancel_restarts then drops what is queued, not what is running.
AwaitGivesUp ==
    /\ Comes("await", "again") /\ pending > 0
    /\ pending' = Uncancelled
    /\ overran' = (overran \/ Busy("pool"))
    /\ UNCHANGED <<saveVars, closed, workerVars, callVars, waitsFor, asked, gaveUp, crossed, collided>>

\* Mutant: the workers are not signalled a second time.
Unsignalled == stopping

Resignalled == TRUE

SignalAgain ==
    /\ Comes("again", "finish")
    /\ stopping' = Resignalled
    /\ waitsFor' = attached
    /\ UNCHANGED <<saveVars, poolVars, attached, alive, callVars, ghosts>>

FinishStop ==
    /\ Comes("finish", "stores")
    /\ attached' = IF waitsFor \in alive THEN attached ELSE None
    /\ waitsFor' = None
    /\ UNCHANGED <<saveVars, poolVars, stopping, alive, callVars, ghosts>>

\* Mutant: close() waits for the lock, however long it takes.
WhenFree == ~Locked

\* close() takes the lock if it is free within two seconds, and closes the
\* connection in either case.
MayClose == TRUE

CloseStores ==
    /\ Comes("stores", "down") /\ MayClose
    /\ UNCHANGED <<saveVars, poolVars, workerVars, callVars, waitsFor, ghosts>>

-----------------------------------------------------------------------------
Saving(h) == TakeLock(h) \/ SaveFails(h) \/ Read(h) \/ Update(h) \/ Queue(h)
             \/ RestartInline(h)
Committing(h) == Commit(h) \/ StripCalls(h)
Calling(c) ==
    \/ SetStop(c) \/ TakeThread(c) \/ Joined(c) \/ JoinTimesOut(c)
    \/ Decide(c) \/ ClearStop(c) \/ Spawn(c)
Ending ==
    \/ SignalStop \/ AwaitRestarts \/ AwaitGivesUp \/ SignalAgain
    \/ FinishStop \/ CloseStores

Next ==
    \/ \E h \in Handler : Merge(h) \/ StripTurns(h) \/ Saving(h) \/ Committing(h)
    \/ Restart
    \/ \E c \in Caller : Calling(c)
    \/ \E t \in Loop : LoopEnds(t)
    \/ CloseRestarts \/ Ending

\* A thread that has begun something goes on with it, except that a transaction
\* may take for ever to commit. Nobody has to make a request or to shut the
\* service down.
Fairness ==
    /\ \A h \in Handler : WF_vars(Saving(h))
    /\ WF_vars(Restart)
    /\ \A c \in Caller : WF_vars(Calling(c))
    /\ \A t \in Loop : WF_vars(LoopEnds(t))
    /\ WF_vars(Ending)

Spec == Init /\ [][Next]_vars /\ Fairness

-----------------------------------------------------------------------------
TypeOK ==
    /\ live \in [Key -> BOOLEAN] /\ stored \in [Key -> BOOLEAN]
    /\ save \in [Handler -> {"idle", "persist", "read", "update", "queue", "write",
                           "strip", "stripWrite"}]
    /\ copy \in [Handler -> [Key -> BOOLEAN]] /\ requests \in 0..Requests
    /\ closed \in BOOLEAN /\ pending \in 0..Requests
    /\ stopping \in BOOLEAN /\ attached \in 0..Loops /\ alive \subseteq Loop
    /\ call \in [Caller -> {"idle", "set", "take", "join", "decide", "clear", "spawn"}]
    /\ goal \in [Caller -> {"stop", "start", "restart"}]
    /\ joining \in [Caller -> 0..Loops]
    /\ teardown \in {"up", "signal", "await", "again", "finish", "stores", "down"}
    /\ waitsFor \in 0..Loops
    /\ asked \in [Key -> BOOLEAN] /\ gaveUp \in BOOLEAN
    /\ overran \in BOOLEAN /\ crossed \in BOOLEAN /\ collided \in BOOLEAN

\* "a 200 still means 'this is stored', and a reader that comes back on the
\* strength of it sees the new values" (apply_settings): while no request is
\* being answered, the database holds what was last asked for, also once it is
\* closed, and so does the dict as long as the service is up. Two requests
\* inside apply_settings at once are excepted: the one's read-back takes the
\* other's merge out of the live dict before it is written.
NoSaveLost ==
    (\A h \in Handler : save[h] = "idle") =>
        crossed \/ (stored = asked /\ (teardown = "down" \/ live = asked))

\* "A thread that outlives the timeout stays attached, so running() is honest
\* and start() cannot spawn a second" (Worker._join): two loops only after a
\* join timed out, or after a request thread's own stop() or start() met a
\* call of another thread ("that pair is not re-entrant").
OneLoop == Cardinality(alive) <= 1 \/ gaveUp \/ collided

\* The second signal "makes the stop the last word on every worker"
\* (shutdown): when the stores close, a loop that is still alive has been told
\* to end, whatever restarts were queued or running when the service went
\* down and whatever joins gave up on it. Excepted are a restart shutdown()
\* went on without, and the call of a request thread.
LastWord == teardown = "down" => alive = {} \/ stopping \/ overran \/ collided

\* Two saves "converge on the second one's settings instead of the first
\* restart resurrecting a collector the second save had just disabled"
\* (_queue_restart): in the end the worker runs exactly if it was last asked
\* to, whichever order the saves, the strip and the restarts took, unless a
\* transaction never ends.
TakesEffect ==
    <>[](\/ teardown # "up" \/ collided \/ crossed \/ gaveUp \/ Locked
         \/ (attached \in alive <=> asked["enabled"]))

\* A shutdown ends, though a restart may hang, a join fail and a transaction
\* hold the store's lock: "waiting for the lock costs a shutdown that never
\* returns" (SqliteStore.close).
ShutdownEnds == teardown = "signal" ~> teardown = "down"
=============================================================================
