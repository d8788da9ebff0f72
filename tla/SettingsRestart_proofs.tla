---------------------- MODULE SettingsRestart_proofs ----------------------
(***************************************************************************)
(* Four properties of settings saves and restarts, for any number of       *)
(* request threads, requests and loops.                                    *)
(*                                                                         *)
(* The types come in two parts (Plain and Truths), because Plain is what   *)
(* the other proofs need, and the bound on the pool's queue needs a count: *)
(* a restart in it was a request once, so what is queued and what is on    *)
(* its way never exceed the requests made (Counted).                       *)
(*                                                                         *)
(* Each property has exceptions that are history variables; its invariant  *)
(* says what holds at every step of a save, or of a call of the worker, as *)
(* long as none of them has happened:                                      *)
(*   LastWord    Last: who may still call the worker after shutdown() has  *)
(*               begun, and that the second signal is never taken back     *)
(*   NoSaveLost  Kept: at each step of a save, what it has made equal      *)
(*   OneLoop     Single: at each step of a call, who can be in the loop    *)
(***************************************************************************)
EXTENDS SettingsRestart, FiniteSetTheorems, TLAPS

\* Where a call goes on after its join (stop, start, _restart).
LEMMA JoinGoesOn ==
  ASSUME NEW c \in Caller, goal[c] \in {"stop", "start", "restart"}, AfterJoin(c)
  PROVE  \/ goal[c] = "stop" /\ Returns(c)
         \/ goal[c] = "start" /\ Moves(c, "clear") /\ UNCHANGED <<pending, goal>>
         \/ goal[c] = "restart" /\ Moves(c, "decide") /\ UNCHANGED <<pending, goal>>
  BY DEF AfterJoin

\* The requests on their way to the restart pool.
Owing == {h \in Handler : save[h] \in {"persist", "write", "read", "update", "queue"}}

\* The types of the variables that are not switches, and that a restart which
\* is running is counted as pending.
Plain ==
    /\ save \in [Handler -> {"idle", "persist", "read", "update", "queue", "write",
                           "strip", "stripWrite"}]
    /\ requests \in 0..Requests
    /\ closed \in BOOLEAN /\ pending \in Nat
    /\ attached \in 0..Loops /\ alive \subseteq Loop
    /\ call \in [Caller -> {"idle", "set", "take", "join", "decide", "clear", "spawn"}]
    /\ goal \in [Caller -> {"stop", "start", "restart"}]
    /\ joining \in [Caller -> 0..Loops]
    /\ teardown \in {"up", "signal", "await", "again", "finish", "stores", "down"}
    /\ waitsFor \in 0..Loops
    /\ call["pool"] # "idle" => pending > 0

\* Every step of a save, a call and the shutdown keeps Plain.
LEMMA PlainHolds == Spec => []Plain
<1>1. Init => Plain
  <2> SUFFICES ASSUME Init PROVE Plain
    OBVIOUS
  <2>1. save \in [Handler -> {"idle", "persist", "read", "update", "queue", "write",
                             "strip", "stripWrite"}]
    BY DEF Init
  <2>2. /\ call \in [Caller -> {"idle", "set", "take", "join", "decide", "clear",
                               "spawn"}]
        /\ call["pool"] = "idle"
    BY DEF Init, Caller
  <2>3. goal \in [Caller -> {"stop", "start", "restart"}]
    BY DEF Init
  <2>4. joining \in [Caller -> 0..Loops]
    BY BoundAssumption DEF Init, None
  <2>5. attached = 1 /\ alive = {1} /\ requests = 0
    BY DEF Init
  <2>6. closed = FALSE /\ pending = 0 /\ teardown = "up" /\ waitsFor = None
    BY DEF Init
  <2>7. attached \in 0..Loops /\ alive \subseteq Loop /\ waitsFor \in 0..Loops
    BY <2>5, <2>6, BoundAssumption DEF Loop, None
  <2>8. requests \in 0..Requests /\ pending \in Nat
    BY <2>5, <2>6, BoundAssumption
  <2> QED
    BY <2>1, <2>2, <2>3, <2>4, <2>5, <2>6, <2>7, <2>8 DEF Plain
<1>2. Plain /\ [Next]_vars => Plain'
  <2> SUFFICES ASSUME Plain, [Next]_vars
               PROVE  Plain'
    OBVIOUS
  <2> USE HandlerAssumption, BoundAssumption
      DEF Plain, Loop, Caller, None, saveVars, poolVars, workerVars, callVars, downVars, ghosts
  <2>1. ASSUME NEW h \in Handler, Merge(h) PROVE Plain'
    BY <2>1 DEF Merge, Request, Turn, Step, Crosses
  <2>2. ASSUME NEW h \in Handler, StripTurns(h) PROVE Plain'
    BY <2>2 DEF StripTurns, Request, Turn, Step, Crosses
  <2>3. ASSUME NEW h \in Handler, TakeLock(h) PROVE Plain'
    BY <2>3 DEF TakeLock, Step
  <2>4. ASSUME NEW h \in Handler, SaveFails(h) PROVE Plain'
    BY <2>4 DEF SaveFails, Step
  <2>5. ASSUME NEW h \in Handler, Read(h) PROVE Plain'
    BY <2>5 DEF Read, Step
  <2>6. ASSUME NEW h \in Handler, Update(h) PROVE Plain'
    BY <2>6 DEF Update, Step
  <2>7. ASSUME NEW h \in Handler, Queue(h) PROVE Plain'
    BY <2>7 DEF Queue, Step, OneMore
  <2>8. ASSUME NEW h \in Handler, RestartInline(h) PROVE Plain'
    BY <2>8 DEF RestartInline, Step, Begins, Collides, Busy
  <2>9. ASSUME NEW h \in Handler, Commit(h) PROVE Plain'
    BY <2>9 DEF Commit, Step, Saved
  <2>10. ASSUME NEW h \in Handler, StripCalls(h) PROVE Plain'
    BY <2>10 DEF StripCalls, Step, Begins, Collides, Busy
  <2>11. CASE Restart
    BY <2>11 DEF Restart, Begins, Busy
  <2>12. ASSUME NEW c \in Caller, SetStop(c) PROVE Plain'
    BY <2>12 DEF SetStop, callOnly, Moves
  <2>13. ASSUME NEW c \in Caller, TakeThread(c) PROVE Plain'
    BY <2>13 DEF TakeThread, callOnly, Moves, ThreadToJoin
  <2>14. ASSUME NEW c \in Caller, Joined(c) PROVE Plain'
    <3>1. \/ goal[c] = "stop" /\ Returns(c)
          \/ goal[c] = "start" /\ Moves(c, "clear") /\ UNCHANGED <<pending, goal>>
          \/ goal[c] = "restart" /\ Moves(c, "decide") /\ UNCHANGED <<pending, goal>>
      BY <2>14, JoinGoesOn DEF Joined
    <3> QED
      BY <2>14, <3>1 DEF Joined, callOnly, Moves, Returns
  <2>15. ASSUME NEW c \in Caller, JoinTimesOut(c) PROVE Plain'
    <3>1. \/ goal[c] = "stop" /\ Returns(c)
          \/ goal[c] = "start" /\ Moves(c, "clear") /\ UNCHANGED <<pending, goal>>
          \/ goal[c] = "restart" /\ Moves(c, "decide") /\ UNCHANGED <<pending, goal>>
      BY <2>15, JoinGoesOn DEF JoinTimesOut
    <3> QED
      BY <2>15, <3>1 DEF JoinTimesOut, callOnly, Moves, Returns
  <2>16. ASSUME NEW c \in Caller, Decide(c) PROVE Plain'
    BY <2>16 DEF Decide, callOnly, Begins, Returns, Moves
  <2>17. ASSUME NEW c \in Caller, ClearStop(c) PROVE Plain'
    BY <2>17 DEF ClearStop, callOnly, Moves
  <2>18. ASSUME NEW c \in Caller, Spawn(c) PROVE Plain'
    BY <2>18 DEF Spawn, callOnly, Returns, Moves
  <2>19. ASSUME NEW t \in Loop, LoopEnds(t) PROVE Plain'
    BY <2>19 DEF LoopEnds
  <2>20. CASE CloseRestarts
    BY <2>20 DEF CloseRestarts, Comes, Busy
  <2>21. CASE SignalStop
    BY <2>21 DEF SignalStop, Comes
  <2>22. CASE AwaitRestarts
    BY <2>22 DEF AwaitRestarts, Comes
  <2>23. CASE AwaitGivesUp
    BY <2>23 DEF AwaitGivesUp, Comes, Uncancelled, Busy
  <2>24. CASE SignalAgain
    BY <2>24 DEF SignalAgain, Comes, Resignalled
  <2>25. CASE FinishStop
    BY <2>25 DEF FinishStop, Comes
  <2>26. CASE CloseStores
    BY <2>26 DEF CloseStores, Comes, MayClose
  <2>27. CASE UNCHANGED vars
    BY <2>27 DEF vars
  <2> QED
    BY <2>1, <2>2, <2>3, <2>4, <2>5, <2>6, <2>7, <2>8, <2>9, <2>10, <2>11,
       <2>12, <2>13, <2>14, <2>15, <2>16, <2>17, <2>18, <2>19, <2>20, <2>21,
       <2>22, <2>23, <2>24, <2>25, <2>26, <2>27
    DEF Next, Saving, Committing, Calling, Ending
<1> QED
  BY <1>1, <1>2, PTL DEF Spec

\* The types of the settings and of the other switches.
Truths ==
    /\ live \in [Key -> BOOLEAN] /\ stored \in [Key -> BOOLEAN]
    /\ copy \in [Handler -> [Key -> BOOLEAN]]
    /\ asked \in [Key -> BOOLEAN]
    /\ stopping \in BOOLEAN /\ gaveUp \in BOOLEAN
    /\ overran \in BOOLEAN /\ crossed \in BOOLEAN /\ collided \in BOOLEAN

\* Every step keeps Truths.
LEMMA TruthsHold == Spec => []Truths
<1>1. Init => Truths
  <2> SUFFICES ASSUME Init PROVE Truths
    OBVIOUS
  <2>1. live = [k \in Key |-> TRUE] /\ stored = live /\ asked = live
    BY DEF Init
  <2>2. copy = [h \in Handler |-> Unread]
    BY DEF Init
  <2>3. /\ stopping = FALSE /\ gaveUp = FALSE /\ overran = FALSE
        /\ crossed = FALSE /\ collided = FALSE
    BY DEF Init
  <2> QED
    BY <2>1, <2>2, <2>3 DEF Truths, Unread
<1>2. Truths /\ [Next]_vars => Truths'
  <2> SUFFICES ASSUME Truths, [Next]_vars
               PROVE  Truths'
    OBVIOUS
  <2> USE DEF Truths, Key, saveVars, poolVars, workerVars, callVars, downVars, ghosts
  <2>1. ASSUME NEW h \in Handler, Merge(h) PROVE Truths'
    BY <2>1 DEF Merge, Request, Turn, Step, Crosses
  <2>2. ASSUME NEW h \in Handler, StripTurns(h) PROVE Truths'
    BY <2>2 DEF StripTurns, Request, Turn, Step, Crosses
  <2>3. ASSUME NEW h \in Handler, SaveFails(h) PROVE Truths'
    BY <2>3 DEF SaveFails, Step
  <2>4. ASSUME NEW h \in Handler, Read(h) PROVE Truths'
    BY <2>4 DEF Read, Step
  <2>5. ASSUME NEW h \in Handler, Update(h) PROVE Truths'
    BY <2>5 DEF Update, Step, Unread
  <2>6. ASSUME NEW h \in Handler, RestartInline(h) PROVE Truths'
    BY <2>6 DEF RestartInline, Step, Begins, Collides, Busy
  <2>7. ASSUME NEW h \in Handler, Commit(h) PROVE Truths'
    BY <2>7 DEF Commit, Step, Saved
  <2>8. ASSUME NEW h \in Handler, StripCalls(h) PROVE Truths'
    BY <2>8 DEF StripCalls, Step, Begins, Collides, Busy
  <2>9. CASE Restart
    BY <2>9 DEF Restart, Begins, Busy
  <2>10. ASSUME NEW c \in Caller, SetStop(c) PROVE Truths'
    BY <2>10 DEF SetStop, callOnly, Moves
  <2>11. ASSUME NEW c \in Caller, Joined(c) PROVE Truths'
    BY <2>11 DEF Joined, callOnly, AfterJoin, Moves, Returns
  <2>12. ASSUME NEW c \in Caller, JoinTimesOut(c) PROVE Truths'
    BY <2>12 DEF JoinTimesOut, callOnly, AfterJoin, Moves, Returns
  <2>13. ASSUME NEW c \in Caller, ClearStop(c) PROVE Truths'
    BY <2>13 DEF ClearStop, callOnly, Moves
  <2>14. CASE CloseRestarts
    BY <2>14 DEF CloseRestarts, Comes, Busy
  <2>15. CASE SignalStop
    BY <2>15 DEF SignalStop, Comes
  <2>16. CASE AwaitGivesUp
    BY <2>16 DEF AwaitGivesUp, Comes, Uncancelled, Busy
  <2>17. CASE SignalAgain
    BY <2>17 DEF SignalAgain, Comes, Resignalled
  <2>18. ASSUME NEW h \in Handler, TakeLock(h) \/ Queue(h)
         PROVE  Truths'
    BY <2>18 DEF TakeLock, Step, Queue, OneMore
  <2>19. ASSUME NEW c \in Caller, TakeThread(c) \/ Decide(c) \/ Spawn(c)
         PROVE  Truths'
    BY <2>19 DEF TakeThread, callOnly, Moves, ThreadToJoin, Decide, Begins,
      Returns, Spawn
  <2>20. ASSUME NEW t \in Loop, LoopEnds(t)
         PROVE  Truths'
    BY <2>20 DEF LoopEnds
  <2>21. CASE AwaitRestarts \/ FinishStop \/ CloseStores \/ UNCHANGED vars
    BY <2>21 DEF vars, AwaitRestarts, Comes, FinishStop, CloseStores, MayClose
  <2> QED
    BY <2>1, <2>2, <2>3, <2>4, <2>5, <2>6, <2>7, <2>8, <2>9, <2>10, <2>11,
       <2>12, <2>13, <2>14, <2>15, <2>16, <2>17, <2>18, <2>19, <2>20, <2>21
    DEF Next, Saving, Committing, Calling, Ending
<1> QED
  BY <1>1, <1>2, PTL DEF Spec

\* Each request is counted once, on its way or in the pool.
Counted == pending + Cardinality(Owing) <= requests

\* There are finitely many request threads.
LEMMA OwingIsFinite == IsFiniteSet(Owing) /\ Cardinality(Owing) \in Nat
<1>1. Owing \subseteq Handler
  BY DEF Owing
<1> QED
  BY <1>1, HandlerAssumption, FS_Subset, FS_CardinalityType

\* A step that lets no request set out and adds nothing to the pool.
LEMMA NoMoreOwed ==
  ASSUME pending \in Nat, requests \in Nat, Counted, Owing' \subseteq Owing,
         pending' = pending \/ pending' = pending - 1 \/ (pending > 0 /\ pending' \in 0..1),
         requests' = requests
  PROVE  Counted'
<1>1. Cardinality(Owing') \in Nat /\ Cardinality(Owing') <= Cardinality(Owing)
  BY OwingIsFinite, FS_Subset, FS_CardinalityType
<1> QED
  BY <1>1, OwingIsFinite DEF Counted

\* A request sets out when it is counted, and _queue_restart hands it on.
LEMMA CountedHolds == Spec => []Counted
<1>1. Init => Counted
  <2> SUFFICES ASSUME Init PROVE Counted
    OBVIOUS
  <2>1. Owing = {}
    BY DEF Init, Owing
  <2>2. pending = 0 /\ requests = 0
    BY DEF Init
  <2> QED
    BY <2>1, <2>2, FS_EmptySet DEF Counted
<1>2. Plain /\ Counted /\ [Next]_vars => Counted'
  <2> SUFFICES ASSUME Plain, Counted, [Next]_vars
               PROVE  Counted'
    OBVIOUS
  <2> USE DEF Plain, saveVars, poolVars, workerVars, callVars, downVars, ghosts
  <2>1. ASSUME NEW h \in Handler, Merge(h) PROVE Counted'
    <3>1. Owing' = Owing \cup {h} /\ h \notin Owing
      BY <2>1 DEF Merge, Request, Step, Owing
    <3>2. Cardinality(Owing') = Cardinality(Owing) + 1
      BY <3>1, OwingIsFinite, FS_AddElement
    <3> QED
      BY <2>1, <3>2, OwingIsFinite DEF Merge, Request, Counted
  <2>2. ASSUME NEW h \in Handler, StripTurns(h) PROVE Counted'
    <3>1. Owing' = Owing
      BY <2>2 DEF StripTurns, Request, Step, Owing
    <3> QED
      BY <2>2, <3>1, OwingIsFinite DEF StripTurns, Request, Counted
  <2>3. ASSUME NEW h \in Handler, TakeLock(h) PROVE Counted'
    <3>1. Owing' \subseteq Owing
      BY <2>3 DEF TakeLock, Step, Owing
    <3> QED
      BY <2>3, <3>1, NoMoreOwed DEF TakeLock, Step
  <2>4. ASSUME NEW h \in Handler, SaveFails(h) PROVE Counted'
    <3>1. Owing' \subseteq Owing
      BY <2>4 DEF SaveFails, Step, Owing
    <3> QED
      BY <2>4, <3>1, NoMoreOwed DEF SaveFails, Step
  <2>5. ASSUME NEW h \in Handler, Read(h) PROVE Counted'
    <3>1. Owing' \subseteq Owing
      BY <2>5 DEF Read, Step, Owing
    <3> QED
      BY <2>5, <3>1, NoMoreOwed DEF Read, Step
  <2>6. ASSUME NEW h \in Handler, Update(h) PROVE Counted'
    <3>1. Owing' \subseteq Owing
      BY <2>6 DEF Update, Step, Owing
    <3> QED
      BY <2>6, <3>1, NoMoreOwed DEF Update, Step
  <2>7. ASSUME NEW h \in Handler, Queue(h) PROVE Counted'
    <3>1. Owing' = Owing \ {h} /\ h \in Owing
      BY <2>7 DEF Queue, Step, Owing
    <3>2. Cardinality(Owing') = Cardinality(Owing) - 1
      BY <3>1, OwingIsFinite, FS_RemoveElement
    <3> QED
      BY <2>7, <3>2, OwingIsFinite DEF Queue, OneMore, Counted
  <2>8. ASSUME NEW h \in Handler, RestartInline(h) PROVE Counted'
    <3>1. Owing' \subseteq Owing
      BY <2>8 DEF RestartInline, Step, Owing
    <3> QED
      BY <2>8, <3>1, NoMoreOwed DEF RestartInline, Step
  <2>9. ASSUME NEW h \in Handler, Commit(h) PROVE Counted'
    <3>1. Owing' \subseteq Owing
      BY <2>9 DEF Commit, Step, Owing
    <3> QED
      BY <2>9, <3>1, NoMoreOwed DEF Commit, Step
  <2>10. ASSUME NEW h \in Handler, StripCalls(h) PROVE Counted'
    <3>1. Owing' \subseteq Owing
      BY <2>10 DEF StripCalls, Step, Owing
    <3> QED
      BY <2>10, <3>1, NoMoreOwed DEF StripCalls, Step
  <2>11. CASE Restart
    <3>1. Owing' \subseteq Owing
      BY <2>11 DEF Restart, Begins, Busy, Owing
    <3> QED
      BY <2>11, <3>1, NoMoreOwed DEF Restart, Begins, Busy
  <2>12. ASSUME NEW c \in Caller, Joined(c) PROVE Counted'
    <3>1. Owing' \subseteq Owing
      BY <2>12 DEF Joined, callOnly, Owing
    <3>2. \/ goal[c] = "stop" /\ Returns(c)
          \/ goal[c] = "start" /\ Moves(c, "clear") /\ UNCHANGED <<pending, goal>>
          \/ goal[c] = "restart" /\ Moves(c, "decide") /\ UNCHANGED <<pending, goal>>
      BY <2>12, JoinGoesOn DEF Joined
    <3>3. pending' = pending \/ pending' = pending - 1
      BY <3>2 DEF Returns
    <3> QED
      BY <2>12, <3>1, <3>3, NoMoreOwed DEF Joined, callOnly
  <2>13. ASSUME NEW c \in Caller, JoinTimesOut(c) PROVE Counted'
    <3>1. Owing' \subseteq Owing
      BY <2>13 DEF JoinTimesOut, callOnly, Owing
    <3>2. \/ goal[c] = "stop" /\ Returns(c)
          \/ goal[c] = "start" /\ Moves(c, "clear") /\ UNCHANGED <<pending, goal>>
          \/ goal[c] = "restart" /\ Moves(c, "decide") /\ UNCHANGED <<pending, goal>>
      BY <2>13, JoinGoesOn DEF JoinTimesOut
    <3>3. pending' = pending \/ pending' = pending - 1
      BY <3>2 DEF Returns
    <3> QED
      BY <2>13, <3>1, <3>3, NoMoreOwed DEF JoinTimesOut, callOnly
  <2>14. ASSUME NEW c \in Caller, Decide(c) PROVE Counted'
    <3>1. Owing' \subseteq Owing
      BY <2>14 DEF Decide, callOnly, Begins, Returns, Moves, Owing
    <3> QED
      BY <2>14, <3>1, NoMoreOwed DEF Decide, callOnly, Begins, Returns, Moves
  <2>15. CASE AwaitGivesUp
    <3>1. Owing' \subseteq Owing
      BY <2>15 DEF AwaitGivesUp, Uncancelled, Comes, Busy, Owing
    <3> QED
      BY <2>15, <3>1, NoMoreOwed DEF AwaitGivesUp, Uncancelled, Comes, Busy
  <2>16. ASSUME NEW c \in Caller, SetStop(c) \/ TakeThread(c) \/ ClearStop(c)
              \/ Spawn(c)
         PROVE  Counted'
    <3>1. Owing' \subseteq Owing
      BY <2>16 DEF Owing, SetStop, callOnly, Moves, TakeThread, ThreadToJoin,
        ClearStop, Spawn, Returns
    <3> QED
      BY <2>16, <3>1, NoMoreOwed DEF SetStop, callOnly, Moves, TakeThread,
        ThreadToJoin, ClearStop, Spawn, Returns
  <2>17. ASSUME NEW t \in Loop, LoopEnds(t)
         PROVE  Counted'
    <3>1. Owing' \subseteq Owing
      BY <2>17 DEF Owing, LoopEnds
    <3> QED
      BY <2>17, <3>1, NoMoreOwed DEF LoopEnds
  <2>18. CASE CloseRestarts \/ SignalStop \/ AwaitRestarts \/ SignalAgain \/
           FinishStop \/ CloseStores \/ UNCHANGED vars
    <3>1. Owing' \subseteq Owing
      BY <2>18 DEF Owing, vars, CloseRestarts, Comes, Busy, SignalStop,
        AwaitRestarts, SignalAgain, Resignalled, FinishStop, CloseStores,
        MayClose
    <3> QED
      BY <2>18, <3>1, NoMoreOwed DEF vars, CloseRestarts, Comes, Busy,
        SignalStop, AwaitRestarts, SignalAgain, Resignalled, FinishStop,
        CloseStores, MayClose
  <2> QED
    BY <2>1, <2>2, <2>3, <2>4, <2>5, <2>6, <2>7, <2>8, <2>9, <2>10, <2>11,
       <2>12, <2>13, <2>14, <2>15, <2>16, <2>17, <2>18
    DEF Next, Saving, Committing, Calling, Ending
<1> QED
  BY <1>1, <1>2, PlainHolds, PTL DEF Spec

\* Type correctness: among the rest, no more restarts are pending than saves
\* were made (_queue_restart, _run_restart, _cancel_restarts).
THEOREM TypeCorrect == Spec => []TypeOK
<1>1. Plain /\ Truths /\ Counted => TypeOK
  <2> SUFFICES ASSUME Plain, Truths, Counted PROVE TypeOK
    OBVIOUS
  <2>1. pending \in 0..Requests
    BY OwingIsFinite, BoundAssumption DEF Plain, Counted
  <2> QED
    BY <2>1 DEF Plain, Truths, TypeOK
<1> QED
  BY <1>1, PlainHolds, TruthsHold, CountedHolds, PTL

\* What keeps the pool and the request threads away from the worker once
\* shutdown() no longer waits for them.
Last ==
    /\ closed <=> teardown # "up"
    /\ \A h \in Handler : save[h] # "idle" => ~Busy(h)
    /\ teardown \in {"again", "finish", "stores", "down"} =>
         pending = IF Busy("pool") THEN 1 ELSE 0
    /\ ~collided => \A h \in Handler : Busy(h) => teardown = "up"
    /\ ~overran /\ ~collided /\ teardown \in {"again", "finish", "stores", "down"} =>
         \A c \in Caller : ~Busy(c)
    /\ ~overran /\ ~collided /\ teardown \in {"finish", "stores", "down"} => stopping

\* Last holds: the pool is closed first, and awaited or emptied before the
\* second signal (shutdown).
LEMMA LastHolds == Spec => []Last
<1>1. Init => Last
  <2> SUFFICES ASSUME Init PROVE Last
    OBVIOUS
  <2>1. closed = FALSE /\ teardown = "up"
    BY DEF Init
  <2>2. \A c \in Caller : call[c] = "idle"
    BY DEF Init
  <2>3. \A h \in Handler : save[h] = "idle"
    BY DEF Init
  <2> QED
    BY <2>1, <2>2, <2>3 DEF Last, Busy, Caller
<1>2. Plain /\ Last /\ [Next]_vars => Last'
  <2> SUFFICES ASSUME Plain, Last, [Next]_vars
               PROVE  Last'
    OBVIOUS
  <2> USE HandlerAssumption
      DEF Plain, Last, Busy, Caller, saveVars, poolVars, workerVars, callVars, downVars, ghosts
  <2>1. ASSUME NEW h \in Handler, Merge(h) \/ StripTurns(h) PROVE Last'
    BY <2>1 DEF Merge, StripTurns, Request, Step
  <2>2. ASSUME NEW h \in Handler,
               TakeLock(h) \/ SaveFails(h) \/ Read(h) \/ Update(h) \/ Commit(h)
        PROVE  Last'
    BY <2>2 DEF TakeLock, SaveFails, Read, Update, Commit, Step
  <2>3. ASSUME NEW h \in Handler, Queue(h) PROVE Last'
    BY <2>3 DEF Queue, Step, OneMore
  <2>4. ASSUME NEW h \in Handler, RestartInline(h) PROVE Last'
    BY <2>4 DEF RestartInline, Step, Begins, Collides
  <2>5. ASSUME NEW h \in Handler, StripCalls(h) PROVE Last'
    BY <2>5 DEF StripCalls, Step, Begins, Collides
  <2>6. CASE Restart
    BY <2>6 DEF Restart, Begins
  <2>7. ASSUME NEW c \in Caller, SetStop(c) PROVE Last'
    BY <2>7 DEF SetStop, callOnly, Moves
  <2>8. ASSUME NEW c \in Caller, TakeThread(c) PROVE Last'
    BY <2>8 DEF TakeThread, callOnly, Moves
  <2>9. ASSUME NEW c \in Caller, Joined(c) PROVE Last'
    <3>1. \/ goal[c] = "stop" /\ Returns(c)
          \/ goal[c] = "start" /\ Moves(c, "clear") /\ UNCHANGED <<pending, goal>>
          \/ goal[c] = "restart" /\ Moves(c, "decide") /\ UNCHANGED <<pending, goal>>
      BY <2>9, JoinGoesOn DEF Joined
    <3> QED
      BY <2>9, <3>1 DEF Joined, callOnly, Moves, Returns
  <2>10. ASSUME NEW c \in Caller, JoinTimesOut(c) PROVE Last'
    <3>1. \/ goal[c] = "stop" /\ Returns(c)
          \/ goal[c] = "start" /\ Moves(c, "clear") /\ UNCHANGED <<pending, goal>>
          \/ goal[c] = "restart" /\ Moves(c, "decide") /\ UNCHANGED <<pending, goal>>
      BY <2>10, JoinGoesOn DEF JoinTimesOut
    <3> QED
      BY <2>10, <3>1 DEF JoinTimesOut, callOnly, Moves, Returns
  <2>11. ASSUME NEW c \in Caller, Decide(c) PROVE Last'
    BY <2>11 DEF Decide, callOnly, Begins, Returns, Moves
  <2>12. ASSUME NEW c \in Caller, ClearStop(c) PROVE Last'
    BY <2>12 DEF ClearStop, callOnly, Moves
  <2>13. ASSUME NEW c \in Caller, Spawn(c) PROVE Last'
    BY <2>13 DEF Spawn, callOnly, Returns, Moves
  <2>14. ASSUME NEW t \in Loop, LoopEnds(t) PROVE Last'
    BY <2>14 DEF LoopEnds
  <2>15. CASE CloseRestarts
    BY <2>15 DEF CloseRestarts, Comes
  <2>16. CASE SignalStop
    BY <2>16 DEF SignalStop, Comes
  <2>17. CASE AwaitRestarts
    BY <2>17 DEF AwaitRestarts, Comes
  <2>18. CASE AwaitGivesUp
    BY <2>18 DEF AwaitGivesUp, Comes, Uncancelled
  <2>19. CASE SignalAgain
    BY <2>19 DEF SignalAgain, Comes, Resignalled
  <2>20. CASE FinishStop \/ CloseStores \/ UNCHANGED vars
    BY <2>20 DEF FinishStop, CloseStores, Comes, MayClose, vars
  <2> QED
    BY <2>1, <2>2, <2>3, <2>4, <2>5, <2>6, <2>7, <2>8, <2>9, <2>10, <2>11,
       <2>12, <2>13, <2>14, <2>15, <2>16, <2>17, <2>18, <2>19, <2>20
    DEF Next, Saving, Committing, Calling, Ending
<1> QED
  BY <1>1, <1>2, PlainHolds, PTL DEF Spec

\* The second signal is the last word on the worker, whatever restarts were
\* queued when the service went down (shutdown), unless one was still running.
THEOREM TheStopIsTheLastWord == Spec => []LastWord
<1>1. Last => LastWord
  BY DEF Last, LastWord
<1> QED
  BY <1>1, LastHolds, PTL

\* What apply_settings and the strip rely on from one step to the next, while
\* no second request is inside either.
Seen == teardown = "down" \/ live = asked

Kept ==
    /\ \A g, h \in Handler : save[g] # "idle" /\ save[h] # "idle" => g = h
    /\ (\A h \in Handler : save[h] = "idle") => stored = asked /\ Seen
    /\ \A h \in Handler :
         /\ save[h] \in {"persist", "write"} => Seen
         /\ save[h] = "read" => stored = asked
         /\ save[h] = "update" => stored = asked /\ copy[h] = asked
         /\ save[h] = "queue" => stored = asked /\ Seen
         /\ save[h] \in {"strip", "stripWrite"} =>
              Seen /\ asked = [stored EXCEPT !["enabled"] = (goal[h] = "start")]

\* A save that was answered is stored and live (apply_settings, the wireless
\* strip), while no two are inside it at once.
THEOREM SavesAreKept == Spec => []NoSaveLost
<1> DEFINE Inv == crossed \/ Kept
<1>1. Init => Inv
  <2> SUFFICES ASSUME Init PROVE Kept
    OBVIOUS
  <2>1. \A h \in Handler : save[h] = "idle"
    BY DEF Init
  <2>2. stored = live /\ asked = live
    BY DEF Init
  <2> QED
    BY <2>1, <2>2 DEF Kept, Seen
<1>2. Plain /\ Truths /\ Last /\ Inv /\ [Next]_vars => Inv'
  <2> SUFFICES ASSUME Plain, Truths, Last, Inv, [Next]_vars, ~crossed'
               PROVE  Kept'
    OBVIOUS
  <2>0. ~crossed /\ Kept
    <3>1. crossed => crossed'
      BY DEF Next, Saving, Committing, Calling, Ending, vars, ghosts, callOnly,
         Merge, StripTurns, Crosses, TakeLock, SaveFails, Read, Update, Queue,
         RestartInline, Commit, StripCalls, Restart, SetStop, TakeThread, Joined,
         JoinTimesOut, Decide, ClearStop, Spawn, LoopEnds, CloseRestarts,
         SignalStop, AwaitRestarts, AwaitGivesUp, SignalAgain, FinishStop, CloseStores
    <3> QED
      BY <3>1
  <2> USE <2>0, HandlerAssumption
      DEF Plain, Kept, Seen, Busy, Caller, saveVars, poolVars, workerVars, callVars,
          downVars, ghosts
  <2>1. ASSUME NEW h \in Handler, Merge(h) PROVE Kept'
    <3>1. \A g \in Handler : save[g] = "idle"
      BY <2>1 DEF Merge, Request, Crosses
    <3>2. Seen'
      BY <2>1, <3>1 DEF Merge, Turn
    <3> QED
      BY <2>1, <3>1, <3>2 DEF Merge, Request, Step
  <2>2. ASSUME NEW h \in Handler, StripTurns(h) PROVE Kept'
    <3>1. \A g \in Handler : save[g] = "idle"
      BY <2>2 DEF StripTurns, Request, Crosses
    <3>2. PICK v \in BOOLEAN :
            /\ live' = [live EXCEPT !["enabled"] = v]
            /\ asked' = [asked EXCEPT !["enabled"] = v]
            /\ goal' = [goal EXCEPT ![h] = IF v THEN "start" ELSE "stop"]
      BY <2>2 DEF StripTurns, Turn
    <3>3. Seen'
      BY <2>2, <3>1, <3>2 DEF StripTurns
    <3>4. goal'[h] = IF v THEN "start" ELSE "stop"
      BY <3>2
    <3>5. v = (goal'[h] = "start")
      BY <3>4
    <3>6. asked' = [stored' EXCEPT !["enabled"] = (goal'[h] = "start")]
      BY <2>2, <3>1, <3>2, <3>5 DEF StripTurns
    <3> QED
      BY <2>2, <3>1, <3>3, <3>6 DEF StripTurns, Request, Step
  <2>3. ASSUME NEW h \in Handler, TakeLock(h) PROVE Kept'
    BY <2>3 DEF TakeLock, Step
  <2>4. ASSUME NEW h \in Handler, SaveFails(h) PROVE Kept'
    BY <2>4 DEF SaveFails, Step
  <2>5. ASSUME NEW h \in Handler, Read(h) PROVE Kept'
    BY <2>5 DEF Read, Step, Truths
  <2>6. ASSUME NEW h \in Handler, Update(h) PROVE Kept'
    BY <2>6 DEF Update, Step
  <2>7. ASSUME NEW h \in Handler, Queue(h) PROVE Kept'
    BY <2>7 DEF Queue, Step
  <2>8. ASSUME NEW h \in Handler, RestartInline(h) PROVE Kept'
    BY <2>8 DEF RestartInline, Step, Begins
  <2>9. ASSUME NEW h \in Handler, Commit(h) PROVE Kept'
    BY <2>9 DEF Commit, Step, Saved
  <2>10. ASSUME NEW h \in Handler, StripCalls(h) PROVE Kept'
    BY <2>10 DEF StripCalls, Step, Begins
  <2>11. CASE Restart
    BY <2>11 DEF Restart, Begins
  <2>12. ASSUME NEW c \in Caller, Calling(c) PROVE Kept'
    <3>1. /\ UNCHANGED <<live, stored, save, copy, asked, teardown>>
          /\ call[c] # "idle"
      BY <2>12 DEF Calling, SetStop, TakeThread, Joined, JoinTimesOut, Decide,
         ClearStop, Spawn, callOnly
    <3>2. \A h \in Handler : h # c => call'[h] = call[h] /\ goal'[h] = goal[h]
      <4>1. CASE Joined(c) \/ JoinTimesOut(c)
        <5>1. \/ goal[c] = "stop" /\ Returns(c)
              \/ goal[c] = "start" /\ Moves(c, "clear") /\ UNCHANGED <<pending, goal>>
              \/ goal[c] = "restart" /\ Moves(c, "decide") /\ UNCHANGED <<pending, goal>>
          BY <4>1, JoinGoesOn DEF Joined, JoinTimesOut
        <5> QED
          BY <5>1 DEF Moves, Returns
      <4>2. CASE SetStop(c) \/ TakeThread(c) \/ Decide(c) \/ ClearStop(c) \/ Spawn(c)
        BY <4>2 DEF SetStop, TakeThread, Decide, ClearStop, Spawn, Moves, Returns, Begins
      <4> QED
        BY <2>12, <4>1, <4>2 DEF Calling
    <3> QED
      BY <3>1, <3>2 DEF Last
  <2>13. CASE Ending \/ CloseRestarts
    BY <2>13 DEF Ending, CloseRestarts, SignalStop, AwaitRestarts, AwaitGivesUp,
       SignalAgain, FinishStop, CloseStores, Comes
  <2>14. ASSUME NEW t \in Loop, LoopEnds(t) PROVE Kept'
    BY <2>14 DEF LoopEnds
  <2>15. CASE UNCHANGED vars
    BY <2>15 DEF vars
  <2> QED
    BY <2>1, <2>2, <2>3, <2>4, <2>5, <2>6, <2>7, <2>8, <2>9, <2>10, <2>11,
       <2>12, <2>13, <2>14, <2>15
    DEF Next, Saving, Committing
<1>3. Inv => NoSaveLost
  BY DEF Kept, Seen, NoSaveLost
<1> QED
  BY <1>1, <1>2, <1>3, PlainHolds, TruthsHold, LastHolds, PTL DEF Spec

\* Who is in the worker's loop, at each step of a call.
Single ==
    /\ \A b, c \in Caller : Busy(b) /\ Busy(c) => b = c
    /\ \E t \in Loop : alive \subseteq {t}
    /\ teardown \in {"up", "signal", "await"} /\ (\A c \in Caller : ~Busy(c)) =>
         alive \subseteq {attached}
    /\ \A c \in Caller :
         /\ call[c] \in {"set", "take"} =>
              /\ alive \subseteq {attached}
              /\ teardown = "finish" => alive = {} \/ attached = waitsFor
         /\ call[c] = "join" => alive \subseteq {joining[c]}
         /\ call[c] \in {"decide", "clear", "spawn"} => alive = {}

\* No second thread enters the loop, though the restart pool goes on while the
\* shutdown joins what it found (Worker._join, finish_stop, shutdown).
THEOREM NoSecondLoop == Spec => []OneLoop
<1> DEFINE Inv == gaveUp \/ collided \/ Single
<1>1. Init => Inv
  <2> SUFFICES ASSUME Init PROVE Single
    OBVIOUS
  <2>1. \A c \in Caller : call[c] = "idle"
    BY DEF Init
  <2>2. alive = {1} /\ attached = 1
    BY DEF Init
  <2>3. 1 \in Loop
    BY BoundAssumption DEF Loop
  <2> QED
    BY <2>1, <2>2, <2>3 DEF Single, Busy
<1>2. Plain /\ Last /\ Inv /\ [Next]_vars => Inv'
  <2> SUFFICES ASSUME Plain, Last, Inv, [Next]_vars, ~gaveUp', ~collided'
               PROVE  Single'
    OBVIOUS
  <2>0. ~gaveUp /\ ~collided /\ Single
    <3>1. gaveUp => gaveUp'
      BY DEF Next, Saving, Committing, Calling, Ending, vars, ghosts, callOnly,
         Merge, StripTurns, TakeLock, SaveFails, Read, Update, Queue,
         RestartInline, Commit, StripCalls, Restart, SetStop, TakeThread, Joined,
         JoinTimesOut, Decide, ClearStop, Spawn, LoopEnds, CloseRestarts,
         SignalStop, AwaitRestarts, AwaitGivesUp, SignalAgain, FinishStop, CloseStores
    <3>2. collided => collided'
      BY DEF Next, Saving, Committing, Calling, Ending, vars, ghosts, callOnly,
         Merge, StripTurns, TakeLock, SaveFails, Read, Update, Queue,
         RestartInline, Commit, StripCalls, Collides, Restart, SetStop,
         TakeThread, Joined, JoinTimesOut, Decide, ClearStop, Spawn, LoopEnds,
         CloseRestarts, SignalStop, AwaitRestarts, AwaitGivesUp, SignalAgain,
         FinishStop, CloseStores
    <3> QED
      BY <3>1, <3>2
  <2> USE <2>0, HandlerAssumption
      DEF Plain, Last, Single, Busy, Caller, saveVars, poolVars, workerVars,
          callVars, downVars, ghosts
  <2>1. ASSUME NEW h \in Handler,
               Merge(h) \/ StripTurns(h) \/ TakeLock(h) \/ SaveFails(h) \/ Read(h)
               \/ Update(h) \/ Queue(h) \/ Commit(h)
        PROVE  Single'
    BY <2>1 DEF Merge, StripTurns, TakeLock, SaveFails, Read, Update, Queue, Commit
  <2>2. ASSUME NEW h \in Handler, RestartInline(h) PROVE Single'
    BY <2>2 DEF RestartInline, Collides
  <2>3. ASSUME NEW h \in Handler, StripCalls(h) PROVE Single'
    <3>1. teardown = "up" /\ \A c \in Caller : ~Busy(c)
      BY <2>3 DEF StripCalls, Collides
    <3> QED
      BY <2>3, <3>1 DEF StripCalls, Begins
  <2>4. CASE Restart
    <3>1. \A c \in Caller : ~Busy(c)
      BY <2>4 DEF Restart
    <3>2. teardown \in {"up", "signal", "await"}
      BY <2>4 DEF Restart
    <3> QED
      BY <2>4, <3>1, <3>2 DEF Restart, Begins
  <2>5. ASSUME NEW c \in Caller, SetStop(c) PROVE Single'
    BY <2>5 DEF SetStop, callOnly, Moves
  <2>6. ASSUME NEW c \in Caller, TakeThread(c) PROVE Single'
    BY <2>6 DEF TakeThread, callOnly, Moves, ThreadToJoin
  <2>7. ASSUME NEW c \in Caller, Joined(c) PROVE Single'
    <3>1. \/ goal[c] = "stop" /\ Returns(c)
          \/ goal[c] = "start" /\ Moves(c, "clear") /\ UNCHANGED <<pending, goal>>
          \/ goal[c] = "restart" /\ Moves(c, "decide") /\ UNCHANGED <<pending, goal>>
      BY <2>7, JoinGoesOn DEF Joined
    <3>2. alive = {} /\ alive' = {}
      BY <2>7 DEF Joined
    <3> QED
      BY <2>7, <3>1, <3>2 DEF Joined, callOnly, Moves, Returns
  <2>8. ASSUME NEW c \in Caller, JoinTimesOut(c) PROVE Single'
    BY <2>8 DEF JoinTimesOut
  <2>9. ASSUME NEW c \in Caller, Decide(c) PROVE Single'
    BY <2>9 DEF Decide, callOnly, Begins, Returns, Moves
  <2>10. ASSUME NEW c \in Caller, ClearStop(c) PROVE Single'
    BY <2>10 DEF ClearStop, callOnly, Moves
  <2>11. ASSUME NEW c \in Caller, Spawn(c) PROVE Single'
    <3>1. PICK t \in Loop : attached' = t /\ alive' = {t}
      BY <2>11 DEF Spawn
    <3>2. \A b \in Caller : call'[b] = "idle"
      BY <2>11 DEF Spawn, Returns, Moves
    <3> QED
      BY <3>1, <3>2
  <2>12. ASSUME NEW t \in Loop, LoopEnds(t) PROVE Single'
    BY <2>12 DEF LoopEnds
  <2>13. CASE CloseRestarts \/ SignalStop \/ AwaitRestarts \/ AwaitGivesUp \/ CloseStores
    BY <2>13 DEF CloseRestarts, SignalStop, AwaitRestarts, AwaitGivesUp,
       CloseStores, Comes
  <2>14. CASE SignalAgain
    BY <2>14 DEF SignalAgain, Comes
  <2>15. CASE FinishStop
    BY <2>15 DEF FinishStop, Comes
  <2>16. CASE UNCHANGED vars
    BY <2>16 DEF vars
  <2> QED
    BY <2>1, <2>2, <2>3, <2>4, <2>5, <2>6, <2>7, <2>8, <2>9, <2>10, <2>11,
       <2>12, <2>13, <2>14, <2>15, <2>16
    DEF Next, Saving, Committing, Calling, Ending
<1>3. Inv => OneLoop
  <2> SUFFICES ASSUME Single PROVE Cardinality(alive) <= 1
    BY DEF OneLoop
  <2>1. PICK t \in Loop : alive \subseteq {t}
    BY DEF Single
  <2>2. Cardinality({t}) = 1 /\ IsFiniteSet({t})
    BY FS_Singleton
  <2> QED
    BY <2>1, <2>2, FS_Subset
<1> QED
  BY <1>1, <1>2, <1>3, PlainHolds, LastHolds, PTL DEF Spec
=============================================================================
