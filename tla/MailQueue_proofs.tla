-------------------------- MODULE MailQueue_proofs --------------------------
(***************************************************************************)
(* Proofs about MailQueue for every number of sender threads and jobs,     *)
(* every set of submitters, every capacity and every bound on the stops.   *)
(***************************************************************************)
EXTENDS MailQueue, SequenceTheorems, TLAPS
-----------------------------------------------------------------------------
(* The inductive invariant, in parts.                                      *)

\* A submitter carries a job exactly while it is inside submit().
Carrying ==
    \A c \in Submitter :
        /\ call[c] \in {"idle", "start", "spawn", "put"}
        /\ carried[c] = None <=> call[c] = "idle"

\* A sender has a job exactly from its get to its _finish, and by then it knows
\* what came of it.
Holding ==
    \A t \in Thread :
        /\ held[t] = None <=> sender[t] \in {"ended", "top", "get"}
        /\ sender[t] \in {"tell open", "tell closed", "finish"}
               => outcome[t] # "none"

\* A job is in one place: carried by one submitter, at one place of the queue,
\* or held by one sender.
OnePlace ==
    /\ \A c, d \in Submitter : carried[c] = carried[d] /\ carried[c] # None => c = d
    /\ \A i, k \in 1..Len(queue) : queue[i] = queue[k] => i = k
    /\ \A t, u \in Thread : held[t] = held[u] /\ held[t] # None => t = u
    /\ \A c \in Submitter, i \in 1..Len(queue) : carried[c] # queue[i]
    /\ \A c \in Submitter, t \in Thread : carried[c] # held[t] \/ carried[c] = None
    /\ \A i \in 1..Len(queue), t \in Thread : queue[i] # held[t]

\* Every job there is was submitted, and one that is still being submitted, or
\* was not submitted yet, has no verdict.
Numbered ==
    /\ \A c \in Submitter : carried[c] <= submitted
    /\ \A i \in 1..Len(queue) : queue[i] <= submitted
    /\ \A t \in Thread : held[t] <= submitted
    /\ \A j \in Job : j > submitted => verdict[j] = "none"
    /\ \A c \in Submitter : carried[c] # None => verdict[carried[c]] = "none"

\* Until something stops the queue or two calls meet in start(), the attached
\* thread is the only one there can be, and whoever is about to spawn one is
\* alone and finds none.
OneAttached ==
    stops > 0 \/ crowded
    \/ /\ ~overlapped
       /\ Alive \subseteq {attached}
       /\ call["operator"] = "idle"
       /\ \A c \in Caller : call[c] = "spawn" => Alive = {}
       /\ \A b, c \in Caller : call[b] = "spawn" /\ call[c] = "spawn" => b = c

\* With one sender ever alive at a time, an attempt past the cooldown is the
\* one that sender is making, and a report on its way is its own.
OneAttempt ==
    overlapped
    \/ /\ \A t, u \in Alive : t = u
       /\ probes # 0 => /\ probes = 1 /\ breaker # "closed"
                        /\ \E t \in Thread : sender[t] = "send"
       /\ \A t \in Thread : sender[t] = "tell open" => breaker # "closed"
       /\ \A t \in Thread : sender[t] = "tell closed" => breaker = "closed"

\* Where the operator's call is, and what stop() took.
Operating ==
    /\ call["operator"] # "put"
    /\ call["operator"] \in {"idle", "start", "spawn", "take", "finish", "gone"}
           => target = None
    /\ target # None => attached # target
    /\ call["operator"] \in {"start", "spawn"} => then = "start"

\* Unless a stop() met a sender being started, a queue told to stop has no
\* attached sender left, nor anyone about to attach one.
StopIsClean ==
    (stopping /\ ~doomed /\ call["operator"] \notin {"finish", "gone"})
        => /\ attached \notin Alive
           /\ \A c \in Caller : call[c] # "spawn"

\* Once the queue was started again, its attached sender stays.
StartedAgain ==
    (then = "start" /\ ~doomed /\ call["operator"] = "idle") => attached \in Alive

-----------------------------------------------------------------------------
(* Type correctness.                                                       *)

\* The first job of the queue is a job, and the rest is a queue with more room.
LEMMA QueueType ==
    ASSUME TypeOK, queue # <<>>
    PROVE  /\ Head(queue) \in Job /\ Tail(queue) \in Seq(Job)
           /\ Len(Tail(queue)) = Len(queue) - 1
           /\ Len(queue) \in Nat
           /\ \A i \in 1..Len(Tail(queue)) : Tail(queue)[i] = queue[i + 1]
           /\ Len(queue) > 0 /\ Head(queue) = queue[1]
<1>1. queue \in Seq(Job)
  BY DEF TypeOK
<1>2. Len(queue) \in Nat \ {0}
  BY <1>1, EmptySeq
<1>3. Head(queue) = queue[1]
  BY <1>1, <1>2
<1>4. QED
  BY <1>1, <1>2, <1>3, HeadTailProperties

\* A job that is put is the last of the queue.
LEMMA PutType ==
    ASSUME TypeOK, NEW j \in Job
    PROVE  /\ Append(queue, j) \in Seq(Job)
           /\ Len(Append(queue, j)) = Len(queue) + 1
           /\ Len(queue) \in Nat
           /\ \A i \in 1..Len(queue) : Append(queue, j)[i] = queue[i]
           /\ Append(queue, j)[Len(queue) + 1] = j
<1>1. queue \in Seq(Job)
  BY DEF TypeOK
<1>2. QED
  BY <1>1, AppendProperties, LenProperties

\* The state of the calls, as the steps below need it.
LEMMA CallType ==
    ASSUME TypeOK
    PROVE  /\ Submitter \subseteq Caller /\ "operator" \in Caller
           /\ "operator" \notin Submitter
           /\ call \in [Caller -> {"idle", "start", "spawn", "put", "take",
                                   "set", "join", "finish", "gone"}]
           /\ carried \in [Submitter -> 0..Jobs]
           /\ submitted \in Nat
<1>1. Submitter \subseteq Caller /\ "operator" \in Caller /\ "operator" \notin Submitter
  BY SubmitterAssumption DEF Caller
<1>2. submitted \in 0..Jobs
  BY DEF TypeOK
<1>3. submitted \in Nat
  BY <1>2, JobAssumption
<1>4. QED
  BY <1>1, <1>3 DEF TypeOK

\* A submitter carries a job exactly while it is inside submit().
LEMMA CarryingStep ==
    ASSUME TypeOK, Carrying, [Next]_vars
    PROVE  Carrying'
<1> USE DEF Carrying, Goes, None
<1>1. ASSUME NEW c \in Submitter, Submit(c) PROVE Carrying'
  <2>1. submitted' \in Nat /\ submitted' # 0
    BY CallType, <1>1 DEF Submit
  <2>2. /\ carried' = [carried EXCEPT ![c] = submitted']
        /\ \/ call' = [call EXCEPT ![c] = "put"]
           \/ call' = [call EXCEPT ![c] = "start"]
    BY <1>1 DEF Submit
  <2>3. QED
    BY CallType, <2>1, <2>2
<1>2. ASSUME NEW c \in Submitter, Put(c) PROVE Carrying'
  BY CallType, <1>2 DEF Put
<1>3. ASSUME NEW c \in Caller, StartReturns(c) \/ StartClears(c) \/ Spawn(c)
      PROVE  Carrying'
  BY CallType, <1>3 DEF StartReturns, StartClears, Spawn, AfterStart, queueVars
<1>4. CASE Stop \/ BeginStop \/ Stopping
  BY CallType, <1>4 DEF Stop, BeginStop, Stopping, StopTakes, StopSets, StopReturns,
                    FinishStop, queueVars
<1>5. CASE \E t \in Thread : Run(t)
  BY <1>5 DEF Run, Top, Get, GetTimesOut, BreakerVerdict, SendFails, SendWorks,
              FireBreaker, Finish, queueVars, senderOnly, callVars
<1>6. CASE CooldownEnds \/ UNCHANGED vars
  BY <1>6 DEF CooldownEnds, queueVars, senderOnly, callVars, vars
<1>7. QED
  BY <1>1, <1>2, <1>3, <1>4, <1>5, <1>6 DEF Next

\* What a submitter carries to put_nowait is a job.
LEMMA CarriedType ==
    ASSUME TypeOK, Carrying, NEW c \in Submitter, call[c] = "put"
    PROVE  carried[c] \in Job
  BY CallType, JobAssumption DEF Carrying, None, Job

\* The ends of the ranges.
LEMMA Ranges ==
    /\ None \in 0..Jobs /\ None \in 0..Threads
    /\ 0 \in 0..Jobs /\ 0 \in 0..FailuresToOpen /\ 0 \in 0..Stops
    /\ None \notin Job /\ Job \subseteq 0..Jobs /\ Thread \subseteq 0..Threads
  BY JobAssumption, ThreadAssumption, BreakerAssumption, BoundAssumption
     DEF None, Job, Thread

\* Counting on stays in range.
LEMMA Counting ==
    ASSUME NEW top \in Nat, NEW n \in 0..top, n < top
    PROVE  n + 1 \in 0..top
  OBVIOUS

\* So does moving on in the queue.
LEMMA GetType ==
    ASSUME TypeOK, queue # <<>>
    PROVE  /\ Head(queue) \in 0..Jobs
           /\ Tail(queue) \in Seq(Job) /\ Len(Tail(queue)) <= Capacity
<1>1. Len(queue) <= Capacity
  BY DEF TypeOK
<1>2. Len(Tail(queue)) = Len(queue) - 1 /\ Len(queue) \in Nat
  BY QueueType
<1>3. Len(Tail(queue)) <= Capacity
  BY <1>1, <1>2, CapacityAssumption
<1>4. QED
  BY <1>3, QueueType, Ranges

\* The first state has its types.
LEMMA TypeInit == Init => TypeOK /\ Carrying
<1> SUFFICES ASSUME Init PROVE TypeOK /\ Carrying
  OBVIOUS
<1>1. queue \in Seq(Job) /\ Len(queue) <= Capacity
  BY EmptySeq, CapacityAssumption DEF Init
<1>2. TypeOK
  BY <1>1, Ranges DEF Init, TypeOK
<1>3. Carrying
  BY <1>2, CallType DEF Init, Carrying, None
<1>4. QED
  BY <1>2, <1>3

\* The steps of a sender thread keep the types.
LEMMA RunType ==
    ASSUME TypeOK, NEW t \in Thread, Run(t)
    PROVE  TypeOK'
<1> USE DEF queueVars, breakerVars, threadVars, senderOnly, callVars, ghosts, Moves
<1>1. CASE Top(t)
  BY <1>1 DEF Top, TypeOK
<1>2. CASE Get(t)
  <2>1. Head(queue) \in 0..Jobs /\ queue' \in Seq(Job) /\ Len(queue') <= Capacity
    BY <1>2, GetType DEF Get, Remaining
  <2>2. QED
    BY <1>2, <2>1 DEF Get, TypeOK
<1>3. CASE GetTimesOut(t)
  BY <1>3 DEF GetTimesOut, TypeOK
<1>4. CASE BreakerVerdict(t)
  <2>1. probes' \in Nat
    <3>1. probes \in Nat
      BY DEF TypeOK
    <3>2. probes' = probes + 1 \/ probes' = probes
      BY <1>4 DEF BreakerVerdict
    <3>3. QED
      BY <3>1, <3>2
  <2>2. sender' = [sender EXCEPT ![t] = "finish"] \/ sender' = [sender EXCEPT ![t] = "send"]
    BY <1>4 DEF BreakerVerdict, AfterVerdict
  <2>3. QED
    BY <1>4, <2>1, <2>2 DEF BreakerVerdict, TypeOK
<1>5. CASE SendFails(t)
  <2>1. failures' \in 0..FailuresToOpen
    <3>1. failures \in 0..FailuresToOpen /\ FailuresToOpen \in Nat
      BY BreakerAssumption DEF TypeOK
    <3>2. failures' = IF failures < FailuresToOpen THEN failures + 1 ELSE failures
      BY <1>5 DEF SendFails
    <3>3. QED
      BY <3>1, <3>2, Counting
  <2>2. /\ breaker' \in {"closed", "cooling", "ripe"} /\ probes' \in Nat
        /\ \/ sender' = [sender EXCEPT ![t] = "tell open"]
           \/ sender' = [sender EXCEPT ![t] = "finish"]
    BY <1>5 DEF SendFails, TypeOK
  <2>3. QED
    BY <1>5, <2>1, <2>2 DEF SendFails, TypeOK
<1>6. CASE SendWorks(t)
  BY <1>6, Ranges DEF SendWorks, ClosedBySuccess, TypeOK
<1>7. CASE FireBreaker(t)
  BY <1>7 DEF FireBreaker, TypeOK
<1>8. CASE Finish(t)
  BY <1>8, Ranges DEF Finish, TypeOK
<1>9. QED
  BY <1>1, <1>2, <1>3, <1>4, <1>5, <1>6, <1>7, <1>8 DEF Run

\* Every step keeps the types.
LEMMA TypeStep ==
    ASSUME TypeOK, Carrying, [Next]_vars
    PROVE  TypeOK'
<1> USE DEF queueVars, breakerVars, threadVars, senderOnly, callVars, ghosts, Goes
<1>1. ASSUME NEW c \in Submitter, Submit(c) PROVE TypeOK'
  <2>1. submitted' \in 0..Jobs
    <3>1. submitted \in 0..Jobs
      BY DEF TypeOK
    <3>2. submitted < Jobs /\ submitted' = submitted + 1
      BY <1>1 DEF Submit
    <3>3. QED
      BY <3>1, <3>2, Counting, JobAssumption
  <2>2. QED
    BY <1>1, <2>1 DEF Submit, TypeOK
<1>2. ASSUME NEW c \in Submitter, Put(c) PROVE TypeOK'
  <2>1. carried[c] \in Job
    BY <1>2, CarriedType DEF Put
  <2>2. queue' \in Seq(Job) /\ Len(queue') <= Capacity
    <3>1. CASE Room
      <4>1. Len(queue) < Capacity /\ queue' = Append(queue, carried[c])
        BY <1>2, <3>1 DEF Put, Room
      <4>2. QED
        BY <2>1, <4>1, PutType, CapacityAssumption
    <3>2. CASE ~Room
      BY <1>2, <3>2 DEF Put, TypeOK
    <3>3. QED
      BY <3>1, <3>2
  <2>3. verdict' \in [Job -> {"none", "refused", "sent", "failed"}]
    BY <1>2 DEF Put, TypeOK
  <2>4. QED
    BY <1>2, <2>2, <2>3, Ranges DEF Put, TypeOK
<1>3. ASSUME NEW c \in Caller, StartReturns(c) PROVE TypeOK'
  BY <1>3 DEF StartReturns, AfterStart, TypeOK
<1>4. ASSUME NEW c \in Caller, StartClears(c) PROVE TypeOK'
  BY <1>4 DEF StartClears, TypeOK
<1>5. ASSUME NEW c \in Caller, Spawn(c) PROVE TypeOK'
  <2>1. attached' \in 0..Threads
    BY <1>5, ThreadAssumption DEF Spawn, Thread
  <2>2. QED
    BY <1>5, <2>1 DEF Spawn, AfterStart, TypeOK
<1>6. CASE Stop \/ BeginStop
  <2>1. stops' \in 0..Stops
    <3>1. stops \in 0..Stops
      BY DEF TypeOK
    <3>2. stops < Stops /\ stops' = stops + 1
      BY <1>6 DEF Stop, BeginStop, CountStop
    <3>3. QED
      BY <3>1, <3>2, Counting, BoundAssumption
  <2>2. QED
    BY <1>6, <2>1 DEF Stop, BeginStop, TypeOK
<1>7. CASE Stopping
  <2>1. CASE StopTakes
    BY <2>1, Ranges DEF StopTakes, Forgotten, TypeOK
  <2>2. CASE StopSets
    BY <2>2 DEF StopSets, TypeOK
  <2>3. CASE StopReturns
    BY <2>3, Ranges DEF StopReturns, TypeOK
  <2>4. CASE FinishStop
    BY <2>4, Ranges DEF FinishStop, TypeOK
  <2>5. QED
    BY <1>7, <2>1, <2>2, <2>3, <2>4 DEF Stopping
<1>8. CASE \E t \in Thread : Run(t)
  BY <1>8, RunType
<1>9. CASE CooldownEnds \/ UNCHANGED vars
  BY <1>9 DEF CooldownEnds, vars, TypeOK
<1>10. QED
  BY <1>1, <1>2, <1>3, <1>4, <1>5, <1>6, <1>7, <1>8, <1>9 DEF Next

\* Whatever the calls, the sends and the stops: every variable keeps its type.
THEOREM TypeCorrect == Spec => [](TypeOK /\ Carrying)
<1>1. TypeOK /\ Carrying /\ [Next]_vars => (TypeOK /\ Carrying)'
  BY TypeStep, CarryingStep
<1>2. QED
  BY TypeInit, <1>1, PTL DEF Spec

-----------------------------------------------------------------------------
(* Where a job is, and the promise of the queue.                           *)

\* What the steps below need of the types.
LEMMA PlaceType ==
    ASSUME TypeOK
    PROVE  /\ sender \in [Thread -> {"ended", "top", "get", "verdict", "send",
                                     "tell open", "tell closed", "finish"}]
           /\ held \in [Thread -> 0..Jobs]
           /\ outcome \in [Thread -> {"none", "sent", "failed"}]
  BY DEF TypeOK

\* A sender is sent for with nothing in hand, and no step of a call or of the
\* clock touches one that runs.
LEMMA HoldingStep ==
    ASSUME TypeOK, Holding, [Next]_vars
    PROVE  Holding'
<1> USE PlaceType DEF Holding, Moves
<1>1. CASE \E c \in Submitter : Submit(c) \/ Put(c)
  BY <1>1 DEF Submit, Put, threadVars
<1>2. CASE \E c \in Caller : StartReturns(c) \/ StartClears(c)
  BY <1>2 DEF StartReturns, StartClears, threadVars
<1>3. ASSUME NEW c \in Caller, Spawn(c) PROVE Holding'
  BY <1>3 DEF Spawn, Alive
<1>4. CASE Stop \/ BeginStop \/ Stopping
  BY <1>4 DEF Stop, BeginStop, Stopping, StopTakes, StopSets, StopReturns,
              FinishStop, threadVars
<1>5. ASSUME NEW t \in Thread, Run(t) PROVE Holding'
  <2>1. CASE Top(t)
    BY <2>1 DEF Top
  <2>2. CASE Get(t)
    <3>1. Head(queue) # None
      BY <2>2, QueueType, Ranges DEF Get
    <3>2. QED
      BY <2>2, <3>1 DEF Get
  <2>3. CASE GetTimesOut(t)
    BY <2>3 DEF GetTimesOut
  <2>4. CASE BreakerVerdict(t)
    BY <2>4 DEF BreakerVerdict, AfterVerdict
  <2>5. CASE SendFails(t)
    BY <2>5 DEF SendFails
  <2>6. CASE SendWorks(t)
    BY <2>6 DEF SendWorks
  <2>7. CASE FireBreaker(t)
    BY <2>7 DEF FireBreaker
  <2>8. CASE Finish(t)
    BY <2>8 DEF Finish, None
  <2>9. QED
    BY <1>5, <2>1, <2>2, <2>3, <2>4, <2>5, <2>6, <2>7, <2>8 DEF Run
<1>6. CASE CooldownEnds \/ UNCHANGED vars
  BY <1>6 DEF CooldownEnds, vars, threadVars
<1>7. QED
  BY <1>1, <1>2, <1>3, <1>4, <1>5, <1>6 DEF Next

Places == OnePlace /\ Numbered

\* The steps that move no job.
LEMMA PlacesUntouched ==
    ASSUME Places, UNCHANGED <<queue, submitted, carried, verdict, held>>
    PROVE  Places'
  BY DEF Places, OnePlace, Numbered

\* Jobs are numbers, wherever they are.
LEMMA Numbers ==
    ASSUME TypeOK
    PROVE  /\ \A d \in Submitter : carried[d] \in Int
           /\ \A i \in 1..Len(queue) : queue[i] \in Job
           /\ \A i \in 1..Len(queue) : queue[i] \in Int
           /\ \A t \in Thread : held[t] \in Int
           /\ \A j \in Job : j \in Int
<1>1. \A j \in Job : j \in Int
  BY DEF Job
<1>2. \A i \in 1..Len(queue) : queue[i] \in Job
  BY ElementOfSeq DEF TypeOK
<1>3. carried \in [Submitter -> 0..Jobs] /\ held \in [Thread -> 0..Jobs]
  BY DEF TypeOK
<1>4. QED
  BY <1>1, <1>2, <1>3, JobAssumption

\* A number just given out is nobody's yet.
LEMMA PlacesSubmit ==
    ASSUME TypeOK, Places, NEW c \in Submitter, Submit(c)
    PROVE  Places'
<1>1. /\ submitted \in Nat /\ submitted' = submitted + 1
      /\ submitted' \in Job /\ submitted' # None
  BY CallType, JobAssumption DEF Submit, Job, None
<1>2. /\ carried \in [Submitter -> 0..Jobs]
      /\ carried' = [carried EXCEPT ![c] = submitted']
      /\ UNCHANGED <<queue, verdict, held>>
  BY CallType DEF Submit, threadVars
<1>3. /\ \A d \in Submitter : carried[d] # submitted'
      /\ \A i \in 1..Len(queue) : queue[i] # submitted'
      /\ \A t \in Thread : held[t] # submitted'
      /\ verdict[submitted'] = "none"
  BY <1>1, Numbers DEF Places, Numbered
<1>4. OnePlace'
  BY <1>1, <1>2, <1>3 DEF Places, OnePlace
<1>5. Numbered'
  <2>2. /\ \A i \in 1..Len(queue) : queue[i] <= submitted'
        /\ \A t \in Thread : held[t] <= submitted'
        /\ \A d \in Submitter : carried[d] <= submitted'
        /\ \A j \in Job : j > submitted' => verdict[j] = "none"
    BY <1>1, Numbers DEF Places, Numbered
  <2>3. \A d \in Submitter : carried'[d] <= submitted'
    BY <1>1, <1>2, <2>2
  <2>4. \A d \in Submitter : carried'[d] # None => verdict[carried'[d]] = "none"
    BY <1>2, <1>3 DEF Places, Numbered
  <2>5. QED
    BY <1>2, <2>2, <2>3, <2>4 DEF Numbered
<1>6. QED
  BY <1>4, <1>5 DEF Places

\* A job that is put was nowhere in the queue, and is gone from its submitter.
LEMMA PlacesPut ==
    ASSUME TypeOK, Carrying, Places, NEW c \in Submitter, Put(c)
    PROVE  Places'
<1> DEFINE j == carried[c]
<1>1. j \in Job /\ j # None /\ j \in Int
  BY CarriedType, Ranges DEF Put, Job
<1>2. /\ carried \in [Submitter -> 0..Jobs]
      /\ carried' = [carried EXCEPT ![c] = None]
      /\ UNCHANGED <<submitted, held>>
  BY CallType DEF Put, threadVars
<1>3. /\ \A d \in Submitter : carried[d] = j => d = c
      /\ \A i \in 1..Len(queue) : queue[i] # j
      /\ \A t \in Thread : held[t] # j
      /\ j <= submitted
  BY <1>1 DEF Places, OnePlace, Numbered
<1>4. \A d \in Submitter : carried'[d] = None \/ (carried'[d] = carried[d] /\ d # c)
  BY <1>2
<1>5. \A d \in Submitter : carried'[d] <= submitted
  <2>1. None <= submitted
    BY CallType DEF None
  <2>2. QED
    BY <1>4, <2>1 DEF Places, Numbered
<1>6. CASE Room
  <2>1. queue' = Append(queue, j) /\ verdict' = verdict
    BY <1>6 DEF Put
  <2>2. /\ Len(queue') = Len(queue) + 1 /\ Len(queue) \in Nat
        /\ \A i \in 1..Len(queue) : queue'[i] = queue[i]
        /\ queue'[Len(queue) + 1] = j
    BY <1>1, <2>1, PutType
  <2>3. \A i \in 1..Len(queue') : (i \in 1..Len(queue) /\ queue'[i] = queue[i])
                                     \/ (i = Len(queue) + 1 /\ queue'[i] = j)
    BY <2>2
  <2>4. OnePlace'
    <3>1. \A i, k \in 1..Len(queue') : queue'[i] = queue'[k] => i = k
      BY <1>3, <2>3 DEF Places, OnePlace
    <3>2. \A d \in Submitter, i \in 1..Len(queue') : carried'[d] # queue'[i]
      <4>1. \A i \in 1..Len(queue') : queue'[i] # None
        <5>1. \A i \in 1..Len(queue) : queue[i] \in Job
          BY ElementOfSeq DEF TypeOK
        <5>2. QED
          BY <1>1, <2>3, <5>1, Ranges
      <4>2. QED
        BY <1>3, <1>4, <2>3, <4>1 DEF Places, OnePlace
    <3>3. \A i \in 1..Len(queue'), t \in Thread : queue'[i] # held[t]
      BY <1>3, <2>3 DEF Places, OnePlace
    <3>4. QED
      BY <1>2, <1>4, <3>1, <3>2, <3>3 DEF Places, OnePlace
  <2>5. Numbered'
    BY <1>2, <1>3, <1>4, <1>5, <2>1, <2>3 DEF Places, Numbered
  <2>6. QED
    BY <2>4, <2>5 DEF Places
<1>7. CASE ~Room
  <2>1. queue' = queue /\ verdict' = [verdict EXCEPT ![j] = "refused"]
    BY <1>7 DEF Put
  <2>2. OnePlace'
    <3>1. \A i \in 1..Len(queue) : queue[i] # None
      BY ElementOfSeq, Ranges, ZenonT(40) DEF TypeOK
    <3>2. QED
      BY <1>2, <1>4, <2>1, <3>1 DEF Places, OnePlace
  <2>3. verdict \in [Job -> {"none", "refused", "sent", "failed"}]
    BY DEF TypeOK
  <2>4. \A k \in Job : k > submitted => verdict'[k] = "none"
    <3>1. \A k \in Job : k > submitted => k # j
      BY <1>1, <1>3, CallType
    <3>2. QED
      BY <2>1, <2>3, <3>1 DEF Places, Numbered
  <2>5. \A d \in Submitter : carried'[d] # None => verdict'[carried'[d]] = "none"
    <3>1. ASSUME NEW d \in Submitter, carried'[d] # None
          PROVE  carried'[d] = carried[d] /\ carried[d] # j /\ carried[d] \in Job
      BY <1>2, <1>3, <1>4, <3>1, JobAssumption DEF Job, None
    <3>2. QED
      BY <2>1, <2>3, <3>1 DEF Places, Numbered
  <2>6. Numbered'
    BY <1>2, <1>5, <2>1, <2>4, <2>5 DEF Places, Numbered
  <2>7. QED
    BY <2>2, <2>6 DEF Places
<1>8. QED
  BY <1>6, <1>7

\* The job a sender takes leaves the queue.
LEMMA PlacesGet ==
    ASSUME TypeOK, Holding, Places, NEW t \in Thread, Get(t)
    PROVE  Places'
<1>1. queue # <<>> /\ queue' = Tail(queue) /\ held[t] = None
  BY DEF Get, Remaining, Holding
<1>2. /\ held' = [held EXCEPT ![t] = queue[1]]
      /\ Len(queue) \in Nat /\ 1 \in 1..Len(queue)
      /\ Len(queue') = Len(queue) - 1
      /\ \A i \in 1..Len(queue') : queue'[i] = queue[i + 1]
      /\ queue[1] # None
  <2>1. Head(queue) # None
    BY <1>1, QueueType, Ranges
  <2>2. QED
    BY <1>1, <2>1, QueueType DEF Get
<1>3. \A i \in 1..Len(queue') : i \in Int /\ i + 1 \in 1..Len(queue) /\ i + 1 # 1
  BY <1>2
<1>4. held \in [Thread -> 0..Jobs] /\ UNCHANGED <<submitted, carried, verdict>>
  BY PlaceType DEF Get
<1>5. \A u \in Thread : held'[u] = IF u = t THEN queue[1] ELSE held[u]
  BY <1>2, <1>4
<1>6. OnePlace'
  <2>1. \A i, k \in 1..Len(queue') : queue'[i] = queue'[k] => i = k
    <3>1. \A i, k \in 1..Len(queue') : queue'[i] = queue'[k] => i + 1 = k + 1
      BY <1>2, <1>3 DEF Places, OnePlace
    <3>2. QED
      BY <1>3, <3>1
  <2>2. \A v, u \in Thread : held'[v] = held'[u] /\ held'[v] # None => v = u
    BY <1>2, <1>5 DEF Places, OnePlace
  <2>3. \A c \in Submitter, i \in 1..Len(queue') : carried[c] # queue'[i]
    BY <1>2, <1>3 DEF Places, OnePlace
  <2>4. \A c \in Submitter, u \in Thread : carried[c] # held'[u] \/ carried[c] = None
    BY <1>2, <1>5 DEF Places, OnePlace
  <2>5. \A i \in 1..Len(queue'), u \in Thread : queue'[i] # held'[u]
    BY <1>2, <1>3, <1>5 DEF Places, OnePlace
  <2>6. QED
    BY <1>4, <2>1, <2>2, <2>3, <2>4, <2>5 DEF Places, OnePlace
<1>7. Numbered'
  BY <1>2, <1>3, <1>4, <1>5 DEF Places, Numbered
<1>8. QED
  BY <1>6, <1>7 DEF Places

\* The job that gets its verdict leaves its sender, and nobody carries it.
LEMMA PlacesFinish ==
    ASSUME TypeOK, Holding, Places, NEW t \in Thread, Finish(t)
    PROVE  Places'
<1>1. held[t] # None /\ held[t] \in Job
  <2>1. held[t] # None /\ held[t] \in 0..Jobs
    BY PlaceType DEF Finish, Holding
  <2>2. QED
    BY <2>1, JobAssumption DEF Job, None
<1>2. /\ held \in [Thread -> 0..Jobs]
      /\ held' = [held EXCEPT ![t] = None]
      /\ verdict \in [Job -> {"none", "refused", "sent", "failed"}]
      /\ verdict' = [verdict EXCEPT ![held[t]] = outcome[t]]
      /\ UNCHANGED <<queue, submitted, carried>>
  BY DEF Finish, TypeOK
<1>3. \A u \in Thread : held'[u] = None \/ (held'[u] = held[u] /\ u # t)
  BY <1>2
<1>4. OnePlace'
  <2>1. \A i \in 1..Len(queue) : queue[i] # None
    BY Numbers, Ranges
  <2>2. QED
    BY <1>2, <1>3, <2>1 DEF Places, OnePlace
<1>5. Numbered'
  <2>1. None <= submitted
    BY CallType DEF None
  <2>2. \A u \in Thread : held'[u] <= submitted
    BY <1>3, <2>1 DEF Places, Numbered
  <2>3. \A j \in Job : j > submitted => verdict'[j] = "none"
    <3>1. \A j \in Job : j > submitted => j # held[t]
      BY <1>1, Numbers, CallType DEF Places, Numbered
    <3>2. QED
      BY <1>2, <3>1 DEF Places, Numbered
  <2>4. \A c \in Submitter : carried[c] # None => verdict'[carried[c]] = "none"
    <3>1. \A c \in Submitter : carried[c] # None => carried[c] # held[t]
      BY DEF Places, OnePlace
    <3>2. \A c \in Submitter : carried[c] # None => carried[c] \in Job
      BY CallType, JobAssumption DEF Job, None
    <3>3. QED
      BY <1>2, <3>1, <3>2 DEF Places, Numbered
  <2>5. QED
    BY <1>2, <2>2, <2>3, <2>4 DEF Places, Numbered
<1>6. QED
  BY <1>4, <1>5 DEF Places

\* Every other step moves no job.
LEMMA PlacesStep ==
    ASSUME TypeOK, Carrying, Holding, Places, [Next]_vars
    PROVE  Places'
<1>1. ASSUME NEW c \in Submitter, Submit(c) \/ Put(c) PROVE Places'
  BY <1>1, PlacesSubmit, PlacesPut
<1>2. CASE \E c \in Caller : StartReturns(c) \/ StartClears(c) \/ Spawn(c)
  BY <1>2, PlacesUntouched
     DEF StartReturns, StartClears, Spawn, queueVars, threadVars
<1>3. CASE Stop \/ BeginStop \/ Stopping
  BY <1>3, PlacesUntouched
     DEF Stop, BeginStop, Stopping, StopTakes, StopSets, StopReturns, FinishStop,
         queueVars, threadVars
<1>4. ASSUME NEW t \in Thread, Run(t) PROVE Places'
  <2>1. CASE Get(t) \/ Finish(t)
    BY <2>1, PlacesGet, PlacesFinish
  <2>2. CASE \/ Top(t) \/ GetTimesOut(t) \/ BreakerVerdict(t)
             \/ SendFails(t) \/ SendWorks(t) \/ FireBreaker(t)
    BY <2>2, PlacesUntouched
       DEF Top, GetTimesOut, BreakerVerdict, SendFails, SendWorks, FireBreaker, queueVars
  <2>3. QED
    BY <1>4, <2>1, <2>2 DEF Run
<1>5. CASE CooldownEnds \/ UNCHANGED vars
  BY <1>5, PlacesUntouched DEF CooldownEnds, vars, queueVars, threadVars
<1>6. QED
  BY <1>1, <1>2, <1>3, <1>4, <1>5 DEF Next

-----------------------------------------------------------------------------
(* The queue implements its promise.                                       *)

\* The jobs the senders are busy with.
Underway == {held[t] : t \in Thread} \ {None}

\* The first state is the Courier's.
LEMMA PromiseInit == Init => Courier!Init
  BY DEF Init, Courier!Init

\* Nothing that moves no job and reaches no verdict shows.
LEMMA PromiseUntouched ==
    ASSUME UNCHANGED <<queue, verdict, held>>
    PROVE  UNCHANGED Courier!vars
  BY DEF Courier!vars

\* A job is new to the queue for as long as its submitter carries it.
LEMMA CarriedIsNew ==
    ASSUME TypeOK, Places, NEW c \in Submitter, carried[c] # None
    PROVE  Courier!New(carried[c])
  BY DEF Courier!New, Courier!Known, Places, OnePlace, Numbered

\* put_nowait accepts or refuses: what is queued was not known before.
LEMMA PromisePut ==
    ASSUME TypeOK, Carrying, Places, NEW c \in Submitter, Put(c)
    PROVE  Courier!Next
<1>1. carried[c] \in Job /\ carried[c] # None
  BY CarriedType, Ranges DEF Put
<1>2. Courier!New(carried[c]) /\ held' = held
  BY <1>1, CarriedIsNew DEF Put, threadVars
<1>3. CASE Room
  BY <1>1, <1>2, <1>3 DEF Put, Room, Courier!Next, Courier!Accept
<1>4. CASE ~Room
  <2>1. Len(queue) = Capacity
    <3>1. Len(queue) \in Nat /\ Len(queue) <= Capacity
      BY LenProperties DEF TypeOK
    <3>2. ~(Len(queue) < Capacity)
      BY <1>4 DEF Room
    <3>3. QED
      BY <3>1, <3>2, CapacityAssumption
  <2>2. QED
    BY <1>1, <1>2, <1>4, <2>1 DEF Put, Courier!Next, Courier!Refuse
<1>5. QED
  BY <1>3, <1>4

\* A sender that takes a job begins it.
LEMMA PromiseGet ==
    ASSUME TypeOK, Holding, NEW t \in Thread, Get(t)
    PROVE  Courier!Next
<1>1. /\ queue # <<>> /\ queue' = Tail(queue) /\ verdict' = verdict
      /\ held[t] = None /\ held' = [held EXCEPT ![t] = Head(queue)]
  BY DEF Get, Remaining, Holding
<1>2. Head(queue) # None /\ held \in [Thread -> 0..Jobs]
  BY <1>1, QueueType, Ranges, PlaceType
<1>3. Underway' = Underway \cup {Head(queue)}
  <2>1. ASSUME NEW j, j \in Underway' PROVE j \in Underway \cup {Head(queue)}
    BY <1>1, <1>2, <2>1 DEF Underway
  <2>2. Head(queue) \in Underway'
    <3>1. held'[t] = Head(queue)
      BY <1>1, <1>2
    <3>2. QED
      BY <1>2, <3>1 DEF Underway
  <2>3. ASSUME NEW j, j \in Underway PROVE j \in Underway'
    <3>1. PICK u \in Thread : held[u] = j /\ j # None
      BY <2>3 DEF Underway
    <3>2. u # t /\ held'[u] = j
      BY <1>1, <1>2, <3>1
    <3>3. QED
      BY <3>1, <3>2 DEF Underway
  <2>4. QED
    BY <2>1, <2>2, <2>3
<1>4. QED
  BY <1>1, <1>3 DEF Underway, Courier!Next, Courier!Begin

\* on_result ends the job, which no other sender has in hand.
LEMMA PromiseFinish ==
    ASSUME TypeOK, Holding, Places, NEW t \in Thread, Finish(t)
    PROVE  Courier!Next
<1> DEFINE j == held[t]
<1>1. /\ held \in [Thread -> 0..Jobs] /\ held' = [held EXCEPT ![t] = None]
      /\ verdict' = [verdict EXCEPT ![j] = outcome[t]] /\ queue' = queue
  BY PlaceType DEF Finish
<1>2. j # None /\ outcome[t] \in {"sent", "failed"}
  BY PlaceType DEF Finish, Holding
<1>3. j \in Job
  BY <1>1, <1>2, JobAssumption DEF Job, None
<1>4. j \in Underway
  BY <1>2 DEF Underway
<1>5. Underway' = Underway \ {j}
  <2>1. ASSUME NEW k, k \in Underway' PROVE k \in Underway \ {j}
    <3>1. PICK u \in Thread : held'[u] = k /\ k # None
      BY <2>1 DEF Underway
    <3>2. u # t /\ held[u] = k
      BY <1>1, <3>1
    <3>3. k # j
      BY <3>1, <3>2 DEF Places, OnePlace
    <3>4. QED
      BY <3>1, <3>2, <3>3 DEF Underway
  <2>2. ASSUME NEW k, k \in Underway \ {j} PROVE k \in Underway'
    <3>1. PICK u \in Thread : held[u] = k /\ k # None
      BY <2>2 DEF Underway
    <3>2. u # t /\ held'[u] = k
      BY <1>1, <2>2, <3>1
    <3>3. QED
      BY <3>1, <3>2 DEF Underway
  <2>3. QED
    BY <2>1, <2>2
<1>6. QED
  BY <1>1, <1>2, <1>3, <1>4, <1>5 DEF Underway, Courier!Next, Courier!End

\* Every step is a step of the Courier, or leaves what it sees as it is.
LEMMA PromiseStep ==
    ASSUME TypeOK, Carrying, Holding, Places, [Next]_vars
    PROVE  [Courier!Next]_Courier!vars
<1>1. CASE \E c \in Submitter : Submit(c)
  BY <1>1, PromiseUntouched DEF Submit, threadVars
<1>2. CASE \E c \in Submitter : Put(c)
  BY <1>2, PromisePut
<1>3. CASE \E c \in Caller : StartReturns(c) \/ StartClears(c) \/ Spawn(c)
  BY <1>3, PromiseUntouched
     DEF StartReturns, StartClears, Spawn, queueVars, threadVars
<1>4. CASE Stop \/ BeginStop \/ Stopping
  BY <1>4, PromiseUntouched
     DEF Stop, BeginStop, Stopping, StopTakes, StopSets, StopReturns, FinishStop,
         queueVars, threadVars
<1>5. ASSUME NEW t \in Thread, Run(t) PROVE [Courier!Next]_Courier!vars
  <2>1. CASE Get(t) \/ Finish(t)
    BY <2>1, PromiseGet, PromiseFinish
  <2>2. CASE \/ Top(t) \/ GetTimesOut(t) \/ BreakerVerdict(t)
             \/ SendFails(t) \/ SendWorks(t) \/ FireBreaker(t)
    BY <2>2, PromiseUntouched
       DEF Top, GetTimesOut, BreakerVerdict, SendFails, SendWorks, FireBreaker, queueVars
  <2>3. QED
    BY <1>5, <2>1, <2>2 DEF Run
<1>6. CASE CooldownEnds \/ UNCHANGED vars
  BY <1>6, PromiseUntouched DEF CooldownEnds, vars, queueVars, threadVars
<1>7. QED
  BY <1>1, <1>2, <1>3, <1>4, <1>5, <1>6 DEF Next

\* Nothing is anywhere in the first state.
LEMMA PlacesInit == Init => Holding /\ Places
  BY EmptySeq DEF Init, Holding, Places, OnePlace, Numbered, None

\* A job is in one place at a time, and has no verdict before it is accepted or
\* refused: nobody delivers it twice, whatever stops and restarts overlap.
THEOREM JobsAreInOnePlace == Spec => [](Holding /\ Places)
<1>1. TypeOK /\ Carrying /\ Holding /\ Places /\ [Next]_vars
        => (Holding /\ Places)'
  BY HoldingStep, PlacesStep
<1>2. QED
  BY TypeCorrect, PlacesInit, <1>1, PTL DEF Spec

\* MailQueue implements what Courier promises: every job is refused at once or
\* begun in order, by one sender, and gets one verdict.
THEOREM Refinement == Spec => Promise
<1>1. TypeOK /\ Carrying /\ Holding /\ Places /\ [Next]_vars
        => [Courier!Next]_Courier!vars
  BY PromiseStep
<1>2. QED
  BY TypeCorrect, JobsAreInOnePlace, PromiseInit, <1>1, PTL
     DEF Spec, Promise, Courier!Spec

-----------------------------------------------------------------------------
(* How many senders there are.                                             *)

\* What the steps below need of the types.
LEMMA LifeType ==
    ASSUME TypeOK
    PROVE  /\ "operator" \in Caller /\ Submitter \subseteq Caller
           /\ "operator" \notin Submitter
           /\ call \in [Caller -> {"idle", "start", "spawn", "put", "take",
                                   "set", "join", "finish", "gone"}]
           /\ sender \in [Thread -> {"ended", "top", "get", "verdict", "send",
                                     "tell open", "tell closed", "finish"}]
           /\ stops \in Nat
           /\ None \notin Thread
<1>1. stops \in Nat
  <2>1. stops \in 0..Stops
    BY DEF TypeOK
  <2>2. QED
    BY <2>1, BoundAssumption
<1>2. None \notin Thread
  BY DEF None, Thread
<1>3. QED
  BY <1>1, <1>2, CallType, PlaceType

\* Arithmetic, kept from the steps that need it.
LEMMA Positive == ASSUME NEW n \in Nat PROVE n + 1 > 0
  OBVIOUS

\* A step of a sender thread leaves it alive or ends it, and touches no other.
LEMMA RunKeepsOthers ==
    ASSUME TypeOK, NEW t \in Thread, Run(t)
    PROVE  /\ \A u \in Thread \ {t} : sender'[u] = sender[u]
           /\ Alive' \subseteq Alive /\ t \in Alive
           /\ t \notin Alive' => stopping
           /\ UNCHANGED <<attached, stopping, callVars, stops, ghosts>>
<1> USE LifeType DEF Alive, Moves, senderOnly
<1>1. CASE Top(t)
  BY <1>1 DEF Top
<1>2. CASE Get(t) \/ GetTimesOut(t)
  BY <1>2 DEF Get, GetTimesOut
<1>3. CASE BreakerVerdict(t)
  BY <1>3 DEF BreakerVerdict, AfterVerdict
<1>4. CASE SendFails(t)
  BY <1>4 DEF SendFails
<1>5. CASE SendWorks(t)
  BY <1>5 DEF SendWorks
<1>6. CASE FireBreaker(t) \/ Finish(t)
  BY <1>6 DEF FireBreaker, Finish
<1>7. QED
  BY <1>1, <1>2, <1>3, <1>4, <1>5, <1>6 DEF Run

\* A spawn adds one thread, which no stop() waits for.
LEMMA SpawnAdds ==
    ASSUME TypeOK, NEW c \in Caller, Spawn(c)
    PROVE  /\ attached' \in Thread \ (Alive \cup {target})
           /\ Alive' = Alive \cup {attached'}
           /\ sender' = [sender EXCEPT ![attached'] = "top"]
  BY LifeType DEF Spawn, Alive

\* The first thread that start() spawns is the only one until a stop() forgets
\* it or two calls are in start() at once.
LEMMA OneAttachedStep ==
    ASSUME TypeOK, Carrying, OneAttached, [Next]_vars
    PROVE  OneAttached'
<1> USE LifeType DEF Goes
<1>1. ASSUME NEW c \in Submitter, Submit(c) \/ Put(c) PROVE OneAttached'
  BY <1>1, ZenonT(40) DEF Submit, Put, OneAttached, Alive, threadVars, ghosts
<1>2. ASSUME NEW c \in Caller, StartReturns(c) PROVE OneAttached'
  BY <1>2 DEF StartReturns, AfterStart, OneAttached, Alive, threadVars, ghosts
<1>3. ASSUME NEW c \in Caller, StartClears(c) PROVE OneAttached'
  <2>1. /\ attached \notin Alive /\ UNCHANGED <<attached, sender, stops, overlapped>>
        /\ call' = [call EXCEPT ![c] = "spawn"] /\ call[c] = "start"
        /\ crowded' = (crowded \/ \E b \in Caller \ {c} : call[b] = "spawn")
    BY <1>3 DEF StartClears, Running, threadVars
  <2>2. Alive' = Alive
    BY <2>1 DEF Alive
  <2>3. CASE stops > 0 \/ crowded'
    BY <2>1, <2>3 DEF OneAttached
  <2>4. CASE ~(stops > 0 \/ crowded')
    <3>1. /\ ~overlapped /\ Alive = {} /\ call["operator"] = "idle"
          /\ \A b \in Caller \ {c} : call[b] # "spawn"
      BY <2>1, <2>4 DEF OneAttached
    <3>2. call'["operator"] = "idle" /\ \A b \in Caller \ {c} : call'[b] # "spawn"
      BY <2>1, <3>1
    <3>3. QED
      BY <2>1, <2>2, <3>1, <3>2 DEF OneAttached
  <2>5. QED
    BY <2>3, <2>4
<1>4. ASSUME NEW c \in Caller, Spawn(c) PROVE OneAttached'
  <2>1. /\ call[c] = "spawn" /\ UNCHANGED <<stops, crowded>>
        /\ call' = [call EXCEPT ![c] = AfterStart(c)]
        /\ overlapped' = (overlapped \/ Alive # {})
    BY <1>4 DEF Spawn
  <2>2. AfterStart(c) \in {"idle", "put"} /\ (c = "operator" => AfterStart(c) = "idle")
    BY DEF AfterStart
  <2>3. QED
    BY <1>4, <2>1, <2>2, SpawnAdds DEF OneAttached
<1>5. CASE Stop \/ BeginStop
  <2>1. stops' = stops + 1 /\ stops \in Nat
    BY <1>5, LifeType DEF Stop, BeginStop, CountStop
  <2>2. stops' > 0
    BY <2>1, Positive
  <2>3. QED
    BY <2>2 DEF OneAttached
<1>6. CASE Stopping
  BY <1>6 DEF Stopping, StopTakes, StopSets, StopReturns, FinishStop, OneAttached, ghosts
<1>7. ASSUME NEW t \in Thread, Run(t) PROVE OneAttached'
  BY <1>7, RunKeepsOthers DEF OneAttached, callVars, ghosts
<1>8. CASE CooldownEnds \/ UNCHANGED vars
  BY <1>8 DEF CooldownEnds, vars, OneAttached, Alive, threadVars, senderOnly, callVars, ghosts
<1>9. QED
  BY <1>1, <1>2, <1>3, <1>4, <1>5, <1>6, <1>7, <1>8 DEF Next

\* The queue is drained by one thread until something stops it.
THEOREM DrainedByOne == Spec => []OneSenderUntilStopped
<1>1. Init => OneAttached
  BY DEF Init, OneAttached, Alive, Caller
<1>2. TypeOK /\ Carrying /\ OneAttached /\ [Next]_vars => OneAttached'
  BY OneAttachedStep
<1>3. TypeOK /\ OneAttached => OneSenderUntilStopped
  BY LifeType DEF OneAttached, OneSenderUntilStopped
<1>4. QED
  BY TypeCorrect, <1>1, <1>2, <1>3, PTL DEF Spec

-----------------------------------------------------------------------------
(* A queue that was started again has a sender.                            *)

Lifecycle == Operating /\ StopIsClean /\ StartedAgain

\* The operator's call is where stop() and finish_stop() put it; a thread that
\* stop() waits for is not the attached one.
LEMMA OperatingStep ==
    ASSUME TypeOK, Operating, [Next]_vars
    PROVE  Operating'
<1> USE LifeType DEF Operating, Goes
<1>1. CASE \E c \in Submitter : Submit(c) \/ Put(c)
  BY <1>1 DEF Submit, Put
<1>2. CASE \E c \in Caller : StartReturns(c) \/ StartClears(c)
  BY <1>2 DEF StartReturns, StartClears, AfterStart
<1>3. ASSUME NEW c \in Caller, Spawn(c) PROVE Operating'
  BY <1>3, SpawnAdds DEF Spawn, AfterStart
<1>4. CASE Stop \/ BeginStop
  BY <1>4 DEF Stop, BeginStop
<1>5. CASE Stopping
  BY <1>5 DEF Stopping, StopTakes, StopSets, StopReturns, FinishStop, Forgotten, None
<1>6. CASE \E t \in Thread : Run(t)
  BY <1>6, RunKeepsOthers DEF callVars
<1>7. CASE CooldownEnds \/ UNCHANGED vars
  BY <1>7 DEF CooldownEnds, vars, senderOnly, callVars
<1>8. QED
  BY <1>1, <1>2, <1>3, <1>4, <1>5, <1>6, <1>7 DEF Next

\* submit() outside of start() touches neither the threads nor the operator's
\* call, and nor does a start() that returns.
LEMMA Quiet ==
    ASSUME TypeOK, NEW c \in Caller,
           (c \in Submitter /\ (Submit(c) \/ Put(c))) \/ StartReturns(c)
    PROVE  /\ Alive' = Alive /\ UNCHANGED <<attached, stopping, target, then, doomed>>
           /\ \A d \in Caller \ {c} : call'[d] = call[d]
           /\ call'[c] # "spawn"
           /\ c = "operator" => call[c] = "start" /\ call'[c] = "idle" /\ Running
<1>1. CASE c \in Submitter /\ Submit(c)
  BY <1>1, LifeType DEF Submit, Goes, Alive, threadVars, ghosts
<1>2. CASE c \in Submitter /\ Put(c)
  BY <1>2, LifeType DEF Put, Goes, Alive, threadVars, ghosts
<1>3. CASE StartReturns(c)
  BY <1>3, LifeType DEF StartReturns, AfterStart, Goes, Alive, threadVars, ghosts
<1>4. QED
  BY <1>1, <1>2, <1>3

\* stop() leaves no attached sender behind, unless one was on its way, in which
\* case it is doomed.
LEMMA StopIsCleanStep ==
    ASSUME TypeOK, Carrying, Operating, StopIsClean, [Next]_vars
    PROVE  StopIsClean'
<1> USE LifeType DEF StopIsClean, Goes
<1>1. ASSUME NEW c \in Submitter, Submit(c) \/ Put(c) PROVE StopIsClean'
  <2>1. /\ Alive' = Alive /\ UNCHANGED <<attached, stopping, target, then, doomed>>
        /\ \A d \in Caller \ {c} : call'[d] = call[d]
        /\ call'[c] # "spawn"
        /\ c = "operator" => call[c] = "start" /\ call'[c] = "idle" /\ Running
    BY <1>1, Quiet
  <2>2. call'["operator"] = call["operator"]
    BY <2>1
  <2>3. QED
    BY <2>1, <2>2
<1>2. ASSUME NEW c \in Caller, StartReturns(c) PROVE StopIsClean'
  <2>1. /\ Alive' = Alive /\ UNCHANGED <<attached, stopping, target, then, doomed>>
        /\ \A d \in Caller \ {c} : call'[d] = call[d]
        /\ call'[c] # "spawn"
        /\ c = "operator" => call[c] = "start" /\ call'[c] = "idle" /\ Running
    BY <1>2, Quiet
  <2>2. QED
    BY <2>1
<1>3. CASE \E c \in Caller : StartClears(c)
  BY <1>3 DEF StartClears
<1>4. ASSUME NEW c \in Caller, Spawn(c) PROVE StopIsClean'
  BY <1>4 DEF Spawn, AfterStart
<1>5. CASE Stop \/ BeginStop
  BY <1>5 DEF Stop, BeginStop, Alive, threadVars, ghosts
<1>6. CASE StopTakes
  BY <1>6 DEF StopTakes, Forgotten, Alive, threadVars, ghosts
<1>7. CASE StopSets
  <2>1. /\ call["operator"] = "set" /\ call' = [call EXCEPT !["operator"] = "join"]
        /\ UNCHANGED <<attached, sender>>
        /\ doomed' = \/ doomed
                      \/ attached \in Alive \ {target}
                      \/ \E c \in Submitter : call[c] = "spawn"
    BY <1>7 DEF StopSets, threadVars
  <2>2. ASSUME ~doomed' PROVE attached \notin Alive
    BY <2>1, <2>2 DEF Operating, Alive
  <2>3. ASSUME ~doomed', NEW c \in Caller PROVE call'[c] # "spawn"
    BY <2>1, <2>3 DEF Caller
  <2>4. QED
    BY <2>1, <2>2, <2>3 DEF Alive
<1>8. CASE StopReturns
  BY <1>8 DEF StopReturns, Alive, threadVars, ghosts
<1>9. CASE FinishStop
  BY <1>9 DEF FinishStop
<1>10. CASE \E t \in Thread : Run(t)
  BY <1>10, RunKeepsOthers DEF callVars, ghosts
<1>11. CASE CooldownEnds \/ UNCHANGED vars
  BY <1>11 DEF CooldownEnds, vars, Alive, threadVars, senderOnly, callVars, ghosts
<1>12. QED
  BY <1>1, <1>2, <1>3, <1>4, <1>5, <1>6, <1>7, <1>8, <1>9, <1>10, <1>11
     DEF Next, Stopping

\* The sender of a queue that was started again is not told to stop, so it
\* stays, or another is attached in its place.
LEMMA StartedAgainStep ==
    ASSUME TypeOK, Carrying, Operating, StopIsClean, StartedAgain, [Next]_vars
    PROVE  StartedAgain'
<1> USE LifeType DEF StartedAgain, Goes
<1>1. ASSUME NEW c \in Submitter, Submit(c) \/ Put(c) PROVE StartedAgain'
  <2>1. /\ Alive' = Alive /\ UNCHANGED <<attached, stopping, target, then, doomed>>
        /\ \A d \in Caller \ {c} : call'[d] = call[d]
        /\ call'[c] # "spawn"
        /\ c = "operator" => call[c] = "start" /\ call'[c] = "idle" /\ Running
    BY <1>1, Quiet
  <2>2. call'["operator"] = call["operator"]
    BY <2>1
  <2>3. QED
    BY <2>1, <2>2
<1>2. ASSUME NEW c \in Caller, StartReturns(c) PROVE StartedAgain'
  <2>1. /\ Alive' = Alive /\ UNCHANGED <<attached, stopping, target, then, doomed>>
        /\ \A d \in Caller \ {c} : call'[d] = call[d]
        /\ call'[c] # "spawn"
        /\ c = "operator" => call[c] = "start" /\ call'[c] = "idle" /\ Running
    BY <1>2, Quiet
  <2>2. QED
    BY <2>1 DEF Running
<1>3. ASSUME NEW c \in Caller, StartClears(c) PROVE StartedAgain'
  <2>1. /\ Alive' = Alive /\ UNCHANGED <<attached, then, doomed>>
        /\ call' = [call EXCEPT ![c] = "spawn"]
    BY <1>3 DEF StartClears, Alive, threadVars
  <2>2. QED
    BY <2>1
<1>4. ASSUME NEW c \in Caller, Spawn(c) PROVE StartedAgain'
  BY <1>4, SpawnAdds
<1>5. CASE Stop \/ BeginStop
  BY <1>5 DEF Stop, BeginStop
<1>6. CASE StopTakes \/ StopSets \/ FinishStop
  BY <1>6 DEF StopTakes, StopSets, FinishStop
<1>7. CASE StopReturns
  BY <1>7 DEF StopReturns
<1>8. ASSUME NEW t \in Thread, Run(t) PROVE StartedAgain'
  <2>1. CASE attached # t
    BY <1>8, <2>1, RunKeepsOthers DEF Alive, callVars, ghosts
  <2>2. CASE attached = t
    BY <1>8, <2>2, RunKeepsOthers DEF StopIsClean, callVars, ghosts
  <2>3. QED
    BY <2>1, <2>2
<1>9. CASE CooldownEnds \/ UNCHANGED vars
  BY <1>9 DEF CooldownEnds, vars, Alive, threadVars, senderOnly, callVars, ghosts
<1>10. QED
  BY <1>1, <1>2, <1>3, <1>4, <1>5, <1>6, <1>7, <1>8, <1>9 DEF Next, Stopping

\* Once the queue was started again, accepted jobs do not wait for a sender that
\* is not there, unless a stop() met a sender just being started.
THEOREM StartedAgainHasSender == Spec => []StrandedOnlyIfDoomed
<1>1. Init => Lifecycle
  BY DEF Init, Lifecycle, Operating, StopIsClean, StartedAgain, Caller, None
<1>2. TypeOK /\ Carrying /\ Lifecycle /\ [Next]_vars => Lifecycle'
  BY OperatingStep, StopIsCleanStep, StartedAgainStep DEF Lifecycle
<1>3. Lifecycle => StrandedOnlyIfDoomed
  BY DEF Lifecycle, StartedAgain, StrandedOnlyIfDoomed, Caller
<1>4. QED
  BY TypeCorrect, <1>1, <1>2, <1>3, PTL DEF Spec

-----------------------------------------------------------------------------
(* The breaker.                                                            *)

\* What the steps below need of the types.
LEMMA BreakerType ==
    ASSUME TypeOK
    PROVE  /\ sender \in [Thread -> {"ended", "top", "get", "verdict", "send",
                                     "tell open", "tell closed", "finish"}]
           /\ breaker \in {"closed", "cooling", "ripe"} /\ probes \in Nat
           /\ told \in BOOLEAN
  BY DEF TypeOK

\* Arithmetic, kept from the steps that need it.
LEMMA First == 0 + 1 = 1
  OBVIOUS

Breaker == OneAttempt /\ ReportsMatchBreaker

\* The steps of the calls send nothing and tell nothing, except that a spawn may
\* put a second sender beside the first.
LEMMA BreakerUntouched ==
    ASSUME Breaker, UNCHANGED <<sender, breakerVars, overlapped>>
    PROVE  Breaker'
  BY DEF Breaker, OneAttempt, ReportsMatchBreaker, Alive, breakerVars

\* A new sender finds the breaker as the last one left it.
LEMMA BreakerSpawn ==
    ASSUME TypeOK, Breaker, NEW c \in Caller, Spawn(c)
    PROVE  Breaker'
<1>1. overlapped' = (overlapped \/ Alive # {}) /\ UNCHANGED breakerVars
  BY DEF Spawn
<1>2. CASE overlapped'
  BY <1>2 DEF Breaker, OneAttempt, ReportsMatchBreaker
<1>3. CASE ~overlapped'
  <2>1. Alive = {} /\ ~overlapped
    BY <1>1, <1>3
  <2>2. Alive' = {attached'} /\ sender' = [sender EXCEPT ![attached'] = "top"]
    BY <2>1, SpawnAdds
  <2>3. \A t \in Thread : sender[t] = "ended" /\ sender'[t] \in {"ended", "top"}
    BY <2>1, <2>2, BreakerType DEF Alive
  <2>4. QED
    BY <1>1, <2>1, <2>2, <2>3 DEF Breaker, OneAttempt, ReportsMatchBreaker, breakerVars
<1>4. QED
  BY <1>2, <1>3

\* With one sender alive, the attempt and the report there are, are its own.
LEMMA BreakerRun ==
    ASSUME TypeOK, Breaker, NEW t \in Thread, Run(t)
    PROVE  Breaker'
<1>1. /\ \A u \in Thread \ {t} : sender'[u] = sender[u]
      /\ Alive' \subseteq Alive /\ t \in Alive /\ overlapped' = overlapped
  BY RunKeepsOthers DEF ghosts
<1>2. CASE overlapped
  BY <1>1, <1>2 DEF Breaker, OneAttempt, ReportsMatchBreaker
<1>3. CASE ~overlapped
  <2>1. /\ \A u, v \in Alive' : u = v
        /\ \A u \in Thread \ {t} : sender[u] = "ended" /\ sender'[u] = "ended"
    BY <1>1, <1>3 DEF Breaker, OneAttempt, Alive
  <2>2. /\ probes # 0 => probes = 1 /\ breaker # "closed" /\ sender[t] = "send"
        /\ sender[t] = "tell open" => breaker # "closed"
        /\ sender[t] = "tell closed" => breaker = "closed"
        /\ \/ told <=> breaker # "closed"
           \/ sender[t] \in {"tell open", "tell closed"}
    BY <1>3, <2>1 DEF Breaker, OneAttempt, ReportsMatchBreaker
  <2>3. SUFFICES
        /\ probes' # 0 => probes' = 1 /\ breaker' # "closed" /\ sender'[t] = "send"
        /\ sender'[t] = "tell open" => breaker' # "closed"
        /\ sender'[t] = "tell closed" => breaker' = "closed"
        /\ \/ told' <=> breaker' # "closed"
           \/ sender'[t] \in {"tell open", "tell closed"}
    BY <2>1, <2>3 DEF Breaker, OneAttempt, ReportsMatchBreaker
  <2> USE BreakerType DEF Moves
  <2>4. CASE Top(t) \/ Get(t) \/ GetTimesOut(t)
    <3>1. UNCHANGED <<breaker, told, probes>>
      BY <2>4 DEF Top, Get, GetTimesOut, breakerVars
    <3>2. /\ sender[t] \in {"top", "get"}
          /\ sender'[t] \in {"ended", "top", "get", "verdict"}
      BY <2>4 DEF Top, Get, GetTimesOut
    <3>3. probes = 0
      BY <2>2, <3>2
    <3>4. QED
      BY <2>2, <3>1, <3>2, <3>3
  <2>5. CASE BreakerVerdict(t)
    <3>1. /\ sender[t] = "verdict" /\ probes = 0
          /\ UNCHANGED <<breaker, told>>
          /\ probes' = IF breaker = "ripe" THEN probes + 1 ELSE probes
          /\ sender' = [sender EXCEPT ![t] =
                          IF breaker = "cooling" THEN "finish" ELSE "send"]
      BY <2>2, <2>5 DEF BreakerVerdict, AfterVerdict
    <3>2. probes' = IF breaker = "ripe" THEN 1 ELSE 0
      BY <3>1, First, Zenon
    <3>3. sender'[t] = IF breaker = "cooling" THEN "finish" ELSE "send"
      BY <3>1
    <3>4. QED
      BY <2>2, <3>1, <3>2, <3>3
  <2>6. CASE SendFails(t)
    <3>1. PICK open \in BOOLEAN :
            /\ open => breaker = "closed"
            /\ breaker' = IF open \/ breaker # "closed" THEN "cooling" ELSE breaker
            /\ probes' = IF open \/ breaker # "closed" THEN 0 ELSE probes
            /\ sender' = [sender EXCEPT ![t] = IF open THEN "tell open" ELSE "finish"]
            /\ sender[t] = "send" /\ told' = told
      BY <2>6 DEF SendFails, NewlyOpen, Cools
    <3>2. QED
      BY <2>2, <3>1
  <2>7. CASE SendWorks(t)
    BY <2>2, <2>7 DEF SendWorks, ClosedBySuccess
  <2>8. CASE FireBreaker(t)
    BY <2>2, <2>8 DEF FireBreaker
  <2>9. CASE Finish(t)
    BY <2>2, <2>9 DEF Finish, breakerVars
  <2>10. QED
    BY <2>4, <2>5, <2>6, <2>7, <2>8, <2>9 DEF Run
<1>4. QED
  BY <1>2, <1>3

\* Every step keeps the breaker's invariant.
LEMMA BreakerStep ==
    ASSUME TypeOK, Breaker, [Next]_vars
    PROVE  Breaker'
<1>1. CASE \E c \in Submitter : Submit(c) \/ Put(c)
  BY <1>1, BreakerUntouched DEF Submit, Put, threadVars, ghosts
<1>2. CASE \E c \in Caller : StartReturns(c) \/ StartClears(c)
  BY <1>2, BreakerUntouched DEF StartReturns, StartClears, threadVars, ghosts
<1>3. CASE \E c \in Caller : Spawn(c)
  BY <1>3, BreakerSpawn
<1>4. CASE Stop \/ BeginStop \/ Stopping
  BY <1>4, BreakerUntouched
     DEF Stop, BeginStop, Stopping, StopTakes, StopSets, StopReturns, FinishStop,
         threadVars, ghosts
<1>5. CASE \E t \in Thread : Run(t)
  BY <1>5, BreakerRun
<1>6. CASE CooldownEnds
  BY <1>6 DEF CooldownEnds, Breaker, OneAttempt, ReportsMatchBreaker, Alive,
              threadVars, senderOnly, ghosts
<1>7. CASE UNCHANGED vars
  BY <1>7, BreakerUntouched DEF vars, threadVars, ghosts
<1>8. QED
  BY <1>1, <1>2, <1>3, <1>4, <1>5, <1>6, <1>7 DEF Next

\* As long as two senders are never alive at once, the breaker is as it should.
LEMMA BreakerCorrect == Spec => []Breaker
<1>1. Init => Breaker
  BY DEF Init, Breaker, OneAttempt, ReportsMatchBreaker, Alive
<1>2. TypeOK /\ Breaker /\ [Next]_vars => Breaker'
  BY BreakerStep
<1>3. QED
  BY TypeCorrect, <1>1, <1>2, PTL DEF Spec

\* One attempt per cooldown goes to a failing relay.
THEOREM AttemptsAreSpaced == Spec => []OneProbePerCooldown
<1>1. Breaker => overlapped \/ probes = 0 \/ probes = 1
  BY DEF Breaker, OneAttempt
<1>2. Breaker => OneProbePerCooldown
  BY <1>1 DEF OneProbePerCooldown
<1>3. QED
  BY BreakerCorrect, <1>2, PTL

\* What the engine was last told about the breaker is what it is, or what it is
\* about to be told.
THEOREM ReportsAreKept == Spec => []ReportsMatchBreaker
<1>1. Breaker => ReportsMatchBreaker
  BY DEF Breaker
<1>2. QED
  BY BreakerCorrect, <1>1, PTL
=============================================================================
