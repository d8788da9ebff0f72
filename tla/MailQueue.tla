------------------------------ MODULE MailQueue ------------------------------
(***************************************************************************)
(* The sender queue of netpath/alertmail.py (mail, and by inheritance      *)
(* webhooks and texts) with the lifecycle the alert engine gives it: a     *)
(* bounded queue, the thread that drains it, and the breaker that stops    *)
(* attempting while the relay is failing.                                  *)
(*                                                                         *)
(* submit() and start() are called from the engine's tick and from request *)
(* threads, stop() from a settings save, begin_stop() and finish_stop()    *)
(* from the service's teardown; none of them holds a lock across its       *)
(* steps.  Every read of _thread or _stopping followed by a write is two   *)
(* actions here, so the calls interleave as the threads do.                *)
(***************************************************************************)
EXTENDS Integers, Sequences, FiniteSets

CONSTANTS
    Threads,         \* bound: sender threads alive at the same time
    Submitter,       \* the threads that submit jobs
    Jobs,            \* bound: how many jobs are submitted
    Capacity,        \* QUEUE_SIZE
    FailuresToOpen,  \* BREAKER_FAILURES
    Stops            \* bound: how often it is stopped, restarted or torn down

ASSUME ThreadAssumption == Threads \in Nat \ {0}
ASSUME SubmitterAssumption == IsFiniteSet(Submitter) /\ "operator" \notin Submitter
ASSUME JobAssumption == Jobs \in Nat
ASSUME CapacityAssumption == Capacity \in Nat \ {0}
ASSUME BreakerAssumption == FailuresToOpen \in Nat \ {0}
ASSUME BoundAssumption == Stops \in Nat

Thread == 1..Threads
Job    == 1..Jobs
Caller == Submitter \cup {"operator"}
None   == 0

VARIABLES
    queue,      \* _queue: the jobs waiting, oldest first
    attached,   \* _thread, or None
    stopping,   \* _stopping
    sender,     \* per thread: where _run is, or "ended"
    held,       \* per thread: the job it took
    outcome,    \* per thread: what came of the job, until it is recorded
    failures,   \* _failures, no further than FailuresToOpen
    breaker,    \* _open_since: "closed", "cooling", or "ripe" after cooldown_s
    call,       \* per caller: the step of the call it is in
    target,     \* the thread stop() took and waits for
    then,       \* what the operator's call goes on to do: "stop" or "start"
    submitted,  \* how many jobs were submitted so far
    carried,    \* per submitter: the job it is submitting
    (* what the callbacks wrote *)
    verdict,    \* per job: on_result's answer, or "refused"
    told,       \* the last on_breaker report: is the breaker open
    (* history, read by no action *)
    stops,      \* how often that happened so far
    probes,     \* attempts let through since the last cooldown began
    overlapped, \* two sender threads were alive at once
    crowded,    \* two calls were inside start() at once
    doomed      \* stop() set _stopping upon a sender just being started

queueVars   == <<queue, submitted, carried, verdict>>
threadVars  == <<sender, held, outcome>>
breakerVars == <<failures, breaker, told, probes>>
callVars    == <<call, target, then>>
ghosts      == <<overlapped, crowded, doomed>>
vars == <<queueVars, attached, stopping, threadVars, breakerVars, callVars,
          stops, ghosts>>

-----------------------------------------------------------------------------
Init ==
    /\ queue = <<>> /\ submitted = 0 /\ verdict = [j \in Job |-> "none"]
    /\ carried = [c \in Submitter |-> None]
    /\ attached = None /\ stopping = FALSE
    /\ sender = [t \in Thread |-> "ended"]
    /\ held = [t \in Thread |-> None]
    /\ outcome = [t \in Thread |-> "none"]
    /\ failures = 0 /\ breaker = "closed" /\ told = FALSE /\ probes = 0
    /\ call = [c \in Caller |-> "idle"] /\ target = None /\ then = "stop"
    /\ stops = 0
    /\ overlapped = FALSE /\ crowded = FALSE /\ doomed = FALSE

Alive == {t \in Thread : sender[t] # "ended"}

\* Mutant: a sender that is busy with a job does not count as running.
RunningIdle == attached \in Alive /\ sender[attached] \in {"top", "get"}

\* Worker.running
Running == attached \in Alive

CountStop == stops < Stops /\ stops' = stops + 1
Goes(c, at) == call' = [call EXCEPT ![c] = at]

-----------------------------------------------------------------------------
(* submit(), and the start() it shares with the engine's own start().      *)

Submit(c) ==
    /\ call[c] = "idle" /\ submitted < Jobs
    /\ submitted' = submitted + 1
    /\ carried' = [carried EXCEPT ![c] = submitted']
    /\ Goes(c, IF Running THEN "put" ELSE "start")
    /\ UNCHANGED <<queue, verdict, attached, stopping, threadVars, breakerVars,
                   target, then, stops, ghosts>>

\* The call goes on to put_nowait, or is over.
AfterStart(c) == IF c = "operator" THEN "idle" ELSE "put"

StartReturns(c) ==
    /\ call[c] = "start" /\ Running
    /\ Goes(c, AfterStart(c))
    /\ UNCHANGED <<queueVars, attached, stopping, threadVars, breakerVars,
                   target, then, stops, ghosts>>

StartClears(c) ==
    /\ call[c] = "start" /\ ~Running
    /\ stopping' = FALSE
    /\ Goes(c, "spawn")
    /\ crowded' = (crowded \/ \E b \in Caller \ {c} : call[b] = "spawn")
    /\ UNCHANGED <<queueVars, attached, threadVars, breakerVars, target, then,
                   stops, overlapped, doomed>>

Spawn(c) ==
    /\ call[c] = "spawn"
    /\ \E t \in Thread \ (Alive \cup {target}) : \* which one is of no account
          /\ \A u \in Thread \ (Alive \cup {target}) : t <= u
          /\ sender' = [sender EXCEPT ![t] = "top"]
          /\ attached' = t
    /\ overlapped' = (overlapped \/ Alive # {})
    /\ Goes(c, AfterStart(c))
    /\ UNCHANGED <<queueVars, stopping, held, outcome, breakerVars, target,
                   then, stops, crowded, doomed>>

\* Mutant: put_nowait admits one job more than the queue holds.
RoomForOneMore == Len(queue) <= Capacity

Room == Len(queue) < Capacity

Put(c) ==
    /\ call[c] = "put"
    /\ IF Room
       THEN queue' = Append(queue, carried[c]) /\ UNCHANGED verdict
       ELSE verdict' = [verdict EXCEPT ![carried[c]] = "refused"] /\ UNCHANGED queue
    /\ carried' = [carried EXCEPT ![c] = None]
    /\ Goes(c, "idle")
    /\ UNCHANGED <<submitted, attached, stopping, threadVars, breakerVars,
                   target, then, stops, ghosts>>

-----------------------------------------------------------------------------
(* stop(), the engine's start(), which begins with a stop(), and the two   *)
(* halves of the service's teardown.                                       *)

Stop ==
    /\ call["operator"] = "idle" /\ CountStop
    /\ then' \in {"stop", "start"}
    /\ Goes("operator", "take")
    /\ UNCHANGED <<queueVars, attached, stopping, threadVars, breakerVars,
                   target, ghosts>>

\* Mutant: the thread stays attached while stop() waits for it.
StillAttached == attached

\* "_thread is cleared first"
Forgotten == None

StopTakes ==
    /\ call["operator"] = "take"
    /\ target' = attached /\ attached' = Forgotten
    /\ Goes("operator", "set")
    /\ UNCHANGED <<queueVars, stopping, threadVars, breakerVars, then, stops, ghosts>>

StopSets ==
    /\ call["operator"] = "set"
    /\ stopping' = TRUE
    /\ doomed' = \/ doomed
                  \/ attached \in Alive \ {target}
                  \/ \E c \in Submitter : call[c] = "spawn"
    /\ Goes("operator", "join")
    /\ UNCHANGED <<queueVars, attached, threadVars, breakerVars, target, then,
                   stops, overlapped, crowded>>

\* The join ends with the thread, or after two seconds without it.
StopReturns ==
    /\ call["operator"] = "join"
    /\ target' = None
    /\ Goes("operator", IF then = "start" THEN "start" ELSE "idle")
    /\ UNCHANGED <<queueVars, attached, stopping, threadVars, breakerVars, then,
                   stops, ghosts>>

BeginStop ==
    /\ call["operator"] = "idle" /\ CountStop
    /\ stopping' = TRUE
    /\ Goes("operator", "finish")
    /\ UNCHANGED <<queueVars, attached, threadVars, breakerVars, target, then,
                   ghosts>>

\* Nothing is asked of the queue by the engine after this.
FinishStop ==
    /\ call["operator"] = "finish"
    /\ attached' = IF Running THEN attached ELSE None
    /\ Goes("operator", "gone")
    /\ UNCHANGED <<queueVars, stopping, threadVars, breakerVars, target, then,
                   stops, ghosts>>

-----------------------------------------------------------------------------
(* _run and _deliver, on a sender thread.                                  *)

Moves(t, at) == sender' = [sender EXCEPT ![t] = at]
senderOnly   == <<attached, stopping, callVars, stops, ghosts>>

Top(t) ==
    /\ sender[t] = "top"
    /\ Moves(t, IF stopping THEN "ended" ELSE "get")
    /\ UNCHANGED <<queueVars, held, outcome, breakerVars, senderOnly>>

\* Mutant: a job the breaker will block stays queued, and is blocked anyway.
KeptWhileBlocked == IF breaker = "cooling" THEN queue ELSE Tail(queue)

Remaining == Tail(queue)

Get(t) ==
    /\ sender[t] = "get" /\ queue # <<>>
    /\ held' = [held EXCEPT ![t] = Head(queue)]
    /\ queue' = Remaining
    /\ Moves(t, "verdict")
    /\ UNCHANGED <<submitted, carried, verdict, outcome, breakerVars, senderOnly>>

GetTimesOut(t) ==
    /\ sender[t] = "get" /\ queue = <<>>
    /\ Moves(t, "top")
    /\ UNCHANGED <<queueVars, held, outcome, breakerVars, senderOnly>>

\* Mutant: a blocked job is dropped without its _finish.
DroppedIfBlocked == IF breaker = "cooling" THEN "top" ELSE "send"

\* An open breaker lets an attempt through once cooldown_s has passed.
AfterVerdict == IF breaker = "cooling" THEN "finish" ELSE "send"

BreakerVerdict(t) ==
    /\ sender[t] = "verdict"
    /\ Moves(t, AfterVerdict)
    /\ outcome' = [outcome EXCEPT ![t] = IF breaker = "cooling" THEN "failed" ELSE @]
    /\ probes' = IF breaker = "ripe" THEN probes + 1 ELSE probes
    /\ UNCHANGED <<queueVars, held, failures, breaker, told, senderOnly>>

NewlyOpen(n) == breaker = "closed" /\ n >= FailuresToOpen

\* Mutant: a failed probe does not restart the cooldown.
CoolsWhenNew(n) == NewlyOpen(n)

\* _open_since is set when the breaker opens and again by every failure after.
Cools(n) == NewlyOpen(n) \/ breaker # "closed"

\* _record_failure
SendFails(t) ==
    /\ sender[t] = "send"
    /\ LET n == IF failures < FailuresToOpen THEN failures + 1 ELSE failures IN
          /\ failures' = n
          /\ breaker' = IF Cools(n) THEN "cooling" ELSE breaker
          /\ probes' = IF Cools(n) THEN 0 ELSE probes
          /\ Moves(t, IF NewlyOpen(n) THEN "tell open" ELSE "finish")
    /\ outcome' = [outcome EXCEPT ![t] = "failed"]
    /\ UNCHANGED <<queueVars, held, told, senderOnly>>

\* Mutant: a success resets the count and leaves _open_since.
CountOnly == breaker

ClosedBySuccess == "closed"

\* _record_success
SendWorks(t) ==
    /\ sender[t] = "send"
    /\ failures' = 0 /\ breaker' = ClosedBySuccess /\ probes' = 0
    /\ Moves(t, IF breaker # "closed" THEN "tell closed" ELSE "finish")
    /\ outcome' = [outcome EXCEPT ![t] = "sent"]
    /\ UNCHANGED <<queueVars, held, told, senderOnly>>

\* _fire_breaker, outside the lock the decision was made under.
FireBreaker(t) ==
    /\ sender[t] \in {"tell open", "tell closed"}
    /\ told' = (sender[t] = "tell open")
    /\ Moves(t, "finish")
    /\ UNCHANGED <<queueVars, held, outcome, failures, breaker, probes, senderOnly>>

Finish(t) ==
    /\ sender[t] = "finish"
    /\ verdict' = [verdict EXCEPT ![held[t]] = outcome[t]]
    /\ held' = [held EXCEPT ![t] = None]
    /\ outcome' = [outcome EXCEPT ![t] = "none"]
    /\ Moves(t, "top")
    /\ UNCHANGED <<queue, submitted, carried, breakerVars, senderOnly>>

CooldownEnds ==
    /\ breaker = "cooling"
    /\ breaker' = "ripe"
    /\ UNCHANGED <<queueVars, threadVars, failures, told, probes, senderOnly>>

-----------------------------------------------------------------------------
Calling(c) == StartReturns(c) \/ StartClears(c) \/ Spawn(c) \/ Put(c)
Stopping   == StopTakes \/ StopSets \/ StopReturns \/ FinishStop
Run(t) ==
    \/ Top(t) \/ Get(t) \/ GetTimesOut(t) \/ BreakerVerdict(t)
    \/ SendFails(t) \/ SendWorks(t) \/ FireBreaker(t) \/ Finish(t)

Next ==
    \/ \E c \in Submitter : Submit(c) \/ Put(c)
    \/ \E c \in Caller : StartReturns(c) \/ StartClears(c) \/ Spawn(c)
    \/ Stop \/ BeginStop \/ Stopping
    \/ \E t \in Thread : Run(t)
    \/ CooldownEnds

\* A call runs to its end, and so does a sender thread: every send has a
\* timeout. Nothing obliges anyone to submit, stop or restart.
Fairness ==
    /\ \A c \in Submitter : WF_vars(Calling(c))
    /\ WF_vars(StartReturns("operator") \/ StartClears("operator")
               \/ Spawn("operator") \/ Stopping)
    /\ \A t \in Thread : WF_vars(Run(t))
    /\ WF_vars(CooldownEnds)

Spec == Init /\ [][Next]_vars /\ Fairness

-----------------------------------------------------------------------------
TypeOK ==
    /\ queue \in Seq(Job) /\ Len(queue) <= Capacity
    /\ submitted \in 0..Jobs /\ carried \in [Submitter -> 0..Jobs]
    /\ verdict \in [Job -> {"none", "refused", "sent", "failed"}]
    /\ attached \in 0..Threads /\ target \in 0..Threads
    /\ stopping \in BOOLEAN
    /\ sender \in [Thread -> {"ended", "top", "get", "verdict", "send",
                              "tell open", "tell closed", "finish"}]
    /\ held \in [Thread -> 0..Jobs]
    /\ outcome \in [Thread -> {"none", "sent", "failed"}]
    /\ failures \in 0..FailuresToOpen
    /\ breaker \in {"closed", "cooling", "ripe"} /\ told \in BOOLEAN
    /\ call \in [Caller -> {"idle", "start", "spawn", "put", "take", "set",
                            "join", "finish", "gone"}]
    /\ then \in {"stop", "start"} /\ stops \in 0..Stops
    /\ probes \in Nat
    /\ overlapped \in BOOLEAN /\ crowded \in BOOLEAN
    /\ doomed \in BOOLEAN

\* A second sender thread comes only of a stop(), which forgets the thread
\* before it has ended, or of two calls inside start() at once: MailQueue's
\* "drained by one worker thread" holds as long as neither has happened.
OneSenderUntilStopped == overlapped => stops > 0 \/ crowded

\* What the engine was last told about the breaker, and makes a system alert
\* of, is what the breaker is, once nobody is on the way to tell it: the
\* reports are made outside the lock, so only one sender keeps them in order.
ReportsMatchBreaker ==
    overlapped \/ (told <=> breaker # "closed")
    \/ \E t \in Thread : sender[t] \in {"tell open", "tell closed"}

\* A failing relay costs one attempt per cooldown, not one per job waiting.
OneProbePerCooldown == probes <= 1 \/ overlapped

\* As long as nobody stops the queue, every job that was accepted gets its
\* verdict, although a call to start() may find another one on the way and
\* the relay may fail for ever.
AcceptedIsSettled ==
    \A j \in Job : (\E i \in 1..Len(queue) : queue[i] = j)
                      ~> (verdict[j] # "none" \/ stops > 0)

\* A submit that meets a stop "restarts a worker rather than enqueuing behind
\* one that is exiting" (MailQueue.stop): with the queue started again and no
\* call under way, jobs do not wait for a sender that is not there. The one
\* exception is a start() between stop() forgetting the old sender and setting
\* _stopping: the new sender ends at once, and the start() that follows the
\* stop() may still take it for a running one.
StrandedOnlyIfDoomed ==
    (queue # <<>> /\ then = "start" /\ \A c \in Caller : call[c] = "idle")
        => Alive # {} \/ doomed

\* The queue is a Courier, whatever stops, restarts and double senders do.
Courier == INSTANCE Courier WITH
    waiting <- queue, underway <- {held[t] : t \in Thread} \ {None}

Promise == Courier!Spec
=============================================================================
