--------------------------- MODULE PollScheduler ---------------------------
(***************************************************************************)
(* How the node poller (netpath/nodepoll/poller.py) puts devices on its    *)
(* worker pool: the scheduling thread, "poll now" clicks, the pool being   *)
(* swapped for one of another size, and stop() and start() in any          *)
(* interleaving.  One lock guards the markers _queued and _started; the    *)
(* pools, and which of them is current, are changed outside it.            *)
(***************************************************************************)
EXTENDS Integers, Sequences, FiniteSets

CONSTANTS
    Device,
    Workers,  \* threads of a pool
    Resizer,  \* the threads that resize: the autoscaler, a settings save
    Budget    \* bound: how often each kind of outside event may happen

Disturbance == {"click", "resize", "control", "fault"}

ASSUME DeviceAssumption == IsFiniteSet(Device)
ASSUME ResizerAssumption == IsFiniteSet(Resizer)
ASSUME BoundAssumption ==
    Workers \in Nat \ {0} /\ Budget \in [Disturbance -> Nat]

\* Every resize and every start makes a pool, every start makes a loop.
Pool == 1 .. (1 + Budget["resize"] + Budget["control"])
Loop == 1 .. (1 + Budget["control"])
Worker == 1 .. Workers
Web == 0       \* the thread of a "poll now" request
Caller == Loop \cup {Web}

VARIABLES
    due,       \* devices whose _next_run has come
    queued,    \* _queued
    started,   \* _started
    stop,      \* the event _stop
    (* the pools *)
    executor,  \* _executor: the current pool
    made,      \* how many pools there have been
    open,      \* pools that accept work
    waiting,   \* the futures waiting in each pool, as their devices
    work,      \* what each worker thread does
    draining,  \* _draining
    (* the threads outside the pools *)
    loop,      \* each scheduling thread: "off", "wait" or "pass"
    todo,      \* the devices its pass has still to look at
    call,      \* the _submit each thread is in
    resize,    \* the _apply_pool_size each thread is in
    control,   \* the start() or stop() an operator's request is in
    (* bounds and history, read by no action *)
    budget,
    orphaned   \* devices whose marker a stop cleared while their poll was
               \*   on its way to a worker

markers == <<due, queued, started, stop>>
pools   == <<executor, made, open, waiting, work, draining>>
threads == <<loop, todo, call, resize, control>>
vars == <<markers, pools, threads, budget, orphaned>>

Free   == [at |-> "free"]
NoCall == [at |-> "none"]
Spend(k) == budget[k] > 0 /\ budget' = [budget EXCEPT ![k] = @ - 1]

Init ==
    /\ due = Device /\ queued = {} /\ started = {} /\ stop = FALSE
    /\ executor = 1 /\ made = 1 /\ open = {1} /\ draining = {}
    /\ waiting = [p \in Pool |-> <<>>]
    /\ work = [p \in Pool |-> [w \in Worker |-> Free]]
    /\ loop = [l \in Loop |-> IF l = 1 THEN "wait" ELSE "off"]
    /\ todo = [l \in Loop |-> {}]
    /\ call = [c \in Caller |-> NoCall]
    /\ resize = [r \in Resizer |-> NoCall]
    /\ control = [at |-> "none", restart |-> FALSE]
    /\ budget = Budget /\ orphaned = {}

-----------------------------------------------------------------------------
(* The scheduling thread.                                                  *)

IntervalPasses(d) ==
    /\ d \notin due
    /\ due' = due \cup {d}
    /\ UNCHANGED <<queued, started, stop, pools, threads, budget, orphaned>>

\* A pass judges by the time it started at.
PassStart(l) ==
    /\ loop[l] = "wait" /\ ~stop
    /\ loop' = [loop EXCEPT ![l] = "pass"]
    /\ todo' = [todo EXCEPT ![l] = due]
    /\ UNCHANGED <<markers, pools, call, resize, control, budget, orphaned>>

\* Mutant: a poll that is only queued is overlooked.
OnPoolStarted(d) == d \in started
\* The test of _submit, under the lock: a poll of d is queued or running.
OnPool(d) == d \in queued \cup started

\* The device has had its turn, whether it is put on the pool, is still there
\* (an overrun), or another pass has been faster.
Consider(l, d) ==
    /\ loop[l] = "pass" /\ call[l] = NoCall /\ d \in todo[l]
    /\ todo' = [todo EXCEPT ![l] = @ \ {d}]
    /\ due' = due \ {d}
    /\ IF d \in due /\ ~OnPool(d)
         THEN /\ queued' = queued \cup {d}
              /\ call' = [call EXCEPT ![l] = [at |-> "marked", dev |-> d]]
         ELSE UNCHANGED <<queued, call>>
    /\ UNCHANGED <<started, stop, pools, loop, resize, control, budget, orphaned>>

PassDone(l) ==
    /\ loop[l] = "pass" /\ call[l] = NoCall /\ todo[l] = {}
    /\ loop' = [loop EXCEPT ![l] = "wait"]
    /\ UNCHANGED <<markers, pools, todo, call, resize, control, budget, orphaned>>

\* A pass that raises is logged; what it had not reached waits for the next.
PassRaises(l) ==
    /\ loop[l] = "pass" /\ call[l] = NoCall
    /\ Spend("fault")
    /\ loop' = [loop EXCEPT ![l] = "wait"]
    /\ todo' = [todo EXCEPT ![l] = {}]
    /\ UNCHANGED <<markers, pools, call, resize, control, orphaned>>

LoopEnds(l) ==
    /\ loop[l] = "wait" /\ stop
    /\ loop' = [loop EXCEPT ![l] = "off"]
    /\ UNCHANGED <<markers, pools, todo, call, resize, control, budget, orphaned>>

PollNow(d) ==
    /\ call[Web] = NoCall /\ ~OnPool(d)
    /\ Spend("click")
    /\ queued' = queued \cup {d}
    /\ call' = [call EXCEPT ![Web] = [at |-> "marked", dev |-> d]]
    /\ UNCHANGED <<due, started, stop, pools, loop, todo, resize, control, orphaned>>

\* The rest of _submit, outside the lock: look up the pool, ...
LookUp(c) ==
    /\ call[c].at = "marked"
    /\ call' = [call EXCEPT ![c] = [at |-> "found", dev |-> @.dev, pool |-> executor]]
    /\ UNCHANGED <<markers, pools, loop, todo, resize, control, budget, orphaned>>

\* ... and hand the poll over ...
Hand(c) ==
    /\ call[c].at = "found" /\ call[c].pool \in open
    /\ waiting' = [waiting EXCEPT ![call[c].pool] = Append(@, call[c].dev)]
    /\ call' = [call EXCEPT ![c] = NoCall]
    /\ UNCHANGED <<markers, executor, made, open, work, draining, loop, todo,
                   resize, control, budget, orphaned>>

\* Mutant: the marker stays when the pool refuses.
KeptMarker(d) == queued
\* The marker is taken back when the pool refuses.
WithoutMarker(d) == queued \ {d}

\* ... unless it has shut down.
Refused(c) ==
    /\ call[c].at = "found" /\ call[c].pool \notin open
    /\ queued' = WithoutMarker(call[c].dev)
    /\ call' = [call EXCEPT ![c] = NoCall]
    /\ UNCHANGED <<due, started, stop, pools, loop, todo, resize, control,
                   budget, orphaned>>

-----------------------------------------------------------------------------
(* The worker threads. A pool that was shut down without cancelling works  *)
(* off what it has; its threads are interchangeable.                       *)

FirstFree(p) == {w \in Worker : work[p][w] = Free /\ \A v \in 1..(w-1) : work[p][v] # Free}

Take(p) ==
    /\ waiting[p] # <<>>
    /\ \E w \in FirstFree(p) :
          work' = [work EXCEPT ![p][w] = [at |-> "taken", dev |-> Head(waiting[p])]]
    /\ waiting' = [waiting EXCEPT ![p] = Tail(@)]
    /\ UNCHANGED <<markers, executor, made, open, draining, threads, budget, orphaned>>

RunOne(p, w) ==
    /\ work[p][w].at = "taken"
    /\ work' = [work EXCEPT ![p][w].at = "polling"]
    /\ queued' = queued \ {work[p][w].dev}
    /\ started' = started \cup {work[p][w].dev}
    /\ UNCHANGED <<due, stop, executor, made, open, waiting, draining, threads,
                   budget, orphaned>>

\* A poll ends, well or not, within its timeouts.
PollEnds(p, w) ==
    /\ work[p][w].at = "polling"
    /\ work' = [work EXCEPT ![p][w] = Free]
    /\ started' = started \ {work[p][w].dev}
    /\ UNCHANGED <<due, queued, stop, executor, made, open, waiting, draining,
                   threads, budget, orphaned>>

-----------------------------------------------------------------------------
(* _apply_pool_size.                                                       *)

ReadPrevious(r) ==
    /\ resize[r] = NoCall /\ ~stop
    /\ Spend("resize")
    /\ resize' = [resize EXCEPT ![r] = [at |-> "read", previous |-> executor]]
    /\ UNCHANGED <<markers, pools, loop, todo, call, control, orphaned>>

NewPool ==
    /\ made' = made + 1
    /\ executor' = made + 1
    /\ open' = open \cup {made + 1}
    /\ UNCHANGED <<waiting, work, draining>>

Swap(r) ==
    /\ resize[r].at = "read"
    /\ NewPool
    /\ resize' = [resize EXCEPT ![r].at = "swapped"]
    /\ UNCHANGED <<markers, loop, todo, call, control, budget, orphaned>>

\* Mutant: the attribute is read again instead of the local variable.
CurrentPool(r) == executor
\* The pool that was current when the call began.
Previous(r) == resize[r].previous

\* shutdown(wait=False): no new work, but what waits is worked off.
ShutPrevious(r) ==
    /\ resize[r].at = "swapped"
    /\ open' = open \ {Previous(r)}
    /\ resize' = [resize EXCEPT ![r].at = "shut"]
    /\ UNCHANGED <<markers, executor, made, waiting, work, draining, loop, todo,
                   call, control, budget, orphaned>>

KeepDraining(r) ==
    /\ resize[r].at = "shut"
    /\ draining' = draining \cup {Previous(r)}
    /\ resize' = [resize EXCEPT ![r] = NoCall]
    /\ UNCHANGED <<markers, executor, made, open, waiting, work, loop, todo,
                   call, control, budget, orphaned>>

-----------------------------------------------------------------------------
(* stop(), and start(), which begins with a stop().                        *)

Cancelled(S) == [p \in Pool |-> IF p \in S THEN <<>> ELSE waiting[p]]

AskStop ==
    /\ control.at = "none"
    /\ Spend("control")
    /\ stop' = TRUE
    /\ \E again \in BOOLEAN : control' = [at |-> "asked", restart |-> again]
    /\ UNCHANGED <<due, queued, started, pools, loop, todo, call, resize, orphaned>>

\* The current pool is shut down and what waits in it cancelled.
CancelCurrent ==
    /\ control.at = "asked"
    /\ open' = open \ {executor}
    /\ waiting' = Cancelled({executor})
    /\ control' = [control EXCEPT !.at = "cancelled"]
    /\ UNCHANGED <<markers, executor, made, work, draining, loop, todo, call,
                   resize, budget, orphaned>>

\* The devices whose poll is on its way to a worker: behind a call of
\* _submit, waiting in a pool that is not cancelled, or with a worker that
\* has not entered _run_one.
OnTheWay(queues) ==
    {d \in Device :
        \/ \E c \in Caller : call[c] # NoCall /\ call[c].dev = d
        \/ \E p \in Pool : \E i \in 1..Len(queues[p]) : queues[p][i] = d
        \/ \E p \in Pool : \E w \in Worker : work[p][w] = [at |-> "taken", dev |-> d]}

\* Mutant: the markers of cancelled polls stay.
MarkersKept == queued
\* What is left of _queued.
MarkersLeft == {}

\* Under the lock: so are the pools left to drain, and the markers go, since
\* a cancelled poll never reaches _run_one.
ClearMarkers ==
    /\ control.at = "cancelled"
    /\ open' = open \ draining
    /\ waiting' = Cancelled(draining)
    /\ draining' = {}
    /\ queued' = MarkersLeft
    /\ orphaned' = orphaned \cup OnTheWay(waiting')
    /\ control' = [control EXCEPT !.at = "joining"]
    /\ UNCHANGED <<due, started, stop, executor, made, work, loop, todo, call,
                   resize, budget>>

\* _join gives up after two seconds, so the pass may still be running.
Stopped ==
    /\ control.at = "joining" /\ ~control.restart
    /\ control' = [control EXCEPT !.at = "none"]
    /\ UNCHANGED <<markers, pools, loop, todo, call, resize, budget, orphaned>>

Start ==
    /\ control.at = "joining" /\ control.restart
    /\ stop' = FALSE
    /\ NewPool
    /\ \E l \in Loop :
          /\ loop[l] = "off" /\ \A k \in 1..(l-1) : loop[k] # "off"
          /\ loop' = [loop EXCEPT ![l] = "wait"]
    /\ control' = [control EXCEPT !.at = "none"]
    /\ UNCHANGED <<due, queued, started, todo, call, resize, budget, orphaned>>

-----------------------------------------------------------------------------
Scheduling(l) ==
    \/ PassStart(l) \/ PassDone(l) \/ LoopEnds(l)
    \/ \E d \in Device : Consider(l, d)
Submitting(c) == LookUp(c) \/ Hand(c) \/ Refused(c)
Working(p) == Take(p) \/ \E w \in Worker : RunOne(p, w) \/ PollEnds(p, w)
Resizing(r) == Swap(r) \/ ShutPrevious(r) \/ KeepDraining(r)
Controlling == CancelCurrent \/ ClearMarkers \/ Stopped \/ Start

Next ==
    \/ \E l \in Loop : Scheduling(l) \/ PassRaises(l)
    \/ \E c \in Caller : Submitting(c)
    \/ \E p \in Pool : Working(p)
    \/ \E r \in Resizer : Resizing(r) \/ ReadPrevious(r)
    \/ \E d \in Device : IntervalPasses(d) \/ PollNow(d)
    \/ AskStop \/ Controlling

Spec == Init /\ [][Next]_vars

\* Threads go on, polls end and intervals pass. A worker thread is a fair
\* process of its own; the loop's turn for one device is as fair as a pass.
FairSpec ==
    /\ Spec
    /\ \A l \in Loop : WF_vars(Scheduling(l))
    /\ \A c \in Caller : WF_vars(Submitting(c))
    /\ \A p \in Pool : WF_vars(Take(p))
    /\ \A p \in Pool, w \in Worker : WF_vars(RunOne(p, w) \/ PollEnds(p, w))
    /\ \A r \in Resizer : WF_vars(Resizing(r))
    /\ \A d \in Device : WF_vars(IntervalPasses(d))
    /\ WF_vars(Controlling)

-----------------------------------------------------------------------------
Doing == {Free} \cup [at : {"taken", "polling"}, dev : Device]

\* The values each variable ranges over; the current pool is never one of
\* those left to drain.
TypeOK ==
    /\ executor \notin draining
    /\ due \subseteq Device /\ queued \subseteq Device /\ started \subseteq Device
    /\ stop \in BOOLEAN /\ made \in Pool /\ executor \in 1..made
    /\ open \subseteq 1..made /\ draining \subseteq 1..made
    /\ waiting \in [Pool -> Seq(Device)]
    /\ work \in [Pool -> [Worker -> Doing]]
    /\ loop \in [Loop -> {"off", "wait", "pass"}]
    /\ todo \in [Loop -> SUBSET Device]
    /\ call \in [Caller -> {NoCall} \cup [at : {"marked"}, dev : Device]
                             \cup [at : {"found"}, dev : Device, pool : Pool]]
    /\ resize \in [Resizer -> {NoCall}
                     \cup [at : {"read", "swapped", "shut"}, previous : Pool]]
    /\ control \in [at : {"none", "asked", "cancelled", "joining"}, restart : BOOLEAN]
    /\ budget \in [Disturbance -> Nat] /\ orphaned \subseteq Device

Polling(d) ==
    {x \in Pool \X Worker : work[x[1]][x[2]] = [at |-> "polling", dev |-> d]}

\* No device is marked for ever, which would keep it from being polled: a
\* started one has a worker, a queued one a poll on its way to a worker,
\* except while a stop has cancelled the polls and not yet cleared the
\* markers (begin_stop, _submit, _run_one).
MarkerMeansPoll ==
    /\ \A d \in started : Polling(d) # {}
    /\ queued \subseteq OnTheWay(waiting) \/ control.at = "cancelled"

\* Two polls of one device never run at once, however clicks, passes and
\* resizes interleave, unless a stop cleared the marker of a poll that was
\* still on its way (_submit, _run_one, _apply_pool_size).
OnePollUnlessOrphaned ==
    \A d \in Device \ orphaned : Cardinality(Polling(d)) <= 1

\* A poller that is not stopped for good polls every device again and again,
\* whatever clicks, resizes, restarts and failed passes there were.
EveryDevicePolled ==
    \A d \in Device : <>[](~stop) => []<>(Polling(d) # {})
=============================================================================
