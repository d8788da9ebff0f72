---------------------------- MODULE AlertOutage ----------------------------
(***************************************************************************)
(* One tick of the alert engine (netpath/alertengine.py) over the two      *)
(* rules that decide what an operator sees of an outage: "device_down",    *)
(* driven by the poller's transition events, and one metric rule it rolls  *)
(* up ("loss", standing for every threshold child in ROLLED_UP_BY).        *)
(*                                                                         *)
(* Three actors share the stores.  The poller writes a device's status in  *)
(* one commit and the event for the transition in a second one.  Operators *)
(* resolve, mute and unmute through the web API.  The engine thread reads  *)
(* both through snapshots and memos taken at different moments of its tick *)
(* and commits every alert row on its own, so a crash or an exception may  *)
(* fall between any two of its steps.                                      *)
(***************************************************************************)
EXTENDS Integers, Sequences, FiniteSets

CONSTANTS
    Device,   \* the polled devices
    Above,    \* Above[d]: the devices upstream of d to begin with
    Topology, \* what operators may make of that
    Budget    \* bound: how often each kind of outside event may happen

Disturbance == {"transition", "sample", "resolve", "mute", "rewire", "crash", "fault"}

\* The upstream pointers form a forest, which the API sees to
\* (_find_upstream_cycle): the set above a device is a chain.
Forest(t) ==
    /\ t \in [Device -> SUBSET Device]
    /\ \A d \in Device : d \notin t[d]
    /\ \A d \in Device : \A a \in t[d] : t[a] \subseteq t[d]
    /\ \A d \in Device : \A a, b \in t[d] : a = b \/ a \in t[b] \/ b \in t[a]

ASSUME DeviceAssumption == IsFiniteSet(Device)
ASSUME TopologyAssumption == Above \in Topology /\ \A t \in Topology : Forest(t)
ASSUME BoundAssumption == Budget \in [Disturbance -> Nat]

\* A row of device_events, and an occurrence a stage of the tick produced.
\* from: "event" and "metric" are subject to the new-device hold, "upstream"
\* and "held" are marked replayed and are not.
Event      == [dev : Device, kind : {"down", "up", "unsupported"}]
Occurrence == [dev : Device, kind : {"down", "loss"},
               from : {"event", "upstream", "held", "metric"}]

VARIABLES
    (* the poller and nodes.db *)
    status,     \* devices.status
    owed,       \* the transition whose event is not written yet, per device
    lossy,      \* the devices whose stored loss metric is in breach
    young,      \* the devices within their new-device grace period
    above,      \* above[d]: the devices upstream of d (upstream_chain)
    log,        \* device_events past the engine's cursor
    (* alerts.db *)
    muted,      \* the devices an operator has silenced
    pending,    \* the devices with a parked outage in pending_alerts
    outage,     \* the devices with an active device_down row
    loss,       \* the devices with an active row of the metric rule
    handDown,   \* the device_down keys resolved by hand within the window
    (* the engine, in memory *)
    pc,
    snap,       \* _operator_resolves
    todo,       \* the event rows this tick read and has not drained yet
    adv,        \* _cursor_advances: rows of log to move past at the flush
    batch,      \* the occurrences still to apply
    quiet,      \* quiet_device_ids, read once per tick
    covers,     \* _parent_covers, the only part that outlives a tick
    cache,      \* _upstream_outage_cache
    memo,       \* _parent_conditions
    sweep,      \* the devices whose outage a just-opened one has to absorb
    (* history, read by no action *)
    budget,     \* disturbances left
    told,       \* outages an operator resolved by hand, until the next "up"
    lost,       \* devices whose last "up" or "down" was dropped: by a mute,
                \*   by a crash or by an exception
    raced,      \* devices whose last batch held a "down" before an "up"
    torn,       \* devices whose own row was opened and its children kept
    moved,      \* devices whose upstream changed while they were down, until
                \*   their recovery is drained
    stranded    \* devices that were down behind one when it went from "down"
                \*   to "unsupported", until a recovery reports them again

nodesVars  == <<status, owed, lossy, young, above>>
alertVars  == <<muted, pending, handDown>>
tickVars   == <<snap, todo, adv, quiet>>
memoVars   == <<covers, cache, memo>>
ghosts     == <<told, lost, raced, torn, moved, stranded>>
vars == <<nodesVars, log, alertVars, outage, loss, pc, tickVars, batch,
          memoVars, sweep, budget, ghosts>>

-----------------------------------------------------------------------------
\* Mutant: the walk down the tree returns the device it started from.
SelfAndBelow(d) == {e \in Device : d \in above[e]} \cup {d}

\* downstream_ids, the inverse of upstream_chain.
Below(d) == {e \in Device : d \in above[e]}

\* What _replay_downstream_outages asks for: the devices behind d that are down.
StillDownBelow(d) == {e \in Below(d) : status[e] = "down"}

Fresh == [d \in Device |-> "unread"]

Init ==
    /\ status = [d \in Device |-> "up"]
    /\ owed = [d \in Device |-> "none"]
    /\ lossy = {} /\ muted = {} /\ pending = {} /\ outage = {} /\ loss = {}
    /\ young \in SUBSET Device /\ above = Above
    /\ log = <<>> /\ todo = <<>> /\ batch = <<>>
    /\ pc = "idle" /\ adv = 0
    /\ handDown = {} /\ snap = {} /\ quiet = {} /\ covers = {} /\ sweep = {}
    /\ cache = Fresh /\ memo = Fresh
    /\ budget = Budget
    /\ told = {} /\ lost = {} /\ raced = {} /\ torn = {} /\ moved = {}
    /\ stranded = {}

StillTorn == torn' = torn \cap outage' \cap loss'
Spend(k) == budget[k] > 0 /\ budget' = [budget EXCEPT ![k] = @ - 1]

-----------------------------------------------------------------------------
(* The poller. record_poll commits the new status; the event follows in a  *)
(* commit of its own, and the device is not polled again before it. A poll *)
(* that fails too seldom for "down" leaves "up" and "down" as they are and *)
(* makes "unknown" of any other status, of which there is no event.        *)

Verdicts(d) == {"up", "down", "unsupported"}
                   \cup (IF status[d] = "unsupported" THEN {"unknown"} ELSE {})

PollStatus(d) ==
    /\ owed[d] = "none"
    /\ Spend("transition")
    /\ \E s \in Verdicts(d) \ {status[d]} :
          /\ status' = [status EXCEPT ![d] = s]
          /\ owed' = [owed EXCEPT ![d] = IF s = "unknown" THEN "none" ELSE s]
          /\ stranded' = IF status[d] = "down" /\ s = "unsupported"
                           THEN stranded \cup StillDownBelow(d) ELSE stranded
    /\ UNCHANGED <<lossy, young, above, log, alertVars, outage, loss, pc, tickVars,
                   batch, memoVars, sweep, told, lost, raced, torn, moved>>

PollEvent(d) ==
    /\ owed[d] # "none"
    /\ log' = Append(log, [dev |-> d, kind |-> owed[d]])
    /\ owed' = [owed EXCEPT ![d] = "none"]
    /\ IF owed[d] = "unsupported"
         THEN UNCHANGED <<lost, stranded>>
         ELSE lost' = lost \ {d} /\ stranded' = stranded \ {d}
    /\ UNCHANGED <<status, lossy, young, above, alertVars, outage, loss, pc,
                   tickVars, batch, memoVars, sweep, budget, told, raced, torn, moved>>

\* The loss sample is flushed after both, so it may lag the status.
PollSample(d) ==
    /\ Spend("sample")
    /\ lossy' = IF d \in lossy THEN lossy \ {d} ELSE lossy \cup {d}
    /\ UNCHANGED <<status, owed, young, above, log, alertVars, outage, loss, pc,
                   tickVars, batch, memoVars, sweep, ghosts>>

LeaveGrace(d) ==
    /\ d \in young
    /\ young' = young \ {d}
    /\ UNCHANGED <<status, owed, lossy, above, log, alertVars, outage, loss, pc,
                   tickVars, batch, memoVars, sweep, budget, ghosts>>

-----------------------------------------------------------------------------
(* Operators, and the seven-day window over their resolves.                *)

ResolveByHand(d) ==
    /\ d \in outage
    /\ Spend("resolve")
    /\ outage' = outage \ {d}
    /\ handDown' = handDown \cup {d}
    /\ told' = told \cup {d}
    /\ UNCHANGED loss /\ StillTorn
    /\ UNCHANGED <<nodesVars, log, muted, pending, pc, tickVars, batch,
                   memoVars, sweep, lost, raced, moved, stranded>>

ResolveWindowEnds(d) ==
    /\ d \in handDown
    /\ handDown' = handDown \ {d}
    /\ UNCHANGED <<nodesVars, log, muted, pending, outage, loss, pc, tickVars,
                   batch, memoVars, sweep, budget, ghosts>>

Mute(d) ==
    /\ d \notin muted
    /\ Spend("mute")
    /\ muted' = muted \cup {d}
    /\ UNCHANGED <<nodesVars, log, pending, handDown, outage, loss, pc,
                   tickVars, batch, memoVars, sweep, ghosts>>

Unmute(d) ==
    /\ d \in muted
    /\ muted' = muted \ {d}
    /\ UNCHANGED <<nodesVars, log, pending, handDown, outage, loss, pc,
                   tickVars, batch, memoVars, sweep, budget, ghosts>>

\* set_upstream_ids: one transaction, and no word to the engine.
Rewire ==
    /\ Spend("rewire")
    /\ above' \in Topology
    /\ moved' = moved \cup {d \in Device : /\ above'[d] # above[d]
                                           /\ status[d] = "down" \/ d \in outage}
    /\ UNCHANGED <<status, owed, lossy, young, log, alertVars, outage, loss, pc,
                   tickVars, batch, memoVars, sweep, told, lost, raced, torn,
                   stranded>>

-----------------------------------------------------------------------------
(* The tick: snapshot, drain, thresholds, held occurrences, gates, apply.  *)

\* What _tick clears at its top is cleared here when a tick ends: nothing
\* reads it in between, and idle states that behave alike are then equal.
ForgetTick ==
    /\ snap' = {} /\ todo' = <<>> /\ adv' = 0 /\ quiet' = {}
    /\ cache' = Fresh /\ memo' = Fresh
    /\ batch' = <<>> /\ sweep' = {}
    /\ pc' = "idle"

TickStart ==
    /\ pc = "idle"
    /\ snap' = handDown
    /\ pc' = "read"
    /\ UNCHANGED <<nodesVars, log, alertVars, outage, loss, todo, adv, quiet,
                   batch, memoVars, sweep, budget, ghosts>>

Recovers(rows, d) == \E i \in 1..Len(rows) : rows[i] = [dev |-> d, kind |-> "up"]
DownThenUp(rows, d) ==
    \E i, j \in 1..Len(rows) :
        /\ i < j
        /\ rows[i] = [dev |-> d, kind |-> "down"]
        /\ rows[j] = [dev |-> d, kind |-> "up"]

\* Mutant: an off-by-one in the position to resume from.
RowsBeforeLast == Len(log) - 1

\* The position _drain_from moves to; it stands once every row is drained.
RowsRead == Len(log)

ReadEvents ==
    /\ pc = "read"
    /\ todo' = log
    /\ adv' = RowsRead
    /\ raced' = (raced \ {d \in Device : Recovers(log, d)})
                    \cup {d \in Device : DownThenUp(log, d)}
    /\ pc' = "drain"
    /\ UNCHANGED <<nodesVars, log, alertVars, outage, loss, snap, quiet, batch,
                   memoVars, sweep, budget, told, lost, torn, moved, stranded>>

\* Every way to list a finite set of devices.
Listings(S) == {f \in [1..Cardinality(S) -> S] : \A d \in S : \E i \in DOMAIN f : f[i] = d}
Occurrences(list, k, src) ==
    [i \in 1..Len(list) |-> [dev |-> list[i], kind |-> k, from |-> src]]

\* Mutant: the row of a muted device is left alone by the recovery as well.
ClearedUnlessMuted(d) == (outage \cap {d}) \ muted
\* Mutant: the row stays while a device behind it is down.
ClearedWhenSubtreeIsUp(d) == IF StillDownBelow(d) = {} THEN outage \cap {d} ELSE {}

\* CLEARS pairs "up" with device_down: the recovery resolves the row at once.
Cleared(d) == outage \cap {d}

DrainUp ==
    /\ pc = "drain" /\ todo # <<>>
    /\ LET d == Head(todo).dev IN
          /\ Head(todo).kind = "up"
          /\ outage' = outage \ Cleared(d)
          /\ told' = told \ {d}
          /\ moved' = moved \ {d}
          /\ stranded' = stranded \ Below(d)
          /\ \E list \in Listings(StillDownBelow(d)) :
                batch' = batch \o Occurrences(list, "down", "upstream")
    /\ todo' = Tail(todo)
    /\ UNCHANGED loss /\ StillTorn
    /\ UNCHANGED <<nodesVars, log, alertVars, pc, snap, adv, quiet,
                   memoVars, sweep, budget, lost, raced>>

DrainDown ==
    /\ pc = "drain" /\ todo # <<>>
    /\ Head(todo).kind = "down"
    /\ batch' = Append(batch, [dev |-> Head(todo).dev, kind |-> "down",
                               from |-> "event"])
    /\ todo' = Tail(todo)
    /\ UNCHANGED <<nodesVars, log, alertVars, outage, loss, pc, snap, adv,
                   quiet, memoVars, sweep, budget, ghosts>>

\* The occurrence of "unsupported" is for a rule of its own, which rolls up
\* nothing, is rolled up under nothing here and clears nothing.
DrainOther ==
    /\ pc = "drain" /\ todo # <<>>
    /\ Head(todo).kind = "unsupported"
    /\ todo' = Tail(todo)
    /\ UNCHANGED <<nodesVars, log, alertVars, outage, loss, pc, snap, adv,
                   quiet, batch, memoVars, sweep, budget, ghosts>>

DrainDone ==
    /\ pc = "drain" /\ todo = <<>>
    /\ pc' = "thresholds"
    /\ UNCHANGED <<nodesVars, log, alertVars, outage, loss, tickVars, batch,
                   memoVars, sweep, budget, ghosts>>

\* _stage swallows the exception: the stage hands over nothing, the cursor
\* stays, and what the rows drained so far resolved stays resolved.
DrainRaises ==
    /\ pc = "drain"
    /\ Spend("fault")
    /\ batch' = <<>> /\ todo' = <<>> /\ adv' = 0
    /\ pc' = "thresholds"
    /\ UNCHANGED <<nodesVars, log, alertVars, outage, loss, snap, quiet,
                   memoVars, sweep, ghosts>>

\* Every breaching device yields an occurrence, every row whose metric has
\* recovered is resolved.
EvaluateThresholds ==
    /\ pc = "thresholds"
    /\ loss' = loss \cap lossy /\ UNCHANGED outage
    /\ \E list \in Listings(lossy) :
          batch' = batch \o Occurrences(list, "loss", "metric")
    /\ pc' = "rules"
    /\ StillTorn
    /\ UNCHANGED <<nodesVars, log, alertVars, tickVars, memoVars, sweep,
                   budget, told, lost, raced, moved, stranded>>

\* Mutant: the cursor is committed while draining, before the apply loop.
RulesRaiseAfterCommit ==
    /\ pc = "rules"
    /\ Spend("fault")
    /\ log' = SubSeq(log, adv + 1, Len(log))
    /\ ForgetTick
    /\ UNCHANGED <<nodesVars, alertVars, outage, loss, covers, ghosts>>

\* db.rules() is read outside any stage: an exception ends the tick, and the
\* rows are drained again by the next one.
RulesRaise ==
    /\ pc = "rules"
    /\ Spend("fault")
    /\ ForgetTick
    /\ UNCHANGED <<nodesVars, log, alertVars, outage, loss, covers, ghosts>>

\* Mutant: the comparison with fire_after_ts is turned round.
DueTooEarly == pending \cap young

\* due_occurrences: the parked rows whose hold has run out.
Due == pending \ young

\* The row is dropped first; the occurrence returns if the device is still
\* down (_still_true), and is forgotten if it answered within the hold.
DrainPending ==
    /\ pc = "rules"
    /\ pending' = pending \ Due
    /\ \E list \in Listings({d \in Due : status[d] = "down"}) :
          batch' = batch \o Occurrences(list, "down", "held")
    /\ pc' = "mutes"
    /\ UNCHANGED <<nodesVars, log, muted, handDown, outage, loss, tickVars,
                   memoVars, sweep, budget, ghosts>>

ReadMutes ==
    /\ pc = "mutes"
    /\ quiet' = muted
    /\ pc' = "apply"
    /\ UNCHANGED <<nodesVars, log, alertVars, outage, loss, snap, todo, adv,
                   batch, memoVars, sweep, budget, ghosts>>

\* So are the mutes; by now the held occurrences are out of the store.
HeldInBatch == {batch[i].dev : i \in {j \in 1..Len(batch) : batch[j].from = "held"}}

MutesRaise ==
    /\ pc = "mutes"
    /\ Spend("fault")
    /\ lost' = lost \cup HeldInBatch
    /\ ForgetTick
    /\ UNCHANGED <<nodesVars, log, alertVars, outage, loss, covers, told, raced,
                   torn, moved, stranded>>

-----------------------------------------------------------------------------
(* The gates of one occurrence: _hold_for_new_device, then _muted.         *)

Held(o) == o.from \in {"event", "metric"} /\ o.dev \in young
Gated(o) == Held(o) \/ o.dev \in quiet

Hold ==
    /\ pc = "apply" /\ batch # <<>>
    /\ Held(Head(batch))
    /\ pending' = IF Head(batch).kind = "down"
                    THEN pending \cup {Head(batch).dev} ELSE pending
    /\ batch' = Tail(batch)
    /\ UNCHANGED <<nodesVars, log, muted, handDown, outage, loss, pc, tickVars,
                   memoVars, sweep, budget, ghosts>>

Silence ==
    /\ pc = "apply" /\ batch # <<>>
    /\ ~Held(Head(batch)) /\ Head(batch).dev \in quiet
    /\ batch' = Tail(batch)
    /\ lost' = IF Head(batch).kind = "down" THEN lost \cup {Head(batch).dev} ELSE lost
    /\ UNCHANGED <<nodesVars, log, alertVars, outage, loss, pc, tickVars,
                   memoVars, sweep, budget, told, raced, torn, moved, stranded>>

-----------------------------------------------------------------------------
(* What covers a device: _parent_still_failing and _upstream_outage.       *)

\* _still_true: whether the device was down when this tick first asked.
Standing(a) == IF status[a] = "down" THEN "down" ELSE "not down"
Seen(a) == IF memo[a] = "unread" THEN Standing(a) ELSE memo[a]
MemoAfter(S) == [a \in Device |-> IF a \in S THEN Seen(a) ELSE memo[a]]

Nearer(d, a) == {b \in above[d] : a \in above[b]}

\* The walk up the chain asks of an ancestor whether a hand resolve covers
\* what is behind it, up to the first open row or the first cover.
Claims(a) == a \in snap \cup covers
Walked(d) == {a \in above[d] : ({a} \cup Nearer(d, a)) \cap outage = {}}
Asked(d) ==
    {a \in Walked(d) :
        /\ Claims(a)
        /\ \A b \in Nearer(d, a) : ~(Claims(b) /\ Seen(b) = "down")}
Covering(d) == {a \in Asked(d) : Seen(a) = "down"}

UpstreamNow(d) ==
    IF above[d] \cap outage # {} THEN "row"
    ELSE IF Covering(d) # {} THEN "cover" ELSE "none"

\* _upstream_outage: the answer is asked once per device and tick.
Upstream(d) == IF cache[d] = "unread" THEN UpstreamNow(d) ELSE cache[d]
AskedNow(d) == IF cache[d] = "unread" THEN Asked(d) ELSE {}
CoversAfter(S) == (covers \ S) \cup {a \in S : Seen(a) = "down"}

-----------------------------------------------------------------------------
(* _apply.                                                                 *)

\* Mutants: the device's own row is not looked up; nothing is absorbed.
NeverOwnRow(d) == FALSE
NoChildRows(d) == {}

\* open_by_dedup of the device's own device_down, open or acknowledged.
OwnRow(d) == d \in outage
\* The rows _absorb_one resolves for a device.
ChildRows(d) == loss \cap {d}

Applying(k) ==
    /\ pc = "apply" /\ batch # <<>>
    /\ Head(batch).kind = k
    /\ ~Gated(Head(batch))

AskUpstream(d) ==
    /\ cache' = [cache EXCEPT ![d] = Upstream(d)]
    /\ memo' = MemoAfter(AskedNow(d))
    /\ covers' = CoversAfter(AskedNow(d))

\* An outage an ancestor covers does not open, and the device's own children
\* are resolved (_absorb_children_of).
RollUpDown ==
    /\ Applying("down")
    /\ LET d == Head(batch).dev IN
          /\ Upstream(d) # "none"
          /\ AskUpstream(d)
          /\ loss' = loss \ ChildRows(d)
    /\ batch' = Tail(batch)
    /\ UNCHANGED outage /\ StillTorn
    /\ UNCHANGED <<nodesVars, log, alertVars, pc, tickVars, sweep, budget,
                   told, lost, raced, moved, stranded>>

\* A second occurrence of an active row only counts up; a new row goes on to
\* absorb what it implies.
OpenDown ==
    /\ Applying("down")
    /\ LET d == Head(batch).dev IN
          /\ Upstream(d) = "none"
          /\ AskUpstream(d)
          /\ outage' = outage \cup {d}
          /\ IF d \in outage
               THEN batch' = Tail(batch) /\ UNCHANGED pc
               ELSE pc' = "children" /\ UNCHANGED batch
    /\ UNCHANGED <<nodesVars, log, alertVars, loss, tickVars, sweep, budget, ghosts>>

\* _absorb_subordinates: the device's own children, then (_absorb_downstream)
\* the outage of each device behind it together with that device's children.
AbsorbChildren ==
    /\ pc = "children"
    /\ LET d == Head(batch).dev IN
          /\ loss' = loss \ ChildRows(d)
          /\ sweep' = Below(d)
    /\ pc' = "downstream"
    /\ UNCHANGED outage /\ StillTorn
    /\ UNCHANGED <<nodesVars, log, alertVars, tickVars, batch, memoVars, budget,
                   told, lost, raced, moved, stranded>>

AbsorbDownstream(e) ==
    /\ pc = "downstream" /\ e \in sweep
    /\ outage' = outage \ {e}
    /\ loss' = IF e \in outage THEN loss \ ChildRows(e) ELSE loss
    /\ sweep' = sweep \ {e}
    /\ StillTorn
    /\ UNCHANGED <<nodesVars, log, alertVars, pc, tickVars, batch, memoVars,
                   budget, told, lost, raced, moved, stranded>>

AbsorbDone ==
    /\ pc = "downstream" /\ sweep = {}
    /\ pc' = "apply"
    /\ batch' = Tail(batch)
    /\ UNCHANGED <<nodesVars, log, alertVars, outage, loss, tickVars, memoVars,
                   sweep, budget, ghosts>>

\* A metric alert is dropped under the device's own row, ...
RollUpLoss ==
    /\ Applying("loss")
    /\ OwnRow(Head(batch).dev)
    /\ batch' = Tail(batch)
    /\ UNCHANGED <<nodesVars, log, alertVars, outage, loss, pc, tickVars,
                   memoVars, sweep, budget, ghosts>>

\* ... under an ancestor's outage, ...
SuppressLoss ==
    /\ Applying("loss")
    /\ LET d == Head(batch).dev IN
          /\ ~OwnRow(d)
          /\ Upstream(d) # "none"
          /\ AskUpstream(d)
    /\ batch' = Tail(batch)
    /\ UNCHANGED <<nodesVars, log, alertVars, outage, loss, pc, tickVars,
                   sweep, budget, ghosts>>

\* ... or under a hand resolve of its own outage while it is still down
\* (_parent_operator_resolved); it opens otherwise.
OwnCoverOrOpen ==
    /\ Applying("loss")
    /\ LET d == Head(batch).dev
           asked == AskedNow(d) \cup (IF Claims(d) THEN {d} ELSE {})
       IN /\ ~OwnRow(d)
          /\ Upstream(d) = "none"
          /\ cache' = [cache EXCEPT ![d] = "none"]
          /\ memo' = MemoAfter(asked)
          /\ covers' = CoversAfter(asked)
          /\ loss' = IF Claims(d) /\ Seen(d) = "down" THEN loss ELSE loss \cup {d}
    /\ batch' = Tail(batch)
    /\ UNCHANGED <<nodesVars, log, alertVars, outage, pc, tickVars, sweep,
                   budget, ghosts>>

\* An exception in the apply of one occurrence is logged and the occurrence
\* skipped; what it committed so far stays.
Interrupted == IF pc = "children" THEN {Head(batch).dev} \cap loss ELSE {}

ApplyRaises ==
    /\ pc \in {"apply", "children", "downstream"} /\ batch # <<>>
    /\ Spend("fault")
    /\ pc' = "apply"
    /\ batch' = Tail(batch)
    /\ sweep' = {}
    /\ torn' = torn \cup Interrupted
    /\ lost' = IF pc = "apply" /\ Head(batch).kind = "down"
                 THEN lost \cup {Head(batch).dev} ELSE lost
    /\ UNCHANGED <<nodesVars, log, alertVars, outage, loss, tickVars, memoVars,
                   told, raced, moved, stranded>>

FlushCursors ==
    /\ pc = "apply" /\ batch = <<>>
    /\ log' = SubSeq(log, adv + 1, Len(log))
    /\ ForgetTick
    /\ UNCHANGED <<nodesVars, alertVars, outage, loss, covers, budget, ghosts>>

\* The process dies with everything it held in memory.
Crash ==
    /\ Spend("crash")
    /\ owed' = [d \in Device |-> "none"]
    /\ covers' = {}
    /\ ForgetTick
    /\ lost' = lost \cup {d \in Device : owed[d] # "none"} \cup HeldInBatch
    /\ torn' = torn \cup Interrupted
    /\ UNCHANGED <<status, lossy, young, above, log, alertVars, outage, loss, told,
                   raced, moved, stranded>>

-----------------------------------------------------------------------------
Tick ==
    \/ TickStart \/ ReadEvents \/ DrainUp \/ DrainDown \/ DrainOther \/ DrainDone
    \/ EvaluateThresholds \/ DrainPending \/ ReadMutes
    \/ Hold \/ Silence \/ RollUpDown \/ OpenDown \/ AbsorbChildren
    \/ \E e \in Device : AbsorbDownstream(e)
    \/ AbsorbDone \/ RollUpLoss \/ SuppressLoss \/ OwnCoverOrOpen \/ FlushCursors
Fault == DrainRaises \/ RulesRaise \/ MutesRaise \/ ApplyRaises \/ Crash
Poller(d) == PollStatus(d) \/ PollEvent(d) \/ PollSample(d) \/ LeaveGrace(d)
Operator(d) == ResolveByHand(d) \/ ResolveWindowEnds(d) \/ Mute(d) \/ Unmute(d)

Next == Tick \/ Fault \/ Rewire \/ \E d \in Device : Poller(d) \/ Operator(d)

Spec == Init /\ [][Next]_vars

\* The engine thread ticks for ever, a poll that changed a status goes on to
\* write its event, and time passes. Nothing makes a device fail or an
\* operator act.
Fairness ==
    /\ WF_vars(Tick)
    /\ \A d \in Device : WF_vars(PollEvent(d)) /\ WF_vars(LeaveGrace(d))
FairSpec == Spec /\ Fairness

-----------------------------------------------------------------------------
\* The values each variable ranges over (the columns and fields named above).
TypeOK ==
    /\ status \in [Device -> {"up", "down", "unsupported", "unknown"}]
    /\ owed \in [Device -> {"none", "up", "down", "unsupported"}]
    /\ log \in Seq(Event) /\ todo \in Seq(Event) /\ batch \in Seq(Occurrence)
    /\ pc \in {"idle", "read", "drain", "thresholds", "rules", "mutes",
               "apply", "children", "downstream"}
    /\ adv \in Nat
    /\ cache \in [Device -> {"unread", "row", "cover", "none"}]
    /\ memo \in [Device -> {"unread", "down", "not down"}]
    /\ budget \in [Disturbance -> Nat] /\ above \in Topology
    /\ lossy \subseteq Device /\ young \subseteq Device /\ muted \subseteq Device
    /\ pending \subseteq Device /\ outage \subseteq Device /\ loss \subseteq Device
    /\ handDown \subseteq Device /\ snap \subseteq Device /\ quiet \subseteq Device
    /\ covers \subseteq Device /\ sweep \subseteq Device /\ told \subseteq Device
    /\ lost \subseteq Device /\ raced \subseteq Device /\ torn \subseteq Device
    /\ moved \subseteq Device /\ stranded \subseteq Device

\* One row for one outage: while a device's own outage is active none of its
\* metric rows is (alertengine._absorb_subordinates, _rollup_parent), except
\* between the two commits that open the one and resolve the other, and after
\* an exception or a crash fell between them.
OwnOutageSilencesLoss ==
    \A d \in outage \cap loss :
        d \in torn \/ (pc = "children" /\ d = Head(batch).dev)

\* Nothing is left for the engine to read.
Settled ==
    /\ pc = "idle" /\ log = <<>> /\ pending = {}
    /\ \A d \in Device : owed[d] = "none"

\* An outage an operator can account for: the device or one upstream of it is
\* down and its row is active, or was resolved by hand.
Visible(d) == \E a \in {d} \cup above[d] : status[a] = "down" /\ a \in outage \cup told
Dropped(d) == ({d} \cup above[d]) \cap (lost \cup moved) # {}

\* A device that is not down and whose outage still stands: it is up, and one
\* batch held its "down" before its "up", or it is "unsupported" or "unknown",
\* of which no recovery tells the engine. What hides behind one, and what was
\* down behind a device when it became "unsupported" and had no row yet.
Ended(a) ==
    \/ status[a] = "up" /\ a \in raced
    \/ status[a] \in {"unsupported", "unknown"}
LeftOpen(a) == a \in outage \cup told /\ Ended(a)
Shadowed(d) ==
    \/ \E a \in above[d] : LeftOpen(a)
    \/ ({d} \cup above[d]) \cap stranded # {}

\* Suppression never swallows an outage: once the engine has caught up, every
\* device that is down is visible, however resolves, roll-ups, recoveries of
\* upstream devices, holds and retried ticks interleaved; what is missing is
\* a transition that a mute or a failure discarded, what hides behind a row
\* left on a device that is not down or behind one that became "unsupported"
\* with no row yet, or a device moved from behind the outage that
\* covered it and what it in turn covers: no event tells the engine of a new
\* upstream. (_replay_downstream_outages, _absorb_downstream, _parent_covers,
\* _drain_pending.)
OutageAccounted ==
    Settled => \A d \in Device :
                   status[d] = "down" => Visible(d) \/ Dropped(d) \/ Shadowed(d)

\* A recovery ends the outage: once the engine has caught up, a device that
\* is up has no active device_down row, unless one batch held its "down"
\* before its "up" (the resolve happens while draining, the opening after).
\* "unsupported" is no recovery, and leaves the row.
RecoveryClearsUnlessRaced ==
    Settled => \A d \in outage : status[d] # "up" \/ d \in raced \cup lost

\* A device_down row goes only when an operator resolves it, when the
\* device's recovery is drained, or into the outage of a device that is
\* upstream of it or was until it was moved.
OutageRowNeverVanishes ==
    [][\A d \in outage \ outage' :
          \/ d \in told'
          \/ pc = "drain" /\ Head(todo) = [dev |-> d, kind |-> "up"]
          \/ (above[d] \cap (outage \cup told)) # {}
          \/ d \in moved]_vars

\* A device that stays down and is not muted becomes visible, unless it or one
\* upstream of it was moved while down, or it hides behind a row left on a
\* device that is not down or was behind one that became "unsupported".
StillDownIsReported ==
    \A d \in Device :
        (status[d] = "down" /\ d \notin muted)
            ~> \/ status[d] # "down" \/ d \in muted \/ Visible(d)
               \/ Shadowed(d) \/ ({d} \cup above[d]) \cap moved # {}
=============================================================================
