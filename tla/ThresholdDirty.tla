-------------------------- MODULE ThresholdDirty ---------------------------
(***************************************************************************)
(* Change-driven threshold evaluation (AlertEngine._evaluate_thresholds    *)
(* and _scan_thresholds): a tick judges only the devices that a new sample *)
(* or a resolve marked dirty, and every device when a rule changed or a    *)
(* minute has passed.  One threshold rule, one metric per device.          *)
(*                                                                         *)
(* Pollers write samples and mark devices, operators edit the rule, mute   *)
(* devices and resolve alerts, other stages of the tick resolve alerts on  *)
(* their own account (roll-up), all while the engine works from snapshots  *)
(* it takes one after the other.                                           *)
(***************************************************************************)
EXTENDS Integers, FiniteSets

CONSTANTS
    Device,
    Limits,     \* the thresholds an operator may give the rule
    Values,     \* the values a metric may have
    ForPolls,   \* rule.for_polls
    MaxClock,   \* bound: samples taken
    Budget,     \* bound: how often each kind of outside event may happen
    Kinds       \* bound: how many of the kinds may happen in one behaviour

Disturbance == {"edit", "resolve", "absorb", "window", "gate", "crash",
                "fault"}

ASSUME DeviceAssumption == IsFiniteSet(Device)
ASSUME ValueAssumption == Limits \subseteq Int /\ Limits # {} /\ Values \subseteq Int
ASSUME BoundAssumption ==
    /\ ForPolls \in Nat \ {0} /\ MaxClock \in Nat /\ Kinds \in Nat
    /\ Budget \in [Disturbance -> Nat]

VARIABLES
    (* nodes.db and its in-memory dirty set *)
    clock,       \* sample time
    sample,      \* metrics.last_value and last_ts per device; ts 0: no sample
    marking,     \* devices whose sample is written and not yet marked dirty
    dirtyNodes,  \* NodesDatabase._dirty_devices
    (* alerts.db and its in-memory counters *)
    limit,       \* rule.threshold
    generation,  \* _threshold_generation
    open,        \* devices with an active row of the rule
    resolvedAt,  \* time of the last hand resolve of the key, 0 for none
    aged,        \* devices whose hand resolve is past OPERATOR_RESOLVE_WINDOW_S
    gated,       \* devices a breach is not to be opened for
    dirtyAlerts, \* AlertsDatabase._dirty_devices
    (* the engine, in memory *)
    pc,
    streaks,     \* _breach_streaks: [ts, n, first, limit]; ts 0: no entry
    seen,        \* _threshold_generation_seen
    carry,       \* _dirty_carry
    timerDue,    \* _THRESHOLD_FULL_PASS_S has passed since the last full pass
    snap,        \* _operator_resolves
    rule,        \* the rule as this tick read it
    gen,         \* the generation as this tick read it
    full,        \* this tick is a full pass
    dirty,       \* the dirty devices this tick took
    metrics,     \* the metric rows this tick read
    todo,        \* devices still to judge
    openKeys,    \* open_dedup_keys, read at most once a tick
    found,       \* breaches still to apply
    before,      \* the streaks a full pass started from
    (* bounds and history, read by no action *)
    budget,
    run,         \* devices in a breach run resolved by hand within the window
    late,        \* of those, resolved while a tick was under way
    skipped,     \* devices whose breach was lost or turned away before its row
    crossed      \* the rule changed between a tick's reads of it

nodesVars == <<clock, sample, marking, dirtyNodes>>
alertVars == <<limit, generation, open, resolvedAt, aged, gated, dirtyAlerts>>
keptVars  == <<streaks, seen, carry, timerDue>>
tickVars  == <<snap, rule, gen, full, dirty, metrics, todo, openKeys, found,
              before>>
ghosts    == <<run, late, skipped, crossed>>
vars == <<nodesVars, alertVars, pc, keptVars, tickVars, budget, ghosts>>

Unread == {"unread"}    \* openKeys before it is read
NoEntry == [ts |-> 0, n |-> 0, first |-> 0, limit |-> 0]
NoSample == [val |-> 0, ts |-> 0]

Spent == {k \in Disturbance : budget[k] # Budget[k]}

Spend(k) ==
    /\ budget[k] > 0 /\ Cardinality(Spent \cup {k}) <= Kinds
    /\ budget' = [budget EXCEPT ![k] = @ - 1]

ForgetTick ==
    /\ pc' = "idle"
    /\ snap' = [d \in Device |-> 0] /\ rule' = 0 /\ gen' = 0 /\ full' = FALSE
    /\ dirty' = {} /\ metrics' = [d \in Device |-> NoSample]
    /\ todo' = {} /\ openKeys' = Unread /\ found' = {}
    /\ before' = [d \in Device |-> NoEntry]

Init ==
    /\ clock = 0 /\ sample = [d \in Device |-> NoSample]
    /\ marking = {} /\ dirtyNodes = {} /\ dirtyAlerts = {}
    /\ limit \in Limits /\ generation = 0
    /\ open = {} /\ resolvedAt = [d \in Device |-> 0] /\ aged = {} /\ gated = {}
    /\ pc = "idle"
    /\ streaks = [d \in Device |-> NoEntry]
    /\ seen = -1 /\ carry = {} /\ timerDue = TRUE
    /\ snap = [d \in Device |-> 0] /\ rule = 0 /\ gen = 0 /\ full = FALSE
    /\ dirty = {} /\ metrics = [d \in Device |-> NoSample]
    /\ todo = {} /\ openKeys = Unread /\ found = {}
    /\ before = [d \in Device |-> NoEntry]
    /\ budget = Budget
    /\ run = {} /\ late = {} /\ skipped = {} /\ crossed = FALSE

-----------------------------------------------------------------------------
(* Pollers: the sample is committed, then the device is marked.            *)

WriteSample(d) ==
    /\ clock < MaxClock /\ d \notin marking
    /\ clock' = clock + 1
    /\ \E v \in Values : sample' = [sample EXCEPT ![d] = [val |-> v, ts |-> clock + 1]]
    /\ marking' = marking \cup {d}
    /\ UNCHANGED <<dirtyNodes, alertVars, pc, keptVars, tickVars, budget, ghosts>>

MarkDirty(d) ==
    /\ d \in marking
    /\ marking' = marking \ {d}
    /\ dirtyNodes' = dirtyNodes \cup {d}
    /\ UNCHANGED <<clock, sample, alertVars, pc, keptVars, tickVars, budget, ghosts>>

-----------------------------------------------------------------------------
(* Operators, and the roll-up's own resolves.                              *)

EditRule ==
    /\ Spend("edit")
    /\ \E l \in Limits \ {limit} : limit' = l
    /\ generation' = generation + 1
    /\ crossed' = (crossed \/ pc = "work")
    /\ UNCHANGED <<nodesVars, open, resolvedAt, aged, gated, dirtyAlerts, pc,
                   keptVars, tickVars, run, late, skipped>>

ResolveByHand(d) ==
    /\ d \in open
    /\ Spend("resolve")
    /\ open' = open \ {d}
    /\ resolvedAt' = [resolvedAt EXCEPT ![d] = clock] /\ aged' = aged \ {d}
    /\ dirtyAlerts' = dirtyAlerts \cup {d}
    /\ run' = IF streaks[d].first # 0 THEN run \cup {d} ELSE run
    /\ late' = IF pc = "idle" THEN late ELSE late \cup {d}
    /\ UNCHANGED <<nodesVars, limit, generation, gated, pc, keptVars, tickVars,
                   skipped, crossed>>

\* operator_resolved_since no longer returns the resolve, and what an operator
\* silenced may come back: the run has outlasted the window.
ResolveWindowEnds(d) ==
    /\ resolvedAt[d] # 0 /\ d \notin aged
    /\ Spend("window")
    /\ aged' = aged \cup {d}
    /\ run' = run \ {d}
    /\ UNCHANGED <<nodesVars, limit, generation, open, resolvedAt, gated,
                   dirtyAlerts, pc, keptVars, tickVars, late, skipped, crossed>>

\* The device is muted, in its first minutes, under its own or an upstream
\* outage, or no longer what the rule is for; or that is over. Neither marks it.
Gate(d) ==
    /\ Spend("gate")
    /\ gated' = IF d \in gated THEN gated \ {d} ELSE gated \cup {d}
    /\ UNCHANGED <<nodesVars, limit, generation, open, resolvedAt, aged,
                   dirtyAlerts, pc, keptVars, tickVars, ghosts>>

\* Mutant: only a hand resolve marks the device.
AbsorbUnmarked(d) ==
    /\ d \in open
    /\ Spend("absorb")
    /\ open' = open \ {d}
    /\ UNCHANGED <<nodesVars, limit, generation, resolvedAt, aged, gated,
                   dirtyAlerts, pc, keptVars, tickVars, ghosts>>

\* resolve_by_dedup with by='' for a row an outage made redundant.
Absorb(d) ==
    /\ d \in open
    /\ Spend("absorb")
    /\ open' = open \ {d}
    /\ dirtyAlerts' = dirtyAlerts \cup {d}
    /\ UNCHANGED <<nodesVars, limit, generation, resolvedAt, aged, gated, pc,
                   keptVars, tickVars, ghosts>>

\* A minute has passed since the last full pass.
MinutePasses ==
    /\ ~timerDue
    /\ timerDue' = TRUE
    /\ UNCHANGED <<nodesVars, alertVars, pc, streaks, seen, carry, tickVars,
                   budget, ghosts>>

-----------------------------------------------------------------------------
(* The tick.                                                               *)

\* operator_resolved_since: the hand resolves of the last seven days.
TickStart ==
    /\ pc = "idle"
    /\ snap' = [d \in Device |-> IF d \in aged THEN 0 ELSE resolvedAt[d]]
    /\ pc' = "rules"
    /\ late' = {}
    /\ UNCHANGED <<nodesVars, alertVars, keptVars, rule, gen, full, dirty,
                   metrics, todo, openKeys, found, before, budget, run,
                   skipped, crossed>>

ReadRules ==
    /\ pc = "rules"
    /\ rule' = limit
    /\ pc' = "work"
    /\ UNCHANGED <<nodesVars, alertVars, keptVars, snap, gen, full, dirty,
                   metrics, todo, openKeys, found, before, budget, ghosts>>

\* Mutant: only an edit forces a full pass.
FullPassOnEdit == generation # seen

FullPassDue == timerDue \/ generation # seen

\* Both dirty sets are emptied as they are read, the carry with them.
TakeWork ==
    /\ pc = "work"
    /\ gen' = generation
    /\ full' = FullPassDue
    /\ dirty' = dirtyNodes \cup dirtyAlerts \cup carry
    /\ dirtyNodes' = {} /\ dirtyAlerts' = {} /\ carry' = {}
    /\ pc' = IF full' \/ dirty' # {} THEN "metrics" ELSE "rulesAgain"
    /\ UNCHANGED <<clock, sample, marking, limit, generation, open, resolvedAt,
                   aged, gated, streaks, seen, timerDue, snap, rule, metrics,
                   todo, openKeys, found, before, budget, ghosts>>

\* metrics_for_families, or ..._and_devices on a dirty pass. A full pass
\* starts from no streaks: an entry it does not rewrite is dropped.
ReadMetrics ==
    /\ pc = "metrics"
    /\ metrics' = sample
    /\ todo' = {d \in Device : sample[d].ts # 0 /\ (full \/ d \in dirty)}
    /\ before' = streaks
    /\ pc' = "scan"
    /\ UNCHANGED <<nodesVars, alertVars, keptVars, snap, rule, gen, full,
                   dirty, openKeys, found, budget, ghosts>>

\* alertrules.breaches and _clears, with the clear threshold one below.
Over(v)  == v >= rule
Clears(v) == v < rule - 1

\* Mutant: the streak counts passes over the device.
EntryPerPass(d) ==
    LET s == metrics[d]
        old == IF streaks[d].limit = rule THEN streaks[d] ELSE NoEntry
    IN [ts    |-> s.ts,
        n     |-> IF Over(s.val) THEN old.n + 1 ELSE 0,
        first |-> IF Clears(s.val) THEN 0
                  ELSE IF Over(s.val) /\ old.first = 0 THEN s.ts
                  ELSE old.first,
        limit |-> rule]

\* A changed rule starts the run afresh; the streak counts samples, not ticks;
\* the run ends at an observed clear only.
Entry(d) ==
    LET s == metrics[d]
        old == IF streaks[d].limit = rule THEN streaks[d] ELSE NoEntry
        fresh == s.ts # old.ts
    IN [ts    |-> s.ts,
        n     |-> IF ~Over(s.val) THEN 0 ELSE IF fresh THEN old.n + 1 ELSE old.n,
        first |-> IF Clears(s.val) THEN 0
                  ELSE IF Over(s.val) /\ fresh /\ old.first = 0 THEN s.ts
                  ELSE old.first,
        limit |-> rule]
Fresh(d) == streaks[d].limit # rule \/ streaks[d].ts # metrics[d].ts

Breach(d) == Over(metrics[d].val) /\ Entry(d).n >= ForPolls

\* Mutant: a resolve in the same instant as the first breach does not count.
ResolvedAfterFirst(d) == snap[d] # 0 /\ Entry(d).first # 0 /\ Entry(d).first < snap[d]

\* _operator_resolved: a resolve at or after the start of the run.
OperatorResolved(d) == snap[d] # 0 /\ Entry(d).first # 0 /\ Entry(d).first <= snap[d]

KeysNow == IF openKeys = Unread THEN open ELSE openKeys

\* No new sample means no new occurrence, unless nothing is open for the key.
JudgeBreach(d) ==
    /\ Breach(d)
    /\ openKeys' = IF Fresh(d) THEN openKeys ELSE KeysNow
    /\ found' = IF OperatorResolved(d) \/ (~Fresh(d) /\ d \in KeysNow)
                  THEN found ELSE found \cup {d}
    /\ UNCHANGED <<open, dirtyAlerts>>

JudgeClear(d) ==
    /\ Clears(metrics[d].val)
    /\ open' = open \ {d}
    /\ dirtyAlerts' = IF d \in open THEN dirtyAlerts \cup {d} ELSE dirtyAlerts
    /\ UNCHANGED <<openKeys, found>>

JudgeNeither(d) ==
    /\ ~Breach(d) /\ ~Clears(metrics[d].val)
    /\ UNCHANGED <<open, dirtyAlerts, openKeys, found>>

\* One device. A clear observation, or the first look under a new limit,
\* ends the run an operator resolved.
ScanDevice(d) ==
    /\ pc = "scan" /\ d \in todo
    /\ todo' = todo \ {d}
    /\ streaks' = [streaks EXCEPT ![d] = Entry(d)]
    /\ JudgeBreach(d) \/ JudgeClear(d) \/ JudgeNeither(d)
    /\ run' = IF Clears(metrics[d].val) \/ streaks[d].limit # rule THEN run \ {d} ELSE run
    /\ late' = late \cap run'
    /\ skipped' = skipped \ {d}
    /\ UNCHANGED <<nodesVars, limit, generation, resolvedAt, aged, gated, pc, seen,
                   carry, timerDue, snap, rule, gen, full, dirty, metrics, before,
                   budget, crossed>>

ScanDone ==
    /\ pc = "scan" /\ todo = {}
    /\ IF full THEN timerDue' = FALSE /\ seen' = gen ELSE UNCHANGED <<timerDue, seen>>
    /\ crossed' = (crossed /\ ~(full /\ rule = limit))
    /\ pc' = "rulesAgain"
    /\ UNCHANGED <<nodesVars, alertVars, streaks, carry, tickVars, budget, run,
                   late, skipped>>

\* Mutant: the dirty devices the scan had taken are forgotten.
NoCarry == carry

\* _dirty_carry: they are judged again by the next tick.
CarryOver == carry \cup dirty

\* _stage swallows the exception. The breaches found so far are lost; a full
\* pass also forgets the streaks it had worked out, and the runs that began in
\* it; a dirty pass keeps them.
ScanRaises ==
    /\ pc \in {"metrics", "scan"}
    /\ Spend("fault")
    /\ carry' = CarryOver
    /\ streaks' = IF full /\ pc = "scan" THEN before ELSE streaks
    /\ found' = {} /\ todo' = {}
    /\ skipped' = skipped \cup found
    /\ run' = {d \in run : streaks'[d].first # 0}
    /\ pc' = "rulesAgain"
    /\ UNCHANGED <<nodesVars, alertVars, seen, timerDue, snap, rule, gen, full,
                   dirty, metrics, openKeys, before, late, crossed>>

\* _tick reads the rules once more, outside any stage, before it applies
\* anything: an exception here ends the tick.
RulesAgain ==
    /\ pc = "rulesAgain"
    /\ pc' = "apply"
    /\ UNCHANGED <<nodesVars, alertVars, keptVars, tickVars, budget, ghosts>>

TickAborts ==
    /\ pc = "rulesAgain"
    /\ Spend("fault")
    /\ skipped' = skipped \cup found
    /\ ForgetTick
    /\ UNCHANGED <<nodesVars, alertVars, keptVars, run, late, crossed>>

Apply(d) ==
    /\ pc = "apply" /\ d \in found \ gated
    /\ open' = open \cup {d}
    /\ found' = found \ {d}
    /\ UNCHANGED <<nodesVars, limit, generation, resolvedAt, aged, gated,
                   dirtyAlerts, pc, keptVars, snap, rule, gen, full, dirty,
                   metrics, todo, openKeys, before, budget, ghosts>>

\* The hold, the mute, the rules read again and the roll-up, one after the
\* other: what any of them stops is dropped, and nothing marks the device.
TurnAway(d) ==
    /\ pc = "apply" /\ d \in found \cap gated
    /\ found' = found \ {d}
    /\ skipped' = skipped \cup {d}
    /\ UNCHANGED <<nodesVars, alertVars, pc, keptVars, snap, rule, gen, full,
                   dirty, metrics, todo, openKeys, before, budget, run, late,
                   crossed>>

ApplyRaises(d) ==
    /\ pc = "apply" /\ d \in found
    /\ Spend("fault")
    /\ found' = found \ {d}
    /\ skipped' = skipped \cup {d}
    /\ UNCHANGED <<nodesVars, alertVars, pc, keptVars, snap, rule, gen, full,
                   dirty, metrics, todo, openKeys, before, run, late, crossed>>

TickEnd ==
    /\ pc = "apply" /\ found = {}
    /\ ForgetTick
    /\ UNCHANGED <<nodesVars, alertVars, keptVars, budget, ghosts>>

\* Everything in memory goes: the dirty sets, the streaks, the generation.
Crash ==
    /\ Spend("crash")
    /\ marking' = {} /\ dirtyNodes' = {} /\ dirtyAlerts' = {}
    /\ generation' = 0 /\ seen' = -1 /\ carry' = {} /\ timerDue' = TRUE
    /\ streaks' = [d \in Device |-> NoEntry]
    /\ ForgetTick
    /\ run' = {} /\ late' = {} /\ skipped' = {} /\ crossed' = FALSE
    /\ UNCHANGED <<clock, sample, limit, open, resolvedAt, aged, gated>>

-----------------------------------------------------------------------------
Tick ==
    \/ TickStart \/ ReadRules \/ TakeWork \/ ReadMetrics \/ ScanDone
    \/ RulesAgain \/ TickEnd
    \/ \E d \in Device : ScanDevice(d) \/ Apply(d) \/ TurnAway(d)
Fault == ScanRaises \/ TickAborts \/ Crash \/ \E d \in Device : ApplyRaises(d)
Poller(d) == WriteSample(d) \/ MarkDirty(d)
Others(d) == ResolveByHand(d) \/ Absorb(d) \/ ResolveWindowEnds(d) \/ Gate(d)

Next == Tick \/ Fault \/ EditRule \/ MinutePasses
        \/ \E d \in Device : Poller(d) \/ Others(d)

Spec == Init /\ [][Next]_vars

\* The engine thread goes on, pollers finish what they began, time passes.
FairSpec ==
    /\ Spec /\ WF_vars(Tick) /\ WF_vars(MinutePasses)
    /\ \A d \in Device : WF_vars(MarkDirty(d))

-----------------------------------------------------------------------------
StreakEntry == [ts : Nat, n : Nat, first : Nat, limit : Int]

\* The values each variable ranges over; a streak counts samples, so it is
\* never longer than the time it ended at.
TypeOK ==
    /\ \A d \in Device : streaks[d].n <= streaks[d].ts /\ streaks[d].ts <= clock
    /\ clock \in Nat /\ sample \in [Device -> [val : Int, ts : Nat]]
    /\ limit \in Limits /\ generation \in Nat /\ seen \in Int
    /\ resolvedAt \in [Device -> Nat] /\ snap \in [Device -> Nat]
    /\ streaks \in [Device -> StreakEntry] /\ before \in [Device -> StreakEntry]
    /\ metrics \in [Device -> [val : Int, ts : Nat]]
    /\ pc \in {"idle", "rules", "work", "metrics", "scan", "rulesAgain", "apply"}
    /\ rule \in Int /\ gen \in Nat
    /\ full \in BOOLEAN /\ timerDue \in BOOLEAN /\ crossed \in BOOLEAN
    /\ budget \in [Disturbance -> Nat]
    /\ openKeys \subseteq Device \/ openKeys = Unread
    /\ \A S \in {marking, dirtyNodes, open, dirtyAlerts, carry, dirty, todo,
                 found, run, late, skipped, aged, gated} : S \subseteq Device

\* Nothing asks for another pass but the minute.
Settled ==
    /\ pc = "idle" /\ seen = generation
    /\ marking \cup dirtyNodes \cup dirtyAlerts \cup carry = {}

\* Change-driven evaluation misses nothing: whenever neither a dirty set nor
\* the generation asks for a pass, every device has been judged on its latest
\* sample under the current rule, what has recovered is closed, and a
\* sustained breach is open or was resolved by hand within its run. Only an
\* edit between the tick's two reads of the rule, and a breach lost or turned
\* away between the scan and its row, wait for the minute or for the device's
\* next sample (_evaluate_thresholds).
NothingMissed ==
    Settled /\ ~crossed =>
        \A d \in {e \in Device : sample[e].ts # 0} :
            /\ streaks[d].ts = sample[d].ts /\ streaks[d].limit = limit
            /\ sample[d].val < limit - 1 => d \notin open
            /\ sample[d].val >= limit /\ streaks[d].n >= ForPolls =>
                   \/ d \in open \cup skipped
                   \/ resolvedAt[d] >= streaks[d].first

\* An alert an operator resolved stays closed for the rest of its breach run or
\* for the seven days the resolve is remembered, whatever passes, retries and
\* roll-ups come in between; a resolve during a tick may still be overtaken by
\* that tick, and one during a full pass that raises is forgotten with the run
\* that began in it (_operator_resolved).
ResolvedRunStaysClosed ==
    [][\A d \in open' \ open : d \notin run \/ d \in late]_vars

\* An edit of the rule reaches every device, at the latest by the minute: again
\* and again all of them have been judged under the rule as it stands.
EditsReachEveryDevice ==
    []<>(\A d \in Device : sample[d].ts # 0 => streaks[d].limit = limit)
=============================================================================
