---------------------------- MODULE SystemQueue ----------------------------
(***************************************************************************)
(* The alert engine's in-memory queue of occurrences about the application *)
(* itself (AlertEngine.system_occurrence, clear_system_occurrence,         *)
(* _drain_system_occurrences and _commit_system_drain).  The mail and text *)
(* workers report when their circuit breaker opens and when it closes, the *)
(* poller when its pool is saturated and when it no longer is; the engine  *)
(* hands out a copy of the reports at each tick and removes them only when *)
(* the whole tick succeeded.                                               *)
(***************************************************************************)
EXTENDS Integers, Sequences, FiniteSets

CONSTANTS
    Condition, \* what is reported on: mail, texts, the poll pool
    Cap,       \* _SYSTEM_OCCURRENCES_CAP
    Budget     \* bound: changes of a condition, failures, crashes and edits

Disturbance == {"flip", "fault", "crash", "rule", "resolve"}

ASSUME ConditionAssumption == IsFiniteSet(Condition)
ASSUME BoundAssumption == Cap \in Nat \ {0} /\ Budget \in [Disturbance -> Nat]

VARIABLES
    failing,      \* the conditions that hold: breaker open, pool saturated
    owed,         \* conditions that changed and were not reported yet
    raised,       \* occurrences raised so far; the n-th one is item n
    about,        \* the condition of each item
    occurrences,  \* _system_occurrences
    clears,       \* _system_clears
    pc,
    batch,        \* the copy of occurrences this tick still has to apply
    resolving,    \* the copy of clears this tick still has to resolve
    rules,        \* the conditions whose rule this tick read as enabled
    drained,      \* the two copies as they were handed out
    inflight,     \* _system_pending_inflight and _system_clears_inflight
    rows,         \* conditions with an active row of their rule
    enabled,      \* conditions whose rule is enabled
    (* bounds and history, read by no action *)
    budget,
    applied,      \* items the apply loop took up
    skipped,      \* conditions whose last occurrence was lost on its way, or
                  \* met a disabled rule, or whose row was taken while it held
    stuck,        \* conditions whose row no clear is going to resolve
    displaced,    \* items that made room since the queue was last handed out
    stale         \* what is in flight is from an earlier tick

workers == <<failing, owed, raised, about>>
queues  == <<occurrences, clears>>
tick    == <<batch, resolving, drained, rules>>
ghosts  == <<applied, skipped, stuck, displaced, stale>>
vars == <<workers, queues, pc, tick, inflight, rows, enabled, budget, ghosts>>

Nothing == [occ |-> <<>>, clr |-> <<>>]
Spend(k) == budget[k] > 0 /\ budget' = [budget EXCEPT ![k] = @ - 1]

Init ==
    /\ failing = {} /\ owed = {}
    /\ raised = 0 /\ about = <<>>
    /\ occurrences = <<>> /\ clears = <<>>
    /\ pc = "idle" /\ batch = <<>> /\ resolving = <<>>
    /\ drained = Nothing /\ inflight = Nothing
    /\ rows = {} /\ enabled = Condition /\ rules = {}
    /\ budget = Budget
    /\ applied = {} /\ skipped = {} /\ stuck = {}
    /\ displaced = 0 /\ stale = FALSE

-----------------------------------------------------------------------------
(* The reporting threads: a condition changes, then its callback runs.     *)

Flip(c) ==
    /\ c \notin owed
    /\ Spend("flip")
    /\ failing' = IF c \in failing THEN failing \ {c} ELSE failing \cup {c}
    /\ owed' = owed \cup {c}
    /\ UNCHANGED <<raised, about, queues, pc, tick, inflight, rows, enabled, ghosts>>

\* History: what some items were about.
Concerns(items) == {about[i] : i \in items}

\* del queue[:-Cap]: the oldest items make room.
Trim(q) == IF Len(q) > Cap THEN SubSeq(q, Len(q) - Cap + 1, Len(q)) ELSE q

SystemOccurrence(c) ==
    /\ c \in owed \cap failing
    /\ raised' = raised + 1
    /\ about' = Append(about, c)
    /\ LET q == Append(occurrences, raised + 1) IN
          /\ occurrences' = Trim(q)
          /\ IF Len(q) > Cap
             THEN /\ skipped' = skipped \cup Concerns({Head(q)})
                  /\ displaced' = IF pc = "idle" THEN displaced ELSE displaced + 1
             ELSE UNCHANGED <<skipped, displaced>>
    /\ owed' = owed \ {c}
    /\ UNCHANGED <<failing, clears, pc, tick, inflight, rows, enabled, budget,
                   applied, stuck, stale>>

ClearSystemOccurrence(c) ==
    /\ c \in owed \ failing
    /\ clears' = Append(clears, c)
    /\ owed' = owed \ {c}
    /\ UNCHANGED <<failing, raised, about, occurrences, pc, tick, inflight,
                   rows, enabled, budget, ghosts>>

-----------------------------------------------------------------------------
(* The operator.                                                           *)

\* A rule is switched on or off; an active row is left as it is.
SwitchRule(c) ==
    /\ Spend("rule")
    /\ enabled' = IF c \in enabled THEN enabled \ {c} ELSE enabled \cup {c}
    /\ UNCHANGED <<workers, queues, pc, tick, inflight, rows, ghosts>>

\* The row is resolved by hand, or by the sweep once it is as old as its rule
\* lets it be (poll_pool_saturated: a quarter of an hour); the condition may
\* hold on, and is reported only when it changes.
ResolveRow(c) ==
    /\ c \in rows
    /\ Spend("resolve")
    /\ rows' = rows \ {c}
    /\ skipped' = skipped \cup {c}
    /\ UNCHANGED <<workers, queues, pc, tick, inflight, enabled, applied, stuck,
                   displaced, stale>>

-----------------------------------------------------------------------------
(* The tick.                                                               *)

\* Both queues are copied under one lock.
Drain ==
    /\ pc = "idle"
    /\ drained' = [occ |-> occurrences, clr |-> clears]
    /\ resolving' = clears
    /\ pc' = "clears"
    /\ UNCHANGED <<workers, queues, batch, rules, inflight, rows, enabled, budget,
                   ghosts>>

Items(q) == {q[i] : i \in 1..Len(q)}

\* Conditions whose occurrence is handed out together with the clear; clears
\* go first, whichever came first.
Waiting == Concerns(Items(drained.occ))

ResolveClear ==
    /\ pc = "clears" /\ resolving # <<>>
    /\ LET c == Head(resolving) IN
          /\ rows' = rows \ {c}
          /\ stuck' = IF c \in Waiting THEN stuck \cup {c} ELSE stuck \ {c}
    /\ resolving' = Tail(resolving)
    /\ UNCHANGED <<workers, queues, pc, batch, drained, rules, inflight, enabled,
                   budget, applied, skipped, displaced, stale>>

ClearsDone ==
    /\ pc = "clears" /\ resolving = <<>>
    /\ inflight' = drained
    /\ batch' = drained.occ
    /\ pc' = "rules"
    /\ UNCHANGED <<workers, queues, resolving, drained, rules, rows, enabled,
                   budget, ghosts>>

\* Resolving a row raises: the stage hands over nothing, and what an earlier
\* tick handed out stays in flight.
DrainRaises ==
    /\ pc = "clears" /\ resolving # <<>>
    /\ Spend("fault")
    /\ resolving' = <<>> /\ batch' = <<>>
    /\ pc' = "rules"
    /\ stale' = (inflight # Nothing)
    /\ UNCHANGED <<workers, queues, drained, rules, inflight, rows, enabled,
                   applied, skipped, stuck, displaced>>

\* What runs outside any stage, the reads before the apply loop and the
\* sweeps after it, raises: the tick ends without the commit.
TickAborts ==
    /\ pc = "rules" \/ (pc = "apply" /\ batch = <<>>)
    /\ Spend("fault")
    /\ batch' = <<>> /\ drained' = Nothing /\ rules' = {}
    /\ pc' = "idle"
    /\ displaced' = 0 /\ stale' = FALSE
    /\ UNCHANGED <<workers, queues, resolving, inflight, rows, enabled, applied,
                   skipped, stuck>>

\* The enabled rules are read once, after the stages and before the apply loop.
RulesRead ==
    /\ pc = "rules"
    /\ rules' = enabled
    /\ pc' = "apply"
    /\ UNCHANGED <<workers, queues, batch, resolving, drained, inflight, rows,
                   enabled, budget, ghosts>>

\* History: the item is queued still, and its condition was not reported again.
Latest(i) == i \in Items(occurrences) /\ \A j \in (i + 1)..raised : about[j] # about[i]

Apply ==
    /\ pc = "apply" /\ batch # <<>>
    /\ about[Head(batch)] \in rules
    /\ rows' = rows \cup {about[Head(batch)]}
    /\ applied' = applied \cup {Head(batch)}
    /\ skipped' = IF Latest(Head(batch)) THEN skipped \ {about[Head(batch)]}
                  ELSE skipped
    /\ batch' = Tail(batch)
    /\ UNCHANGED <<workers, queues, pc, resolving, drained, rules, inflight,
                   enabled, budget, stuck, displaced, stale>>

\* No enabled rule is about the item: it is taken up and opens nothing.
PassOver ==
    /\ pc = "apply" /\ batch # <<>>
    /\ about[Head(batch)] \notin rules
    /\ applied' = applied \cup {Head(batch)}
    /\ skipped' = skipped \cup {about[Head(batch)]}
    /\ batch' = Tail(batch)
    /\ UNCHANGED <<workers, queues, pc, resolving, drained, rules, inflight, rows,
                   enabled, budget, stuck, displaced, stale>>

ApplyRaises ==
    /\ pc = "apply" /\ batch # <<>>
    /\ Spend("fault")
    /\ applied' = applied \cup {Head(batch)}
    /\ skipped' = skipped \cup {about[Head(batch)]}
    /\ batch' = Tail(batch)
    /\ UNCHANGED <<workers, queues, pc, resolving, drained, rules, inflight, rows,
                   enabled, stuck, displaced, stale>>

\* Mutants: one item too many is removed; the slice starts one item too late.
DropOneMore(q, n) == SubSeq(q, n + 2, Len(q))
DropLater(q, n) == IF n = 0 \/ q = <<>> THEN q
                   ELSE <<Head(q)>> \o SubSeq(q, n + 2, Len(q))

\* del queue[:n]
DropFirst(q, n) == SubSeq(q, n + 1, Len(q))

CommitSystemDrain ==
    /\ pc = "apply" /\ batch = <<>>
    /\ occurrences' = DropFirst(occurrences, Len(inflight.occ))
    /\ clears' = DropFirst(clears, Len(inflight.clr))
    /\ inflight' = Nothing /\ drained' = Nothing /\ rules' = {}
    /\ pc' = "idle"
    /\ LET gone == Items(occurrences) \ Items(occurrences') IN
          skipped' = skipped \cup Concerns(IF stale THEN gone \cup Items(inflight.occ)
                                          ELSE IF displaced > 0 THEN gone \ applied
                                          ELSE {})
    /\ stuck' = stuck \cup (IF stale THEN Items(inflight.clr) ELSE {})
    /\ displaced' = 0 /\ stale' = FALSE
    /\ UNCHANGED <<workers, batch, resolving, rows, enabled, budget, applied>>

\* Queues and conditions are memory, rows and rules are not. A restart begins
\* with none failing, and what never failed asks for no clear of the row left
\* behind.
Crash ==
    /\ Spend("crash")
    /\ failing' = {} /\ owed' = {}
    /\ occurrences' = <<>> /\ clears' = <<>>
    /\ pc' = "idle" /\ batch' = <<>> /\ resolving' = <<>>
    /\ drained' = Nothing /\ inflight' = Nothing /\ rules' = {}
    /\ skipped' = {} /\ stuck' = rows /\ displaced' = 0 /\ stale' = FALSE
    /\ UNCHANGED <<raised, about, rows, enabled, applied>>

-----------------------------------------------------------------------------
Worker(c) == SystemOccurrence(c) \/ ClearSystemOccurrence(c)
Operator(c) == SwitchRule(c) \/ ResolveRow(c)
Tick == Drain \/ ResolveClear \/ ClearsDone \/ RulesRead \/ Apply \/ PassOver
        \/ CommitSystemDrain
Fault == DrainRaises \/ TickAborts \/ ApplyRaises \/ Crash

Next == Tick \/ Fault \/ \E c \in Condition : Flip(c) \/ Worker(c) \/ Operator(c)

Spec == Init /\ [][Next]_vars

-----------------------------------------------------------------------------
Item == 1..raised
Copy == [occ : Seq(Item), clr : Seq(Condition)]

\* The values each variable ranges over; the occurrences waiting are numbered
\* upwards and never exceed the cap.
TypeOK ==
    /\ raised \in Nat /\ about \in Seq(Condition) /\ Len(about) = raised
    /\ occurrences \in Seq(Item) /\ Len(occurrences) <= Cap
    /\ \A i \in 2..Len(occurrences) : occurrences[i] = occurrences[i-1] + 1
    /\ clears \in Seq(Condition) /\ resolving \in Seq(Condition)
    /\ batch \in Seq(Item) /\ drained \in Copy /\ inflight \in Copy
    /\ pc \in {"idle", "clears", "rules", "apply"}
    /\ budget \in [Disturbance -> Nat]
    /\ applied \subseteq Item
    /\ displaced \in Nat /\ stale \in BOOLEAN
    /\ failing \subseteq Condition /\ owed \subseteq Condition
    /\ rows \subseteq Condition /\ skipped \subseteq Condition
    /\ enabled \subseteq Condition /\ rules \subseteq Condition
    /\ stuck \subseteq Condition

\* Every change was reported, and every report worked off.
Settled ==
    /\ pc = "idle" /\ owed = {}
    /\ occurrences = <<>> /\ clears = <<>>

\* The alert list tells the truth about the application: with nothing left to
\* work off, a condition that holds has its row, and the row of one that ended
\* is gone. An occurrence is missed if the apply loop swallowed it or met a
\* disabled rule, or a full queue dropped it or another one for it; a row that
\* was resolved by hand or outlived its rule's lifetime comes back only with the
\* next report, and what is reported already is not reported again. A clear is
\* missed if it was handed out together with its raise, or removed with a stale
\* copy, or if a restart forgot the condition (system_occurrence,
\* clear_system_occurrence, _apply, _commit_system_drain).
RowsFollowConditions ==
    Settled => failing \subseteq rows \cup skipped /\ rows \subseteq failing \cup stuck

\* The queue keeps the promise of a retried queue: an occurrence leaves it
\* only from the front and only after the apply loop took it up, but for as
\* many as made room since the drain, for the commit counts and does not look;
\* after a drain that raised it counts what an earlier tick was handed
\* (_drain_system_occurrences, _commit_system_drain).
ALO == INSTANCE AtLeastOnce WITH
           Capacity <- Cap, queued <- occurrences, handled <- applied,
           accepted <- raised, slack <- IF stale THEN Cap ELSE displaced,
           restarts <- Budget["crash"] - budget["crash"]

Promise == ALO!Spec
=============================================================================
