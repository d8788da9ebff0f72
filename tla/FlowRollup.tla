----------------------------- MODULE FlowRollup -----------------------------
(***************************************************************************)
(* The flow summaries of netpath/flowdb.py: raw flows are added up into a  *)
(* minute and an hour tier, each built forward from a watermark and        *)
(* backward from a floor, and rebuilt where a writer marked it dirty.      *)
(*                                                                         *)
(* Three threads work on the store without a common lock: the collector's  *)
(* writer (insert_flows, record_sampling_rates), the roll-up thread        *)
(* (compact_rollup for the minute tier, then for the hour tier, and        *)
(* backfill_rollup; service.py holds _rollup_lock around them), and the    *)
(* maintenance thread (prune).  Every commit of theirs is one action, and  *)
(* _mark_dirty, a read and a write, is two wherever no lock spans it; the  *)
(* rebuild of a bucket is its check, its rows and its span, for any one of *)
(* the dimensions and scopes the code goes through in between.             *)
(*                                                                         *)
(* A bucket is named by its first minute, as in the code by its first      *)
(* second.  A tier's rows are the flows they added up: which flows, and    *)
(* whether at the sampling rate that was announced for them.               *)
(***************************************************************************)
EXTENDS Integers, FiniteSets

CONSTANTS
    Horizon,   \* bound: the minutes that pass
    PerHour,   \* minutes in an hour
    Flows,     \* bound: how many flows arrive
    Touches,   \* bound: how often a writer touches the flows
    Crashes    \* bound: how often the process dies

ASSUME HorizonAssumption == Horizon \in Nat
ASSUME PerHourAssumption == PerHour \in Nat \ {0}
ASSUME BoundAssumption == Flows \in Nat /\ Touches \in Nat /\ Crashes \in Nat

Minute == 0..(Horizon - 1)
Tier   == {"minute", "hour"}
Width(tier) == IF tier = "hour" THEN PerHour ELSE 1
Bucket(tier) == {b \in Minute : b % Width(tier) = 0}
Record == [flow : 1..Flows, minute : Minute, rated : BOOLEAN]
None   == -1
Clean  == Horizon   \* a tier's dirty mark, later than every minute

VARIABLES
    sealed,     \* the minutes older than _ROLLUP_LAG_S
    raw,        \* the flows table; flow is the id, handed out on arrival
    arrived,    \* the newest id
    announced,  \* the exporter's sampling rate is known
    counted,    \* per tier: the records its rows add up
    spans,      \* per tier: the records its spans count
    watermark,  \* per tier: built below this, or None
    floor,      \* per tier: built from here on, or None
    dirty,      \* per tier: the oldest minute a writer touched, or Clean
    (* the roll-up thread *)
    step,       \* where it is
    tier,       \* the tier it works on
    until,      \* compact_rollup's sealed
    upto,       \* the watermark it began with
    bucket,     \* the bucket it has reached
    part,       \* how far _compact_bucket is with it
    source,     \* from_minutes: what it is rebuilt from
    marking,    \* the tier _mark_dirty has reached
    lowers,     \* the mark _mark_dirty read is to be lowered
    (* the writer, in the _mark_dirty of record_sampling_rates *)
    wstep, since, wmarking, wlowers,
    (* history, read by no action *)
    astray,     \* per tier: buckets left wrong with no mark to say so
    aged,       \* the bucket has lost raw rows since it was checked
    crashes

flowVars   == <<raw, arrived, announced>>
tierVars   == <<counted, spans, watermark, floor>>
bucketVars == <<part, source, aged>>
threadVars == <<step, tier, until, upto, bucket, marking, lowers, bucketVars>>
writerVars == <<wstep, since, wmarking, wlowers>>
vars == <<sealed, flowVars, tierVars, dirty, threadVars, writerVars, astray, crashes>>

\* Between two passes nobody holds _rollup_lock.
AtRest == step = "start" /\ tier = "minute"

Init ==
    /\ sealed = 0 /\ raw = {} /\ arrived = 0 /\ announced = FALSE
    /\ counted = [t \in Tier |-> {}] /\ spans = [t \in Tier |-> {}]
    /\ watermark = [t \in Tier |-> None] /\ floor = [t \in Tier |-> None]
    /\ dirty = [t \in Tier |-> Clean]
    /\ AtRest /\ until = 0 /\ upto = 0 /\ bucket = 0
    /\ part = "check" /\ source = "raw" /\ aged = FALSE
    /\ marking = "minute" /\ lowers = FALSE
    /\ wstep = "idle" /\ since = 0 /\ wmarking = "minute" /\ wlowers = FALSE
    /\ astray = [t \in Tier |-> {}] /\ crashes = 0

AlignDown(m, w) == m - (m % w)

\* The records of one bucket of a tier.
In(records, t, b) == {r \in records : AlignDown(r.minute, Width(t)) = b}

\* The summary of a bucket holds every flow of it that is still stored.
Right(t, b) == In(raw, t, b) \subseteq counted[t]

\* History: of these buckets, the wrong ones have lost the mark that said so.
NotesUnmarked(t, buckets) ==
    astray' = [astray EXCEPT ![t] = @ \cup {b \in buckets : ~Right(t, b)}]

\* History: a mark written over an earlier one that came after the read.
NotesRaised(t, writes, m) ==
    NotesUnmarked(t, IF writes THEN {b \in Bucket(t) : b + Width(t) <= m} ELSE {})

Tick ==
    /\ sealed < Horizon
    /\ sealed' = sealed + 1
    /\ UNCHANGED <<flowVars, tierVars, dirty, threadVars, writerVars, astray, crashes>>

-----------------------------------------------------------------------------
(* The collector's writer.                                                 *)

Earlier(a, b) == IF a < b THEN a ELSE b

\* Mutant: a tier that is dirty already keeps its mark.
OnlyIfClean(m) == [t \in Tier |-> IF dirty[t] = Clean THEN m ELSE dirty[t]]

\* _mark_dirty under the store's lock.
Lowered(m) == [t \in Tier |-> Earlier(m, dirty[t])]

Touch == arrived + (IF announced THEN 1 ELSE 0) < Touches

Store(m) ==
    /\ arrived < Flows /\ Touch /\ m <= sealed
    /\ arrived' = arrived + 1
    /\ raw' = raw \cup {[flow |-> arrived', minute |-> m, rated |-> announced]}

\* insert_flows: the rows and the marks are written under one lock.
Insert(m) ==
    /\ wstep = "idle"
    /\ Store(m)
    /\ dirty' = Lowered(m)
    /\ UNCHANGED <<sealed, announced, tierVars, threadVars, writerVars, astray, crashes>>

\* record_sampling_rates: the rows, and the tiers are marked afterwards.
Announce(m) ==
    /\ wstep = "idle" /\ ~announced /\ Touch /\ m <= sealed
    /\ announced' = TRUE
    /\ raw' = {[r EXCEPT !.rated = @ \/ r.minute >= m] : r \in raw}
    /\ IF raw' = raw
       THEN UNCHANGED writerVars
       ELSE wstep' = "read" /\ since' = m /\ UNCHANGED <<wmarking, wlowers>>
    /\ UNCHANGED <<sealed, arrived, tierVars, dirty, threadVars, astray, crashes>>

WriterReads ==
    /\ wstep = "read"
    /\ wstep' = "write" /\ wlowers' = (since < dirty[wmarking])
    /\ UNCHANGED <<sealed, flowVars, tierVars, dirty, threadVars, since,
                   wmarking, astray, crashes>>

WriterWrites ==
    /\ wstep = "write"
    /\ dirty' = IF wlowers THEN [dirty EXCEPT ![wmarking] = since] ELSE dirty
    /\ wlowers' = FALSE
    /\ IF wmarking = "minute"
       THEN wstep' = "read" /\ wmarking' = "hour" /\ UNCHANGED since
       ELSE wstep' = "idle" /\ wmarking' = "minute" /\ since' = 0
    /\ NotesRaised(wmarking, wlowers, since)
    /\ UNCHANGED <<sealed, flowVars, tierVars, threadVars, crashes>>

-----------------------------------------------------------------------------
(* _compact_bucket.                                                        *)

\* _from_minute_tier
FromMinutes(t, b) ==
    /\ t = "hour"
    /\ floor["minute"] # None /\ b >= floor["minute"]
    /\ watermark["minute"] # None /\ b + PerHour <= watermark["minute"]

\* Mutant: the hour is always rebuilt from raw that may have been pruned.
NeverShort(t, b) == FALSE

\* _raw_short, asked only where raw is what the bucket is built from.
RawShort(t, b) ==
    /\ ~FromMinutes(t, b)
    /\ Cardinality(In(raw, t, b)) < Cardinality(In(spans[t], t, b))

\* History: a bucket rebuilt from minutes that are wrong themselves, or not
\* rebuilt because raw is short, is wrong without a mark.
NotesRebuilt(t, b) ==
    astray' = [astray EXCEPT ![t] =
        IF In(raw, t, b) \subseteq counted'[t] THEN @ \ {b} ELSE @ \cup {b}]

\* A loop has a bucket before it: of compact_rollup, _redo_dirty, backfill_rollup.
Due ==
    \/ step = "build" /\ bucket + Width(tier) <= until
    \/ step = "redo" /\ bucket < upto
    \/ step = "fill"

\* The loop goes on behind this bucket.
Passes ==
    IF step = "fill"
    THEN step' = "lower" /\ UNCHANGED bucket
    ELSE bucket' = bucket + Width(tier) /\ UNCHANGED step

threadOnly == <<sealed, flowVars, writerVars, crashes>>
rebuildOnly == <<threadOnly, watermark, floor, dirty, tier, until, upto, marking, lowers>>

\* What the bucket is to be built from is settled, and the lock released.
Check ==
    /\ Due /\ part = "check" /\ ~RawShort(tier, bucket)
    /\ part' = "rows"
    /\ source' = IF FromMinutes(tier, bucket) THEN "minutes" ELSE "raw"
    /\ UNCHANGED <<rebuildOnly, counted, spans, step, bucket, astray, aged>>

\* "every scope would lose what raw no longer holds"
LeaveBuilt ==
    /\ Due /\ part = "check" /\ RawShort(tier, bucket)
    /\ Passes /\ UNCHANGED <<rebuildOnly, bucketVars, counted, spans>>
    /\ NotesRebuilt(tier, bucket)

From(table) == IF source = "minutes" THEN table["minute"] ELSE raw

\* The bucket's entries in one of the tables, summed up anew.
Rebuilt(table) ==
    [table EXCEPT ![tier] =
        (@ \ In(@, tier, bucket)) \cup In(From(table), tier, bucket)]

\* _compact_global, _compact_exporters, _compact_interfaces
Rows ==
    /\ part = "rows"
    /\ counted' = Rebuilt(counted) /\ NotesRebuilt(tier, bucket)
    /\ part' = "spans" /\ aged' = FALSE
    /\ UNCHANGED <<rebuildOnly, spans, step, bucket, source>>

\* _compact_spans, of which the next check will count
Spans ==
    /\ part = "spans"
    /\ spans' = Rebuilt(spans)
    /\ part' = "check" /\ source' = "raw"
    /\ Passes /\ UNCHANGED <<rebuildOnly, counted, astray, aged>>

Bucketwise == Check \/ LeaveBuilt \/ Rows \/ Spans

-----------------------------------------------------------------------------
(* compact_rollup, for one tier and then for the other.  Its loops hand    *)
(* their buckets to _compact_bucket, above.                                *)

Seed ==
    /\ step = "start" /\ watermark[tier] = None
    /\ watermark' = [watermark EXCEPT ![tier] = AlignDown(sealed, Width(tier))]
    /\ step' = "seed"
    /\ UNCHANGED <<threadOnly, bucketVars, counted, spans, floor, dirty, tier, until,
                   upto, bucket, marking, lowers, astray>>

\* The pass goes on to the next tier, or is over.
NextTier ==
    /\ step' = "start"
    /\ tier' = IF tier = "minute" THEN "hour" ELSE "minute"
    /\ until' = 0 /\ upto' = 0 /\ bucket' = 0

SeedFloor ==
    /\ step = "seed"
    /\ floor' = [floor EXCEPT ![tier] = watermark[tier]]
    /\ NextTier
    /\ UNCHANGED <<threadOnly, bucketVars, counted, spans, watermark, dirty, marking,
                   lowers, astray>>

Open ==
    /\ step = "start" /\ watermark[tier] # None
    /\ step' = "build"
    /\ until' = AlignDown(sealed, Width(tier))
    /\ upto' = watermark[tier] /\ bucket' = watermark[tier]
    /\ UNCHANGED <<threadOnly, bucketVars, tierVars, dirty, tier, marking, lowers, astray>>

\* Nothing is left to build, or the pass has spent its buckets or seconds.
Advance ==
    /\ step = "build" /\ part = "check"
    /\ watermark' = [watermark EXCEPT ![tier] = bucket]
    /\ step' = "take"
    /\ UNCHANGED <<threadOnly, bucketVars, counted, spans, floor, dirty, tier, until,
                   upto, bucket, marking, lowers, astray>>

Later(a, b) == IF a > b THEN a ELSE b

\* _redo_dirty takes the mark and clears it, for the buckets below upto.
Take ==
    /\ step = "take"
    /\ dirty' = [dirty EXCEPT ![tier] = Clean]
    /\ IF dirty[tier] = Clean
       THEN NextTier
       ELSE /\ step' = "redo" /\ until' = 0
            /\ bucket' = Later(AlignDown(dirty[tier], Width(tier)), floor[tier])
            /\ UNCHANGED <<tier, upto>>
    /\ NotesUnmarked(tier, {b \in Bucket(tier) : b >= upto /\ b < watermark[tier]})
    /\ UNCHANGED <<threadOnly, bucketVars, tierVars, marking, lowers>>

RedoEnds ==
    /\ step = "redo" /\ part = "check" /\ bucket >= upto
    /\ NextTier
    /\ UNCHANGED <<threadOnly, bucketVars, tierVars, dirty, marking, lowers, astray>>

\* The buckets or seconds of the pass are spent: the rest is marked again.
RedoStops ==
    /\ step = "redo" /\ part = "check" /\ bucket < upto
    /\ step' = "read" /\ marking' = tier
    /\ UNCHANGED <<threadOnly, bucketVars, tierVars, dirty, tier, until, upto, bucket,
                   lowers, astray>>

MarkReads ==
    /\ step = "read"
    /\ step' = "write" /\ lowers' = (bucket < dirty[marking])
    /\ UNCHANGED <<threadOnly, bucketVars, tierVars, dirty, tier, until, upto, bucket,
                   marking, astray>>

MarkWrites ==
    /\ step = "write"
    /\ dirty' = IF lowers THEN [dirty EXCEPT ![marking] = bucket] ELSE dirty
    /\ NotesRaised(marking, lowers, bucket)
    /\ lowers' = FALSE
    /\ IF marking = "minute"
       THEN step' = "read" /\ marking' = "hour" /\ UNCHANGED <<tier, until, upto, bucket>>
       ELSE NextTier /\ marking' = "minute"
    /\ UNCHANGED <<threadOnly, bucketVars, tierVars>>

-----------------------------------------------------------------------------
(* backfill_rollup, a bucket at a time, from either of the two threads     *)
(* that take _rollup_lock for it.                                          *)

\* Mutant: backfill walks on below the oldest stored flow.
OneBelow(t, b) == \E r \in raw : AlignDown(r.minute, Width(t)) - Width(t) <= b

\* Not below the bucket of the oldest stored flow.
BackfillStop(t, b) == \E r \in raw : AlignDown(r.minute, Width(t)) <= b

Backfill(t) ==
    /\ AtRest /\ floor[t] # None
    /\ BackfillStop(t, floor[t] - Width(t))
    /\ step' = "fill" /\ tier' = t /\ bucket' = floor[t] - Width(t)
    /\ UNCHANGED <<threadOnly, bucketVars, tierVars, dirty, until, upto, marking,
                   lowers, astray>>

LowerFloor ==
    /\ step = "lower"
    /\ floor' = [floor EXCEPT ![tier] = bucket]
    /\ step' = "start" /\ tier' = "minute" /\ bucket' = 0
    /\ UNCHANGED <<threadOnly, bucketVars, counted, spans, watermark, dirty, until,
                   upto, marking, lowers, astray>>

-----------------------------------------------------------------------------
(* prune, by its row cap, and the end of the process.                      *)

Marks == {watermark[t] : t \in Tier} \ {None}

\* "Never cap past what the summaries have built"
Prune ==
    /\ \E r \in raw :
          /\ \A q \in raw : q.flow >= r.flow
          /\ \A m \in Marks : r.minute < m
          /\ raw' = raw \ {r}
          /\ aged' = \/ aged
                     \/ part = "rows" /\ source = "raw" /\ r \in In(raw, tier, bucket)
    /\ UNCHANGED <<sealed, arrived, announced, tierVars, dirty, step, tier, until,
                   upto, bucket, part, source, marking, lowers, writerVars, astray,
                   crashes>>

Dies ==
    /\ crashes < Crashes /\ crashes' = crashes + 1
    /\ step' = "start" /\ tier' = "minute" /\ until' = 0 /\ upto' = 0 /\ bucket' = 0
    /\ part' = "check" /\ source' = "raw" /\ aged' = FALSE
    /\ marking' = "minute" /\ lowers' = FALSE
    /\ wstep' = "idle" /\ since' = 0 /\ wmarking' = "minute" /\ wlowers' = FALSE
    /\ UNCHANGED <<sealed, announced, tierVars>>

\* History: what was in hand is in hand no longer.
InHand(t) ==
    {b \in Bucket(t) :
        \/ /\ step \in {"redo", "read", "write"} /\ t = tier
           /\ b > bucket \/ (b = bucket /\ part # "spans")
        \/ wstep # "idle" /\ b + Width(t) > since}

Crash ==
    /\ Dies
    /\ astray' = [t \in Tier |-> astray[t] \cup {b \in InHand(t) : ~Right(t, b)}]
    /\ UNCHANGED <<raw, arrived, dirty>>

\* The rows and the minute mark are committed, the hour mark is not.
CrashInInsert(m) ==
    /\ wstep = "idle" /\ m < dirty["minute"] /\ m < dirty["hour"]
    /\ Store(m) /\ Dies
    /\ dirty' = [dirty EXCEPT !["minute"] = m]
    /\ astray' = [t \in Tier |-> astray[t] \cup {b \in InHand(t) : ~Right(t, b)}
                                  \cup IF t = "hour" THEN {AlignDown(m, PerHour)} ELSE {}]

-----------------------------------------------------------------------------
Writer  == WriterReads \/ WriterWrites \/ \E m \in Minute : Insert(m) \/ Announce(m)
Compaction ==
    \/ Seed \/ SeedFloor \/ Open \/ Advance
    \/ Take \/ RedoEnds \/ RedoStops \/ MarkReads \/ MarkWrites
Backfilling == LowerFloor \/ \E t \in Tier : Backfill(t)

Next ==
    \/ Tick \/ Writer \/ Compaction \/ Backfilling \/ Bucketwise \/ Prune
    \/ Crash \/ \E m \in Minute : CrashInInsert(m)

Spec == Init /\ [][Next]_vars

-----------------------------------------------------------------------------
(* What a chart from minute t0 on, without an end, adds up: _rollup_plan,  *)
(* the coarsest tier first, and the arms _agg_rows makes of it.            *)

\* Mutant: a tier answers for a window that begins before its floor.
Seeded(t, t0) == floor[t] # None /\ watermark[t] # None

Reaches(t, t0) == Seeded(t, t0) /\ t0 >= floor[t]

Serves(t, t0) == t0 % Width(t) = 0 /\ Reaches(t, t0) /\ watermark[t] > t0

\* Where the rows of this tier stop answering, from minute m on.
Seal(t, m) == IF Serves(t, m) THEN watermark[t] ELSE m

Between(records, low, high) == {r \in records : low <= r.minute /\ r.minute < high}

\* The flows table and its two tiers, each with the stretch it answers for:
\* the hours, _minute_tail, and the raw tail. Bounds and rows are of the same
\* moment here; the code reads the rows in a statement of its own.
Answer(t0) ==
    LET hours   == Seal("hour", t0)
        minutes == Seal("minute", hours) IN
    {<<"hour", r>>   : r \in Between(counted["hour"], t0, hours)} \cup
    {<<"minute", r>> : r \in Between(counted["minute"], hours, minutes)} \cup
    {<<"raw", r>>    : r \in Between(raw, minutes, Horizon)}

-----------------------------------------------------------------------------
TypeOK ==
    /\ sealed \in 0..Horizon /\ raw \subseteq Record /\ arrived \in 0..Flows
    /\ announced \in BOOLEAN
    /\ counted \in [Tier -> SUBSET Record] /\ spans \in [Tier -> SUBSET Record]
    /\ watermark \in [Tier -> -1..Horizon] /\ floor \in [Tier -> -1..Horizon]
    /\ dirty \in [Tier -> 0..Horizon]
    /\ step \in {"start", "seed", "build", "take", "redo", "read",
                 "write", "fill", "lower"}
    /\ tier \in Tier /\ until \in 0..Horizon /\ upto \in 0..Horizon
    /\ part \in {"check", "rows", "spans"} /\ source \in {"raw", "minutes"}
    /\ aged \in BOOLEAN
    /\ bucket \in 0..Horizon /\ marking \in Tier /\ lowers \in BOOLEAN
    /\ wstep \in {"idle", "read", "write"} /\ since \in 0..Horizon
    /\ wmarking \in Tier /\ wlowers \in BOOLEAN
    /\ astray \in [Tier -> SUBSET Minute] /\ crashes \in 0..Crashes

\* The tier answers for this bucket.
Covered(t, b) == floor[t] # None /\ floor[t] <= b /\ b < watermark[t]

\* Somebody still has this bucket to rebuild.
Owed(t, b) ==
    \/ dirty[t] < b + Width(t)
    \/ b \in InHand(t)

\* A summary that lacks a stored flow, or has it at the wrong sampling rate, is
\* put right by somebody: its bucket is at or after the tier's dirty mark, or
\* in the hands of the thread that took the mark or is about to set it. The
\* exceptions are the five steps the ghost astray names, and no other: a mark
\* taken for buckets this very pass had built, an hour added up from minutes
\* that are still dirty, one mark written over a lower one, rows that raw no
\* longer covers, and a crash between the rows and the mark.
StaleIsOwed ==
    \A t \in Tier : \A b \in Bucket(t) :
        Covered(t, b) => Right(t, b) \/ Owed(t, b) \/ b \in astray[t]

\* "Flows that land later still than that are not lost either: every writer
\* records how far back it reached (_DIRTY) and the next pass rebuilds exactly
\* those buckets" (flowdb.py, at _ROLLUP_LAG_S), without a crash. Not so:
\* a flow that lands between the build of its bucket and the _redo_dirty of
\* the same pass has its mark taken by a redo that ends below the bucket.
LateFlowsNotLost ==
    \A t \in Tier : \A b \in Bucket(t) :
        Covered(t, b) => Right(t, b) \/ Owed(t, b)

\* "nothing is counted twice and nothing falls between them" (_rollup_plan):
\* hours, then minutes, then raw, whatever the floors and watermarks are while
\* the roll-up thread moves them. A flow missing from the answer is in a
\* bucket that is owed or astray.
AnswerCountsOnce ==
    \A t0 \in Minute :
        /\ \A x, y \in Answer(t0) : x[2].flow = y[2].flow => x = y
        /\ \A r \in Between(raw, t0, Horizon) :
              \/ \E x \in Answer(t0) : x[2] = r
              \/ \E t \in Tier : LET b == AlignDown(r.minute, Width(t)) IN
                     Covered(t, b) /\ (Owed(t, b) \/ b \in astray[t])

\* The span counts fewer flows than the rows add up: raw has lost some, or
\* the process died, between the commit of the one and of the other.
Loose(t, b) == Cardinality(In(spans[t], t, b)) < Cardinality(In(counted[t], t, b))

\* A flow that was counted outlives its row: no redo or late flow makes a
\* bucket of a tier count fewer flows because raw was pruned in the meantime.
\* Excepted is a bucket that raw left between _raw_short's check and the
\* rebuild, and one whose span had fallen behind its rows; and an hour that
\* has come to be built from minutes, for those may have been backfilled
\* from fewer flows than the hour was.
NothingUncounted ==
    [][\A t \in Tier : \A b \in Bucket(t) :
         \/ ~(Covered(t, b) /\ Covered(t, b)')
         \/ FromMinutes(t, b)
         \/ aged /\ t = tier /\ b = bucket
         \/ Loose(t, b)
         \/ Cardinality(In(counted'[t], t, b)) >= Cardinality(In(counted[t], t, b))]_vars
=============================================================================
