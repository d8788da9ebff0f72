-------------------------- MODULE FlowRollup_proofs --------------------------
(***************************************************************************)
(* FlowRollup's types and its three properties, for every horizon, hour    *)
(* and number of flows and crashes.                                        *)
(*                                                                         *)
(* StaleIsOwed is not inductive: a tier answers for a bucket only when its *)
(* mark moves, a step after the bucket was built, and of the threads that  *)
(* have a bucket in hand only some will still come to it.  Watched says    *)
(* the same of the buckets about to be answered for, and names who will    *)
(* come.  It rests on the arithmetic of bucket starts (Apart: two of them  *)
(* are a width apart) and on Positions, where the roll-up thread is among  *)
(* its marks.  AnswerCountsOnce follows from it and from Ids; Finite makes *)
(* the counts of NothingUncounted numbers.                                 *)
(***************************************************************************)
EXTENDS FlowRollup, FiniteSetTheorems, TLAPS

\* Division with remainder.
LEMMA Remainder ==
  ASSUME NEW m \in Nat, NEW w \in Nat \ {0}
  PROVE  m % w \in 0..(w - 1) /\ m % w <= m /\ m = w * (m \div w) + (m % w) /\ m \div w \in Nat
  OBVIOUS

\* A multiple of the width begins a bucket.
LEMMA Multiple ==
  ASSUME NEW q \in Nat, NEW w \in Nat \ {0}
  PROVE  w * q \in Nat /\ (w * q) % w = 0
<1>1. w * q \in Nat
  OBVIOUS
<1>2. \A a \in Nat, k \in Nat : a = w * q + k /\ k < w => a % w = k
  OBVIOUS
<1>3. w * q = w * q + 0
  BY <1>1
<1> QED
  BY <1>1, <1>2, <1>3

\* A bucket begins at or before each of its minutes, less than its width before.
LEMMA Align ==
  ASSUME NEW m \in Nat, NEW w \in Nat \ {0}
  PROVE  /\ AlignDown(m, w) \in Nat /\ AlignDown(m, w) <= m /\ m < AlignDown(m, w) + w
         /\ AlignDown(m, w) % w = 0
<1>1. /\ m % w \in 0..(w - 1) /\ m % w <= m /\ m = w * (m \div w) + (m % w)
      /\ m \div w \in Nat
  BY Remainder
<1>2. m - (m % w) = w * (m \div w)
  BY <1>1
<1>3. (w * (m \div w)) % w = 0 /\ w * (m \div w) \in Nat
  BY <1>1, Multiple
<1> QED
  BY <1>1, <1>2, <1>3 DEF AlignDown

\* Two bucket starts are a width apart, or equal.
LEMMA Apart ==
  ASSUME NEW a \in Nat, NEW b \in Nat, NEW w \in Nat \ {0}, a % w = 0, b % w = 0, a < b
  PROVE  a + w <= b
<1> DEFINE i == a \div w
           j == b \div w
<1>1. a = w * i /\ b = w * j /\ i \in Nat /\ j \in Nat
  BY Remainder
<1>2. i < j
  <2>1. ASSUME j <= i PROVE w * j <= w * i
    BY <1>1, <2>1
  <2> QED
    BY <1>1, <2>1
<1>3. w * i + w <= w * j
  <2> HIDE DEF i, j
  <2> QED
    BY <1>1, <1>2
<1> QED
  BY <1>1, <1>3

\* The bucket after this one, and the one before.
LEMMA Neighbours ==
  ASSUME NEW a \in Nat, NEW w \in Nat \ {0}, a % w = 0
  PROVE  (a + w) % w = 0 /\ (a >= w => (a - w) % w = 0)
<1> DEFINE i == a \div w
<1>1. a = w * i /\ i \in Nat
  BY Remainder
<1> HIDE DEF i
<1>2. a + w = w * (i + 1) /\ (i + 1) \in Nat
  BY <1>1
<1>3. (a + w) % w = 0
  BY <1>2, Multiple
<1>4. a >= w => i >= 1
  BY <1>1
<1>5. i >= 1 => a - w = w * (i - 1) /\ (i - 1) \in Nat
  BY <1>1
<1>6. i >= 1 => (w * (i - 1)) % w = 0
  BY <1>5, Multiple
<1> QED
  BY <1>3, <1>4, <1>5, <1>6

\* No tier has buckets of nothing.
LEMMA WidthIsPositive == \A t \in Tier : Width(t) \in Nat \ {0} /\ 0 % Width(t) = 0
<1>1. \A t \in Tier : Width(t) \in Nat \ {0}
  BY PerHourAssumption DEF Width
<1>2. ASSUME NEW w \in Nat \ {0} PROVE 0 % w = 0
  BY Remainder
<1> QED
  BY <1>1, <1>2

\* The start of a bucket of this tier, or the end of its last one.
Start(t, b) == b \in 0..Horizon /\ b % Width(t) = 0

\* The bucket a minute falls in begins at it or before, within a width of it.
LEMMA StartOf ==
  ASSUME NEW t \in Tier, NEW m \in 0..Horizon
  PROVE  /\ Start(t, AlignDown(m, Width(t)))
         /\ AlignDown(m, Width(t)) <= m /\ m < AlignDown(m, Width(t)) + Width(t)
<1>1. m \in Nat /\ Width(t) \in Nat \ {0}
  BY WidthIsPositive, HorizonAssumption
<1>2. /\ AlignDown(m, Width(t)) \in Nat /\ AlignDown(m, Width(t)) <= m
      /\ m < AlignDown(m, Width(t)) + Width(t)
      /\ AlignDown(m, Width(t)) % Width(t) = 0
  BY <1>1, Align
<1> QED
  BY <1>2, HorizonAssumption DEF Start

\* What is stored and what is added up are records.
Contents ==
    /\ raw \subseteq Record /\ arrived \in 0..Flows
    /\ announced \in BOOLEAN
    /\ counted \in [Tier -> SUBSET Record] /\ spans \in [Tier -> SUBSET Record]
    /\ tier \in Tier

\* Only the bucket that is built changes, to what the tier below says of it.
LEMMA RebuiltChanges ==
  ASSUME NEW table, table \in [Tier -> SUBSET Record], tier \in Tier, NEW new, new = Rebuilt(table)
  PROVE  /\ \A u \in Tier \ {tier} : new[u] = table[u]
         /\ new[tier] = (table[tier] \ In(table[tier], tier, bucket))
                           \cup In(From(table), tier, bucket)
         /\ raw \subseteq Record => new \in [Tier -> SUBSET Record]
<1>1. From(table) \in {raw, table["minute"]} /\ "minute" \in Tier
  BY DEF From, Tier
<1>2. In(From(table), tier, bucket) \subseteq From(table)
  BY DEF In
<1> QED
  BY <1>1, <1>2 DEF Rebuilt

\* Every commit writes records.
LEMMA ContentsHold == Spec => []Contents
<1>1. Init => Contents
  <2> SUFFICES ASSUME Init PROVE Contents
    OBVIOUS
  <2>1. /\ counted \in [Tier -> SUBSET Record] /\ spans \in [Tier -> SUBSET Record]
        /\ announced \in BOOLEAN
    BY DEF Init
  <2>2. raw = {} /\ arrived = 0 /\ tier = "minute"
    BY DEF Init, AtRest
  <2> QED
    BY <2>1, <2>2, BoundAssumption DEF Contents, Tier
<1>2. Contents /\ [Next]_vars => Contents'
  <2> SUFFICES ASSUME Contents, [Next]_vars
               PROVE  Contents'
    OBVIOUS
  <2> USE BoundAssumption DEF Contents, flowVars, tierVars, threadVars, bucketVars, writerVars, threadOnly,
         rebuildOnly
  <2>1. ASSUME NEW m \in Minute, Store(m) PROVE raw' \subseteq Record /\ arrived' \in 0..Flows
    <3>1. arrived' \in 1..Flows
      BY <2>1 DEF Store
    <3>2. [flow |-> arrived', minute |-> m, rated |-> announced] \in Record
      BY <3>1 DEF Record
    <3> QED
      BY <2>1, <3>1, <3>2 DEF Store
  <2>2. ASSUME NEW m \in Minute, Insert(m) \/ CrashInInsert(m) PROVE Contents'
    <3>1. Store(m) /\ UNCHANGED <<announced, counted, spans>> /\ tier' \in {tier, "minute"}
      BY <2>2 DEF Insert, CrashInInsert, Dies
    <3> QED
      BY <2>1, <3>1 DEF Tier
  <2>3. ASSUME NEW m \in Minute, Announce(m) PROVE Contents'
    <3>1. ASSUME NEW r \in raw PROVE [r EXCEPT !.rated = @ \/ r.minute >= m] \in Record
      BY DEF Record
    <3>2. raw' \subseteq Record
      BY <2>3, <3>1 DEF Announce
    <3> QED
      BY <2>3, <3>2 DEF Announce
  <2>4. CASE Rows
    <3>1. counted' = Rebuilt(counted) /\ UNCHANGED <<raw, arrived, announced, tier, spans>>
      BY <2>4 DEF Rows
    <3> QED
      BY <3>1, RebuiltChanges
  <2>5. CASE Spans
    <3>1. spans' = Rebuilt(spans) /\ UNCHANGED <<raw, arrived, announced, tier, counted>>
      BY <2>5 DEF Spans
    <3> QED
      BY <3>1, RebuiltChanges
  <2>6. CASE Prune
    BY <2>6 DEF Prune
  <2>7. CASE Tick \/ WriterReads \/ WriterWrites \/ Crash \/ LowerFloor \/ Check \/ LeaveBuilt
             \/ \E t \in Tier : Backfill(t)
    BY <2>7 DEF Tick, WriterReads, WriterWrites, Crash, Dies, LowerFloor, Tier, Check,
       LeaveBuilt, Backfill
  <2>8. CASE Seed \/ SeedFloor \/ Open \/ Advance \/ Take \/ RedoEnds \/ RedoStops
             \/ MarkReads \/ MarkWrites
    BY <2>8 DEF Seed, SeedFloor, Open, Advance, Take, RedoEnds, RedoStops, MarkReads,
       MarkWrites, NextTier, Tier
  <2>9. CASE UNCHANGED vars
    BY <2>9 DEF vars
  <2> QED
    BY <2>2, <2>3, <2>4, <2>5, <2>6, <2>7, <2>8, <2>9
    DEF Next, Writer, Compaction, Backfilling, Bucketwise
<1> QED
  BY <1>1, <1>2, PTL DEF Spec

\* The types of marks and positions. Everything a pass goes through is aligned.
Shape ==
    /\ sealed \in 0..Horizon
    /\ watermark \in [Tier -> -1..Horizon] /\ floor \in [Tier -> -1..Horizon]
    /\ dirty \in [Tier -> 0..Horizon]
    /\ step \in {"start", "seed", "build", "take", "redo", "read", "write", "fill", "lower"}
    /\ part \in {"check", "rows", "spans"} /\ source \in {"raw", "minutes"}
    /\ tier \in Tier /\ marking \in Tier
    /\ \A t \in Tier :
         /\ watermark[t] # None => Start(t, watermark[t])
         /\ floor[t] # None => Start(t, floor[t]) /\ watermark[t] # None
    /\ Start(tier, until) /\ Start(tier, upto) /\ Start(tier, bucket)
    /\ step \in {"start", "seed", "fill", "lower"} => until = 0 /\ upto = 0
    /\ step \in {"start", "seed"} => bucket = 0
    /\ step # "start" => watermark[tier] # None
    /\ part # "check" => Due
    /\ wstep \in {"idle", "read", "write"} /\ since \in 0..Horizon /\ wmarking \in Tier

\* Every step leaves the marks and the thread on the starts of buckets.
LEMMA ShapeHolds == Spec => []Shape
<1> USE WidthIsPositive, HorizonAssumption
<1>1. Init => Shape
  <2> SUFFICES ASSUME Init PROVE Shape
    OBVIOUS
  <2>1. /\ watermark = [t \in Tier |-> None] /\ floor = [t \in Tier |-> None]
        /\ dirty = [t \in Tier |-> Clean]
    BY DEF Init
  <2> QED
    BY <2>1 DEF Init, AtRest, Shape, Start, Tier, None, Clean, Due
<1>2. Contents /\ Shape /\ [Next]_vars => Shape'
  <2> SUFFICES ASSUME Contents, Shape, [Next]_vars
               PROVE  Shape'
    OBVIOUS
  <2> USE DEF Shape, Start, None, Due, flowVars, tierVars, threadVars, bucketVars, writerVars, threadOnly,
         rebuildOnly
  <2>1. CASE Tick
    BY <2>1 DEF Tick
  <2>2. ASSUME NEW m \in Minute, Insert(m) PROVE Shape'
    BY <2>2 DEF Insert, Lowered, Earlier, Minute
  <2>3. ASSUME NEW m \in Minute, Announce(m) PROVE Shape'
    <3>1. wstep' \in {wstep, "read"} /\ since' \in {since, m} /\ wmarking' = wmarking
      BY <2>3 DEF Announce
    <3> QED
      BY <2>3, <3>1 DEF Announce, Minute
  <2>4. CASE WriterReads
    BY <2>4 DEF WriterReads
  <2>5. CASE WriterWrites
    BY <2>5 DEF WriterWrites, Tier
  <2>6. CASE Seed
    <3>1. Start(tier, AlignDown(sealed, Width(tier)))
      BY StartOf
    <3> QED
      BY <2>6, <3>1 DEF Seed
  <2>7. CASE SeedFloor
    BY <2>7 DEF SeedFloor, NextTier, Tier
  <2>8. CASE Open
    <3>1. Start(tier, AlignDown(sealed, Width(tier)))
      BY StartOf
    <3> QED
      BY <2>8, <3>1 DEF Open
  <2>9. CASE Check \/ Rows
    BY <2>9 DEF Check, Rows
  <2>10. CASE Advance
    BY <2>10 DEF Advance
  <2>11. CASE Take
    <3>1. Start(tier, AlignDown(dirty[tier], Width(tier)))
      BY StartOf
    <3>2. Start(tier, Later(AlignDown(dirty[tier], Width(tier)), floor[tier]))
      BY <3>1 DEF Later
    <3> QED
      BY <2>11, <3>2 DEF Take, NextTier, Tier, Clean
  <2>12. CASE LeaveBuilt \/ Spans
    <3>1. /\ Due /\ Passes /\ part' = "check"
          /\ UNCHANGED <<sealed, watermark, floor, dirty, tier, marking, until, upto, wstep,
                         since, wmarking>>
      BY <2>12 DEF LeaveBuilt, Spans
    <3>2. source' \in {"raw", "minutes"}
      BY <2>12 DEF LeaveBuilt, Spans
    <3>3. CASE step = "fill"
      BY <3>1, <3>2, <3>3 DEF Passes
    <3>4. CASE step # "fill"
      <4>1. bucket' = bucket + Width(tier) /\ step' = step
        BY <3>1, <3>4 DEF Passes
      <4>2. bucket + Width(tier) \in 0..Horizon
        <5>1. step = "redo" => bucket + Width(tier) <= upto
          BY <3>1, Apart
        <5> QED
          BY <3>1, <3>4, <5>1
      <4>3. (bucket + Width(tier)) % Width(tier) = 0
        BY Neighbours
      <4> QED
        BY <3>1, <3>2, <3>4, <4>1, <4>2, <4>3
    <3> QED
      BY <3>3, <3>4
  <2>13. CASE RedoEnds
    BY <2>13 DEF RedoEnds, NextTier, Tier
  <2>14. CASE RedoStops
    BY <2>14 DEF RedoStops
  <2>15. CASE MarkReads
    BY <2>15 DEF MarkReads
  <2>16. CASE MarkWrites
    BY <2>16 DEF MarkWrites, NextTier, Tier
  <2>17. ASSUME NEW t \in Tier, Backfill(t) PROVE Shape'
    <3>1. PICK r \in raw : AlignDown(r.minute, Width(t)) <= floor[t] - Width(t)
      BY <2>17 DEF Backfill, BackfillStop
    <3>2. r.minute \in 0..Horizon
      BY DEF Contents, Record, Minute
    <3>3. AlignDown(r.minute, Width(t)) \in 0..Horizon
      BY <3>2, StartOf
    <3>4. floor[t] - Width(t) >= 0 /\ (floor[t] - Width(t)) % Width(t) = 0
      <4>1. floor[t] \in 0..Horizon /\ floor[t] % Width(t) = 0
        BY <2>17 DEF Backfill
      <4>2. Width(t) \in Nat \ {0}
        OBVIOUS
      <4>3. floor[t] - Width(t) >= 0
        BY <3>1, <3>3, <4>1, <4>2
      <4> QED
        BY <4>1, <4>2, <4>3, Neighbours
    <3>5. floor[t] - Width(t) \in 0..Horizon
      BY <2>17, <3>4
    <3> QED
      BY <2>17, <3>4, <3>5 DEF Backfill, AtRest
  <2>18. CASE LowerFloor
    BY <2>18 DEF LowerFloor, Tier
  <2>19. CASE Prune
    BY <2>19 DEF Prune
  <2>20. CASE Crash
    BY <2>20 DEF Crash, Dies, Tier
  <2>21. ASSUME NEW m \in Minute, CrashInInsert(m) PROVE Shape'
    BY <2>21 DEF CrashInInsert, Dies, Tier, Minute
  <2>22. CASE UNCHANGED vars
    BY <2>22 DEF vars
  <2> QED
    BY <2>1, <2>2, <2>3, <2>4, <2>5, <2>6, <2>7, <2>8, <2>9, <2>10, <2>11,
       <2>12, <2>13, <2>14, <2>15, <2>16, <2>17, <2>18, <2>19, <2>20, <2>21, <2>22
    DEF Next, Writer, Compaction, Backfilling, Bucketwise
<1> QED
  BY <1>1, <1>2, ContentsHold, PTL DEF Spec

\* What the thread has in mind agrees with the marks of its tier.
Positions ==
    /\ step = "build" => upto = watermark[tier] /\ upto <= bucket
    /\ step \in {"take", "redo", "read", "write"} => upto <= watermark[tier]
    /\ step \in {"redo", "read", "write"} => floor[tier] <= bucket
    /\ step \in {"fill", "lower"} => floor[tier] # None /\ floor[tier] = bucket + Width(tier)
    /\ wstep = "idle" => wmarking = "minute"

\* The thread and its tier's marks move together.
LEMMA PositionsHold == Spec => []Positions
<1> USE WidthIsPositive, HorizonAssumption
<1>1. Init => Positions
  BY DEF Init, AtRest, Positions
<1>2. Contents /\ Shape /\ Positions /\ [Next]_vars => Positions'
  <2> SUFFICES ASSUME Contents, Shape, Positions, [Next]_vars
               PROVE  Positions'
    OBVIOUS
  <2>0. /\ Width(tier) \in Nat \ {0} /\ tier \in Tier
        /\ watermark \in [Tier -> -1..Horizon] /\ floor \in [Tier -> -1..Horizon]
        /\ bucket \in 0..Horizon /\ upto \in 0..Horizon
    BY DEF Shape, Start
  <2> USE <2>0 DEF Positions, None, flowVars, tierVars, threadVars, bucketVars, writerVars, threadOnly,
         rebuildOnly
  <2>1. CASE Tick \/ Prune \/ WriterReads
    BY <2>1 DEF Tick, Prune, WriterReads
  <2>2. ASSUME NEW m \in Minute, Insert(m) \/ Announce(m) PROVE Positions'
    <3>1. CASE Insert(m)
      BY <3>1 DEF Insert
    <3>2. CASE Announce(m)
      BY <3>2 DEF Announce
    <3> QED
      BY <2>2, <3>1, <3>2
  <2>3. CASE WriterWrites
    BY <2>3 DEF WriterWrites
  <2>4. CASE Seed \/ SeedFloor \/ RedoEnds
    BY <2>4 DEF Seed, SeedFloor, RedoEnds, NextTier
  <2>5. CASE Open
    BY <2>5 DEF Open
  <2>6. CASE Check \/ Rows
    BY <2>6 DEF Check, Rows
  <2>7. CASE Advance
    BY <2>7 DEF Advance
  <2>8. CASE Take
    <3>1. AlignDown(dirty[tier], Width(tier)) \in 0..Horizon
      BY StartOf DEF Shape, Start
    <3>2. floor[tier] <= Later(AlignDown(dirty[tier], Width(tier)), floor[tier])
      BY <3>1 DEF Later
    <3> QED
      BY <2>8, <3>2 DEF Take, NextTier
  <2>9. CASE LeaveBuilt \/ Spans
    <3>1. Passes /\ UNCHANGED <<watermark, floor, tier, upto, wstep, wmarking>>
      BY <2>9 DEF LeaveBuilt, Spans
    <3>2. CASE step = "fill"
      BY <3>1, <3>2 DEF Passes
    <3>3. CASE step # "fill"
      <4>1. step' = step /\ bucket' = bucket + Width(tier) /\ Due
        BY <2>9, <3>1, <3>3 DEF Passes, LeaveBuilt, Spans, Shape
      <4>2. step \in {"build", "redo"}
        BY <3>3, <4>1 DEF Due
      <4>3. floor[tier] \in Int /\ upto \in Int /\ bucket \in Int /\ Width(tier) \in Nat
        OBVIOUS
      <4>4. \A x \in Int : x <= bucket => x <= bucket + Width(tier)
        BY <4>3
      <4> QED
        BY <3>1, <4>1, <4>2, <4>3, <4>4
    <3> QED
      BY <3>2, <3>3
  <2>10. CASE RedoStops \/ MarkReads
    BY <2>10 DEF RedoStops, MarkReads
  <2>11. CASE MarkWrites
    BY <2>11 DEF MarkWrites, NextTier
  <2>12. ASSUME NEW t \in Tier, Backfill(t) PROVE Positions'
    <3>1. Width(t) \in Nat \ {0} /\ floor[t] \in Int
      OBVIOUS
    <3> QED
      BY <2>12, <3>1 DEF Backfill, AtRest
  <2>13. CASE LowerFloor
    BY <2>13 DEF LowerFloor
  <2>14. CASE Crash
    BY <2>14 DEF Crash, Dies
  <2>15. ASSUME NEW m \in Minute, CrashInInsert(m) PROVE Positions'
    BY <2>15 DEF CrashInInsert, Dies
  <2>16. CASE UNCHANGED vars
    BY <2>16 DEF vars
  <2> QED
    BY <2>1, <2>2, <2>3, <2>4, <2>5, <2>6, <2>7, <2>8, <2>9, <2>10, <2>11, <2>12, <2>13,
       <2>14, <2>15, <2>16
    DEF Next, Writer, Compaction, Backfilling, Bucketwise
<1> QED
  BY <1>1, <1>2, ContentsHold, ShapeHolds, PTL DEF Spec

\* The types of the marks read and of the history.
Marked ==
    /\ lowers \in BOOLEAN /\ wlowers \in BOOLEAN /\ aged \in BOOLEAN
    /\ crashes \in 0..Crashes
    /\ astray \in [Tier -> SUBSET Minute]

\* The history names only buckets there are.
LEMMA MarkedHolds == Spec => []Marked
<1>1. Init => Marked
  <2> SUFFICES ASSUME Init PROVE Marked
    OBVIOUS
  <2>1. lowers \in BOOLEAN /\ wlowers \in BOOLEAN /\ aged \in BOOLEAN
    BY DEF Init
  <2>2. crashes \in 0..Crashes /\ astray \in [Tier -> SUBSET Minute]
    BY BoundAssumption DEF Init
  <2> QED
    BY <2>1, <2>2 DEF Marked
<1>2. Contents /\ Shape /\ Positions /\ Marked /\ [Next]_vars => Marked'
  <2> SUFFICES ASSUME Contents, Shape, Positions, Marked, [Next]_vars
               PROVE  Marked'
    OBVIOUS
  <2> USE BoundAssumption
      DEF Marked, flowVars, tierVars, threadVars, bucketVars, writerVars, threadOnly,
         rebuildOnly
  <2>1. ASSUME NEW t \in Tier, NEW S, NotesUnmarked(t, S), S \subseteq Bucket(t)
        PROVE  astray' \in [Tier -> SUBSET Minute]
    BY <2>1 DEF NotesUnmarked, Bucket
  <2>2. ASSUME NEW t \in Tier, NEW w, NEW m, NotesRaised(t, w, m)
        PROVE  astray' \in [Tier -> SUBSET Minute]
    <3> DEFINE S == IF w THEN {b \in Bucket(t) : b + Width(t) <= m} ELSE {}
    <3>1. S \subseteq Bucket(t)
      OBVIOUS
    <3> QED
      BY <2>1, <2>2, <3>1 DEF NotesRaised
  <2>3. ASSUME NEW t \in Tier, NEW b \in Minute, NotesRebuilt(t, b)
        PROVE  astray' \in [Tier -> SUBSET Minute]
    BY <2>3 DEF NotesRebuilt
  <2>4. CASE WriterReads
    BY <2>4 DEF WriterReads
  <2>5. CASE WriterWrites
    <3>1. astray' \in [Tier -> SUBSET Minute]
      BY <2>5, <2>2 DEF WriterWrites, Shape
    <3> QED
      BY <2>5, <3>1 DEF WriterWrites
  <2>6. CASE LeaveBuilt \/ Rows
    <3>1. Due
      BY <2>6 DEF LeaveBuilt, Rows, Shape
    <3>2. bucket \in Minute
      <4>1. step = "fill" => bucket + Width(tier) = floor[tier]
        BY DEF Positions
      <4> QED
        BY <3>1, <4>1, WidthIsPositive, HorizonAssumption DEF Due, Shape, Start, Minute
    <3>3. NotesRebuilt(tier, bucket) /\ UNCHANGED <<lowers, wlowers, crashes>>
      BY <2>6 DEF LeaveBuilt, Rows
    <3>4. aged' \in BOOLEAN
      BY <2>6 DEF LeaveBuilt, Rows
    <3> QED
      BY <2>3, <3>2, <3>3, <3>4 DEF Shape
  <2>7. CASE Take
    <3> DEFINE S == {b \in Bucket(tier) : b >= upto /\ b < watermark[tier]}
    <3>1. S \subseteq Bucket(tier) /\ NotesUnmarked(tier, S) /\ tier \in Tier
      BY <2>7 DEF Take, Shape
    <3>2. astray' \in [Tier -> SUBSET Minute]
      BY <2>1, <3>1
    <3> QED
      BY <2>7, <3>2 DEF Take, NextTier
  <2>8. CASE MarkReads
    BY <2>8 DEF MarkReads
  <2>9. CASE MarkWrites
    <3>1. astray' \in [Tier -> SUBSET Minute]
      BY <2>9, <2>2 DEF MarkWrites, Shape
    <3> QED
      BY <2>9, <3>1 DEF MarkWrites
  <2>10. CASE Prune
    <3>1. aged' \in BOOLEAN /\ UNCHANGED <<lowers, wlowers, crashes, astray>>
      BY <2>10 DEF Prune
    <3> QED
      BY <3>1
  <2>11. CASE Crash
    <3>1. \A t \in Tier : {b \in InHand(t) : ~Right(t, b)} \subseteq Minute
      BY DEF InHand, Bucket
    <3>2. astray' \in [Tier -> SUBSET Minute]
      BY <2>11, <3>1 DEF Crash
    <3>3. lowers' \in BOOLEAN /\ wlowers' \in BOOLEAN /\ aged' \in BOOLEAN
      BY <2>11 DEF Crash, Dies
    <3> QED
      BY <2>11, <3>2, <3>3 DEF Crash, Dies
  <2>12. ASSUME NEW m \in Minute, CrashInInsert(m) PROVE Marked'
    <3>1. \A t \in Tier : {b \in InHand(t) : ~Right(t, b)} \subseteq Minute
      BY DEF InHand, Bucket
    <3>2. AlignDown(m, PerHour) \in Minute
      BY Align, PerHourAssumption, HorizonAssumption DEF Minute
    <3>3. astray' \in [Tier -> SUBSET Minute]
      BY <2>12, <3>1, <3>2 DEF CrashInInsert
    <3>4. lowers' \in BOOLEAN /\ wlowers' \in BOOLEAN /\ aged' \in BOOLEAN
      BY <2>12 DEF CrashInInsert, Dies
    <3> QED
      BY <2>12, <3>3, <3>4 DEF CrashInInsert, Dies
  <2>13. ASSUME NEW m \in Minute, Insert(m) \/ Announce(m) PROVE Marked'
    <3>1. UNCHANGED <<lowers, wlowers, crashes, astray, aged>>
      BY <2>13 DEF Insert, Announce
    <3> QED
      BY <3>1
  <2>14. CASE Tick \/ Seed \/ SeedFloor \/ Open \/ Advance \/ RedoEnds \/ RedoStops
              \/ LowerFloor \/ Check \/ Spans \/ \E t \in Tier : Backfill(t)
    <3>1. UNCHANGED <<lowers, wlowers, crashes, astray, aged>>
      BY <2>14 DEF Tick, Seed, SeedFloor, Open, Advance, RedoEnds, RedoStops, LowerFloor,
         Check, Spans, Backfill
    <3> QED
      BY <3>1
  <2>15. CASE UNCHANGED vars
    BY <2>15 DEF vars
  <2> QED
    BY <2>4, <2>5, <2>6, <2>7, <2>8, <2>9, <2>10, <2>11, <2>12, <2>13, <2>14, <2>15
    DEF Next, Writer, Compaction, Backfilling, Bucketwise
<1> QED
  BY <1>1, <1>2, ContentsHold, ShapeHolds, PositionsHold, PTL DEF Spec

\* Marks, positions and history keep their types: no mark leaves the minutes
\* there are, for backfill stops at the oldest flow and a redo at its upto.
THEOREM TypeCorrect == Spec => []TypeOK
<1>1. Contents /\ Shape /\ Marked => TypeOK
  <2> SUFFICES ASSUME Contents, Shape, Marked PROVE TypeOK
    OBVIOUS
  <2>1. until \in 0..Horizon /\ upto \in 0..Horizon /\ bucket \in 0..Horizon
    BY DEF Shape, Start
  <2> QED
    BY <2>1 DEF Contents, Shape, Marked, TypeOK
<1> QED
  BY <1>1, ContentsHold, ShapeHolds, MarkedHolds, PTL

-----------------------------------------------------------------------------
(* A wrong summary is owed.                                                *)

\* Apart, for the buckets of a tier.
LEMMA NextBucket ==
  ASSUME NEW t \in Tier, NEW a, NEW b, Start(t, a), Start(t, b), a < b
  PROVE  a + Width(t) <= b
<1>1. a \in Nat /\ b \in Nat /\ Width(t) \in Nat \ {0} /\ a % Width(t) = 0 /\ b % Width(t) = 0
  BY WidthIsPositive, HorizonAssumption DEF Start
<1> QED
  BY <1>1, Apart

\* A bucket is named by its start.
LEMMA BucketIsStart ==
  ASSUME NEW t \in Tier, NEW b \in Bucket(t)
  PROVE  Start(t, b) /\ b \in Nat /\ b < Horizon /\ Width(t) \in Nat \ {0}
  BY WidthIsPositive, HorizonAssumption DEF Bucket, Minute, Start

\* The writer has changed flows of this bucket and has the mark still to set.
ByWriter(t, b) ==
    /\ b + Width(t) > since
    /\ \/ wstep = "read" /\ (t = wmarking \/ t = "hour")
       \/ wstep = "write" /\ t = wmarking /\ wlowers
       \/ wstep = "write" /\ t = "hour" /\ wmarking = "minute"

\* The thread has taken the mark, and has not come to this bucket yet.
ByThread(t, b) ==
    /\ t = tier /\ bucket <= b /\ b < upto
    /\ b = bucket => part # "spans"
    /\ \/ step = "redo"
       \/ step = "read" /\ marking = tier
       \/ step = "write" /\ marking = tier /\ lowers

\* The tier answers for the bucket, or will when the thread moves its mark.
Answers(t, b) ==
    \/ Covered(t, b)
    \/ t = tier /\ step = "build" /\ upto <= b /\ b < bucket
    \/ t = tier /\ step \in {"build", "fill"} /\ b = bucket /\ part = "spans"
    \/ t = tier /\ step = "lower" /\ b = bucket

\* The bucket is right, or somebody will see to it, or it is known to be lost.
Fine(t, b) ==
    \/ Right(t, b)
    \/ dirty[t] < b + Width(t)
    \/ b \in astray[t]
    \/ ByWriter(t, b)
    \/ ByThread(t, b)

\* No bucket that is answered for is wrong behind everybody's back.
Watched == \A t \in Tier : \A b \in Bucket(t) : Answers(t, b) => Fine(t, b)

\* A bucket that is rebuilt is right or noted, and no other one changes.
LEMMA Rebuilds ==
  ASSUME Rows \/ LeaveBuilt, Contents, Marked, NEW t \in Tier, NEW b
  PROVE  /\ t = tier /\ b = bucket => Right(t, b)' \/ b \in astray'[t]
         /\ ~(t = tier /\ b = bucket) => /\ Right(t, b) => Right(t, b)'
                                         /\ b \in astray[t] => b \in astray'[t]
<1>1. /\ raw' = raw /\ NotesRebuilt(tier, bucket)
      /\ \/ counted' = counted
         \/ /\ \A v \in Tier \ {tier} : counted'[v] = counted[v]
            /\ counted'[tier] = (counted[tier] \ In(counted[tier], tier, bucket))
                                  \cup In(From(counted), tier, bucket)
  BY RebuiltChanges DEF Contents, Rows, LeaveBuilt, rebuildOnly, threadOnly, flowVars
<1>2. astray' = [astray EXCEPT ![tier] =
          IF In(raw, tier, bucket) \subseteq counted'[tier] THEN @ \ {bucket} ELSE @ \cup {bucket}]
  BY <1>1 DEF NotesRebuilt
<1>3. astray \in [Tier -> SUBSET Minute]
  BY DEF Marked
<1>4. t = tier /\ b = bucket => Right(t, b)' \/ b \in astray'[t]
  BY <1>1, <1>2, <1>3 DEF Right, In
<1>5. ~(t = tier /\ b = bucket) /\ b \in astray[t] => b \in astray'[t]
  BY <1>2, <1>3
<1>6. t # tier /\ Right(t, b) => Right(t, b)'
  BY <1>1 DEF Right, In
<1>7. t = tier /\ b # bucket /\ Right(t, b) => Right(t, b)'
  BY <1>1 DEF Right, In
<1> QED
  BY <1>4, <1>5, <1>6, <1>7

\* A new flow makes only its own bucket wrong.
LEMMA Stores ==
  ASSUME NEW m \in Minute, Store(m), UNCHANGED counted, NEW t \in Tier, NEW b
  PROVE  b # AlignDown(m, Width(t)) /\ Right(t, b) => Right(t, b)'
<1>1. raw' = raw \cup {[flow |-> arrived', minute |-> m, rated |-> announced]}
  BY DEF Store
<1> QED
  BY <1>1 DEF Right, In

\* Step by step: who marks a bucket, who takes the mark, who rebuilds.
LEMMA WatchedHolds == Spec => []Watched
<1>1. Init => Watched
  <2> SUFFICES ASSUME Init, NEW t \in Tier, NEW b \in Bucket(t) PROVE ~Answers(t, b)
    BY DEF Watched
  <2>1. floor[t] = None /\ step = "start"
    BY DEF Init, AtRest
  <2> QED
    BY <2>1 DEF Answers, Covered
<1>2. Contents /\ Shape /\ Marked /\ Positions /\ Watched /\ [Next]_vars => Watched'
  <2> SUFFICES ASSUME Contents, Shape, Marked, Positions, Watched, [Next]_vars,
                      NEW t \in Tier, NEW b \in Bucket(t), Answers(t, b)'
               PROVE  Fine(t, b)'
    BY DEF Watched, Bucket
  <2>0. /\ Start(t, b) /\ b \in Nat /\ b < Horizon /\ Width(t) \in Nat \ {0}
        /\ Horizon \in Nat /\ Start(tier, bucket) /\ Start(tier, upto) /\ tier \in Tier
        /\ bucket \in 0..Horizon /\ upto \in 0..Horizon /\ since \in 0..Horizon
        /\ dirty \in [Tier -> 0..Horizon]
        /\ watermark \in [Tier -> -1..Horizon] /\ floor \in [Tier -> -1..Horizon]
        /\ Answers(t, b) => Fine(t, b)
    BY BucketIsStart, HorizonAssumption DEF Shape, Start, Watched
  <2> USE <2>0 DEF flowVars, tierVars, threadVars, bucketVars, writerVars, threadOnly,
         rebuildOnly, None
  <2>1. ASSUME UNCHANGED <<raw, counted, dirty, writerVars, astray>>, Answers(t, b),
               ByThread(t, b) => ByThread(t, b)'
        PROVE  Fine(t, b)'
    BY <2>1 DEF Fine, Right, In, ByWriter
  <2>2. CASE Tick \/ UNCHANGED vars
    <3>1. UNCHANGED <<raw, counted, dirty, writerVars, astray, threadVars, watermark, floor>>
      BY <2>2 DEF Tick, vars
    <3>2. Answers(t, b) /\ (ByThread(t, b) => ByThread(t, b)')
      BY <3>1 DEF Answers, Covered, ByThread
    <3> QED
      BY <2>1, <3>1, <3>2
  <2>3. CASE Seed
    <3>1. Answers(t, b)
      BY <2>3 DEF Seed, Answers, Covered, Shape
    <3> QED
      BY <2>1, <2>3, <3>1 DEF Seed, ByThread
  <2>4. CASE SeedFloor
    <3>1. Answers(t, b)
      BY <2>4 DEF SeedFloor, NextTier, Answers, Covered, Shape
    <3> QED
      BY <2>1, <2>4, <3>1 DEF SeedFloor, ByThread
  <2>5. CASE Open
    <3>1. Answers(t, b)
      BY <2>5 DEF Open, Answers, Covered, Shape, Due
    <3> QED
      BY <2>1, <2>5, <3>1 DEF Open, ByThread
  <2>6. CASE Advance
    <3>1. Answers(t, b)
      BY <2>6 DEF Advance, Answers, Covered, Positions
    <3> QED
      BY <2>1, <2>6, <3>1 DEF Advance, ByThread
  <2>7. CASE RedoEnds
    <3>1. Answers(t, b) /\ ~ByThread(t, b)
      BY <2>7 DEF RedoEnds, NextTier, Answers, Covered, ByThread
    <3> QED
      BY <2>1, <2>7, <3>1 DEF RedoEnds
  <2>8. CASE RedoStops
    <3>1. Answers(t, b) /\ (ByThread(t, b) => ByThread(t, b)')
      BY <2>8 DEF RedoStops, Answers, Covered, ByThread
    <3> QED
      BY <2>1, <2>8, <3>1 DEF RedoStops
  <2>9. CASE LowerFloor
    <3>1. ASSUME t = tier, bucket <= b, b # bucket PROVE floor[t] <= b
      BY <2>9, <3>1, NextBucket DEF LowerFloor, Positions
    <3>2. Answers(t, b)
      BY <2>9, <3>1 DEF LowerFloor, Answers, Covered, Positions
    <3> QED
      BY <2>1, <2>9, <3>2 DEF LowerFloor, ByThread
  <2>10. CASE Prune
    <3>1. raw' \subseteq raw
      BY <2>10 DEF Prune
    <3>2. Right(t, b) => Right(t, b)'
      BY <2>10, <3>1 DEF Prune, Right, In
    <3> QED
      BY <2>10, <3>2 DEF Prune, Answers, Covered, Fine, ByWriter, ByThread
  <2>11. ASSUME NEW m \in Minute, Insert(m) PROVE Fine(t, b)'
    <3>1. dirty'[t] <= m /\ dirty'[t] <= dirty[t] /\ dirty'[t] \in Nat /\ m \in 0..Horizon
      BY <2>11 DEF Insert, Lowered, Earlier, Minute
    <3>2. CASE b = AlignDown(m, Width(t))
      <4>1. m < b + Width(t)
        BY <3>1, <3>2, StartOf
      <4> QED
        BY <3>1, <4>1 DEF Fine
    <3>3. CASE b # AlignDown(m, Width(t))
      <4>1. Right(t, b) => Right(t, b)'
        BY <2>11, <3>3, Stores DEF Insert
      <4> QED
        BY <2>11, <3>1, <4>1 DEF Insert, Answers, Covered, Fine, ByWriter, ByThread
    <3> QED
      BY <3>2, <3>3
  <2>12. ASSUME NEW m \in Minute, Announce(m) PROVE Fine(t, b)'
    <3>1. UNCHANGED <<counted, watermark, floor, dirty, threadVars, astray>> /\ wstep = "idle"
      BY <2>12 DEF Announce
    <3>2. Answers(t, b) /\ m \in 0..Horizon
      BY <3>1 DEF Answers, Covered, Minute
    <3>3. CASE raw' = raw
      <4>1. UNCHANGED writerVars
        BY <2>12, <3>3 DEF Announce
      <4>2. ByWriter(t, b) => ByWriter(t, b)'
        BY <4>1 DEF ByWriter
      <4>3. Right(t, b) => Right(t, b)'
        BY <3>1, <3>3 DEF Right, In
      <4> QED
        BY <3>1, <3>2, <4>2, <4>3 DEF Fine, ByThread
    <3>4. CASE raw' # raw /\ b + Width(t) > m
      <4>1. wstep' = "read" /\ since' = m /\ wmarking' = "minute"
        BY <2>12, <3>4 DEF Announce, Positions
      <4> QED
        BY <3>4, <4>1 DEF Fine, ByWriter, Tier
    <3>5. CASE raw' # raw /\ b + Width(t) <= m
      <4>1. ASSUME NEW r \in raw, AlignDown(r.minute, Width(t)) = b
            PROVE  [r EXCEPT !.rated = @ \/ r.minute >= m] = r
        <5>1. r \in Record /\ r.minute \in 0..Horizon
          BY DEF Contents, Record, Minute
        <5>2. r.minute < b + Width(t)
          BY <4>1, <5>1, StartOf
        <5>3. ~(r.minute >= m)
          BY <3>2, <3>5, <5>1, <5>2
        <5> QED
          BY <5>1, <5>3 DEF Record
      <4>2. \A r \in raw : [r EXCEPT !.rated = @ \/ r.minute >= m].minute = r.minute
        BY DEF Contents, Record
      <4>3. raw' = {[r EXCEPT !.rated = @ \/ r.minute >= m] : r \in raw}
        BY <2>12 DEF Announce
      <4>4. In(raw', t, b) \subseteq In(raw, t, b)
        <5> SUFFICES ASSUME NEW x \in raw', AlignDown(x.minute, Width(t)) = b
                     PROVE  x \in raw
          BY DEF In
        <5>1. PICK r \in raw : x = [r EXCEPT !.rated = @ \/ r.minute >= m]
          BY <4>3
        <5>2. x.minute = r.minute
          BY <4>2, <5>1
        <5> QED
          BY <4>1, <5>1, <5>2
      <4>5. Right(t, b) => Right(t, b)'
        BY <3>1, <4>4 DEF Right, In
      <4>6. ~ByWriter(t, b)
        BY <3>1 DEF ByWriter
      <4> QED
        BY <3>1, <3>2, <4>5, <4>6 DEF Fine, ByThread
    <3> QED
      BY <3>2, <3>3, <3>4, <3>5
  <2>13. CASE WriterReads
    <3>1. Answers(t, b)
      BY <2>13 DEF WriterReads, Answers, Covered
    <3>2. UNCHANGED <<raw, counted, dirty, astray, threadVars, since, wmarking>>
      BY <2>13 DEF WriterReads
    <3>3. ByWriter(t, b) => ByWriter(t, b)' \/ dirty[t] < b + Width(t)
      <4>1. wstep = "read" /\ wstep' = "write" /\ UNCHANGED <<since, wmarking>>
        BY <2>13 DEF WriterReads
      <4>2. t = "hour" /\ wmarking # "hour" => wmarking = "minute"
        BY DEF Shape, Tier
      <4>3. t = wmarking => wlowers' \/ dirty[t] <= since
        <5>1. wlowers' = (since < dirty[wmarking])
          BY <2>13 DEF WriterReads
        <5>2. since < dirty[t] \/ dirty[t] <= since
          OBVIOUS
        <5> QED
          BY <5>1, <5>2, Zenon
      <4>4. b + Width(t) > since /\ dirty[t] <= since => dirty[t] < b + Width(t)
        OBVIOUS
      <4> QED
        BY <4>1, <4>2, <4>3, <4>4, Zenon DEF ByWriter
    <3> QED
      BY <3>1, <3>2, <3>3 DEF Fine, Right, In, ByThread
  <2>14. CASE WriterWrites
    <3>1. UNCHANGED <<raw, counted, watermark, floor, threadVars>> /\ wstep = "write"
      BY <2>14 DEF WriterWrites
    <3>2. Answers(t, b)
      BY <3>1 DEF Answers, Covered
    <3>3. b \in astray[t] => b \in astray'[t]
      BY <2>14 DEF WriterWrites, NotesRaised, NotesUnmarked, Marked
    <3>4. CASE t = wmarking /\ wlowers /\ since >= b + Width(t)
      <4>1. Right(t, b) \/ b \in astray'[t]
        BY <2>14, <3>4 DEF WriterWrites, NotesRaised, NotesUnmarked, Marked
      <4> QED
        BY <3>1, <4>1 DEF Fine, Right, In
    <3>5. CASE t = wmarking /\ wlowers /\ since < b + Width(t)
      <4>1. dirty'[t] = since
        BY <2>14, <3>5 DEF WriterWrites
      <4> QED
        BY <3>5, <4>1 DEF Fine
    <3>6. CASE ~(t = wmarking /\ wlowers)
      <4>1. dirty'[t] = dirty[t]
        BY <2>14, <3>6 DEF WriterWrites
      <4>2. ByWriter(t, b) => ByWriter(t, b)'
        BY <2>14, <3>6 DEF WriterWrites, ByWriter
      <4> QED
        BY <3>1, <3>2, <3>3, <4>1, <4>2 DEF Fine, Right, In, ByThread
    <3> QED
      BY <3>4, <3>5, <3>6
  <2>15. CASE Check
    <3>1. Answers(t, b) /\ (ByThread(t, b) => ByThread(t, b)')
      BY <2>15 DEF Check, Answers, Covered, ByThread
    <3> QED
      BY <2>1, <2>15, <3>1 DEF Check
  <2>16. CASE Rows \/ LeaveBuilt
    <3>1. /\ UNCHANGED <<raw, watermark, floor, dirty, tier, upto, marking, lowers, writerVars>>
          /\ part' # "rows" /\ Due
          /\ part' = "spans" => Rows
          /\ part' = "check" => LeaveBuilt
      BY <2>16 DEF Rows, LeaveBuilt, Shape
    <3>2. CASE t = tier /\ b = bucket
      BY <2>16, <3>2, Rebuilds DEF Fine
    <3>3. CASE ~(t = tier /\ b = bucket)
      <4>1. (Right(t, b) => Right(t, b)') /\ (b \in astray[t] => b \in astray'[t])
        BY <2>16, <3>3, Rebuilds
      <4>2. \/ step' = step /\ bucket' = bucket
            \/ step = "fill" /\ step' = "lower" /\ bucket' = bucket
            \/ step \in {"build", "redo"} /\ step' = step /\ bucket' = bucket + Width(tier)
        BY <2>16, <3>1 DEF Rows, LeaveBuilt, Passes, Due
      <4>3. t = tier => (b < bucket + Width(tier) => b < bucket)
                        /\ (bucket <= b => bucket + Width(tier) <= b)
        <5>1. ASSUME t = tier, bucket < b PROVE bucket + Width(tier) <= b
          BY <5>1, NextBucket
        <5> QED
          BY <3>3, <5>1
      <4>4. Answers(t, b)
        <5>1. LeaveBuilt => part' = "check"
          BY DEF LeaveBuilt
        <5>2. t = tier /\ step' = "build" /\ upto' <= b /\ b < bucket' => Answers(t, b)
          BY <3>1, <4>2, <4>3 DEF Answers
        <5>3. t = tier /\ b = bucket' /\ step' \in {"build", "fill", "lower"}
              /\ (step' = "lower" \/ part' = "spans") => Answers(t, b)
          BY <2>16, <3>1, <3>3, <4>2 DEF Rows, Answers, Due
        <5>4. Covered(t, b)' => Answers(t, b)
          BY <3>1 DEF Covered, Answers
        <5> QED
          BY <3>1, <5>2, <5>3, <5>4 DEF Answers
      <4>5. ByThread(t, b) => ByThread(t, b)'
        <5>1. LeaveBuilt => part' = "check"
          BY DEF LeaveBuilt
        <5>2. Rows => bucket' = bucket
          BY DEF Rows
        <5>3. ByThread(t, b) /\ b = bucket' => part' # "spans"
          BY <2>16, <3>3, <5>1, <5>2 DEF ByThread
        <5>4. step = "redo" => step' = "redo"
          BY <4>2
        <5>5. step \in {"read", "write"} => FALSE
          BY <3>1 DEF Due
        <5>6. ByThread(t, b) => bucket' <= b
          BY <3>1, <4>2, <4>3 DEF ByThread
        <5> QED
          BY <3>1, <5>3, <5>4, <5>5, <5>6 DEF ByThread
      <4> QED
        BY <3>1, <4>1, <4>4, <4>5 DEF Fine, ByWriter
    <3> QED
      BY <3>2, <3>3
  <2>17. CASE Spans
    <3>1. /\ UNCHANGED <<raw, counted, watermark, floor, dirty, tier, upto, marking, lowers,
                         writerVars, astray>>
          /\ part = "spans" /\ part' = "check" /\ Due
      BY <2>17 DEF Spans, Shape
    <3>2. \/ step = "fill" /\ step' = "lower" /\ bucket' = bucket
          \/ step \in {"build", "redo"} /\ step' = step /\ bucket' = bucket + Width(tier)
      BY <2>17, <3>1 DEF Spans, Passes, Due
    <3>3. t = tier => (b < bucket + Width(tier) => b <= bucket)
                      /\ (bucket < b => bucket + Width(tier) <= b)
      <4>1. ASSUME t = tier, bucket < b PROVE bucket + Width(tier) <= b
        BY <4>1, NextBucket
      <4> QED
        BY <4>1
    <3>4. Answers(t, b)
      BY <3>1, <3>2, <3>3 DEF Answers, Covered
    <3>5. ByThread(t, b) => ByThread(t, b)'
      BY <3>1, <3>2, <3>3 DEF ByThread
    <3> QED
      BY <2>1, <3>1, <3>4, <3>5
  <2>23. ASSUME NEW u \in Tier, Backfill(u) PROVE Fine(t, b)'
    <3>1. /\ UNCHANGED <<raw, counted, watermark, floor, dirty, writerVars, astray, part>>
          /\ step = "start" /\ step' = "fill" /\ part = "check"
      BY <2>23 DEF Backfill, AtRest, Shape, Due
    <3>2. Answers(t, b) /\ ~ByThread(t, b)
      BY <3>1 DEF Answers, Covered, ByThread
    <3> QED
      BY <2>1, <3>1, <3>2
  <2>18. CASE Take
    <3>1. /\ UNCHANGED <<raw, counted, watermark, floor, writerVars>> /\ step = "take"
          /\ step' \in {"start", "redo"}
      BY <2>18 DEF Take, NextTier
    <3>2. Answers(t, b) /\ Covered(t, b) /\ ~ByThread(t, b)
      BY <3>1 DEF Answers, Covered, ByThread
    <3>3. b \in astray[t] => b \in astray'[t]
      BY <2>18 DEF Take, NotesUnmarked, Marked
    <3>4. CASE t = tier /\ b >= upto
      <4>1. Right(t, b) \/ b \in astray'[t]
        BY <2>18, <3>2, <3>4 DEF Take, NotesUnmarked, Marked, Covered
      <4> QED
        BY <3>1, <4>1 DEF Fine, Right, In
    <3>5. CASE t = tier /\ b < upto /\ dirty[t] < b + Width(t)
      <4>1. b + Width(t) <= upto
        BY <3>5, NextBucket
      <4>2. dirty[t] # Clean
        BY <3>5, <4>1 DEF Clean
      <4>3. AlignDown(dirty[t], Width(t)) <= b
        <5>1. Start(t, AlignDown(dirty[t], Width(t))) /\ AlignDown(dirty[t], Width(t)) <= dirty[t]
          BY StartOf
        <5>2. AlignDown(dirty[t], Width(t)) \in 0..Horizon
          BY <5>1 DEF Start
        <5> QED
          <6>1. ASSUME b < AlignDown(dirty[t], Width(t))
                PROVE  b + Width(t) <= AlignDown(dirty[t], Width(t))
            BY <5>1, <6>1, NextBucket
          <6> QED
            BY <3>5, <5>1, <5>2, <6>1
      <4>4. Later(AlignDown(dirty[t], Width(t)), floor[t]) <= b
        BY <3>2, <4>3 DEF Later, Covered
      <4>5. step' = "redo" /\ bucket' <= b /\ UNCHANGED <<tier, upto>>
        BY <2>18, <3>5, <4>2, <4>4 DEF Take
      <4>6. part' = "check"
        BY <3>1, <2>18 DEF Take, Shape, Due
      <4> QED
        BY <3>5, <4>5, <4>6 DEF Fine, ByThread
    <3>6. CASE t # tier \/ (b < upto /\ ~(dirty[t] < b + Width(t)))
      <4>1. t # tier => dirty'[t] = dirty[t]
        BY <2>18 DEF Take
      <4> QED
        BY <3>1, <3>2, <3>3, <3>6, <4>1 DEF Fine, Right, In, ByWriter
    <3> QED
      BY <3>4, <3>5, <3>6
  <2>19. CASE MarkReads
    <3>1. Answers(t, b)
      BY <2>19 DEF MarkReads, Answers, Covered
    <3>2. UNCHANGED <<raw, counted, dirty, astray, writerVars>>
      BY <2>19 DEF MarkReads
    <3>3. ByThread(t, b) => ByThread(t, b)' \/ dirty[t] < b + Width(t)
      <4>1. step = "read" /\ step' = "write" /\ UNCHANGED <<tier, upto, bucket, marking, part>>
        BY <2>19 DEF MarkReads
      <4>2. marking = t => lowers' \/ dirty[t] <= bucket
        <5>1. lowers' = (bucket < dirty[marking])
          BY <2>19 DEF MarkReads
        <5>2. bucket < dirty[t] \/ dirty[t] <= bucket
          OBVIOUS
        <5> QED
          BY <5>1, <5>2, Zenon
      <4>3. bucket <= b /\ dirty[t] <= bucket => dirty[t] < b + Width(t)
        OBVIOUS
      <4> QED
        BY <4>1, <4>2, <4>3, Zenon DEF ByThread
    <3> QED
      BY <3>1, <3>2, <3>3 DEF Fine, Right, In, ByWriter
  <2>20. CASE MarkWrites
    <3>1. /\ UNCHANGED <<raw, counted, watermark, floor, writerVars>> /\ step = "write"
          /\ step' \in {"start", "read"}
      BY <2>20 DEF MarkWrites, NextTier
    <3>2. Answers(t, b)
      BY <3>1 DEF Answers, Covered
    <3>3. b \in astray[t] => b \in astray'[t]
      BY <2>20 DEF MarkWrites, NotesRaised, NotesUnmarked, Marked
    <3>4. CASE t = marking /\ lowers /\ bucket >= b + Width(t)
      <4>1. Right(t, b) \/ b \in astray'[t]
        BY <2>20, <3>4 DEF MarkWrites, NotesRaised, NotesUnmarked, Marked
      <4> QED
        BY <3>1, <4>1 DEF Fine, Right, In
    <3>5. CASE t = marking /\ lowers /\ bucket < b + Width(t)
      <4>1. dirty'[t] = bucket
        BY <2>20, <3>5 DEF MarkWrites
      <4> QED
        BY <3>5, <4>1 DEF Fine
    <3>6. CASE ~(t = marking /\ lowers)
      <4>1. dirty'[t] = dirty[t] /\ ~ByThread(t, b)
        BY <2>20, <3>1, <3>6 DEF MarkWrites, ByThread
      <4> QED
        BY <3>1, <3>2, <3>3, <4>1 DEF Fine, Right, In, ByWriter
    <3> QED
      BY <3>4, <3>5, <3>6
  <2>21. ASSUME NEW m \in Minute, CrashInInsert(m) PROVE Fine(t, b)'
    <3>1. /\ Store(m) /\ UNCHANGED <<counted, watermark, floor>> /\ step' = "start"
          /\ dirty' = [dirty EXCEPT !["minute"] = m] /\ m < dirty["minute"]
          /\ astray' = [v \in Tier |-> astray[v] \cup {a \in InHand(v) : ~Right(v, a)}
                            \cup IF v = "hour" THEN {AlignDown(m, PerHour)} ELSE {}]
      BY <2>21 DEF CrashInInsert, Dies
    <3>2. Answers(t, b) /\ m \in 0..Horizon
      BY <3>1 DEF Answers, Covered, Minute
    <3>3. ByWriter(t, b) \/ ByThread(t, b) => b \in InHand(t)
      BY DEF ByWriter, ByThread, InHand
    <3>4. CASE b = AlignDown(m, Width(t))
      <4>1. m < b + Width(t)
        BY <3>2, <3>4, StartOf
      <4>2. t = "hour" => b \in astray'[t]
        BY <3>1, <3>4 DEF Width
      <4>3. t = "minute" => dirty'[t] = m
        BY <3>1
      <4> QED
        BY <4>1, <4>2, <4>3 DEF Fine, Tier
    <3>5. CASE b # AlignDown(m, Width(t))
      <4>1. Right(t, b) => Right(t, b)'
        BY <3>1, <3>5, Stores
      <4>2. dirty'[t] <= dirty[t] /\ dirty'[t] \in Nat
        BY <3>1, <3>2
      <4>3. b \in astray[t] \/ (b \in InHand(t) /\ ~Right(t, b)) => b \in astray'[t]
        BY <3>1
      <4> QED
        BY <3>2, <3>3, <4>1, <4>2, <4>3 DEF Fine
    <3> QED
      BY <3>4, <3>5
  <2>22. CASE Crash
    <3>1. /\ UNCHANGED <<raw, dirty, counted, watermark, floor>> /\ step' = "start"
          /\ astray' = [v \in Tier |-> astray[v] \cup {a \in InHand(v) : ~Right(v, a)}]
      BY <2>22 DEF Crash, Dies
    <3>2. Answers(t, b)
      BY <3>1 DEF Answers, Covered
    <3>3. ByWriter(t, b) \/ ByThread(t, b) => b \in InHand(t)
      BY DEF ByWriter, ByThread, InHand
    <3>4. b \in astray[t] \/ (b \in InHand(t) /\ ~Right(t, b)) => b \in astray'[t]
      BY <3>1
    <3> QED
      BY <3>1, <3>2, <3>3, <3>4 DEF Fine, Right, In
  <2> QED
    BY <2>2, <2>3, <2>4, <2>5, <2>6, <2>7, <2>8, <2>9, <2>10, <2>11, <2>12, <2>13, <2>14,
       <2>15, <2>16, <2>17, <2>18, <2>19, <2>20, <2>21, <2>22, <2>23
    DEF Next, Writer, Compaction, Backfilling, Bucketwise
<1> QED
  BY <1>1, <1>2, ContentsHold, ShapeHolds, MarkedHolds, PositionsHold, PTL DEF Spec

\* A summary of a bucket its tier answers for has every stored flow, or the
\* dirty mark is at or below the bucket, or a thread has the bucket in hand,
\* or it was left wrong by one of the steps that are known to do so (compact_rollup,
\* _redo_dirty, _mark_dirty, backfill_rollup).
THEOREM WrongIsOwed == Spec => []StaleIsOwed
<1>1. Shape /\ Watched => StaleIsOwed
  <2> SUFFICES ASSUME Shape, Watched, NEW t \in Tier, NEW b \in Bucket(t), Covered(t, b)
               PROVE  Right(t, b) \/ Owed(t, b) \/ b \in astray[t]
    BY DEF StaleIsOwed
  <2>1. Fine(t, b)
    BY DEF Watched, Answers
  <2>2. b \in Nat /\ bucket \in Nat
    BY BucketIsStart, HorizonAssumption DEF Shape, Start
  <2>3. ByWriter(t, b) \/ ByThread(t, b) => b \in InHand(t)
    BY <2>2 DEF ByWriter, ByThread, InHand
  <2> QED
    BY <2>1, <2>3 DEF Fine, Owed
<1> QED
  BY <1>1, ShapeHolds, WatchedHolds, PTL

-----------------------------------------------------------------------------
(* A chart counts a flow once, or the bucket it is missing from is owed.   *)

\* A flow has one id and one minute wherever it is, and one row in each table.
Ids ==
    /\ \A t \in Tier : \A r \in counted[t] :
          /\ r.flow <= arrived
          /\ \A q \in counted[t] : q.flow = r.flow => q = r
          /\ \A q \in raw : q.flow = r.flow => q.minute = r.minute
          /\ \A u \in Tier : \A q \in counted[u] : q.flow = r.flow => q.minute = r.minute
    /\ \A r \in raw : r.flow <= arrived
    /\ \A r, q \in raw : q.flow = r.flow => q = r

\* Rows are added with a new id, and rebuilt bucket by bucket.
LEMMA IdsHold == Spec => []Ids
<1>1. Init => Ids
  BY DEF Init, Ids
<1>2. Contents /\ Ids /\ [Next]_vars => Ids'
  <2> SUFFICES ASSUME Contents, Ids, [Next]_vars PROVE Ids'
    OBVIOUS
  <2> USE DEF flowVars, tierVars, threadVars, bucketVars, writerVars, threadOnly,
         rebuildOnly
  <2>1. ASSUME NEW m \in Minute, Store(m), UNCHANGED counted PROVE Ids'
    <3> DEFINE new == [flow |-> arrived', minute |-> m, rated |-> announced]
    <3>1. raw' = raw \cup {new} /\ arrived' = arrived + 1 /\ arrived \in Nat
      BY <2>1, BoundAssumption DEF Store, Contents
    <3>2. new.flow = arrived + 1
      BY <3>1
    <3>3. \A r \in raw : r.flow \in Nat /\ r.flow <= arrived
      BY BoundAssumption DEF Contents, Record, Ids
    <3>4. \A t \in Tier : \A r \in counted[t] : r.flow \in Nat /\ r.flow <= arrived
      BY BoundAssumption DEF Contents, Record, Ids
    <3>5. \A r \in raw : r.flow # new.flow /\ r.flow <= arrived'
      BY <3>1, <3>2, <3>3
    <3>6. \A t \in Tier : \A r \in counted[t] : r.flow # new.flow /\ r.flow <= arrived'
      BY <3>1, <3>2, <3>4
    <3>7. new.flow <= arrived'
      BY <3>1, <3>2
    <3> HIDE DEF new
    <3>8. \A r, q \in raw' : q.flow = r.flow => q = r
      BY <3>1, <3>5 DEF Ids
    <3>9. \A t \in Tier : \A r \in counted[t] : \A q \in raw' : q.flow = r.flow => q.minute = r.minute
      BY <3>1, <3>6 DEF Ids
    <3> QED
      BY <2>1, <3>1, <3>5, <3>6, <3>7, <3>8, <3>9 DEF Ids
  <2>2. ASSUME NEW m \in Minute, Insert(m) \/ CrashInInsert(m) PROVE Ids'
    BY <2>1, <2>2 DEF Insert, CrashInInsert, Dies
  <2>3. ASSUME NEW m \in Minute, Announce(m) PROVE Ids'
    <3>1. /\ raw' = {[r EXCEPT !.rated = @ \/ r.minute >= m] : r \in raw}
          /\ UNCHANGED <<counted, arrived>>
      BY <2>3 DEF Announce
    <3>2. \A q \in raw' : \E r \in raw : /\ q = [r EXCEPT !.rated = @ \/ r.minute >= m]
                                         /\ q.flow = r.flow /\ q.minute = r.minute
      BY <3>1 DEF Contents, Record
    <3>3. \A r, q \in raw' : q.flow = r.flow => q = r
      BY <3>2 DEF Ids
    <3>4. \A t \in Tier : \A r \in counted[t] : \A q \in raw' : q.flow = r.flow => q.minute = r.minute
      BY <3>2 DEF Ids
    <3>5. \A r \in raw' : r.flow <= arrived
      BY <3>2 DEF Ids
    <3> QED
      BY <3>1, <3>3, <3>4, <3>5 DEF Ids
  <2>4. CASE Rows
    <3>1. /\ \A v \in Tier \ {tier} : counted'[v] = counted[v]
          /\ counted'[tier] = (counted[tier] \ In(counted[tier], tier, bucket))
                                 \cup In(From(counted), tier, bucket)
          /\ UNCHANGED <<raw, arrived>>
      BY <2>4, RebuiltChanges DEF Rows, Contents
    <3> DEFINE src == From(counted)
    <3>2. src = raw \/ (src = counted["minute"] /\ "minute" \in Tier)
      BY DEF From, Tier
    <3> HIDE DEF src
    <3>3. /\ \A r, q \in src : q.flow = r.flow => q = r
          /\ \A r \in src : r.flow <= arrived
          /\ \A r \in src, q \in raw : q.flow = r.flow => q.minute = r.minute
          /\ \A t \in Tier : \A r \in src, q \in counted[t] :
                q.flow = r.flow => q.minute = r.minute
      BY <3>2 DEF Ids
    <3>4. \A r \in counted'[tier] :
             \/ r \in counted[tier] /\ AlignDown(r.minute, Width(tier)) # bucket
             \/ r \in src /\ AlignDown(r.minute, Width(tier)) = bucket
      BY <3>1 DEF In, src
    <3>5. ASSUME NEW r \in counted'[tier]
          PROVE  /\ r.flow <= arrived
                 /\ \A q \in counted'[tier] : q.flow = r.flow => q = r
                 /\ \A q \in raw : q.flow = r.flow => q.minute = r.minute
                 /\ \A v \in Tier : \A q \in counted[v] : q.flow = r.flow => q.minute = r.minute
      <4>1. /\ r.flow <= arrived
            /\ \A q \in raw : q.flow = r.flow => q.minute = r.minute
            /\ \A v \in Tier : \A q \in counted[v] : q.flow = r.flow => q.minute = r.minute
        BY <3>3, <3>4 DEF Ids, Contents
      <4>2. ASSUME NEW q \in counted'[tier], q.flow = r.flow PROVE q = r
        <5>1. q.minute = r.minute
          BY <3>3, <3>4, <4>2 DEF Ids, Contents
        <5> QED
          BY <3>3, <3>4, <4>2, <5>1 DEF Ids, Contents
      <4> QED
        BY <4>1, <4>2
    <3> QED
      BY <3>1, <3>5 DEF Ids, Contents
  <2>7. CASE Prune
    <3>1. raw' \subseteq raw /\ UNCHANGED <<counted, arrived>>
      BY <2>7 DEF Prune
    <3> QED
      BY <3>1 DEF Ids
  <2>8. CASE Tick \/ WriterReads \/ WriterWrites \/ Crash \/ LowerFloor \/ Seed \/ SeedFloor
             \/ Open \/ Advance \/ Take \/ RedoEnds \/ RedoStops \/ MarkReads \/ MarkWrites
             \/ Check \/ LeaveBuilt \/ Spans \/ (\E t \in Tier : Backfill(t)) \/ UNCHANGED vars
    <3>1. UNCHANGED <<raw, counted, arrived>>
      BY <2>8 DEF Tick, WriterReads, WriterWrites, Crash, Dies, LowerFloor, Seed, SeedFloor,
         Open, Advance, Take, RedoEnds, RedoStops, MarkReads, MarkWrites, Check,
         LeaveBuilt, Spans, Backfill, vars
    <3> QED
      BY <3>1 DEF Ids
  <2> QED
    BY <2>2, <2>3, <2>4, <2>7, <2>8
    DEF Next, Writer, Compaction, Backfilling, Bucketwise
<1> QED
  BY <1>1, <1>2, ContentsHold, PTL DEF Spec

\* The stretches a chart takes from hours, from minutes and from raw.
LEMMA Stretches ==
  ASSUME Shape, NEW t0 \in Minute, NEW hours, hours = Seal("hour", t0),
         NEW minutes, minutes = Seal("minute", hours)
  PROVE  /\ hours \in 0..Horizon /\ t0 <= hours
         /\ t0 < hours => Start("hour", t0) /\ floor["hour"] # None /\ floor["hour"] <= t0
                          /\ hours = watermark["hour"]
         /\ minutes \in 0..Horizon /\ hours <= minutes
         /\ hours < minutes => floor["minute"] # None /\ floor["minute"] <= hours
                               /\ minutes = watermark["minute"]
<1>1. /\ "hour" \in Tier /\ "minute" \in Tier /\ t0 \in 0..Horizon /\ Horizon \in Nat
      /\ watermark \in [Tier -> -1..Horizon] /\ floor \in [Tier -> -1..Horizon]
  BY HorizonAssumption DEF Tier, Minute, Shape
<1>2. /\ hours \in 0..Horizon /\ t0 <= hours
      /\ t0 < hours => Start("hour", t0) /\ floor["hour"] # None /\ floor["hour"] <= t0
                       /\ hours = watermark["hour"]
  BY <1>1 DEF Seal, Serves, Reaches, Seeded, Start
<1>3. /\ minutes \in 0..Horizon /\ hours <= minutes
      /\ hours < minutes => floor["minute"] # None /\ floor["minute"] <= hours
                            /\ minutes = watermark["minute"]
  BY <1>1, <1>2 DEF Seal, Serves, Reaches, Seeded
<1> QED
  BY <1>2, <1>3

\* A chart counts no flow twice, and a flow it does not count is in a bucket
\* that is owed or was left wrong (_rollup_plan, _minute_tail).
THEOREM ChartsCountOnce == Spec => []AnswerCountsOnce
<1>1. Contents /\ Shape /\ Ids /\ StaleIsOwed => AnswerCountsOnce
  <2> SUFFICES ASSUME Contents, Shape, Ids, StaleIsOwed, NEW t0 \in Minute
               PROVE  /\ \A x, y \in Answer(t0) : x[2].flow = y[2].flow => x = y
                      /\ \A r \in Between(raw, t0, Horizon) :
                            \/ \E x \in Answer(t0) : x[2] = r
                            \/ \E t \in Tier : LET b == AlignDown(r.minute, Width(t)) IN
                                   Covered(t, b) /\ (Owed(t, b) \/ b \in astray[t])
    BY DEF AnswerCountsOnce
  <2> DEFINE hours   == Seal("hour", t0)
             minutes == Seal("minute", hours)
             Part(g, r) == \/ g = "hour" /\ r \in counted["hour"]
                              /\ t0 <= r.minute /\ r.minute < hours
                           \/ g = "minute" /\ r \in counted["minute"]
                              /\ hours <= r.minute /\ r.minute < minutes
                           \/ g = "raw" /\ r \in raw
                              /\ minutes <= r.minute /\ r.minute < Horizon
  <2>1. \A x \in Answer(t0) : x = <<x[1], x[2]>> /\ Part(x[1], x[2])
    BY DEF Answer, Between
  <2>2. \A g, r : Part(g, r) => <<g, r>> \in Answer(t0)
    BY DEF Answer, Between
  <2>3. /\ hours \in 0..Horizon /\ t0 <= hours
        /\ t0 < hours => Start("hour", t0) /\ floor["hour"] # None /\ floor["hour"] <= t0
                         /\ hours = watermark["hour"]
        /\ minutes \in 0..Horizon /\ hours <= minutes
        /\ hours < minutes => floor["minute"] # None /\ floor["minute"] <= hours
                              /\ minutes = watermark["minute"]
    BY Stretches
  <2> HIDE DEF hours, minutes
  <2>4. /\ "hour" \in Tier /\ "minute" \in Tier /\ t0 \in 0..Horizon /\ Horizon \in Nat
        /\ Minute \subseteq 0..Horizon
    BY HorizonAssumption DEF Tier, Minute
  <2>5. ASSUME NEW x \in Answer(t0), NEW y \in Answer(t0), x[2].flow = y[2].flow
        PROVE  x = y
    <3>1. Part(x[1], x[2]) /\ Part(y[1], y[2])
      BY <2>1
    <3>2. /\ x[2].minute = y[2].minute
          /\ x[1] = y[1] => x[2] = y[2]
      BY <2>4, <2>5, <3>1 DEF Ids
    <3>3. x[2].minute \in 0..Horizon
      <4>1. x[2] \in raw \/ x[2] \in counted["hour"] \/ x[2] \in counted["minute"]
        BY <3>1
      <4>2. x[2] \in Record
        BY <2>4, <4>1 DEF Contents
      <4>3. x[2].minute \in Minute
        BY <4>2 DEF Record
      <4> QED
        BY <2>4, <4>3
    <3>4. x[1] = y[1]
      BY <2>3, <3>1, <3>2, <3>3
    <3> QED
      BY <2>1, <3>2, <3>4
  <2>6. ASSUME NEW r \in Between(raw, t0, Horizon)
        PROVE  \/ \E x \in Answer(t0) : x[2] = r
               \/ \E t \in Tier : LET b == AlignDown(r.minute, Width(t)) IN
                      Covered(t, b) /\ (Owed(t, b) \/ b \in astray[t])
    <3>1. /\ r \in raw /\ r \in Record /\ r.minute \in 0..Horizon
          /\ t0 <= r.minute /\ r.minute < Horizon
      BY <2>4 DEF Between, Contents, Record
    <3>2. ASSUME NEW t \in Tier, Covered(t, AlignDown(r.minute, Width(t))), r \notin counted[t]
          PROVE  LET b == AlignDown(r.minute, Width(t)) IN
                      Covered(t, b) /\ (Owed(t, b) \/ b \in astray[t])
      <4> DEFINE b == AlignDown(r.minute, Width(t))
      <4>1. b \in 0..Horizon /\ b % Width(t) = 0 /\ b <= r.minute
        BY <3>1, StartOf DEF Start
      <4>2. b \in Bucket(t)
        BY <3>1, <4>1, HorizonAssumption DEF Bucket, Minute
      <4>3. ~Right(t, b)
        BY <3>1, <3>2 DEF Right, In
      <4> QED
        BY <3>2, <4>2, <4>3 DEF StaleIsOwed
    <3>3. CASE minutes <= r.minute
      <4>1. <<"raw", r>> \in Answer(t0)
        BY <2>2, <3>1, <3>3
      <4> QED
        BY <4>1
    <3>4. CASE hours <= r.minute /\ r.minute < minutes
      <4>1. AlignDown(r.minute, Width("minute")) = r.minute
        <5>1. Width("minute") = 1
          BY DEF Width
        <5>2. /\ AlignDown(r.minute, Width("minute")) <= r.minute
              /\ r.minute < AlignDown(r.minute, Width("minute")) + Width("minute")
              /\ AlignDown(r.minute, Width("minute")) \in 0..Horizon
          BY <2>4, <3>1, StartOf DEF Start
        <5> QED
          BY <3>1, <5>1, <5>2
      <4>2. Covered("minute", r.minute)
        BY <2>3, <2>4, <3>1, <3>4 DEF Covered, Shape
      <4>3. r \in counted["minute"] => <<"minute", r>> \in Answer(t0)
        BY <2>2, <3>4
      <4> QED
        BY <2>4, <3>2, <4>1, <4>2, <4>3
    <3>5. CASE r.minute < hours
      <4> DEFINE b == AlignDown(r.minute, Width("hour"))
      <4>1. Start("hour", b) /\ b \in 0..Horizon /\ b <= r.minute /\ r.minute < b + Width("hour")
        BY <2>4, <3>1, StartOf DEF Start
      <4>2. Start("hour", t0) /\ floor["hour"] # None /\ floor["hour"] <= t0
            /\ hours = watermark["hour"]
        <5>1. t0 < hours
          BY <2>3, <2>4, <3>1, <3>5
        <5> QED
          BY <2>3, <5>1
      <4>3. Width("hour") \in Nat \ {0}
        BY <2>4, WidthIsPositive
      <4> HIDE DEF b
      <4>4. b < t0 => b + Width("hour") <= t0
        BY <2>4, <4>1, <4>2, NextBucket
      <4>5. t0 <= b
        BY <2>4, <3>1, <4>1, <4>3, <4>4
      <4>6. Covered("hour", b)
        BY <2>3, <2>4, <3>1, <3>5, <4>1, <4>2, <4>5 DEF Covered, Shape
      <4>7. r \in counted["hour"] => <<"hour", r>> \in Answer(t0)
        BY <2>2, <3>1, <3>5
      <4> USE DEF b
      <4> QED
        BY <2>4, <3>2, <4>6, <4>7
    <3> QED
      BY <2>3, <3>1, <3>3, <3>4, <3>5
  <2> QED
    BY <2>5, <2>6
<1> QED
  BY <1>1, ContentsHold, ShapeHolds, IdsHold, WrongIsOwed, PTL

-----------------------------------------------------------------------------
(* What was counted stays counted.                                         *)

\* There are finitely many records to count.
Finite ==
    /\ IsFiniteSet(raw)
    /\ \A t \in Tier : IsFiniteSet(counted[t]) /\ IsFiniteSet(spans[t])

\* What the sampling rate of a flow is changed by.
Rate(r, m) == [r EXCEPT !.rated = @ \/ r.minute >= m]

\* A rebuild adds up a finite table.
LEMMA RebuiltFinite ==
  ASSUME NEW table, table \in [Tier -> SUBSET Record], tier \in Tier, NEW new, new = Rebuilt(table),
         IsFiniteSet(raw), \A t \in Tier : IsFiniteSet(table[t])
  PROVE  \A t \in Tier : IsFiniteSet(new[t])
<1>1. /\ \A u \in Tier \ {tier} : new[u] = table[u]
      /\ new[tier] = (table[tier] \ In(table[tier], tier, bucket))
                        \cup In(From(table), tier, bucket)
  BY RebuiltChanges
<1>2. IsFiniteSet(From(table)) /\ In(From(table), tier, bucket) \subseteq From(table)
  BY DEF From, Tier, In
<1>3. IsFiniteSet(In(From(table), tier, bucket))
  BY <1>2, FS_Subset
<1>4. IsFiniteSet(table[tier] \ In(table[tier], tier, bucket))
  BY FS_Subset
<1>5. IsFiniteSet((table[tier] \ In(table[tier], tier, bucket))
                     \cup In(From(table), tier, bucket))
  BY <1>3, <1>4, FS_Union
<1> QED
  BY <1>1, <1>5

\* Rows come one at a time.
LEMMA FiniteHolds == Spec => []Finite
<1>1. Init => Finite
  BY FS_EmptySet DEF Init, Finite
<1>2. Contents /\ Finite /\ [Next]_vars => Finite'
  <2> SUFFICES ASSUME Contents, Finite, [Next]_vars PROVE Finite'
    OBVIOUS
  <2> USE DEF flowVars, tierVars, threadVars, bucketVars, writerVars, threadOnly,
         rebuildOnly
  <2>1. ASSUME NEW m \in Minute, Insert(m) \/ CrashInInsert(m) PROVE Finite'
    <3>1. Store(m) /\ UNCHANGED <<counted, spans>>
      BY <2>1 DEF Insert, CrashInInsert, Dies
    <3>2. IsFiniteSet(raw')
      BY <3>1, FS_AddElement DEF Store, Finite
    <3> QED
      BY <3>1, <3>2 DEF Finite
  <2>2. ASSUME NEW m \in Minute, Announce(m) PROVE Finite'
    <3> DEFINE f == [r \in raw |-> Rate(r, m)]
    <3>1. raw' = {f[r] : r \in raw} /\ UNCHANGED <<counted, spans>>
      BY <2>2 DEF Announce, Rate
    <3>2. f \in [raw -> raw'] /\ \A y \in raw' : \E r \in raw : f[r] = y
      BY <3>1
    <3> HIDE DEF f
    <3>3. f \in Surjection(raw, raw')
      BY <3>2 DEF Surjection
    <3>4. IsFiniteSet(raw')
      BY <3>3, FS_Surjection DEF Finite
    <3> QED
      BY <3>1, <3>4 DEF Finite
  <2>3. CASE Rows
    <3>1. counted' = Rebuilt(counted) /\ UNCHANGED <<raw, spans>>
      BY <2>3 DEF Rows
    <3>2. \A t \in Tier : IsFiniteSet(counted'[t])
      BY <3>1, RebuiltFinite DEF Contents, Finite
    <3> QED
      BY <3>1, <3>2 DEF Finite
  <2>4. CASE Spans
    <3>1. spans' = Rebuilt(spans) /\ UNCHANGED <<raw, counted>>
      BY <2>4 DEF Spans
    <3>2. \A t \in Tier : IsFiniteSet(spans'[t])
      BY <3>1, RebuiltFinite DEF Contents, Finite
    <3> QED
      BY <3>1, <3>2 DEF Finite
  <2>5. CASE Prune
    <3>1. raw' \subseteq raw /\ UNCHANGED <<counted, spans>>
      BY <2>5 DEF Prune
    <3>2. IsFiniteSet(raw')
      BY <3>1, FS_Subset DEF Finite
    <3> QED
      BY <3>1, <3>2 DEF Finite
  <2>6. CASE Tick \/ WriterReads \/ WriterWrites \/ Crash \/ LowerFloor \/ Seed \/ SeedFloor
             \/ Open \/ Advance \/ Take \/ RedoEnds \/ RedoStops \/ MarkReads \/ MarkWrites
             \/ Check \/ LeaveBuilt \/ (\E t \in Tier : Backfill(t)) \/ UNCHANGED vars
    <3>1. UNCHANGED <<raw, counted, spans>>
      BY <2>6 DEF Tick, WriterReads, WriterWrites, Crash, Dies, LowerFloor, Seed, SeedFloor,
         Open, Advance, Take, RedoEnds, RedoStops, MarkReads, MarkWrites, Check, LeaveBuilt,
         Backfill, vars
    <3> QED
      BY <3>1 DEF Finite
  <2> QED
    BY <2>1, <2>2, <2>3, <2>4, <2>5, <2>6
    DEF Next, Writer, Compaction, Backfilling, Bucketwise
<1> QED
  BY <1>1, <1>2, ContentsHold, PTL DEF Spec

\* A part of a finite set has a number of elements.
LEMMA Counts ==
  ASSUME NEW S, IsFiniteSet(S), NEW t, NEW b
  PROVE  IsFiniteSet(In(S, t, b)) /\ Cardinality(In(S, t, b)) \in Nat
<1>1. In(S, t, b) \subseteq S
  BY DEF In
<1>2. IsFiniteSet(In(S, t, b))
  BY <1>1, FS_Subset
<1> QED
  BY <1>2, FS_CardinalityType

\* A sampling rate that is announced leaves as many flows in each bucket.
LEMMA RatesKeepCounts ==
  ASSUME Contents, Ids, Finite, NEW m \in Minute, Announce(m), NEW t, NEW b
  PROVE  Cardinality(In(raw', t, b)) >= Cardinality(In(raw, t, b))
<1> DEFINE f == [r \in In(raw, t, b) |-> Rate(r, m)]
           S == In(raw, t, b)
           T == In(raw', t, b)
<1>1. raw' = {Rate(r, m) : r \in raw}
  BY DEF Announce, Rate
<1>2. \A r \in raw : Rate(r, m).minute = r.minute /\ Rate(r, m).flow = r.flow
  BY DEF Contents, Record, Rate
<1>3. S \subseteq raw /\ \A r \in S : Rate(r, m) \in T
  BY <1>1, <1>2 DEF In
<1>4. f \in [S -> T]
  BY <1>3
<1>5. ASSUME NEW r \in S, NEW q \in S, f[r] = f[q] PROVE r = q
  <2>1. Rate(r, m).flow = r.flow /\ Rate(q, m).flow = q.flow /\ r \in raw /\ q \in raw
    BY <1>2, <1>3
  <2>2. r.flow = q.flow
    BY <1>5, <2>1
  <2> QED
    BY <2>1, <2>2 DEF Ids
<1>6. IsFiniteSet(raw')
  <2> DEFINE g == [r \in raw |-> Rate(r, m)]
  <2>1. g \in [raw -> raw'] /\ \A y \in raw' : \E r \in raw : g[r] = y
    BY <1>1
  <2> HIDE DEF g
  <2>2. g \in Surjection(raw, raw')
    BY <2>1 DEF Surjection
  <2> QED
    BY <2>2, FS_Surjection DEF Finite
<1>7. IsFiniteSet(T) /\ Cardinality(T) \in Nat /\ Cardinality(S) \in Nat
  BY <1>6, Counts DEF Finite
<1> HIDE DEF f, S, T
<1>8. f \in Injection(S, T)
  BY <1>4, <1>5 DEF Injection, IsInjective
<1>9. Cardinality(S) <= Cardinality(T)
  BY <1>7, <1>8, FS_Injection
<1> QED
  BY <1>7, <1>9 DEF S, T

\* Until a bucket is rebuilt, what was found at the check still holds, unless
\* prune has taken a row of it since.
Checked ==
    part = "rows" =>
        IF source = "minutes"
        THEN FromMinutes(tier, bucket)
        ELSE aged \/ Cardinality(In(raw, tier, bucket)) >= Cardinality(In(spans[tier], tier, bucket))

\* New flows only add to a bucket.
LEMMA CheckedHolds == Spec => []Checked
<1>1. Init => Checked
  BY DEF Init, Checked
<1>2. Contents /\ Shape /\ Marked /\ Ids /\ Finite /\ Checked /\ [Next]_vars => Checked'
  <2> SUFFICES ASSUME Contents, Shape, Marked, Ids, Finite, Checked, [Next]_vars, part' = "rows"
               PROVE  IF source' = "minutes"
                      THEN FromMinutes(tier, bucket)'
                      ELSE \/ aged'
                           \/ Cardinality(In(raw', tier', bucket'))
                                 >= Cardinality(In(spans'[tier'], tier', bucket'))
    BY DEF Checked
  <2> USE DEF flowVars, tierVars, threadVars, bucketVars, writerVars, threadOnly,
         rebuildOnly
  <2>1. /\ Cardinality(In(raw, tier, bucket)) \in Nat
        /\ Cardinality(In(spans[tier], tier, bucket)) \in Nat
    BY Counts DEF Finite, Contents
  <2>2. ASSUME UNCHANGED <<spans, watermark, floor, tier, bucket, part, source>>,
               \/ aged'
               \/ aged' = aged /\ Cardinality(In(raw', tier, bucket)) \in Nat
                   /\ Cardinality(In(raw', tier, bucket)) >= Cardinality(In(raw, tier, bucket))
        PROVE  IF source' = "minutes"
               THEN FromMinutes(tier, bucket)'
               ELSE \/ aged'
                    \/ Cardinality(In(raw', tier', bucket'))
                          >= Cardinality(In(spans'[tier'], tier', bucket'))
    <3>1. source' = "minutes" => FromMinutes(tier, bucket)'
      BY <2>2 DEF Checked, FromMinutes
    <3>2. source' # "minutes" /\ ~aged' => /\ ~aged /\ source # "minutes" /\ part = "rows"
                                           /\ Cardinality(In(raw', tier, bucket)) \in Nat
                                           /\ Cardinality(In(raw', tier, bucket))
                                                >= Cardinality(In(raw, tier, bucket))
      BY <2>2
    <3>3. ~aged /\ source # "minutes" /\ part = "rows"
             => Cardinality(In(raw, tier, bucket)) >= Cardinality(In(spans[tier], tier, bucket))
      BY DEF Checked
    <3>4. /\ tier' = tier /\ bucket' = bucket /\ spans' = spans
      BY <2>2
    <3>5. source' # "minutes" /\ ~aged'
             => Cardinality(In(raw', tier, bucket)) >= Cardinality(In(spans[tier], tier, bucket))
      <4>1. ASSUME NEW x \in Nat, NEW y \in Nat, NEW z \in Nat, x >= y, y >= z PROVE x >= z
        BY <4>1
      <4> QED
        BY <2>1, <3>2, <3>3, <4>1
    <3> QED
      BY <3>1, <3>4, <3>5
  <2>3. ASSUME NEW m \in Minute, Insert(m) PROVE Checked'
    <3>1. In(raw, tier, bucket) \subseteq In(raw', tier, bucket)
      BY <2>3 DEF Insert, Store, In
    <3>2. IsFiniteSet(raw')
      BY <2>3, FS_AddElement DEF Insert, Store, Finite
    <3>3. /\ IsFiniteSet(In(raw', tier, bucket)) /\ Cardinality(In(raw', tier, bucket)) \in Nat
      BY <3>2, Counts
    <3>4. Cardinality(In(raw, tier, bucket)) <= Cardinality(In(raw', tier, bucket))
      BY <3>1, <3>3, FS_Subset
    <3>5. Cardinality(In(raw', tier, bucket)) >= Cardinality(In(raw, tier, bucket))
      BY <2>1, <3>3, <3>4
    <3>6. UNCHANGED <<spans, watermark, floor, tier, bucket, part, source, aged>>
      BY <2>3 DEF Insert
    <3> QED
      BY <2>2, <3>3, <3>5, <3>6 DEF Checked
  <2>4. ASSUME NEW m \in Minute, Announce(m) PROVE Checked'
    <3>1. Cardinality(In(raw', tier, bucket)) >= Cardinality(In(raw, tier, bucket))
      BY <2>4, RatesKeepCounts
    <3>2. Cardinality(In(raw', tier, bucket)) \in Nat
      <4> DEFINE g == [r \in raw |-> Rate(r, m)]
      <4>1. raw' = {Rate(r, m) : r \in raw}
        BY <2>4 DEF Announce, Rate
      <4>2. g \in [raw -> raw'] /\ \A y \in raw' : \E r \in raw : g[r] = y
        BY <4>1
      <4> HIDE DEF g
      <4>3. g \in Surjection(raw, raw')
        BY <4>2 DEF Surjection
      <4>4. IsFiniteSet(raw')
        BY <4>3, FS_Surjection DEF Finite
      <4> QED
        BY <4>4, Counts
    <3>3. UNCHANGED <<spans, watermark, floor, tier, bucket, part, source, aged>>
      BY <2>4 DEF Announce
    <3> QED
      BY <2>2, <3>1, <3>2, <3>3 DEF Checked
  <2>5. CASE Prune
    <3>1. UNCHANGED <<spans, watermark, floor, tier, bucket, part, source>>
      BY <2>5 DEF Prune
    <3>2. PICK r \in raw : /\ raw' = raw \ {r}
                           /\ aged' = \/ aged
                                      \/ part = "rows" /\ source = "raw" /\ r \in In(raw, tier, bucket)
      BY <2>5 DEF Prune
    <3>3. CASE aged'
      BY <2>2, <3>1, <3>3 DEF Checked
    <3>4. CASE ~aged' /\ source = "minutes"
      BY <3>1, <3>4 DEF Checked, FromMinutes
    <3>5. CASE ~aged' /\ source # "minutes"
      <4>1. part = "rows" /\ source = "raw"
        BY <3>1, <3>5 DEF Shape
      <4>2. r \notin In(raw, tier, bucket) /\ ~aged
        BY <3>2, <3>5, <4>1
      <4>3. In(raw', tier, bucket) = In(raw, tier, bucket)
        BY <3>2, <4>2 DEF In
      <4>4. Cardinality(In(raw, tier, bucket)) >= Cardinality(In(spans[tier], tier, bucket))
        BY <4>1, <4>2 DEF Checked
      <4>5. Cardinality(In(raw', tier, bucket)) >= Cardinality(In(spans[tier], tier, bucket))
        BY <4>3, <4>4
      <4> QED
        BY <3>1, <3>5, <4>5 DEF Checked
    <3> QED
      BY <3>3, <3>4, <3>5
  <2>6. CASE Check
    <3>1. /\ UNCHANGED <<raw, spans, watermark, floor, tier, bucket>>
          /\ ~RawShort(tier, bucket)
          /\ source' = IF FromMinutes(tier, bucket) THEN "minutes" ELSE "raw"
      BY <2>6 DEF Check
    <3>2. CASE FromMinutes(tier, bucket)
      BY <3>1, <3>2 DEF FromMinutes
    <3>3. CASE ~FromMinutes(tier, bucket)
      <4>1. ~(Cardinality(In(raw, tier, bucket)) < Cardinality(In(spans[tier], tier, bucket)))
        BY <3>1, <3>3 DEF RawShort
      <4>2. Cardinality(In(raw, tier, bucket)) >= Cardinality(In(spans[tier], tier, bucket))
        BY <2>1, <4>1
      <4>3. source' = "raw"
        BY <3>1, <3>3
      <4> QED
        BY <3>1, <4>2, <4>3
    <3> QED
      BY <3>2, <3>3
  <2>7. CASE Tick \/ WriterReads \/ WriterWrites \/ UNCHANGED vars
    <3>1. UNCHANGED <<raw, spans, watermark, floor, tier, bucket, part, source, aged>>
      BY <2>7 DEF Tick, WriterReads, WriterWrites, vars
    <3> QED
      BY <2>1, <2>2, <3>1
  <2>8. ASSUME NEW m \in Minute, CrashInInsert(m) PROVE FALSE
    BY <2>8 DEF CrashInInsert, Dies
  <2>9. ~(Crash \/ LeaveBuilt \/ Rows \/ Spans)
    BY DEF Crash, Dies, LeaveBuilt, Rows, Spans
  <2>10. ~(\/ Seed \/ SeedFloor \/ Open \/ Advance \/ Take \/ RedoEnds \/ RedoStops \/ MarkReads
           \/ MarkWrites \/ LowerFloor \/ \E t \in Tier : Backfill(t))
    BY DEF Seed, SeedFloor, Open, Advance, Take, RedoEnds, RedoStops, MarkReads, MarkWrites,
       LowerFloor, Backfill, AtRest, Shape, Due
  <2> QED
    BY <2>3, <2>4, <2>5, <2>6, <2>7, <2>8, <2>9, <2>10
    DEF Next, Writer, Compaction, Backfilling, Bucketwise, Checked
<1> QED
  BY <1>1, <1>2, ContentsHold, ShapeHolds, MarkedHolds, IdsHold, FiniteHolds, PTL DEF Spec

\* No step makes a bucket of a tier count fewer flows than it did, except the
\* rebuild of an hour from its minutes, that of a bucket raw left since the
\* check, and that of one whose span was behind its rows (_compact_bucket,
\* _raw_short).
THEOREM CountedStaysCounted == Spec => NothingUncounted
<1> DEFINE Keeps == \A t \in Tier : \A b \in Bucket(t) :
         \/ ~(Covered(t, b) /\ Covered(t, b)')
         \/ FromMinutes(t, b)
         \/ aged /\ t = tier /\ b = bucket
         \/ Loose(t, b)
         \/ Cardinality(In(counted'[t], t, b)) >= Cardinality(In(counted[t], t, b))
<1>1. Contents /\ Shape /\ Finite /\ Checked /\ [Next]_vars => Keeps \/ UNCHANGED vars
  <2> SUFFICES ASSUME Contents, Shape, Finite, Checked, [Next]_vars,
                      NEW t \in Tier, NEW b \in Bucket(t), ~FromMinutes(t, b),
                      ~(aged /\ t = tier /\ b = bucket), ~Loose(t, b)
               PROVE  Cardinality(In(counted'[t], t, b)) >= Cardinality(In(counted[t], t, b))
    OBVIOUS
  <2> USE DEF flowVars, tierVars, threadVars, bucketVars, writerVars, threadOnly,
         rebuildOnly
  <2>1. /\ Cardinality(In(counted[t], t, b)) \in Nat
        /\ Cardinality(In(spans[t], t, b)) \in Nat
        /\ Cardinality(In(raw, t, b)) \in Nat
    BY Counts DEF Finite
  <2>2. ASSUME counted'[t] = counted[t]
        PROVE  Cardinality(In(counted'[t], t, b)) >= Cardinality(In(counted[t], t, b))
    BY <2>1, <2>2
  <2>3. CASE Rows
    <3>1. /\ \A v \in Tier \ {tier} : counted'[v] = counted[v]
          /\ counted'[tier] = (counted[tier] \ In(counted[tier], tier, bucket))
                                 \cup In(From(counted), tier, bucket)
          /\ part = "rows"
      BY <2>3, RebuiltChanges DEF Rows, Contents
    <3>2. CASE t # tier
      BY <2>2, <3>1, <3>2
    <3>3. CASE t = tier /\ bucket # b
      <4>1. In(counted'[t], t, b) = In(counted[t], t, b)
        BY <3>1, <3>3 DEF In
      <4> QED
        BY <2>1, <4>1
    <3>4. CASE t = tier /\ bucket = b
      <4>1. source # "minutes" /\ ~aged
        BY <3>1, <3>4 DEF Checked
      <4>2. Cardinality(In(raw, t, b)) >= Cardinality(In(spans[t], t, b))
        BY <3>1, <3>4, <4>1 DEF Checked
      <4>3. ~(Cardinality(In(spans[t], t, b)) < Cardinality(In(counted[t], t, b)))
        BY DEF Loose
      <4>4. In(counted'[t], t, b) = In(raw, t, b)
        BY <3>1, <3>4, <4>1 DEF In, From
      <4> QED
        BY <2>1, <4>2, <4>3, <4>4
    <3> QED
      BY <3>2, <3>3, <3>4
  <2>4. ASSUME NEW m \in Minute, Insert(m) \/ Announce(m) \/ CrashInInsert(m)
        PROVE  Cardinality(In(counted'[t], t, b)) >= Cardinality(In(counted[t], t, b))
    <3>1. UNCHANGED counted
      BY <2>4 DEF Insert, Announce, CrashInInsert, Dies
    <3> QED
      BY <2>2, <3>1
  <2>5. CASE Tick \/ WriterReads \/ WriterWrites \/ Crash \/ LowerFloor \/ Seed \/ SeedFloor
             \/ Open \/ Advance \/ Take \/ RedoEnds \/ RedoStops \/ MarkReads \/ MarkWrites
             \/ Prune \/ Check \/ LeaveBuilt \/ Spans \/ (\E u \in Tier : Backfill(u))
             \/ UNCHANGED vars
    <3>1. UNCHANGED counted
      BY <2>5 DEF Tick, WriterReads, WriterWrites, Crash, Dies, LowerFloor, Seed, SeedFloor,
         Open, Advance, Take, RedoEnds, RedoStops, MarkReads, MarkWrites, Prune, Check,
         LeaveBuilt, Spans, Backfill, vars
    <3> QED
      BY <2>2, <3>1
  <2> QED
    BY <2>3, <2>4, <2>5
    DEF Next, Writer, Compaction, Backfilling, Bucketwise
<1> QED
  BY <1>1, ContentsHold, ShapeHolds, FiniteHolds, CheckedHolds, PTL DEF Spec, NothingUncounted

=============================================================================
